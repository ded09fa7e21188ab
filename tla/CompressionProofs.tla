-------------------------- MODULE CompressionProofs --------------------------
(***************************************************************************)
(* deflate and inflate for every file: no code is longer than 62 bits, the *)
(* delimiter is found where it was written, and the file comes back with   *)
(* what the padding adds.                                                  *)
(***************************************************************************)
EXTENDS HuffmanProofs

---------------------------------------------------------------------------
(* The weights.  When it takes a node, the first loop takes the lightest,  *)
(* so that what it builds becomes heavier and heavier; a node's weight is  *)
(* at least twice that of each grandchild.                                 *)

\* W has the weights built, M is the last node taken or less, G and H are the
\* sums of the frequencies and of the weights.
Weights(W, M, G, H) ==
    /\ Sums(G, freq, n) /\ G[n] = Len(text) /\ Sums(H, W, next)
    /\ \A j \in root .. next - 1 : W[j] = A[j]
    /\ \A j, k \in 0 .. next - 1 : j <= k => W[j] <= W[k]
    /\ \A j \in 0 .. next - 1 : W[j] >= 1
    /\ \A j \in leaf .. n - 1 : freq[j] >= M
    /\ \A j \in root .. next - 1 : W[j] >= M
    /\ \A j \in 0 .. root - 1 : W[j] <= M
    /\ next > 0 => W[next - 1] <= 2 * M
    /\ pass = 1 => sum = M
    /\ G[leaf] + H[root] = H[next] + (IF pass = 1 THEN M ELSE 0)
    /\ \A j \in 0 .. root - 1 : A[j] < root /\ A[A[j]] < next => 2 * W[j] <= W[A[A[j]]]

Lightest ==
    hpc = "tree" =>
        \E W \in [0 .. n - 1 -> Nat], M \in Nat, G \in [0 .. n -> Nat], H \in [0 .. n -> Nat] :
            Weights(W, M, G, H)

LEMMA Between ==
    ASSUME NEW a \in Nat, NEW b \in Nat, NEW c \in a + 1 .. b
    PROVE  c \in Nat /\ c <= b /\ (c # b => c \in 0 .. b - 1 /\ c < b)
  OBVIOUS

\* Either node taken is the lightest there is.
LEMMA TakeLightest ==
    ASSUME IInv, Passed, Lightest, TakeRoot \/ TakeLeaf, text' = text
    PROVE  Lightest'
<1>1. /\ hpc = "tree" /\ next < n - 1 /\ n' = n /\ freq' = freq
  BY DEF TakeRoot, TakeLeaf, n
<1>2. /\ n \in Nat /\ DOMAIN A = 0 .. n - 1
      /\ leaf \in Nat /\ root \in Nat /\ next \in Nat /\ pass \in {0, 1}
      /\ root <= next /\ next <= leaf /\ leaf <= n
      /\ leaf + root = 2 * next + pass
  BY <1>1 DEF IInv, ArrayOK, InPlace
<1>3. /\ \A j \in leaf .. n - 1 : A[j] = freq[j]
      /\ \A j \in 0 .. root - 1 : A[j] \in j + 1 .. next
  BY <1>1 DEF IInv, InPlace
<1>4. /\ freq \in [0 .. n - 1 -> Nat \ {0}]
      /\ \A j, k \in 0 .. n - 1 : j <= k => freq[j] <= freq[k]
  BY FrequenciesAddUp DEF Passed
<1>5. PICK W \in [0 .. n - 1 -> Nat], M \in Nat, G \in [0 .. n -> Nat], H \in [0 .. n -> Nat] :
         Weights(W, M, G, H)
  BY <1>1 DEF Lightest
<1>6. /\ \A j \in root .. next - 1 : W[j] = A[j]
      /\ \A j, k \in 0 .. next - 1 : j <= k => W[j] <= W[k]
      /\ \A j \in 0 .. next - 1 : W[j] >= 1
      /\ \A j \in leaf .. n - 1 : freq[j] >= M
      /\ \A j \in root .. next - 1 : W[j] >= M
      /\ \A j \in 0 .. root - 1 : W[j] <= M
      /\ next > 0 => W[next - 1] <= 2 * M
      /\ pass = 1 => sum = M
  BY <1>5 DEF Weights
<1>7. /\ \A j \in 0 .. root - 1 : A[j] < root /\ A[A[j]] < next => 2 * W[j] <= W[A[A[j]]]
      /\ Sums(G, freq, n) /\ G[n] = Len(text) /\ Sums(H, W, next)
      /\ G[leaf] + H[root] = H[next] + (IF pass = 1 THEN M ELSE 0)
  BY <1>5 DEF Weights
<1>8. /\ \A j \in 0 .. n - 1 : W[j] \in Nat /\ freq[j] \in Nat
      /\ \A j \in 0 .. n : G[j] \in Nat /\ H[j] \in Nat
  BY <1>4, <1>5
\* The node taken.
<1> DEFINE T(x) ==
         /\ x >= M /\ x >= 1
         /\ leaf' \in Nat /\ root' \in Nat /\ root' <= next
         /\ \A j \in leaf' .. n - 1 : freq[j] >= x
         /\ \A j \in root' .. next - 1 : W[j] >= x
         /\ \A j \in 0 .. root' - 1 : W[j] <= x
         /\ \A j \in root' .. next - 1 : A'[j] = W[j]
         /\ \A j \in 0 .. root - 1 : A'[j] = A[j]
         /\ root' = root \/ (root' = root + 1 /\ A'[root] = next)
         /\ G[leaf'] + H[root'] = G[leaf] + H[root] + x
         /\ \/ pass = 0 /\ pass' = 1 /\ sum' = x /\ next' = next
            \/ pass = 1 /\ pass' = 0 /\ next' = next + 1 /\ A'[next] = sum + x
<1>9. \E x \in Nat : T(x)
  <2>1. CASE TakeRoot
    <3> DEFINE x == W[root]
    <3>1. root < next /\ TakesRoot /\ root' = root + 1 /\ leaf' = leaf
      BY <1>1, <2>1, Taken DEF TakeRoot
    <3>2. x \in Nat /\ x >= M /\ x >= 1 /\ A[root] = x
      <4>1. root \in root .. next - 1 /\ root \in 0 .. next - 1 /\ root \in 0 .. n - 1
        BY <1>1, <1>2, <3>1
      <4> QED BY <4>1, <1>6, <1>8
    <3>3. \A j \in leaf .. n - 1 : freq[j] >= x
      <4> TAKE j \in leaf .. n - 1
      <4>1. leaf < n /\ leaf \in leaf .. n - 1 /\ leaf \in 0 .. n - 1 /\ j \in 0 .. n - 1 /\ leaf <= j
        BY <1>2
      <4>2. A[root] < A[leaf]
        BY <4>1, <3>1, <1>2 DEF TakesRoot
      <4>3. freq[leaf] <= freq[j] /\ A[leaf] = freq[leaf] /\ freq[leaf] \in Nat /\ freq[j] \in Nat
        BY <4>1, <1>3, <1>4
      <4> HIDE DEF x
      <4> QED BY <4>2, <4>3, <3>2
    <3>4. \A j \in root + 1 .. next - 1 : W[j] >= x
      <4> TAKE j \in root + 1 .. next - 1
      <4>1. root \in 0 .. next - 1 /\ j \in 0 .. next - 1 /\ root <= j /\ j \in 0 .. n - 1
        BY <1>1, <1>2, <3>1
      <4>2. W[j] \in Nat /\ x <= W[j]
        BY <4>1, <1>6, <1>8
      <4> HIDE DEF x
      <4> QED BY <4>2, <3>2
    <3>5. \A j \in 0 .. root : W[j] <= x
      <4> TAKE j \in 0 .. root
      <4>1. root \in 0 .. next - 1 /\ j \in 0 .. next - 1 /\ j <= root
        BY <1>1, <1>2, <3>1
      <4> QED BY <4>1, <1>6
    <3>6. G[leaf] + H[root + 1] = G[leaf] + H[root] + x
      <4>1. root \in 0 .. next - 1 /\ root \in 0 .. n /\ root + 1 \in 0 .. n /\ leaf \in 0 .. n
        BY <1>1, <1>2, <3>1
      <4>2. H[root + 1] = H[root] + x
        BY <4>1, <1>7 DEF Sums
      <4>3. G[leaf] \in Nat /\ H[root] \in Nat
        BY <4>1, <1>8
      <4> HIDE DEF x
      <4> QED BY <4>2, <4>3, <3>2
    <3>7. CASE pass = 0
      <4>1. A' = [A EXCEPT ![root] = next] /\ next' = next /\ pass' = 1 /\ sum' = A[root]
        BY <2>1, <3>7 DEF TakeRoot, Combine
      <4>2. A'[root] = next
        BY <4>1, <1>1, <1>2, <3>1
      <4>3. \A j \in 0 .. n - 1 : j # root => A'[j] = A[j]
        BY <4>1, <1>2
      <4>4. /\ \A j \in root + 1 .. next - 1 : A'[j] = W[j]
            /\ \A j \in 0 .. root - 1 : A'[j] = A[j]
        <5>1. ASSUME NEW j \in root + 1 .. next - 1 PROVE A'[j] = W[j]
          <6>1. j \in root .. next - 1 /\ j \in 0 .. n - 1 /\ j # root
            BY <1>1, <1>2
          <6> QED BY <6>1, <4>3, <1>6
        <5>2. ASSUME NEW j \in 0 .. root - 1 PROVE A'[j] = A[j]
          <6>1. j \in 0 .. n - 1 /\ j # root
            BY <1>1, <1>2, <3>1
          <6> QED BY <6>1, <4>3
        <5> QED BY <5>1, <5>2
      <4>5. root + 1 - 1 = root /\ root + 1 \in Nat /\ root + 1 <= next
        BY <1>2, <3>1
      <4> HIDE DEF x
      <4>6. T(x)
        BY <1>2, <3>1, <3>2, <3>3, <3>4, <3>5, <3>6, <3>7, <4>1, <4>2, <4>4, <4>5
      <4> HIDE DEF T
      <4> QED BY <3>2, <4>6
    <3>8. CASE pass = 1
      <4>1. /\ A' = [A EXCEPT ![root] = next, ![next] = sum + A[root]] /\ next' = next + 1
            /\ pass' = 0
        BY <2>1, <3>8 DEF TakeRoot, Combine
      <4>2. A'[root] = next /\ A'[next] = sum + x
        BY <4>1, <1>1, <1>2, <3>1, <3>2
      <4>3. \A j \in 0 .. n - 1 : j # root /\ j # next => A'[j] = A[j]
        BY <4>1, <1>2
      <4>4. /\ \A j \in root + 1 .. next - 1 : A'[j] = W[j]
            /\ \A j \in 0 .. root - 1 : A'[j] = A[j]
        <5>1. ASSUME NEW j \in root + 1 .. next - 1 PROVE A'[j] = W[j]
          <6>1. j \in root .. next - 1 /\ j \in 0 .. n - 1 /\ j # root /\ j # next
            BY <1>1, <1>2
          <6> QED BY <6>1, <4>3, <1>6
        <5>2. ASSUME NEW j \in 0 .. root - 1 PROVE A'[j] = A[j]
          <6>1. j \in 0 .. n - 1 /\ j # root /\ j # next
            BY <1>1, <1>2, <3>1
          <6> QED BY <6>1, <4>3
        <5> QED BY <5>1, <5>2
      <4>5. root + 1 - 1 = root /\ root + 1 \in Nat /\ root + 1 <= next
        BY <1>2, <3>1
      <4> HIDE DEF x
      <4>6. T(x)
        <5>1. pass = 1 /\ pass' = 0 /\ next' = next + 1 /\ A'[next] = sum + x /\ A'[root] = next
          BY <3>8, <4>1, <4>2
        <5>2. root' = root + 1 /\ leaf' = leaf /\ leaf' \in Nat /\ root' \in Nat /\ root' <= next
          BY <1>2, <3>1, <4>5
        <5>3. \A j \in 0 .. root' - 1 : W[j] <= x
          <6>1. root' - 1 = root
            BY <5>2, <1>2
          <6> QED BY <6>1, <3>5
        <5> QED BY <3>2, <3>3, <3>4, <3>6, <4>4, <5>1, <5>2, <5>3
      <4> HIDE DEF T
      <4> QED BY <3>2, <4>6
    <3> HIDE DEF T
    <3> QED BY <3>7, <3>8, <1>2
  <2>2. CASE TakeLeaf
    <3> DEFINE x == freq[leaf]
               C == IF leaf > next THEN [A EXCEPT ![leaf] = 0] ELSE A
    <3>1. leaf < n /\ ~ TakesRoot /\ root' = root /\ leaf' = leaf + 1
      BY <1>1, <2>2, Taken DEF TakeLeaf
    <3>2. x \in Nat /\ x >= M /\ x >= 1 /\ A[leaf] = x
      <4>1. leaf \in leaf .. n - 1 /\ leaf \in 0 .. n - 1
        BY <1>2, <3>1
      <4> QED BY <4>1, <1>3, <1>4, <1>6
    <3>3. \A j \in leaf + 1 .. n - 1 : freq[j] >= x
      <4> TAKE j \in leaf + 1 .. n - 1
      <4>1. leaf \in 0 .. n - 1 /\ j \in 0 .. n - 1 /\ leaf <= j
        BY <1>2, <3>1
      <4>2. x <= freq[j] /\ freq[j] \in Nat
        BY <4>1, <1>4, <1>8
      <4> HIDE DEF x
      <4> QED BY <4>2, <3>2
    <3>4. \A j \in root .. next - 1 : W[j] >= x
      <4> TAKE j \in root .. next - 1
      <4>1. root < next /\ root \in root .. next - 1 /\ root \in 0 .. next - 1 /\ j \in 0 .. next - 1
            /\ root <= j /\ j \in 0 .. n - 1 /\ root \in 0 .. n - 1
        BY <1>1, <1>2
      <4>2. ~ (A[root] < A[leaf])
        BY <4>1, <3>1, <1>2 DEF TakesRoot
      <4>3. W[root] <= W[j] /\ A[root] = W[root] /\ W[root] \in Nat /\ W[j] \in Nat
        BY <4>1, <1>6, <1>8
      <4> HIDE DEF x
      <4> QED BY <4>2, <4>3, <3>2
    <3>5. \A j \in 0 .. root - 1 : W[j] <= x
      <4> TAKE j \in 0 .. root - 1
      <4>1. j \in 0 .. n - 1
        BY <1>1, <1>2
      <4>2. W[j] <= M /\ W[j] \in Nat
        BY <4>1, <1>6, <1>8
      <4> HIDE DEF x
      <4> QED BY <4>2, <3>2
    <3>6. G[leaf + 1] + H[root] = G[leaf] + H[root] + x
      <4>1. leaf \in 0 .. n - 1 /\ leaf \in 0 .. n /\ root \in 0 .. n
        BY <1>1, <1>2, <3>1
      <4>2. G[leaf + 1] = G[leaf] + x
        BY <4>1, <1>7 DEF Sums
      <4>3. G[leaf] \in Nat /\ H[root] \in Nat
        BY <4>1, <1>8
      <4> HIDE DEF x
      <4> QED BY <4>2, <4>3, <3>2
    <3>9. DOMAIN C = 0 .. n - 1 /\ \A j \in 0 .. n - 1 : j # leaf => C[j] = A[j]
      BY <1>2
    <3> HIDE DEF C
    <3>7. CASE pass = 0
      <4>1. A' = C /\ next' = next /\ pass' = 1 /\ sum' = A[leaf]
        BY <2>2, <3>7 DEF TakeLeaf, Combine, C
      <4>4. /\ \A j \in root .. next - 1 : A'[j] = W[j]
            /\ \A j \in 0 .. root - 1 : A'[j] = A[j]
        <5>1. ASSUME NEW j \in root .. next - 1 PROVE A'[j] = W[j]
          <6>1. j \in 0 .. n - 1 /\ j # leaf
            BY <1>1, <1>2
          <6> QED BY <6>1, <3>9, <4>1, <1>6
        <5>2. ASSUME NEW j \in 0 .. root - 1 PROVE A'[j] = A[j]
          <6>1. j \in 0 .. n - 1 /\ j # leaf
            BY <1>1, <1>2
          <6> QED BY <6>1, <3>9, <4>1
        <5> QED BY <5>1, <5>2
      <4> HIDE DEF x
      <4>6. T(x)
        BY <1>2, <3>1, <3>2, <3>3, <3>4, <3>5, <3>6, <3>7, <4>1, <4>4
      <4> HIDE DEF T
      <4> QED BY <3>2, <4>6
    <3>8. CASE pass = 1
      <4>1. A' = [C EXCEPT ![next] = sum + A[leaf]] /\ next' = next + 1 /\ pass' = 0
        BY <2>2, <3>8 DEF TakeLeaf, Combine, C
      <4>2. A'[next] = sum + x
        BY <4>1, <1>1, <1>2, <3>2, <3>9
      <4>3. \A j \in 0 .. n - 1 : j # leaf /\ j # next => A'[j] = A[j]
        BY <4>1, <3>9
      <4>4. /\ \A j \in root .. next - 1 : A'[j] = W[j]
            /\ \A j \in 0 .. root - 1 : A'[j] = A[j]
        <5>1. ASSUME NEW j \in root .. next - 1 PROVE A'[j] = W[j]
          <6>1. j \in 0 .. n - 1 /\ j # leaf /\ j # next
            BY <1>1, <1>2
          <6> QED BY <6>1, <4>3, <1>6
        <5>2. ASSUME NEW j \in 0 .. root - 1 PROVE A'[j] = A[j]
          <6>1. j \in 0 .. n - 1 /\ j # leaf /\ j # next
            BY <1>1, <1>2
          <6> QED BY <6>1, <4>3
        <5> QED BY <5>1, <5>2
      <4> HIDE DEF x
      <4>6. T(x)
        BY <1>2, <3>1, <3>2, <3>3, <3>4, <3>5, <3>6, <3>8, <4>1, <4>2, <4>4
      <4> HIDE DEF T
      <4> QED BY <3>2, <4>6
    <3> HIDE DEF T
    <3> QED BY <3>7, <3>8, <1>2
  <2> HIDE DEF T
  <2> QED BY <2>1, <2>2
<1>10. PICK x \in Nat : T(x)
  BY <1>9
<1>r. PICK r \in Nat, l \in Nat : r = root' /\ l = leaf'
  BY <1>10
<1>11. /\ x >= M /\ x >= 1
       /\ r <= next
       /\ \A j \in l .. n - 1 : freq[j] >= x
       /\ \A j \in r .. next - 1 : W[j] >= x
       /\ \A j \in 0 .. r - 1 : W[j] <= x
       /\ \A j \in r .. next - 1 : A'[j] = W[j]
  BY <1>10, <1>r
<1>12. /\ \A j \in 0 .. root - 1 : A'[j] = A[j]
       /\ r = root \/ (r = root + 1 /\ A'[root] = next)
       /\ G[l] + H[r] = G[leaf] + H[root] + x
       /\ \/ pass = 0 /\ pass' = 1 /\ sum' = x /\ next' = next
          \/ pass = 1 /\ pass' = 0 /\ next' = next + 1 /\ A'[next] = sum + x
  BY <1>10, <1>r
<1> HIDE DEF T
\* A parent that is taken after the step was built before it.
<1>13. ASSUME NEW j \in 0 .. r - 1, A'[j] < r
       PROVE  j \in 0 .. root - 1 /\ A'[j] = A[j] /\ A[j] \in j + 1 .. root
  <2>1. CASE j \in 0 .. root - 1
    <3>1. A'[j] = A[j] /\ A[j] \in j + 1 .. next
      BY <2>1, <1>3, <1>12
    <3>2. A[j] < r
      BY <3>1, <1>13
    <3>3. r <= root + 1 /\ r \in Nat
      BY <1>2, <1>11, <1>12
    <3>4. A[j] \in Nat /\ A[j] < root + 1
      <4>1. j \in Nat /\ next \in Nat
        BY <2>1, <1>2
      <4>2. A[j] \in Nat /\ root \in Nat
        BY <4>1, <3>1, <1>2, Between
      <4>3. \A a, b, c \in Nat : a < b /\ b <= c + 1 => a < c + 1
        OBVIOUS
      <4> QED BY <4>2, <4>3, <3>2, <3>3
    <3>5. \A a \in Nat : \A b, d \in Int : d \in b + 1 .. next /\ d < a + 1 => d \in b + 1 .. a
      OBVIOUS
    <3>6. j \in Int /\ A[j] \in Int /\ root \in Nat
      BY <3>4, <1>2
    <3> QED BY <2>1, <3>1, <3>4, <3>5, <3>6
  <2>2. CASE j \notin 0 .. root - 1
    <3>1. r = root + 1 /\ A'[root] = next /\ j = root
      <4>1. r # root
        BY <2>2
      <4> QED BY <4>1, <2>2, <1>2, <1>12
    <3> QED BY <3>1, <1>2, <1>11, <1>13
  <2> QED BY <2>1, <2>2
<1>14. CASE pass = 0
  <2>1. pass' = 1 /\ sum' = x /\ next' = next
    BY <1>12, <1>14
  <2>2. next > 0 => W[next - 1] <= 2 * x
    <3>1. next > 0 => next - 1 \in 0 .. n - 1
      BY <1>1, <1>2
    <3> QED BY <3>1, <1>6, <1>8, <1>11
  <2>3. G[l] + H[r] = H[next] + x
    <3>1. next \in 0 .. n
      BY <1>1, <1>2
    <3>2. G[leaf] + H[root] = H[next] + 0 /\ H[next] \in Nat
      BY <3>1, <1>7, <1>8, <1>14
    <3> QED BY <3>2, <1>12
  <2>4. ASSUME NEW j \in 0 .. r - 1, A'[j] < r, A'[A'[j]] < next
        PROVE  2 * W[j] <= W[A'[A'[j]]]
    <3>1. j \in 0 .. root - 1 /\ A'[j] = A[j] /\ A[j] \in j + 1 .. root
      BY <1>13, <2>4
    <3>2. A[j] # root
      <4>1. SUFFICES ASSUME A[j] = root PROVE FALSE
        OBVIOUS
      <4>2. root < r
        BY <4>1, <2>4, <3>1
      <4>3. r = root + 1 /\ A'[root] = next
        BY <4>2, <1>2, <1>12
      <4>4. next < next
        BY <4>1, <4>3, <2>4, <3>1
      <4> QED BY <4>4, <1>2
    <3>3. A[j] \in 0 .. root - 1 /\ A[j] < root
      <4>1. j \in Nat
        BY <3>1, <1>2
      <4> QED BY <4>1, <3>1, <3>2, <1>2, Between
    <3>4. A'[A'[j]] = A[A[j]]
      BY <3>1, <3>3, <1>12
    <3> QED BY <3>1, <3>3, <3>4, <2>4, <1>7
  <2>5. Weights(W, x, G, H)'
    <3>1. /\ Sums(G, freq', n') /\ G[n'] = Len(text') /\ Sums(H, W, next')
      BY <2>1, <1>1, <1>7
    <3>2. pass' = 1 => sum' = x
      BY <2>1
    <3>3. G[leaf'] + H[root'] = H[next'] + (IF pass' = 1 THEN x ELSE 0)
      BY <2>1, <2>3, <1>r
    <3> QED BY <3>1, <3>2, <3>3, <2>1, <2>2, <2>4, <1>1, <1>6, <1>11, <1>r DEF Weights
  <2> QED BY <1>1, <2>5 DEF Lightest
<1>15. CASE pass = 1
  <2>1. pass' = 0 /\ next' = next + 1 /\ A'[next] = M + x
    BY <1>6, <1>12, <1>15
  <2>2. PICK V \in [0 .. n - 1 -> Nat] : V[next] = M + x /\ \A j \in 0 .. next - 1 : V[j] = W[j]
    <3> DEFINE V == [W EXCEPT ![next] = M + x]
    <3>1. next \in 0 .. n - 1 /\ M + x \in Nat
      BY <1>1, <1>2
    <3>2. \A j \in 0 .. next - 1 : j \in 0 .. n - 1 /\ j # next
      BY <1>1, <1>2
    <3>3. V \in [0 .. n - 1 -> Nat] /\ V[next] = M + x /\ \A j \in 0 .. next - 1 : V[j] = W[j]
      BY <3>1, <3>2
    <3> QED BY <3>3
  <2>3. PICK K \in [0 .. n -> Nat] :
           K[next + 1] = H[next] + V[next] /\ \A j \in 0 .. next : K[j] = H[j]
    <3> DEFINE K == [H EXCEPT ![next + 1] = H[next] + (M + x)]
    <3>1. next \in 0 .. n /\ next + 1 \in 0 .. n
      BY <1>1, <1>2
    <3>2. H[next] + (M + x) \in Nat
      BY <3>1, <1>8
    <3>3. \A j \in 0 .. next : j \in 0 .. n /\ j # next + 1
      BY <1>1, <1>2
    <3>4. K \in [0 .. n -> Nat] /\ K[next + 1] = H[next] + V[next] /\ \A j \in 0 .. next : K[j] = H[j]
      BY <2>2, <3>1, <3>2, <3>3
    <3> QED BY <3>4
  <2>4. Sums(K, V, next + 1)
    <3>1. ASSUME NEW j \in 0 .. next PROVE K[j + 1] = K[j] + V[j]
      <4>1. CASE j = next
        BY <4>1, <2>3, <1>2
      <4>2. CASE j # next
        <5>1. j \in 0 .. next - 1 /\ j + 1 \in 0 .. next
          BY <4>2, <1>2
        <5> QED BY <5>1, <2>2, <2>3, <1>7 DEF Sums
      <4> QED BY <4>1, <4>2
    <3>2. K[0] = 0
      BY <2>3, <1>2, <1>7 DEF Sums
    <3>3. next + 1 - 1 = next
      BY <1>2
    <3>4. \A j \in 0 .. next : K[j + 1] = K[j] + V[j]
      BY <3>1
    <3>5. \A j \in 0 .. (next + 1) - 1 : K[j + 1] = K[j] + V[j]
      <4>1. 0 .. (next + 1) - 1 = 0 .. next
        BY <1>2
      <4> QED BY <3>4, <4>1, Zenon
    <3> QED BY <3>2, <3>5, Zenon DEF Sums
  <2>5. \A j \in 0 .. next - 1 : W[j] <= M + x
    <3> TAKE j \in 0 .. next - 1
    <3>1. next - 1 \in 0 .. next - 1 /\ j <= next - 1 /\ j \in 0 .. n - 1 /\ next - 1 \in 0 .. n - 1
      BY <1>1, <1>2
    <3>2. W[j] <= W[next - 1] /\ W[next - 1] <= 2 * M
      BY <3>1, <1>2, <1>6
    <3>3. W[j] \in Nat /\ W[next - 1] \in Nat
      BY <3>1, <1>8
    <3> QED BY <3>2, <3>3, <1>11
  <2>6. ASSUME NEW j \in 0 .. next, NEW k \in 0 .. next, j <= k PROVE V[j] <= V[k]
    <3>1. CASE k = next /\ j = next
      BY <3>1, <2>2, <1>11
    <3>2. CASE k = next /\ j # next
      <4>1. j \in 0 .. next - 1
        BY <3>2, <1>2
      <4> QED BY <4>1, <3>2, <2>2, <2>5
    <3>3. CASE k # next
      <4>1. j \in 0 .. next - 1 /\ k \in 0 .. next - 1
        BY <3>3, <2>6, <1>2
      <4> QED BY <4>1, <2>2, <2>6, <1>6
    <3> QED BY <3>1, <3>2, <3>3
  <2>7. \A j \in 0 .. next : V[j] >= 1
    <3> TAKE j \in 0 .. next
    <3>1. CASE j = next
      BY <3>1, <2>2, <1>11
    <3>2. CASE j # next
      <4>1. j \in 0 .. next - 1
        BY <3>2, <1>2
      <4> QED BY <4>1, <2>2, <1>6
    <3> QED BY <3>1, <3>2
  <2>8. \A j \in r .. next : V[j] = A'[j] /\ V[j] >= x
    <3> TAKE j \in r .. next
    <3>1. CASE j = next
      BY <3>1, <2>1, <2>2, <1>11
    <3>2. CASE j # next
      <4>1. j \in 0 .. next - 1 /\ j \in r .. next - 1
        BY <3>2, <1>2, <1>11
      <4> QED BY <4>1, <2>2, <1>11
    <3> QED BY <3>1, <3>2
  <2>9. \A j \in 0 .. r - 1 : j \in 0 .. next - 1 /\ V[j] <= x
    <3> TAKE j \in 0 .. r - 1
    <3>1. j \in 0 .. next - 1
      BY <1>2, <1>11
    <3> QED BY <3>1, <2>2, <1>11
  <2>10. V[next] <= 2 * x
    BY <2>2, <1>11
  <2>11. G[l] + K[r] = K[next + 1] + 0
    <3>1. next \in 0 .. n /\ r \in 0 .. next /\ l \in Nat
      BY <1>1, <1>2, <1>11
    <3>2. G[leaf] + H[root] = H[next] + M /\ H[next] \in Nat
      BY <3>1, <1>7, <1>8, <1>15
    <3>3. G[l] + K[r] = (H[next] + M) + x
      BY <3>1, <3>2, <2>3, <1>12
    <3>4. K[next + 1] = H[next] + (M + x)
      BY <2>2, <2>3
    <3> QED BY <3>2, <3>3, <3>4
  <2>12. ASSUME NEW j \in 0 .. r - 1, A'[j] < r, A'[A'[j]] < next + 1
         PROVE  2 * V[j] <= V[A'[A'[j]]]
    <3>1. j \in 0 .. root - 1 /\ A'[j] = A[j] /\ A[j] \in j + 1 .. root
      BY <1>13, <2>12
    <3>2. j \in 0 .. next - 1 /\ V[j] = W[j] /\ W[j] \in Nat
      <4>1. j \in 0 .. next - 1 /\ j \in 0 .. n - 1
        BY <3>1, <1>1, <1>2
      <4> QED BY <4>1, <2>2, <1>8
    <3>3. 2 * V[j] <= V[next]
      BY <3>1, <3>2, <2>2, <1>6, <1>11
    <3>4. CASE A[j] = root
      <4>1. root < r
        BY <3>4, <2>12, <3>1
      <4>2. A'[root] = next
        BY <4>1, <1>2, <1>12
      <4> QED BY <4>2, <3>1, <3>3, <3>4
    <3>5. CASE A[j] # root
      <4>1. j \in Nat
        BY <3>1, <1>2
      <4>2. A[j] \in 0 .. root - 1 /\ A[j] < root
        BY <4>1, <3>1, <3>5, <1>2, Between
      <4>3. A'[A'[j]] = A[A[j]] /\ A[A[j]] \in A[j] + 1 .. next
        BY <4>2, <3>1, <1>3, <1>12
      <4>4. CASE A[A[j]] = next
        BY <4>3, <4>4, <3>3
      <4>5. CASE A[A[j]] # next
        <5>1. A[A[j]] \in 0 .. next - 1 /\ A[A[j]] < next
          <6>1. A[j] \in Nat
            BY <4>2, <1>2
          <6> QED BY <6>1, <4>3, <4>5, <1>2, Between
        <5>2. 2 * W[j] <= W[A[A[j]]]
          BY <5>1, <4>2, <3>1, <1>7
        <5> QED BY <5>1, <5>2, <4>3, <3>2, <2>2
      <4> QED BY <4>4, <4>5
    <3> QED BY <3>4, <3>5
  <2>13. Weights(V, x, G, K)'
    <3>1. /\ Sums(G, freq', n') /\ G[n'] = Len(text') /\ Sums(K, V, next')
      BY <2>1, <2>4, <1>1, <1>7
    <3>2. G[l] + K[r] = K[next'] + (IF pass' = 1 THEN x ELSE 0)
      BY <2>1, <2>11
    <3>3. next' - 1 = next /\ pass' # 1
      BY <2>1, <1>2
    <3>4. \A j \in l .. n' - 1 : freq'[j] >= x
      BY <1>1, <1>11
    <3>5. \A j \in 0 .. r - 1 : A'[j] < r /\ A'[A'[j]] < next' => 2 * V[j] <= V[A'[A'[j]]]
      BY <2>1, <2>12
    <3>6. /\ \A j, k \in 0 .. next' - 1 : j <= k => V[j] <= V[k]
          /\ \A j \in 0 .. next' - 1 : V[j] >= 1
          /\ \A j \in r .. next' - 1 : V[j] = A'[j]
          /\ \A j \in r .. next' - 1 : V[j] >= x
          /\ V[next' - 1] <= 2 * x
      <4>1. \A j, k \in 0 .. next' - 1 : j <= k => V[j] <= V[k]
        BY <2>6, <3>3, Zenon
      <4>2. \A j \in 0 .. next' - 1 : V[j] >= 1
        BY <2>7, <3>3, Zenon
      <4>3. \A j \in r .. next' - 1 : V[j] = A'[j] /\ V[j] >= x
        BY <2>8, <3>3, Zenon
      <4>4. V[next' - 1] <= 2 * x
        BY <2>10, <3>3, Zenon
      <4> QED BY <4>1, <4>2, <4>3, <4>4, Zenon
    <3>7. \A j \in 0 .. r - 1 : V[j] <= x
      BY <2>9
    <3>8. /\ \A j \in root' .. next' - 1 : V[j] = A'[j]
          /\ \A j \in root' .. next' - 1 : V[j] >= x
          /\ \A j \in 0 .. root' - 1 : V[j] <= x
      BY <3>6, <3>7, <1>r, Zenon
    <3>9. /\ \A j \in leaf' .. n' - 1 : freq'[j] >= x
          /\ G[leaf'] + K[root'] = K[next'] + (IF pass' = 1 THEN x ELSE 0)
          /\ \A j \in 0 .. root' - 1 :
                A'[j] < root' /\ A'[A'[j]] < next' => 2 * V[j] <= V[A'[A'[j]]]
      BY <3>2, <3>4, <3>5, <1>r, Zenon
    <3>10. pass' = 1 => sum' = x
      BY <3>3
    <3> QED BY <3>1, <3>6, <3>8, <3>9, <3>10, Zenon DEF Weights
  <2>14. V \in [0 .. n' - 1 -> Nat] /\ K \in [0 .. n' -> Nat] /\ G \in [0 .. n' -> Nat]
    BY <1>1, <1>5, <2>2, <2>3
  <2>15. \E Y \in [0 .. n - 1 -> Nat], L \in Nat, P \in [0 .. n -> Nat], Q \in [0 .. n -> Nat] :
            Weights(Y, L, P, Q)'
    BY <1>1, <2>13, <2>14
  <2> QED BY <1>1, <2>15 DEF Lightest
<1> QED BY <1>2, <1>14, <1>15

---------------------------------------------------------------------------
(* The lengths.  From the root, whose weight is the length of the file,    *)
(* the weights halve with every second level: 62 levels are too many for   *)
(* an int.                                                                 *)

\* What a node can weigh on the first two levels, the next two, ...
Caps == <<2147483647, 1073741823, 536870911, 268435455, 134217727, 67108863, 33554431, 16777215,
          8388607, 4194303, 2097151, 1048575, 524287, 262143, 131071, 65535,
          32767, 16383, 8191, 4095, 2047, 1023, 511, 255, 127, 63, 31, 15, 7, 3, 1, 0>>

\* A node d levels below the root weighs w.
Fits(w, d) == d \in 0 .. 61 /\ w <= Caps[(d \div 2) + 1]

LEMMA CapsHalve ==
    /\ Caps[1] = INT_MAX /\ Caps[32] = 0
    /\ \A k \in 1 .. 31 : Caps[k] \in Nat /\ Caps[k + 1] \in Nat /\ Caps[k] = 2 * Caps[k + 1] + 1
<1>1. Caps[1] = INT_MAX /\ Caps[32] = 0
  BY DEF Caps, INT_MAX
<1>2. ASSUME NEW k \in 1 .. 31
      PROVE  Caps[k] \in Nat /\ Caps[k + 1] \in Nat /\ Caps[k] = 2 * Caps[k + 1] + 1
  <2>1. CASE k <= 8
    BY <2>1 DEF Caps
  <2>2. CASE k > 8 /\ k <= 16
    BY <2>2 DEF Caps
  <2>3. CASE k > 16 /\ k <= 24
    BY <2>3 DEF Caps
  <2>4. CASE k > 24
    BY <2>4 DEF Caps
  <2> QED BY <2>1, <2>2, <2>3, <2>4
<1> QED BY <1>1, <1>2

\* Two levels further down a node weighs half at most.
LEMMA FitsBelow ==
    ASSUME NEW w \in Nat, NEW v \in Nat, NEW d \in Nat, Fits(w, d), 2 * v <= w, v >= 1
    PROVE  Fits(v, d + 2)
<1> DEFINE k == (d \div 2) + 1
<1>1. k \in 1 .. 31 /\ ((d + 2) \div 2) + 1 = k + 1 /\ w <= Caps[k] /\ d <= 61
  BY DEF Fits
<1> HIDE DEF k
<1>2. Caps[k + 1] \in Nat /\ Caps[k] = 2 * Caps[k + 1] + 1
  BY <1>1, CapsHalve
<1>3. v <= Caps[k + 1]
  BY <1>1, <1>2
<1>4. k # 31
  BY <1>2, <1>3, CapsHalve
<1>5. d + 2 \in 0 .. 61
  BY <1>1, <1>4 DEF k
<1> QED BY <1>1, <1>3, <1>5 DEF Fits

\* top internal nodes are on the level above or further down.
Depths(W, top) ==
    /\ top \in Nat /\ level_top \in 0 .. top /\ top <= n - 1 /\ depth \in Nat \ {0}
    /\ i = 2 * top - level_top
    /\ total_nodes_at_level = 2 * (top - level_top)
    /\ \A j, k \in 0 .. n - 2 : j <= k => W[j] <= W[k]
    /\ \A j \in 0 .. n - 2 : W[j] >= 1
    /\ \A j \in 0 .. level_top - 1 : A[j] \in j + 1 .. top - 1
    /\ \A j \in 0 .. level_top - 1 : A[j] < level_top => 2 * W[j] <= W[A[A[j]]]
    /\ level_top > 0 => Fits(W[level_top - 1], depth)
    /\ top > 0 => Fits(W[top - 1], depth - 1)
    /\ \A j \in i .. n - 1 : A[j] \in 1 .. 62

Shallow ==
    hpc = "levels" /\ n > 1 => \E W \in [0 .. n - 1 -> Nat], top \in Nat : Depths(W, top)

\* The root weighs as much as the file has characters.
LEMMA TreeBuiltShallow ==
    ASSUME IInv, Parents, Passed, Lightest, TreeBuilt
    PROVE  Shallow'
<1>1. SUFFICES ASSUME n > 1 PROVE Shallow'
  <2>1. n' = n
    BY DEF TreeBuilt, n
  <2> QED BY <1>1, <2>1 DEF Shallow
<1>2. /\ n \in Nat /\ leaf \in Nat /\ root \in Nat /\ next \in Nat
      /\ pass \in {0, 1} /\ (pass = 1 => next < n - 1)
      /\ next <= leaf /\ leaf <= n /\ leaf + root = 2 * next + pass
      /\ next >= n - 1
  BY DEF TreeBuilt, IInv, ArrayOK, InPlace
<1>3. pass = 0 /\ next > 0 => root < next
  BY DEF Parents, TreeBuilt
<1>4. pass = 0 /\ next = n - 1 /\ root = n - 2 /\ leaf = n
  BY <1>1, <1>2, <1>3
<1>5. /\ A' = A /\ n' = n /\ level_top' = n - 2 /\ depth' = 1 /\ i' = n
      /\ total_nodes_at_level' = 2
  BY DEF TreeBuilt, TreeTop, n
<1>6. \A j \in 0 .. n - 3 : A[j] \in j + 1 .. n - 2
  <2>1. Levels'
    BY TreeBuiltLevels
  <2> TAKE j \in 0 .. n - 3
  <2>2. j \in 0 .. root - 1 /\ A[j] \in j + 1 .. next /\ A[j] # next
    <3>1. j \in 0 .. root - 1
      BY <1>2, <1>4
    <3>2. A[j] \in j + 1 .. next
      BY <3>1 DEF TreeBuilt, IInv, InPlace
    <3>3. A[j] # next
      BY <3>1, <1>4 DEF Parents, TreeBuilt
    <3> QED BY <3>1, <3>2, <3>3
  <2>3. j \in Nat
    OBVIOUS
  <2>4. A[j] \in 0 .. next - 1 /\ A[j] \in j + 1 .. next
    BY <2>2, <2>3, <1>2, Between
  <2> QED BY <2>3, <2>4, <1>2, <1>4
<1>7. PICK W \in [0 .. n - 1 -> Nat], M \in Nat, G \in [0 .. n -> Nat], H \in [0 .. n -> Nat] :
         Weights(W, M, G, H)
  BY DEF Lightest, TreeBuilt
<1>8. /\ G[n] = Len(text) /\ Sums(H, W, n - 1)
      /\ \A j, k \in 0 .. n - 2 : j <= k => W[j] <= W[k]
      /\ \A j \in 0 .. n - 2 : W[j] >= 1
      /\ G[n] + H[n - 2] = H[n - 1] + 0
      /\ \A j \in 0 .. n - 3 : A[j] < n - 2 /\ A[A[j]] < n - 1 => 2 * W[j] <= W[A[A[j]]]
  <2>1. next - 1 = n - 2 /\ root - 1 = n - 3 /\ pass # 1
    BY <1>2, <1>4
  <2> QED BY <1>4, <1>7, <2>1 DEF Weights
<1>9. W[n - 2] <= INT_MAX /\ W[n - 2] \in Nat
  <2>1. n - 2 \in 0 .. (n - 1) - 1 /\ (n - 2) + 1 = n - 1 /\ n - 2 \in 0 .. n /\ n - 1 \in 0 .. n
        /\ n - 2 \in 0 .. n - 1 /\ n \in 0 .. n
    BY <1>1, <1>2
  <2>2. H[n - 1] = H[n - 2] + W[n - 2]
    BY <1>8, <2>1 DEF Sums
  <2>3. H[n - 1] \in Nat /\ H[n - 2] \in Nat /\ W[n - 2] \in Nat /\ G[n] \in Nat
    BY <2>1, <1>7
  <2>4. W[n - 2] = G[n]
    <3>1. \A g, h, k, w \in Nat : k = h + w /\ g + h = k + 0 => w = g
      OBVIOUS
    <3>2. G[n] + H[n - 2] = H[n - 1] + 0
      BY <1>8
    <3> QED BY <2>2, <2>3, <3>1, <3>2
  <2> QED BY <2>3, <2>4, <1>8 DEF Passed
<1>T. PICK top \in Nat : top = n - 1
  BY <1>1, <1>2
<1>10. Fits(W[n - 2], 0)
  <2>1. 0 \div 2 + 1 = 1 /\ 0 \in 0 .. 61
    OBVIOUS
  <2> QED BY <1>9, <2>1, CapsHalve DEF Fits
<1>11. n - 2 > 0 => Fits(W[n - 3], 1)
  <2>1. 1 \div 2 + 1 = 1 /\ 1 \in 0 .. 61
    OBVIOUS
  <2>2. SUFFICES ASSUME n - 2 > 0 PROVE W[n - 3] <= INT_MAX
    BY <2>1, CapsHalve DEF Fits
  <2>3. n - 3 \in 0 .. n - 2 /\ n - 2 \in 0 .. n - 2 /\ n - 3 <= n - 2 /\ n - 3 \in 0 .. n - 1
    BY <1>1, <1>2, <2>2
  <2>4. W[n - 3] <= W[n - 2] /\ W[n - 3] \in Nat
    BY <2>3, <1>7, <1>8
  <2> QED BY <2>4, <1>9 DEF INT_MAX
<1>12. \A j \in 0 .. n - 3 : A[j] < n - 2 => 2 * W[j] <= W[A[A[j]]]
  <2> SUFFICES ASSUME NEW j \in 0 .. n - 3, A[j] < n - 2 PROVE 2 * W[j] <= W[A[A[j]]]
    OBVIOUS
  <2>1. j \in Nat /\ n - 2 \in Nat /\ n - 3 = (n - 2) - 1 /\ n - 1 = (n - 2) + 1
    BY <1>1, <1>2
  <2>2. A[j] \in 0 .. n - 3 /\ A[j] \in Nat
    <3>1. A[j] \in j + 1 .. n - 2 /\ A[j] # n - 2
      BY <1>6, <2>1
    <3>2. A[j] \in 0 .. (n - 2) - 1
      BY <3>1, <2>1, Between
    <3> QED BY <3>2, <2>1
  <2>3. A[A[j]] < n - 1
    <3>1. A[A[j]] \in A[j] + 1 .. n - 2
      BY <2>2, <1>6
    <3>2. A[A[j]] \in Nat /\ A[A[j]] <= n - 2
      BY <3>1, <2>1, <2>2, Between
    <3>3. \A a, b \in Nat : a <= b => a < b + 1
      OBVIOUS
    <3> QED BY <3>2, <3>3, <2>1
  <2> QED BY <2>3, <1>8
<1>13. Depths(W, top)'
  <2>1. /\ n - 2 \in 0 .. top /\ i' = 2 * top - (n - 2) /\ total_nodes_at_level' = 2 * (top - (n - 2))
        /\ top <= n' - 1
    BY <1>1, <1>2, <1>5, <1>T
  <2>2. \A j \in i' .. n' - 1 : A'[j] \in 1 .. 62
    BY <1>2, <1>5
  <2>3. (n - 2) - 1 = n - 3 /\ top - 1 = n - 2 /\ 1 - 1 = 0
    BY <1>1, <1>2, <1>T
  <2>4. \A j \in 0 .. level_top' - 1 : A'[j] \in j + 1 .. top - 1
    BY <1>5, <1>6, <2>3, Zenon
  <2>5. \A j \in 0 .. level_top' - 1 : A'[j] < level_top' => 2 * W[j] <= W[A'[A'[j]]]
    BY <1>5, <1>12, <2>3, Zenon
  <2>6. level_top' > 0 => Fits(W[level_top' - 1], depth')
    BY <1>5, <1>11, <2>3
  <2>7. top > 0 => Fits(W[top - 1], depth' - 1)
    BY <1>5, <1>10, <2>3
  <2>8. depth' \in Nat \ {0} /\ level_top' = n - 2 /\ n' = n
    BY <1>5
  <2> QED BY <1>8, <2>1, <2>2, <2>4, <2>5, <2>6, <2>7, <2>8 DEF Depths
<1> QED BY <1>2, <1>5, <1>13 DEF Shallow

\* A further level: what is still above it is half as heavy as the level before
\* the last.
LEMMA LevelShallow == ASSUME n \in Nat, Levels, Shallow, Level PROVE Shallow'
<1>1. SUFFICES ASSUME n > 1 PROVE Shallow'
  <2>1. n' = n
    BY DEF Level, n
  <2> QED BY <1>1, <2>1 DEF Shallow
<1>2. /\ hpc = "levels" /\ i > 0 /\ n' = n /\ depth' = depth + 1 /\ level_top' = LevelStart
  BY DEF Level, n
<1>3. PICK W \in [0 .. n - 1 -> Nat], top \in Nat : Depths(W, top)
  BY <1>1, <1>2 DEF Shallow
<1>4. DOMAIN A = 0 .. n - 1
  BY <1>1, <1>2 DEF Levels
<1>5. PICK low \in Nat, d \in Nat : low = level_top /\ d = depth
  BY <1>3 DEF Depths
<1>6. /\ low <= top /\ top <= n - 1 /\ d # 0
      /\ i = 2 * top - low /\ total_nodes_at_level = 2 * (top - low)
      /\ \A j, k \in 0 .. n - 2 : j <= k => W[j] <= W[k]
      /\ \A j \in 0 .. n - 2 : W[j] >= 1
      /\ \A j \in 0 .. low - 1 : A[j] \in j + 1 .. top - 1
      /\ \A j \in 0 .. low - 1 : A[j] < low => 2 * W[j] <= W[A[A[j]]]
      /\ low > 0 => Fits(W[low - 1], d)
      /\ top > 0 => Fits(W[top - 1], d - 1)
      /\ \A j \in i .. n - 1 : A[j] \in 1 .. 62
  BY <1>3, <1>5 DEF Depths
<1>7. /\ LevelStart \in 0 .. level_top
      /\ LevelStart > 0 => A[LevelStart - 1] < level_top
  <2>1. \A j \in 0 .. level_top - 1 : A[j] \in Int /\ A[j] >= j + 1
    <3> TAKE j \in 0 .. level_top - 1
    <3>1. A[j] \in j + 1 .. top - 1 /\ j \in Int
      BY <1>5, <1>6
    <3> QED BY <3>1
  <2> QED BY <2>1, <1>5, LevelStartFacts
<1>8. PICK k \in Nat : k = LevelStart /\ k <= low /\ (k > 0 => A[k - 1] < low)
  BY <1>5, <1>7
<1>9. PICK leaves \in Int : leaves = total_nodes_at_level - (level_top - k)
  BY <1>5, <1>6
<1>10. /\ A' = [j \in DOMAIN A |-> IF j \in i - leaves .. i - 1 THEN d ELSE A[j]]
       /\ i' = i - leaves /\ total_nodes_at_level' = (level_top - k) * 2
  BY <1>5, <1>8, <1>9 DEF Level
<1>11. i - leaves = 2 * low - k /\ i \in Int /\ top > 0
  <2>1. i - leaves = (2 * top - low) - (2 * (top - low) - (low - k))
    BY <1>5, <1>6, <1>9
  <2>2. (2 * top - low) - (2 * (top - low) - (low - k)) = 2 * low - k
    OBVIOUS
  <2>3. i \in Int /\ top > 0
    BY <1>2, <1>6
  <2> QED BY <2>1, <2>2, <2>3
<1>12. d \in 1 .. 62
  <2>1. Fits(W[top - 1], d - 1)
    BY <1>6, <1>11
  <2> QED BY <2>1, <1>6 DEF Fits
<1>13. \A j \in 0 .. k - 1 : A'[j] = A[j] /\ j \in 0 .. low - 1
  <2> TAKE j \in 0 .. k - 1
  <2>1. j \in 0 .. low - 1 /\ j \in 0 .. n - 1
    BY <1>6, <1>8
  <2>2. j < i - leaves
    BY <1>8, <1>11
  <2>3. ~ (j \in i - leaves .. i - 1)
    BY <2>2, <1>9, <1>11
  <2> QED BY <2>1, <2>3, <1>4, <1>10
<1>14. \A j \in i - leaves .. n - 1 : A'[j] \in 1 .. 62
  <2> TAKE j \in i - leaves .. n - 1
  <2>1. j \in DOMAIN A
    BY <1>4, <1>8, <1>11
  <2>2. CASE j \in i - leaves .. i - 1
    BY <2>1, <2>2, <1>10, <1>12
  <2>3. CASE j \notin i - leaves .. i - 1
    <3>1. j \in i .. n - 1
      BY <2>3, <1>11, <1>9
    <3> QED BY <3>1, <2>1, <2>3, <1>6, <1>10
  <2> QED BY <2>2, <2>3
<1>15. \A j, l \in 0 .. low - 1 : j <= l => A[j] <= A[l]
  <2>1. PICK t \in [0 .. depth -> 0 .. n - 1] : LevelsAt(t)
    BY <1>1, <1>2 DEF Levels
  <2> QED BY <2>1, <1>5 DEF LevelsAt, Rising
<1>16. \A j \in 0 .. k - 1 : A[j] \in j + 1 .. low - 1
  <2> TAKE j \in 0 .. k - 1
  <2>1. j \in 0 .. low - 1 /\ k - 1 \in 0 .. low - 1 /\ j <= k - 1 /\ k > 0 /\ j \in Int
    BY <1>8
  <2>2. A[j] <= A[k - 1] /\ A[k - 1] < low
    BY <2>1, <1>8, <1>15
  <2>3. A[j] \in j + 1 .. top - 1 /\ A[k - 1] \in (k - 1) + 1 .. top - 1
    BY <2>1, <1>6
  <2>4. \A a, b \in Int : a \in j + 1 .. top - 1 /\ a <= b /\ b < low => a \in j + 1 .. low - 1
    BY <2>1
  <2>5. A[j] \in Int /\ A[k - 1] \in Int
    BY <2>1, <2>3
  <2> QED BY <2>2, <2>3, <2>4, <2>5
<1>17. k > 0 => Fits(W[k - 1], d + 1)
  <2> SUFFICES ASSUME k > 0 PROVE Fits(W[k - 1], d + 1)
    OBVIOUS
  <2>1. k - 1 \in 0 .. k - 1 /\ k - 1 \in 0 .. low - 1 /\ k - 1 \in 0 .. n - 2 /\ k - 1 \in Nat
    BY <1>6, <1>8
  <2>2. PICK p \in Nat : p = A[k - 1] /\ p \in 0 .. low - 1 /\ p < low
    <3>1. A[k - 1] \in (k - 1) + 1 .. low - 1
      BY <2>1, <1>16
    <3> QED BY <3>1, <2>1
  <2>3. PICK g \in Nat : g = A[p] /\ g \in 0 .. n - 2 /\ g <= top - 1
    <3>1. A[p] \in p + 1 .. top - 1
      BY <2>2, <1>6
    <3>2. \A a \in p + 1 .. top - 1 : a \in Nat /\ a \in 0 .. n - 2 /\ a <= top - 1
      BY <1>6
    <3> QED BY <3>1, <3>2
  <2>4. 2 * W[k - 1] <= W[g]
    BY <2>1, <2>2, <2>3, <1>6
  <2>5. W[g] <= W[top - 1] /\ W[k - 1] >= 1
    <3>1. top - 1 \in 0 .. n - 2
      BY <1>6, <1>11
    <3> QED BY <3>1, <2>1, <2>3, <1>6
  <2>6. W[g] \in Nat /\ W[k - 1] \in Nat /\ W[top - 1] \in Nat
    <3>1. g \in 0 .. n - 1 /\ k - 1 \in 0 .. n - 1 /\ top - 1 \in 0 .. n - 1
      BY <2>1, <2>3, <1>6, <1>11
    <3> QED BY <3>1, <1>3
  <2>7. 2 * W[k - 1] <= W[top - 1]
    <3>1. \A a, b, c \in Nat : 2 * a <= b /\ b <= c => 2 * a <= c
      OBVIOUS
    <3> QED BY <3>1, <2>4, <2>5, <2>6
  <2>8. Fits(W[top - 1], d - 1) /\ d - 1 \in Nat /\ (d - 1) + 2 = d + 1
    BY <1>6, <1>11
  <2> QED BY <2>5, <2>6, <2>7, <2>8, FitsBelow
<1>18. Depths(W, low)'
  <2>1. /\ low \in Nat /\ level_top' \in 0 .. low /\ low <= n' - 1 /\ depth' \in Nat \ {0}
        /\ i' = 2 * low - level_top' /\ total_nodes_at_level' = 2 * (low - level_top')
        /\ level_top' = k /\ depth' = d + 1 /\ (d + 1) - 1 = d
    <3>1. level_top' = k /\ depth' = d + 1 /\ n' = n
      BY <1>2, <1>5, <1>8
    <3>2. low <= n - 1 /\ k \in 0 .. low /\ (low - k) * 2 = 2 * (low - k)
      BY <1>6, <1>8
    <3> QED BY <3>1, <3>2, <1>5, <1>10, <1>11
  <2>2. \A j \in 0 .. level_top' - 1 : A'[j] \in j + 1 .. low - 1
    BY <2>1, <1>13, <1>16
  <2>3. \A j \in 0 .. level_top' - 1 : A'[j] < level_top' => 2 * W[j] <= W[A'[A'[j]]]
    <3> SUFFICES ASSUME NEW j \in 0 .. k - 1, A'[j] < k PROVE 2 * W[j] <= W[A'[A'[j]]]
      BY <2>1
    <3>1. A'[j] = A[j] /\ j \in 0 .. low - 1 /\ A[j] \in j + 1 .. low - 1 /\ j \in Nat
      BY <1>13, <1>16, <1>8
    <3>2. A[j] \in 0 .. k - 1 /\ A[j] < low
      <4>1. \A a \in j + 1 .. low - 1 : a < k => a \in 0 .. k - 1 /\ a < low
        BY <3>1
      <4> QED BY <4>1, <3>1
    <3>3. A'[A'[j]] = A[A[j]]
      BY <3>1, <3>2, <1>13
    <3> QED BY <3>1, <3>2, <3>3, <1>6
  <2>4. level_top' > 0 => Fits(W[level_top' - 1], depth')
    BY <2>1, <1>17
  <2>5. low > 0 => Fits(W[low - 1], depth' - 1)
    BY <2>1, <1>6
  <2>6. \A j \in i' .. n' - 1 : A'[j] \in 1 .. 62
    BY <1>2, <1>10, <1>14
  <2> QED BY <2>1, <2>2, <2>3, <2>4, <2>5, <2>6, <1>2, <1>6 DEF Depths
<1> QED BY <1>2, <1>18 DEF Shallow

\* The codes have at most 62 bits, and the first one is all zeros.
Short ==
    hpc \in {"codes", "coded"} /\ n > 1 =>
        /\ \A j \in 0 .. n - 1 : A[j] \in 1 .. 62
        /\ \A b \in 1 .. Len(huffmanCodes[1]) : huffmanCodes[1][b] = 0

LEMMA FirstCodeShort == ASSUME n \in Nat, Levels, Shallow, FirstCode PROVE Short'
<1>1. SUFFICES ASSUME n > 1 PROVE Short'
  <2>1. n' = n
    BY DEF FirstCode, n
  <2> QED BY <1>1, <2>1 DEF Short
<1>2. /\ hpc = "levels" /\ i <= 0 /\ n' = n
      /\ A' = reverseVector(A) /\ huffmanCodes' = <<Zeros(A[n - 1])>>
  BY DEF FirstCode, n
<1>3. PICK W \in [0 .. n - 1 -> Nat], top \in Nat : Depths(W, top)
  BY <1>1, <1>2 DEF Shallow
<1>4. DOMAIN A = 0 .. n - 1
  BY <1>1, <1>2 DEF Levels
<1>5. \A j \in 0 .. n - 1 : A[j] \in 1 .. 62
  <2>1. \A j \in i .. n - 1 : A[j] \in 1 .. 62
    BY <1>3 DEF Depths
  <2>2. i \in Int
    BY <1>3 DEF Depths
  <2> QED BY <2>1, <2>2, <1>2
<1>6. \A j \in 0 .. n - 1 : A'[j] \in 1 .. 62
  <2> TAKE j \in 0 .. n - 1
  <2>1. n - 1 - j \in 0 .. n - 1
    OBVIOUS
  <2>2. A'[j] = A[n - 1 - j]
    BY <1>2, <1>4 DEF reverseVector
  <2> QED BY <2>1, <2>2, <1>5
<1>7. huffmanCodes'[1] = Zeros(A[n - 1]) /\ A[n - 1] \in Nat
  <2>1. n - 1 \in 0 .. n - 1
    BY <1>1
  <2>2. A[n - 1] \in Nat
    <3>1. A[n - 1] \in 1 .. 62
      BY <2>1, <1>5, Zenon
    <3>2. \A e \in 1 .. 62 : e \in Nat
      OBVIOUS
    <3> QED BY <3>1, <3>2, Zenon
  <2>3. \A z : <<z>>[1] = z
    OBVIOUS
  <2> QED BY <2>2, <2>3, <1>2
<1>8. \A b \in 1 .. Len(huffmanCodes'[1]) : huffmanCodes'[1][b] = 0
  <2>1. \A k \in Nat : Len(Zeros(k)) = k /\ \A b \in 1 .. k : Zeros(k)[b] = 0
    BY DEF Zeros
  <2> QED BY <2>1, <1>7
<1> QED BY <1>2, <1>6, <1>8 DEF Short

LEMMA PushCodeShort == ASSUME n \in Nat, Coding, Short, PushCode PROVE Short'
<1>1. SUFFICES ASSUME n > 1 PROVE Short'
  <2>1. n' = n
    BY DEF PushCode, n
  <2> QED BY <1>1, <2>1 DEF Short
<1>2. /\ hpc = "codes" /\ n' = n /\ A' = A
      /\ \/ huffmanCodes' = huffmanCodes
         \/ huffmanCodes' =
               Append(huffmanCodes, NextCode(Last(huffmanCodes), A[Len(huffmanCodes)]))
  BY DEF PushCode, n
<1>3. huffmanCodes \in Seq(Bits) /\ Len(huffmanCodes) \in 1 .. n
  BY <1>1, <1>2 DEF Coding
<1>4. huffmanCodes'[1] = huffmanCodes[1]
  <2>1. \A c : Append(huffmanCodes, c)[1] = huffmanCodes[1]
    BY <1>3
  <2>2. CASE huffmanCodes' = huffmanCodes
    BY <2>2
  <2>3. CASE huffmanCodes' # huffmanCodes
    <3>1. PICK c : huffmanCodes' = Append(huffmanCodes, c)
      BY <2>3, <1>2
    <3> QED BY <3>1, <2>1
  <2> QED BY <2>2, <2>3
<1> QED BY <1>1, <1>2, <1>4 DEF Short

---------------------------------------------------------------------------
(* Sequences laid end to end, as the map file has its entries and the data *)
(* file its codes.                                                         *)

\* The recursion of FlattenSeq ends for every sequence.
LEMMA Flattened ==
    ASSUME NEW X, NEW s \in Seq(Seq(X)), Len(s) # 0
    PROVE  \E g \in [1 .. Len(s) -> Seq(X)] :
              /\ g[1] = s[1]
              /\ \A k \in 2 .. Len(s) : g[k] = g[k - 1] \o s[k]
              /\ FlattenSeq(s) = g[Len(s)]
<1> DEFINE N == Len(s)
           R(g, m) == g = [k \in 1 .. m |-> IF k = 1 THEN s[k] ELSE g[k - 1] \o s[k]]
           S == {k \in 0 .. N : k = 0 \/ \E g : R(g, k)}
<1>1. N \in Nat /\ N >= 1 /\ \A k \in 1 .. N : s[k] \in Seq(X)
  OBVIOUS
<1> HIDE DEF N
<1>2. ASSUME NEW k \in 0 .. N - 1, k \in S PROVE k + 1 \in S
  <2>1. CASE k = 0
    <3> DEFINE h == [l \in 1 .. 1 |-> s[1]]
    <3>1. h = [l \in 1 .. 1 |-> IF l = 1 THEN s[l] ELSE h[l - 1] \o s[l]]
      OBVIOUS
    <3>2. R(h, k + 1)
      BY <2>1, <3>1
    <3> HIDE DEF R
    <3> QED BY <1>1, <3>2
  <2>2. CASE k # 0
    <3>1. PICK g : R(g, k)
      BY <2>2, <1>2
    <3> DEFINE h == [l \in 1 .. k + 1 |-> IF l = k + 1 THEN g[k] \o s[l] ELSE g[l]]
    <3>2. \A l \in 1 .. k + 1 : h[l] = IF l = 1 THEN s[l] ELSE h[l - 1] \o s[l]
      <4> TAKE l \in 1 .. k + 1
      <4>1. CASE l = k + 1
        <5>1. l # 1 /\ l - 1 = k /\ k \in 1 .. k + 1 /\ k # k + 1
          BY <4>1, <2>2
        <5>2. h[k] = g[k] /\ h[l] = g[k] \o s[l]
          BY <4>1, <5>1
        <5> QED BY <5>1, <5>2
      <4>2. CASE l # k + 1
        <5>1. l \in 1 .. k /\ h[l] = g[l]
          BY <4>2
        <5>2. g[l] = IF l = 1 THEN s[l] ELSE g[l - 1] \o s[l]
          BY <3>1, <5>1
        <5>3. l # 1 => h[l - 1] = g[l - 1]
          BY <5>1
        <5> HIDE DEF h
        <5> QED BY <5>1, <5>2, <5>3
      <4> QED BY <4>1, <4>2
    <3>3. h = [l \in 1 .. k + 1 |-> h[l]]
      OBVIOUS
    <3> HIDE DEF h
    <3>4. R(h, k + 1)
      BY <3>2, <3>3
    <3> HIDE DEF R
    <3> QED BY <1>1, <3>4
  <2> QED BY <2>1, <2>2
<1>3. \E g : R(g, N)
  <2> HIDE DEF R
  <2>1. 0 \in S
    BY <1>1
  <2> HIDE DEF S
  <2>2. \A k \in 0 .. N : k \in S
    BY <1>1, <1>2, <2>1, UpTo
  <2>3. N \in S
    BY <1>1, <2>2
  <2> QED BY <2>3, <1>1 DEF S
<1> DEFINE f == CHOOSE g : R(g, N)
<1>4. R(f, N)
  <2> HIDE DEF R
  <2> QED BY <1>3, Zenon
<1>5. FlattenSeq(s) = f[N]
  BY <1>1 DEF FlattenSeq, N
<1> HIDE DEF f
<1>6. f[1] = s[1] /\ \A k \in 2 .. N : f[k] = f[k - 1] \o s[k]
  <2>1. \A k \in 1 .. N : f[k] = IF k = 1 THEN s[k] ELSE f[k - 1] \o s[k]
    BY <1>4
  <2>2. 1 \in 1 .. N /\ \A k \in 2 .. N : k \in 1 .. N /\ k # 1
    BY <1>1
  <2> QED BY <2>1, <2>2, Zenon
<1>7. DOMAIN f = 1 .. N /\ f = [k \in 1 .. N |-> f[k]]
  BY <1>4
<1>8. \A k \in 0 .. N : k = 0 \/ f[k] \in Seq(X)
  <2> DEFINE T == {k \in 0 .. N : k = 0 \/ f[k] \in Seq(X)}
  <2>1. 0 \in T
    BY <1>1
  <2>2. ASSUME NEW k \in 0 .. N - 1, k \in T PROVE k + 1 \in T
    <3>1. k + 1 \in 0 .. N /\ k + 1 \in 1 .. N /\ s[k + 1] \in Seq(X)
      BY <1>1
    <3>2. CASE k = 0
      BY <3>1, <3>2, <1>6
    <3>3. CASE k # 0
      <4>1. k + 1 \in 2 .. N /\ (k + 1) - 1 = k /\ f[k] \in Seq(X)
        BY <3>3, <2>2, <1>1
      <4>2. f[k + 1] = f[k] \o s[k + 1]
        BY <4>1, <1>6
      <4>3. f[k + 1] \in Seq(X)
        BY <3>1, <4>1, <4>2, ConcatProperties
      <4> QED BY <3>1, <4>3
    <3> QED BY <3>2, <3>3
  <2> HIDE DEF T
  <2>3. \A k \in 0 .. N : k \in T
    BY <1>1, <2>1, <2>2, UpTo
  <2> QED BY <2>3 DEF T
<1>9. f \in [1 .. N -> Seq(X)]
  <2>1. \A k \in 1 .. N : f[k] \in Seq(X)
    BY <1>8, <1>1
  <2> QED BY <2>1, <1>7
<1> QED BY <1>5, <1>6, <1>9 DEF N

\* F has the sequences of s one after the other, the k-th one up to P[k].
Laid(F, s, P) ==
    /\ P \in [0 .. Len(s) -> Nat] /\ P[0] = 0
    /\ \A k \in 1 .. Len(s) : P[k] = P[k - 1] + Len(s[k])
    /\ \A j, k \in 0 .. Len(s) : j <= k => P[j] <= P[k]
    /\ Len(F) = P[Len(s)]
    /\ \A k \in 1 .. Len(s) : \A j \in 1 .. Len(s[k]) : F[P[k - 1] + j] = s[k][j]
    /\ \A l \in 1 .. Len(F) : \E k \in 1 .. Len(s) : P[k - 1] < l /\ l <= P[k]

LEMMA FlattenLayout ==
    ASSUME NEW X, NEW s \in Seq(Seq(X))
    PROVE  FlattenSeq(s) \in Seq(X) /\ \E P : Laid(FlattenSeq(s), s, P)
<1>1. CASE Len(s) = 0
  <2>1. s = <<>> /\ FlattenSeq(s) = s
    BY <1>1 DEF FlattenSeq
  <2> DEFINE P == [k \in 0 .. 0 |-> 0]
  <2>2. P \in [0 .. Len(s) -> Nat] /\ P[0] = 0 /\ Len(s) = 0
    BY <1>1
  <2> HIDE DEF P
  <2>3. Laid(FlattenSeq(s), s, P)
    BY <2>1, <2>2 DEF Laid
  <2>4. <<>> \in Seq(X)
    OBVIOUS
  <2> QED BY <2>1, <2>3, <2>4
<1>2. CASE Len(s) # 0
  <2> DEFINE N == Len(s)
  <2>0. N \in Nat /\ N >= 1 /\ \A k \in 1 .. N : s[k] \in Seq(X) /\ Len(s[k]) \in Nat
    BY <1>2
  <2>1. PICK g \in [1 .. N -> Seq(X)] :
           /\ g[1] = s[1]
           /\ \A k \in 2 .. N : g[k] = g[k - 1] \o s[k]
           /\ FlattenSeq(s) = g[N]
    BY <1>2, Flattened
  <2> DEFINE P == [k \in 0 .. N |-> IF k = 0 THEN 0 ELSE Len(g[k])]
  <2> HIDE DEF N
  <2>2. \A k \in 1 .. N : P[k] = Len(g[k]) /\ P[k] \in Nat /\ g[k] \in Seq(X)
    BY <2>0
  <2>3. P[0] = 0 /\ P \in [0 .. N -> Nat]
    BY <2>0
  <2> HIDE DEF P
  <2>4. \A k \in 1 .. N : P[k] = P[k - 1] + Len(s[k])
    <3> TAKE k \in 1 .. N
    <3>1. CASE k = 1
      <4>1. P[1] = Len(g[1]) /\ g[1] = s[1] /\ P[0] = 0 /\ Len(s[1]) \in Nat /\ k - 1 = 0
        BY <2>0, <2>1, <2>2, <2>3, <3>1
      <4> QED BY <4>1, <3>1
    <3>2. CASE k # 1
      <4>1. k \in 2 .. N /\ k - 1 \in 1 .. N
        BY <3>2, <2>0
      <4>2. g[k] = g[k - 1] \o s[k] /\ g[k - 1] \in Seq(X) /\ s[k] \in Seq(X)
        BY <4>1, <2>1, <2>2, <2>0
      <4>3. Len(g[k]) = Len(g[k - 1]) + Len(s[k])
        BY <4>2, ConcatProperties
      <4> QED BY <4>1, <4>3, <2>2
    <3> QED BY <3>1, <3>2
  <2> DEFINE Grows(k) == \A j \in 0 .. k : P[j] <= P[k]
             Holds(k) == \A m \in 1 .. k : \A j \in 1 .. Len(s[m]) : g[k][P[m - 1] + j] = s[m][j]
             Covers(k) == \A l \in 1 .. P[k] : \E m \in 1 .. k : P[m - 1] < l /\ l <= P[m]
             T == {k \in 0 .. N : Grows(k) /\ (k = 0 \/ Holds(k)) /\ Covers(k)}
  <2>5. 0 \in T
    <3>1. 0 \in 0 .. N /\ Grows(0)
      BY <2>0, <2>3
    <3>2. Covers(0)
      BY <2>3
    <3> QED BY <3>1, <3>2
  <2>6. ASSUME NEW k \in 0 .. N - 1, k \in T PROVE k + 1 \in T
    <3>1. /\ k + 1 \in 1 .. N /\ k + 1 \in 0 .. N /\ k \in 0 .. N /\ (k + 1) - 1 = k /\ k \in Nat
          /\ N \in Nat
      BY <2>0
    <3>2. /\ P[k + 1] = P[k] + Len(s[k + 1]) /\ Len(s[k + 1]) \in Nat
          /\ P[k] \in Nat /\ P[k + 1] \in Nat
      BY <3>1, <2>4, <2>0, <2>3
    <3>3. Grows(k) /\ (k = 0 \/ Holds(k)) /\ Covers(k)
      BY <2>6
    <3>4. Grows(k + 1)
      <4> SUFFICES ASSUME NEW j \in 0 .. k + 1 PROVE P[j] <= P[k + 1]
        OBVIOUS
      <4>1. CASE j = k + 1
        BY <4>1, <3>2
      <4>2. CASE j # k + 1
        <5>1. j \in 0 .. k /\ j \in 0 .. N
          BY <4>2, <3>1
        <5>2. P[j] \in Nat /\ P[j] <= P[k]
          BY <5>1, <2>3, <3>3
        <5>3. \A a, b, c \in Nat : a <= b => a <= b + c
          OBVIOUS
        <5>4. P[j] <= P[k] + Len(s[k + 1])
          BY <5>2, <5>3, <3>2, Zenon
        <5> QED BY <5>4, <3>2, Zenon
      <4> QED BY <4>1, <4>2
    <3>5. Covers(k + 1)
      <4> SUFFICES ASSUME NEW l \in 1 .. P[k + 1]
                   PROVE  \E m \in 1 .. k + 1 : P[m - 1] < l /\ l <= P[m]
        OBVIOUS
      <4>1. CASE l <= P[k]
        <5>1. l \in 1 .. P[k]
          BY <4>1, <3>2
        <5>2. PICK m \in 1 .. k : P[m - 1] < l /\ l <= P[m]
          BY <5>1, <3>3
        <5>3. m \in 1 .. k + 1
          BY <3>1
        <5> QED BY <5>2, <5>3
      <4>2. CASE l > P[k]
        <5>1. k + 1 \in 1 .. k + 1 /\ P[(k + 1) - 1] < l /\ l <= P[k + 1]
          BY <4>2, <3>1, <3>2
        <5> QED BY <5>1
      <4>3. \A a, b \in Nat : \A c \in 1 .. b : c <= a \/ c > a
        OBVIOUS
      <4>4. l <= P[k] \/ l > P[k]
        BY <4>3, <3>2, Zenon
      <4> QED BY <4>1, <4>2, <4>4
    <3>6. Holds(k + 1)
      <4> SUFFICES ASSUME NEW m \in 1 .. k + 1, NEW j \in 1 .. Len(s[m])
                   PROVE  g[k + 1][P[m - 1] + j] = s[m][j]
        OBVIOUS
      <4>1. CASE k = 0
        <5>1. m = 1 /\ k + 1 = 1 /\ m - 1 = 0
          BY <4>1
        <5> QED BY <5>1, <2>1, <2>3
      <4>2. CASE k # 0
        <5>1. k \in 1 .. N /\ k + 1 \in 2 .. N
          BY <4>2, <3>1
        <5>2. /\ g[k + 1] = g[k] \o s[k + 1] /\ g[k] \in Seq(X) /\ s[k + 1] \in Seq(X)
              /\ Len(g[k]) = P[k]
          BY <5>1, <3>1, <2>0, <2>1, <2>2
        <5>3. CASE m = k + 1
          <6>1. j \in 1 .. Len(s[k + 1]) /\ j \in Nat /\ m - 1 = k
            BY <5>3, <3>1
          <6>2. \A a, b \in Seq(X) : \A l \in 1 .. Len(b) : (a \o b)[Len(a) + l] = b[l]
            BY SMTT(40)
          <6>3. g[k + 1][Len(g[k]) + j] = s[k + 1][j]
            <7>1. g[k] \in Seq(X) /\ s[k + 1] \in Seq(X) /\ j \in 1 .. Len(s[k + 1])
              BY <6>1, <5>2
            <7>2. (g[k] \o s[k + 1])[Len(g[k]) + j] = s[k + 1][j]
              BY <6>2, <7>1, Zenon
            <7> QED BY <5>2, <7>2, Zenon
          <6> QED BY <5>2, <5>3, <6>1, <6>3, Zenon
        <5>4. CASE m # k + 1
          <6>1. m \in 1 .. k /\ m \in 1 .. N /\ m - 1 \in 0 .. N /\ m \in 0 .. k /\ m \in 0 .. N
            BY <5>4, <3>1
          <6>2. /\ P[m] = P[m - 1] + Len(s[m]) /\ P[m] <= P[k] /\ Len(s[m]) \in Nat
                /\ P[m - 1] \in Nat /\ P[m] \in Nat
            BY <6>1, <2>0, <2>3, <2>4, <3>3
          <6>3. j \in Nat /\ j >= 1 /\ j <= Len(s[m])
            BY <6>2
          <6>4. P[m - 1] + j \in 1 .. Len(g[k])
            <7>1. \A a, b, c, d, e \in Nat :
                    d = a + b /\ d <= c /\ e >= 1 /\ e <= b => a + e \in 1 .. c
              OBVIOUS
            <7>2. P[m - 1] + j \in 1 .. P[k]
              BY <7>1, <6>2, <6>3, <3>2, Zenon
            <7> QED BY <7>2, <5>2, Zenon
          <6>5. g[k + 1][P[m - 1] + j] = g[k][P[m - 1] + j]
            <7>1. \A a, b \in Seq(X) : \A l \in 1 .. Len(a) : (a \o b)[l] = a[l]
              OBVIOUS
            <7> QED BY <7>1, <6>4, <5>2, Zenon
          <6>6. g[k][P[m - 1] + j] = s[m][j]
            BY <6>1, <3>3, <4>2
          <6> QED BY <6>5, <6>6
        <5> QED BY <5>3, <5>4
      <4> QED BY <4>1, <4>2
    <3> HIDE DEF Grows, Holds, Covers
    <3> QED BY <3>1, <3>4, <3>5, <3>6
  <2> HIDE DEF T
  <2>7. \A k \in 0 .. N : k \in T
    BY <2>0, <2>5, <2>6, UpTo
  <2> HIDE DEF Grows, Holds, Covers
  <2>8. /\ N \in 0 .. N /\ N \in 1 .. N /\ N # 0 /\ \A k \in 0 .. N : Grows(k)
        /\ Holds(N) /\ Covers(N)
    <3>1. N \in 0 .. N /\ N \in 1 .. N /\ N # 0
      BY <2>0
    <3> QED BY <3>1, <2>7 DEF T
  <2>9. Len(FlattenSeq(s)) = P[N] /\ FlattenSeq(s) = g[N] /\ g[N] \in Seq(X)
    BY <2>1, <2>2, <2>8
  <2>10. \A j, k \in 0 .. N : j <= k => P[j] <= P[k]
    <3> SUFFICES ASSUME NEW j \in 0 .. N, NEW k \in 0 .. N, j <= k PROVE P[j] <= P[k]
      OBVIOUS
    <3>1. j \in 0 .. k
      BY <2>0
    <3> QED BY <3>1, <2>8 DEF Grows
  <2>11. Laid(FlattenSeq(s), s, P)
    BY <2>3, <2>4, <2>8, <2>9, <2>10 DEF N, Laid, Holds, Covers
  <2> QED BY <2>9, <2>11
<1> QED BY <1>1, <1>2

---------------------------------------------------------------------------
(* The map file.                                                           *)

Byte  == 0 .. 255
Sizes == 1 .. 62    \* of the codes

LEMMA SizesPositive == \A a \in Sizes : a \in Nat /\ a >= 1
  BY DEF Sizes

\* C gives every character of S a code of at most 62 bits, none a prefix of
\* another.
CodeTable(C, S) ==
    /\ S \in SUBSET Byte
    /\ C \in [S -> Bits]
    /\ \A c \in S : Len(C[c]) \in Sizes
    /\ \A c, d \in S : c # d => ~ IsPrefix(C[c], C[d])

\* deflate has such a table; the most frequent character has only zeros.
LEMMA CodesTabled ==
    ASSUME CInv, Short, Passed, hpc = "coded", n > 1
    PROVE  /\ CodeTable(CodeOf, ToSet(text))
           /\ charAccordingToFreq(text)[n] \in ToSet(text)
           /\ CodeOf[charAccordingToFreq(text)[n]] = huffmanCodes[1]
           /\ \A b \in 1 .. Len(huffmanCodes[1]) : huffmanCodes[1][b] = 0
<1> DEFINE B == charAccordingToFreq(text)
           S == ToSet(text)
           at(c) == CHOOSE k \in DOMAIN B : B[k] = c
<1>1. text \in Seq(0 .. 255) /\ n \in Nat /\ n = Cardinality(S)
  BY FrequenciesAddUp DEF Passed
<1>2. Lists(B, S)
  BY <1>1, CharactersByFrequency
<1>3. S \in SUBSET (0 .. 255)
  BY <1>1, Characters
<1>4. /\ DOMAIN B = 1 .. n /\ B \in Seq(S)
      /\ \A j, k \in DOMAIN B : B[j] = B[k] => j = k
      /\ \A c \in S : \E k \in DOMAIN B : B[k] = c
  BY <1>1, <1>2 DEF Lists
<1>5. /\ huffmanCodes \in Seq(Bits) /\ Len(huffmanCodes) = n
      /\ \A k \in 1 .. n : Len(huffmanCodes[k]) = A[k - 1]
  BY DEF CInv, Coding
<1>6. PrefixFree
  BY <1>1, CodingComplete DEF CInv
<1>7. /\ \A j \in 0 .. n - 1 : A[j] \in 1 .. 62
      /\ \A b \in 1 .. Len(huffmanCodes[1]) : huffmanCodes[1][b] = 0
  BY DEF Short
<1>8. CodeOf = [c \in S |-> huffmanCodes[n + 1 - at(c)]]
  BY DEF CodeOf
<1> HIDE DEF B, S
<1>9. \A c \in S : at(c) \in 1 .. n /\ B[at(c)] = c
  BY <1>4
<1> HIDE DEF at
<1>10. \A c \in S : n + 1 - at(c) \in 1 .. n
  BY <1>1, <1>9
<1>11. \A k \in 1 .. n : huffmanCodes[k] \in Bits /\ Len(huffmanCodes[k]) \in 1 .. 62
  <2> TAKE k \in 1 .. n
  <2>1. k - 1 \in 0 .. n - 1
    BY <1>1
  <2>2. huffmanCodes[k] \in Bits
    BY <1>5
  <2>3. Len(huffmanCodes[k]) \in 1 .. 62
    BY <2>1, <1>5, <1>7, Zenon
  <2> QED BY <2>2, <2>3
<1>12. \A c \in S : CodeOf[c] = huffmanCodes[n + 1 - at(c)]
  BY <1>8
<1>13. \A c \in S : CodeOf[c] \in Bits /\ Len(CodeOf[c]) \in 1 .. 62
  BY <1>10, <1>11, <1>12, Zenon
<1>14. CodeOf \in [S -> Bits]
  BY <1>8, <1>12, <1>13
<1>15. ASSUME NEW c \in S, NEW d \in S, c # d PROVE ~ IsPrefix(CodeOf[c], CodeOf[d])
  <2>1. at(c) # at(d) /\ at(c) \in 1 .. n /\ at(d) \in 1 .. n
    BY <1>9, <1>15
  <2>2. n + 1 - at(c) # n + 1 - at(d)
    BY <1>1, <2>1
  <2>3. \A j, k \in 1 .. n : j # k => ~ IsPrefix(huffmanCodes[j], huffmanCodes[k])
    BY <1>6 DEF PrefixFree
  <2> QED BY <2>2, <2>3, <1>10, <1>12, Zenon
<1>16. B[n] \in S /\ CodeOf[B[n]] = huffmanCodes[1]
  <2>1. n \in 1 .. n
    BY <1>1
  <2>2. B[n] \in S
    <3>1. \A q \in Seq(S) : \A k \in DOMAIN q : q[k] \in S
      OBVIOUS
    <3> QED BY <2>1, <3>1, <1>4, Zenon
  <2>3. at(B[n]) = n
    BY <2>1, <2>2, <1>4, <1>9
  <2>4. n + 1 - n = 1
    BY <1>1
  <2> QED BY <2>2, <2>3, <2>4, <1>12
<1>17. CodeTable(CodeOf, S)
  BY <1>3, <1>13, <1>14, <1>15 DEF CodeTable, Byte, Sizes
<1> QED BY <1>7, <1>16, <1>17 DEF B, S

\* E has, up to P[k], the entries of the first k characters.
MapLaid(E, C, keys, P) ==
    /\ P \in [0 .. Len(keys) -> Nat] /\ P[0] = 0 /\ Len(E) = P[Len(keys)]
    /\ \A j, k \in 0 .. Len(keys) : j <= k => P[j] <= P[k]
    /\ \A k \in 1 .. Len(keys) :
          /\ P[k] = P[k - 1] + 9 + Len(C[keys[k]])
          /\ E[P[k - 1] + 1] = keys[k] /\ E[P[k - 1] + 2] = Len(C[keys[k]])
          /\ \A j \in 3 .. 9 : E[P[k - 1] + j] = 0
          /\ \A b \in 1 .. Len(C[keys[k]]) : E[P[k - 1] + 9 + b] = 48 + C[keys[k]][b]
    /\ \A l \in 1 .. Len(E) : \E k \in 1 .. Len(keys) : P[k - 1] < l /\ l <= P[k]

LEMMA MapLayout ==
    ASSUME NEW S, NEW C, CodeTable(C, S)
    PROVE  /\ encodeMapToBinaryFile(C) \in Seq(Byte)
           /\ \E keys, P : Lists(keys, S) /\ MapLaid(encodeMapToBinaryFile(C), C, keys, P)
<1> DEFINE keys == Ordered(S, CharLess)
           N == Cardinality(S)
           digits(c) == [b \in DOMAIN C[c] |-> 48 + C[c][b]]
           entry(c) == <<c, Len(C[c])>> \o Zeros(7) \o digits(c)
           s == [k \in DOMAIN keys |-> entry(keys[k])]
           E == FlattenSeq(s)
<1>1. /\ S \in SUBSET (0 .. 255) /\ DOMAIN C = S
      /\ \A c \in S : C[c] \in Bits /\ Len(C[c]) \in 1 .. 62
  BY DEF CodeTable, Byte, Sizes
<1>2. Lists(keys, S) /\ IsFiniteSet(S)
  BY <1>1, CharactersListed
<1>3. N \in Nat /\ DOMAIN keys = 1 .. N /\ Len(keys) = N /\ \A k \in 1 .. N : keys[k] \in S
  <2>1. \A q \in Seq(S) : \A k \in DOMAIN q : q[k] \in S
    OBVIOUS
  <2> QED BY <2>1, <1>2, FS_CardinalityType DEF Lists
<1>4. encodeMapToBinaryFile(C) = E
  BY <1>1 DEF encodeMapToBinaryFile
<1> HIDE DEF keys
<1>5. ASSUME NEW c \in S
      PROVE  LET L == Len(C[c]) IN
             /\ L \in 1 .. 62
             /\ entry(c) \in Seq(0 .. 255) /\ Len(entry(c)) = 9 + L
             /\ entry(c)[1] = c /\ entry(c)[2] = L
             /\ \A j \in 3 .. 9 : entry(c)[j] = 0
             /\ \A b \in 1 .. L : entry(c)[9 + b] = 48 + C[c][b]
  <2>1. PICK L \in 1 .. 62 : L = Len(C[c])
    BY <1>1
  <2>2. C[c] \in Seq({0, 1}) /\ c \in 0 .. 255
    BY <1>1 DEF Bits
  <2>3. digits(c) \in Seq(0 .. 255) /\ Len(digits(c)) = L /\ \A b \in 1 .. L : digits(c)[b] = 48 + C[c][b]
    <3>1. DOMAIN C[c] = 1 .. L /\ \A b \in 1 .. L : C[c][b] \in {0, 1}
      BY <2>1, <2>2
    <3>2. \A b \in 1 .. L : 48 + C[c][b] \in 0 .. 255
      <4>1. \A x \in {0, 1} : 48 + x \in 0 .. 255
        OBVIOUS
      <4> QED BY <3>1, <4>1, Zenon
    <3>3. digits(c) \in [1 .. L -> 0 .. 255]
      BY <3>1, <3>2
    <3>4. \A b \in 1 .. L : digits(c)[b] = 48 + C[c][b]
      BY <3>1
    <3>5. L \in Nat
      OBVIOUS
    <3> HIDE DEF digits
    <3>6. digits(c) \in Seq(0 .. 255) /\ Len(digits(c)) = L
      BY <3>3, <3>5, FcnSeq
    <3> QED BY <3>4, <3>6
  <2> HIDE DEF digits
  <2>4. Zeros(7) \in Seq(0 .. 255) /\ Len(Zeros(7)) = 7 /\ \A b \in 1 .. 7 : Zeros(7)[b] = 0
    BY DEF Zeros
  <2>5. PICK a : a = <<c, L>>
    OBVIOUS
  <2>6. a \in Seq(0 .. 255) /\ Len(a) = 2 /\ a[1] = c /\ a[2] = L
    <3>1. c \in 0 .. 255 /\ L \in 0 .. 255
      BY <2>2
    <3> QED BY <3>1, <2>5
  <2>7. PICK z : z = Zeros(7)
    OBVIOUS
  <2>8. PICK d : d = digits(c)
    OBVIOUS
  <2>9. PICK e : e = a \o z
    OBVIOUS
  <2>joined. \A f, g \in Seq(0 .. 255) :
               /\ f \o g \in Seq(0 .. 255) /\ Len(f \o g) = Len(f) + Len(g)
               /\ \A l \in 1 .. Len(f) : (f \o g)[l] = f[l]
               /\ \A l \in 1 .. Len(g) : (f \o g)[Len(f) + l] = g[l]
    OBVIOUS
  <2>10. /\ e \in Seq(0 .. 255) /\ Len(e) = 9
         /\ e[1] = c /\ e[2] = L /\ \A j \in 3 .. 9 : e[j] = 0
    <3>1. z \in Seq(0 .. 255) /\ Len(z) = 7 /\ \A b \in 1 .. 7 : z[b] = 0
      BY <2>4, <2>7
    <3>2. /\ e \in Seq(0 .. 255) /\ Len(e) = 2 + 7
          /\ \A l \in 1 .. 2 : e[l] = a[l]
          /\ \A l \in 1 .. 7 : e[2 + l] = z[l]
      <4>1. /\ a \o z \in Seq(0 .. 255) /\ Len(a \o z) = Len(a) + Len(z)
            /\ \A l \in 1 .. Len(a) : (a \o z)[l] = a[l]
            /\ \A l \in 1 .. Len(z) : (a \o z)[Len(a) + l] = z[l]
        BY <2>6, <3>1, <2>joined, Zenon
      <4> QED BY <2>6, <2>9, <3>1, <4>1, Zenon
    <3>3. \A j \in 3 .. 9 : j - 2 \in 1 .. 7 /\ 2 + (j - 2) = j
      OBVIOUS
    <3>4. \A j \in 3 .. 9 : e[j] = 0
      BY <3>1, <3>2, <3>3, ZenonT(60)
    <3>5. 1 \in 1 .. 2 /\ 2 \in 1 .. 2 /\ 2 + 7 = 9
      OBVIOUS
    <3> QED BY <2>6, <3>2, <3>4, <3>5, Zenon
  <2>12. /\ e \o d \in Seq(0 .. 255) /\ Len(e \o d) = 9 + L
         /\ (e \o d)[1] = c /\ (e \o d)[2] = L /\ \A j \in 3 .. 9 : (e \o d)[j] = 0
         /\ \A b \in 1 .. L : (e \o d)[9 + b] = d[b]
    <3>1. 1 \in 1 .. 9 /\ 2 \in 1 .. 9 /\ \A j \in 3 .. 9 : j \in 1 .. 9
      OBVIOUS
    <3>2. /\ e \o d \in Seq(0 .. 255) /\ Len(e \o d) = 9 + L
          /\ \A l \in 1 .. 9 : (e \o d)[l] = e[l]
          /\ \A l \in 1 .. L : (e \o d)[9 + l] = d[l]
      <4>1. d \in Seq(0 .. 255) /\ Len(d) = L /\ e \in Seq(0 .. 255) /\ Len(e) = 9
        BY <2>3, <2>8, <2>10, Zenon
      <4>2. /\ e \o d \in Seq(0 .. 255) /\ Len(e \o d) = Len(e) + Len(d)
            /\ \A l \in 1 .. Len(e) : (e \o d)[l] = e[l]
            /\ \A l \in 1 .. Len(d) : (e \o d)[Len(e) + l] = d[l]
        BY <4>1, <2>joined, Zenon
      <4> QED BY <4>1, <4>2, Zenon
    <3> QED BY <2>10, <3>1, <3>2, Zenon
  <2>11. entry(c) = e \o d
    BY <2>1, <2>5, <2>7, <2>8, <2>9, Zenon
  <2> HIDE DEF entry
  <2> QED BY <2>1, <2>3, <2>8, <2>11, <2>12, Zenon
<1> HIDE DEF entry
<1>6. /\ s \in Seq(Seq(0 .. 255)) /\ Len(s) = N
      /\ \A k \in 1 .. N : s[k] = entry(keys[k])
  <2>1. s = [k \in 1 .. N |-> entry(keys[k])]
    BY <1>3
  <2>2. \A k \in 1 .. N : entry(keys[k]) \in Seq(0 .. 255)
    BY <1>3, <1>5
  <2> HIDE DEF s, N
  <2>3. s \in [1 .. N -> Seq(0 .. 255)]
    BY <2>1, <2>2
  <2>4. s \in Seq(Seq(0 .. 255)) /\ Len(s) = N
    BY <2>3, <1>3, FcnSeq
  <2> QED BY <2>1, <2>4
<1> HIDE DEF s
<1>7. E \in Seq(Byte) /\ \E P : Laid(E, s, P)
  BY <1>6, FlattenLayout DEF Byte
<1>8. PICK P : Laid(E, s, P)
  BY <1>7
<1> HIDE DEF E, N
<1>9. /\ P \in [0 .. N -> Nat] /\ P[0] = 0 /\ Len(E) = P[N]
      /\ \A j, k \in 0 .. N : j <= k => P[j] <= P[k]
      /\ \A l \in 1 .. Len(E) : \E k \in 1 .. N : P[k - 1] < l /\ l <= P[k]
      /\ \A k \in 1 .. N : P[k] = P[k - 1] + Len(s[k])
      /\ \A k \in 1 .. N : \A j \in 1 .. Len(s[k]) : E[P[k - 1] + j] = s[k][j]
  BY <1>6, <1>8 DEF Laid
<1>10. ASSUME NEW k \in 1 .. N
       PROVE  /\ P[k] = P[k - 1] + 9 + Len(C[keys[k]])
              /\ E[P[k - 1] + 1] = keys[k] /\ E[P[k - 1] + 2] = Len(C[keys[k]])
              /\ \A j \in 3 .. 9 : E[P[k - 1] + j] = 0
              /\ \A b \in 1 .. Len(C[keys[k]]) : E[P[k - 1] + 9 + b] = 48 + C[keys[k]][b]
  <2>1. PICK c \in S : c = keys[k]
    BY <1>3
  <2>2. PICK L \in 1 .. 62 : L = Len(C[c])
    BY <1>1
  <2>3. PICK p \in Nat : p = P[k - 1]
    <3>1. k - 1 \in 0 .. N
      BY <1>3
    <3> QED BY <3>1, <1>9
  <2>4. /\ Len(entry(c)) = 9 + L /\ entry(c)[1] = c /\ entry(c)[2] = L
        /\ \A j \in 3 .. 9 : entry(c)[j] = 0
        /\ \A b \in 1 .. L : entry(c)[9 + b] = 48 + C[c][b]
    BY <1>5, <2>2
  <2>5. s[k] = entry(c)
    BY <1>6, <2>1
  <2>6. P[k] = p + (9 + L) /\ \A j \in 1 .. 9 + L : E[p + j] = entry(c)[j]
    BY <1>9, <2>3, <2>4, <2>5, ZenonT(60)
  <2>7. \A b \in 1 .. L : 9 + b \in 1 .. 9 + L /\ p + 9 + b = p + (9 + b)
    OBVIOUS
  <2>8. /\ 1 \in 1 .. 9 + L /\ 2 \in 1 .. 9 + L /\ \A j \in 3 .. 9 : j \in 1 .. 9 + L
    OBVIOUS
  <2>9. /\ E[p + 1] = c /\ E[p + 2] = L /\ \A j \in 3 .. 9 : E[p + j] = 0
        /\ \A b \in 1 .. L : E[p + (9 + b)] = 48 + C[c][b]
    BY <2>4, <2>6, <2>7, <2>8, Zenon
  <2>10. P[k] = p + 9 + L
    BY <2>6
  <2>11. \A b \in 1 .. L : E[p + 9 + b] = 48 + C[c][b]
    BY <2>7, <2>9, Zenon
  <2> QED BY <2>1, <2>2, <2>3, <2>9, <2>10, <2>11, Zenon
<1>11. MapLaid(E, C, keys, P)
  BY <1>3, <1>9, <1>10 DEF MapLaid, N
<1> QED BY <1>2, <1>4, <1>7, <1>11

\* What SubSeq and \o give, element by element.
LEMMA CutAndJoin ==
    ASSUME NEW X
    PROVE  /\ \A s \in Seq(X) : \A a \in 1 .. Len(s) + 1 : \A b \in a - 1 .. Len(s) :
                 /\ SubSeq(s, a, b) \in Seq(X) /\ Len(SubSeq(s, a, b)) = b + 1 - a
                 /\ \A l \in 1 .. b + 1 - a : SubSeq(s, a, b)[l] = s[a - 1 + l]
           /\ \A f, g \in Seq(X) :
                 /\ f \o g \in Seq(X) /\ Len(f \o g) = Len(f) + Len(g)
                 /\ \A l \in 1 .. Len(f) : (f \o g)[l] = f[l]
                 /\ \A l \in 1 .. Len(g) : (f \o g)[Len(f) + l] = g[l]
<1>1. ASSUME NEW s \in Seq(X), NEW a \in 1 .. Len(s) + 1, NEW b \in a - 1 .. Len(s)
      PROVE  /\ SubSeq(s, a, b) \in Seq(X) /\ Len(SubSeq(s, a, b)) = b + 1 - a
             /\ \A l \in 1 .. b + 1 - a : SubSeq(s, a, b)[l] = s[a - 1 + l]
  OBVIOUS
<1> QED BY <1>1

\* Sequences of the same elements are the same.
LEMMA SameSequence ==
    ASSUME NEW X, NEW s \in Seq(X), NEW t \in Seq(X), NEW N \in Nat, Len(s) = N, Len(t) = N,
           \A l \in 1 .. N : s[l] = t[l]
    PROVE  s = t
  OBVIOUS

\* A 7F in the map file is a key, and behind a key comes the size of a code.
LEMMA DelimiterNowhere ==
    ASSUME NEW S, NEW C, CodeTable(C, S), NEW keys, Lists(keys, S), NEW P,
           NEW E \in Seq(Byte), MapLaid(E, C, keys, P)
    PROVE  \A k \in 1 .. Len(E) - 1 : ~ (E[k] = delimiter[1] /\ E[k + 1] = delimiter[2])
<1> SUFFICES ASSUME NEW k \in 1 .. Len(E) - 1, E[k] = delimiter[1], E[k + 1] = delimiter[2] PROVE FALSE
  OBVIOUS
<1>0. PICK N : N = Len(keys)
  OBVIOUS
<1>1. /\ P \in [0 .. N -> Nat]
      /\ \A m \in 1 .. N :
            /\ P[m] = P[m - 1] + 9 + Len(C[keys[m]])
            /\ E[P[m - 1] + 2] = Len(C[keys[m]])
            /\ \A j \in 3 .. 9 : E[P[m - 1] + j] = 0
            /\ \A b \in 1 .. Len(C[keys[m]]) : E[P[m - 1] + 9 + b] = 48 + C[keys[m]][b]
      /\ \A l \in 1 .. Len(E) : \E m \in 1 .. N : P[m - 1] < l /\ l <= P[m]
  BY <1>0, Zenon DEF MapLaid
<1>2. N \in Nat /\ k \in Nat /\ k \in 1 .. Len(E)
  BY <1>0 DEF Lists
<1>3. PICK m \in 1 .. N : P[m - 1] < k /\ k <= P[m]
  BY <1>1, <1>2, Zenon
<1>4. PICK c \in S : c = keys[m]
  <2>1. keys \in Seq(S) /\ m \in 1 .. Len(keys)
    BY <1>0 DEF Lists
  <2>2. \A q \in Seq(S) : \A j \in 1 .. Len(q) : q[j] \in S
    OBVIOUS
  <2> QED BY <2>1, <2>2, Zenon
<1>5. PICK L \in Sizes : L = Len(C[c])
  BY DEF CodeTable
<1>6. \A b \in 1 .. L : C[c][b] \in {0, 1}
  <2>1. C[c] \in Seq({0, 1})
    BY DEF CodeTable, Bits
  <2>2. \A q \in Seq({0, 1}) : \A j \in 1 .. Len(q) : q[j] \in {0, 1}
    OBVIOUS
  <2> QED BY <2>1, <2>2, <1>5, Zenon
<1>7. PICK p \in Nat : p = P[m - 1]
  <2>1. m - 1 \in 0 .. N
    BY <1>2
  <2>2. \A f \in [0 .. N -> Nat] : \A x \in 0 .. N : f[x] \in Nat
    OBVIOUS
  <2> QED BY <2>1, <2>2, <1>1, Zenon
<1>8. /\ P[m] = p + 9 + L /\ E[p + 2] = L
      /\ \A j \in 3 .. 9 : E[p + j] = 0
      /\ \A b \in 1 .. L : E[p + 9 + b] = 48 + C[c][b]
  BY <1>1, <1>4, <1>5, <1>7, Zenon
<1>sizes. /\ Sizes \subseteq Nat /\ \A x \in Sizes : x # delimiter[1] /\ x # delimiter[2]
          /\ 0 # delimiter[1] /\ \A x \in {0, 1} : 48 + x # delimiter[1]
  BY DEF Sizes, delimiter
<1>9. PICK j \in 1 .. 9 + L : k = p + j
  <2>1. \A x, y, z \in Nat : y < x /\ x <= y + 9 + z => x - y \in 1 .. 9 + z /\ x = y + (x - y)
    OBVIOUS
  <2>2. p < k /\ k <= p + 9 + L
    BY <1>3, <1>7, <1>8, Zenon
  <2>3. L \in Nat
    BY <1>sizes, <1>5
  <2> QED BY <2>1, <2>2, <2>3, <1>2, ZenonT(60)
<1>10. j # 1
  <2>1. p + 1 + 1 = p + 2
    OBVIOUS
  <2> QED BY <2>1, <1>5, <1>8, <1>9, <1>sizes, ZenonT(60)
<1>11. j # 2
  BY <1>5, <1>8, <1>9, <1>sizes, Zenon
<1>12. j \notin 3 .. 9
  BY <1>8, <1>9, <1>sizes, Zenon
<1>13. ~ (j >= 10)
  <2>1. SUFFICES ASSUME j >= 10 PROVE FALSE
    OBVIOUS
  <2>2. PICK b \in 1 .. L : p + j = p + 9 + b
    <3>1. j - 9 \in 1 .. L /\ p + j = p + 9 + (j - 9)
      BY <2>1, <1>5, <1>sizes
    <3> QED BY <3>1, Zenon
  <2>4. E[k] = 48 + C[c][b]
    BY <2>2, <1>8, <1>9, Zenon
  <2> QED BY <2>4, <2>2, <1>6, <1>sizes, Zenon
<1>14. j = 1 \/ j = 2 \/ j \in 3 .. 9 \/ j >= 10
  BY <1>5, <1>sizes
<1> QED BY <1>10, <1>11, <1>12, <1>13, <1>14, Zenon

\* k is where separateBinaryFile finds the delimiter in T.
FirstIn(T, k) == /\ SubSeq(T, k, k + 1) = delimiter
                 /\ \A l \in 1 .. k - 1 : SubSeq(T, l, l + 1) # delimiter

\* Where no 7F FE comes before, the first is found.
LEMMA FirstDelimiter ==
    ASSUME NEW T \in Seq(Byte), NEW e \in Nat, e + 2 <= Len(T),
           T[e + 1] = delimiter[1], T[e + 2] = delimiter[2],
           \A k \in 1 .. e - 1 : ~ (T[k] = delimiter[1] /\ T[k + 1] = delimiter[2])
    PROVE  /\ e + 1 \in 1 .. Len(T) - 1
           /\ \A k \in 1 .. Len(T) - 1 : FirstIn(T, k) <=> k = e + 1
<1>1. Len(T) \in Nat /\ e + 1 \in 1 .. Len(T) - 1 /\ (e + 1) + 1 = e + 2
  OBVIOUS
<1>2. \A k \in 1 .. Len(T) - 1 :
         SubSeq(T, k, k + 1) = delimiter <=> T[k] = delimiter[1] /\ T[k + 1] = delimiter[2]
  <2> TAKE k \in 1 .. Len(T) - 1
  <2>1. /\ k \in 1 .. Len(T) + 1 /\ k + 1 \in k - 1 .. Len(T)
        /\ (k + 1) + 1 - k = 2 /\ k - 1 + 1 = k /\ k - 1 + 2 = k + 1
        /\ 1 \in 1 .. 2 /\ 2 \in 1 .. 2
    OBVIOUS
  <2>2. \A s \in Seq(Byte) : \A a \in 1 .. Len(s) + 1 : \A b \in a - 1 .. Len(s) :
           /\ SubSeq(s, a, b) \in Seq(Byte) /\ Len(SubSeq(s, a, b)) = b + 1 - a
           /\ \A l \in 1 .. b + 1 - a : SubSeq(s, a, b)[l] = s[a - 1 + l]
    BY CutAndJoin
  <2>3. PICK q : q = SubSeq(T, k, k + 1)
    OBVIOUS
  <2>4. /\ q \in Seq(Byte) /\ Len(q) = 2
        /\ \A l \in 1 .. 2 : q[l] = T[k - 1 + l]
    BY <2>1, <2>2, <2>3, Zenon
  <2>5. q[1] = T[k] /\ q[2] = T[k + 1]
    BY <2>1, <2>4, Zenon
  <2>6. \A f \in Seq(Byte) : Len(f) = 2 =>
           (f = delimiter <=> f[1] = delimiter[1] /\ f[2] = delimiter[2])
    BY DEF delimiter
  <2> QED BY <2>3, <2>4, <2>5, <2>6, Zenon
<1>3. \A l \in 1 .. e : SubSeq(T, l, l + 1) # delimiter
  <2> SUFFICES ASSUME NEW l \in 1 .. e, T[l] = delimiter[1], T[l + 1] = delimiter[2] PROVE FALSE
    <3>1. \A l \in 1 .. e : l \in 1 .. Len(T) - 1
      BY <1>1
    <3> QED BY <3>1, <1>2, Zenon
  <2>1. CASE l = e
    <3>1. delimiter[1] # delimiter[2]
      BY DEF delimiter
    <3> QED BY <2>1, <3>1, Zenon
  <2>2. CASE l # e
    <3>1. l \in 1 .. e - 1 /\ l + 1 \in 1 .. e
      BY <2>2
    <3> QED BY <3>1, Zenon
  <2> QED BY <2>1, <2>2
<1>4. SubSeq(T, e + 1, (e + 1) + 1) = delimiter
  BY <1>1, <1>2, Zenon
<1>5. (e + 1) - 1 = e /\ \A k \in 1 .. Len(T) - 1 : k < e + 1 => k \in 1 .. e
  OBVIOUS
<1>6. \A k \in 1 .. Len(T) - 1 : k < e + 1 \/ k = e + 1 \/ e + 1 \in 1 .. k - 1
  BY <1>1
<1> QED BY <1>1, <1>3, <1>4, <1>5, <1>6, Zenon DEF FirstIn

\* The two files are found as they were written.
LEMMA DelimiterHere ==
    ASSUME NEW E \in Seq(Byte), NEW D \in Seq(Byte),
           \A k \in 1 .. Len(E) - 1 : ~ (E[k] = delimiter[1] /\ E[k + 1] = delimiter[2])
    PROVE  combined = E \o delimiter \o D =>
              /\ SubSeq(combined, 1, DelimiterAt - 1) = E
              /\ SubSeq(combined, DelimiterAt + 2, Len(combined)) = D
<1>1. PICK e \in Nat, d \in Nat : e = Len(E) /\ d = Len(D)
  OBVIOUS
<1>2. /\ \A s \in Seq(Byte) : \A a \in 1 .. Len(s) + 1 : \A b \in a - 1 .. Len(s) :
            /\ SubSeq(s, a, b) \in Seq(Byte) /\ Len(SubSeq(s, a, b)) = b + 1 - a
            /\ \A l \in 1 .. b + 1 - a : SubSeq(s, a, b)[l] = s[a - 1 + l]
      /\ \A f, g \in Seq(Byte) :
            /\ f \o g \in Seq(Byte) /\ Len(f \o g) = Len(f) + Len(g)
            /\ \A l \in 1 .. Len(f) : (f \o g)[l] = f[l]
            /\ \A l \in 1 .. Len(g) : (f \o g)[Len(f) + l] = g[l]
  BY CutAndJoin
<1>3. delimiter \in Seq(Byte) /\ Len(delimiter) = 2
  BY DEF delimiter, Byte
<1>4. PICK F : F = E \o delimiter
  OBVIOUS
<1>5. /\ F \in Seq(Byte) /\ Len(F) = e + 2
      /\ \A l \in 1 .. e : F[l] = E[l]
      /\ \A l \in 1 .. 2 : F[e + l] = delimiter[l]
  <2>1. /\ E \o delimiter \in Seq(Byte) /\ Len(E \o delimiter) = Len(E) + Len(delimiter)
        /\ \A l \in 1 .. Len(E) : (E \o delimiter)[l] = E[l]
        /\ \A l \in 1 .. Len(delimiter) : (E \o delimiter)[Len(E) + l] = delimiter[l]
    BY <1>2, <1>3, Zenon
  <2> QED BY <2>1, <1>1, <1>3, <1>4, Zenon
<1>6. PICK T : T = F \o D
  OBVIOUS
<1>7. /\ T \in Seq(Byte) /\ Len(T) = (e + 2) + d
      /\ \A l \in 1 .. e + 2 : T[l] = F[l]
      /\ \A l \in 1 .. d : T[(e + 2) + l] = D[l]
  <2>1. /\ F \o D \in Seq(Byte) /\ Len(F \o D) = Len(F) + Len(D)
        /\ \A l \in 1 .. Len(F) : (F \o D)[l] = F[l]
        /\ \A l \in 1 .. Len(D) : (F \o D)[Len(F) + l] = D[l]
    BY <1>2, <1>5, Zenon
  <2> QED BY <2>1, <1>1, <1>5, <1>6, Zenon
<1>8. /\ \A l \in 1 .. e : T[l] = E[l]
      /\ T[e + 1] = delimiter[1] /\ T[e + 2] = delimiter[2]
  <2>1. \A l \in 1 .. e : l \in 1 .. e + 2
    OBVIOUS
  <2>2. 1 \in 1 .. 2 /\ 2 \in 1 .. 2 /\ e + 1 \in 1 .. e + 2 /\ e + 2 \in 1 .. e + 2
    OBVIOUS
  <2> QED BY <2>1, <2>2, <1>3, <1>5, <1>7, Zenon
<1>9. /\ e + 2 <= Len(T)
      /\ \A k \in 1 .. e - 1 : ~ (T[k] = delimiter[1] /\ T[k + 1] = delimiter[2])
  <2>1. e + 2 <= (e + 2) + d /\ \A k \in 1 .. e - 1 : k \in 1 .. e /\ k + 1 \in 1 .. e
    OBVIOUS
  <2> QED BY <2>1, <1>1, <1>7, <1>8, Zenon
<1>10. /\ e + 1 \in 1 .. Len(T) - 1
       /\ \A k \in 1 .. Len(T) - 1 : FirstIn(T, k) <=> k = e + 1
  BY <1>7, <1>8, <1>9, FirstDelimiter
<1>11. combined = T => DelimiterAt = CHOOSE k \in 1 .. Len(T) - 1 : FirstIn(T, k)
  BY DEF DelimiterAt, FirstIn
<1>12. combined = T => DelimiterAt = e + 1
  BY <1>10, <1>11
<1>13. SubSeq(T, 1, e) = E
  <2>1. 1 \in 1 .. Len(T) + 1 /\ e \in 1 - 1 .. Len(T) /\ e + 1 - 1 = e
    BY <1>7
  <2>2. \A l \in 1 .. e : 1 - 1 + l = l
    OBVIOUS
  <2>3. PICK R : R = SubSeq(T, 1, e)
    OBVIOUS
  <2>4. /\ R \in Seq(Byte) /\ Len(R) = e
        /\ \A l \in 1 .. e : R[l] = T[1 - 1 + l]
    <3>1. /\ SubSeq(T, 1, e) \in Seq(Byte) /\ Len(SubSeq(T, 1, e)) = e + 1 - 1
          /\ \A l \in 1 .. e + 1 - 1 : SubSeq(T, 1, e)[l] = T[1 - 1 + l]
      BY <2>1, <1>2, <1>7, ZenonT(60)
    <3> QED BY <2>1, <2>3, <3>1, Zenon
  <2>5. \A l \in 1 .. e : R[l] = E[l]
    BY <2>2, <2>4, <1>8, ZenonT(60)
  <2>6. R = E
    BY <2>4, <2>5, <1>1, SameSequence
  <2> QED BY <2>3, <2>6
<1>14. SubSeq(T, e + 3, Len(T)) = D
  <2>1. PICK a, N : a = e + 3 /\ N = Len(T)
    OBVIOUS
  <2>2. /\ a \in 1 .. N + 1 /\ N \in a - 1 .. N
        /\ N + 1 - a = d /\ a - 1 = e + 2
    BY <2>1, <1>7
  <2>3. PICK R : R = SubSeq(T, a, N)
    OBVIOUS
  <2>4. /\ R \in Seq(Byte) /\ Len(R) = N + 1 - a
        /\ \A l \in 1 .. N + 1 - a : R[l] = T[a - 1 + l]
    <3>1. T \in Seq(Byte) /\ a \in 1 .. Len(T) + 1 /\ N \in a - 1 .. Len(T)
      BY <2>1, <2>2, <1>7, Zenon
    <3>2. /\ SubSeq(T, a, N) \in Seq(Byte) /\ Len(SubSeq(T, a, N)) = N + 1 - a
          /\ \A l \in 1 .. N + 1 - a : SubSeq(T, a, N)[l] = T[a - 1 + l]
      BY <3>1, <1>2, ZenonT(60)
    <3> QED BY <2>3, <3>2, Zenon
  <2>5. \A l \in 1 .. d : R[l] = D[l]
    BY <2>2, <2>4, <1>7, Zenon
  <2>6. R = D
    <3>1. Len(R) = d
      BY <2>2, <2>4, Zenon
    <3>2. D \in Seq(Byte) /\ Len(D) = d /\ d \in Nat /\ R \in Seq(Byte)
      BY <2>4, <1>1
    <3> QED BY <3>1, <3>2, <2>5, SameSequence
  <2> QED BY <2>1, <2>3, <2>6
<1>15. (e + 1) - 1 = e /\ (e + 1) + 2 = e + 3
  OBVIOUS
<1>16. combined = E \o delimiter \o D => combined = T
  BY <1>4, <1>6
<1> QED BY <1>12, <1>13, <1>14, <1>15, <1>16, Zenon

---------------------------------------------------------------------------
(* A file of less than two different characters.                           *)

\* With one character the second loop writes in front of the array; with none
\* there are no codes.
Small ==
    /\ hpc \in {"tree", "levels", "codes", "coded", "crash"}
    /\ n = 0 => hpc \in {"tree", "levels", "crash"}
    /\ n = 1 /\ hpc = "levels" => \/ ~ heap
                                  \/ i = 1 /\ level_top = -1 /\ total_nodes_at_level = 2
    /\ n = 1 /\ hpc \in {"codes", "coded"} => ~ heap

LEMMA HuffmanSmall == ASSUME n \in Nat, Small, HuffmanStep PROVE Small'
<1>1. n' = n
  BY DEF HuffmanStep, TakeRoot, TakeLeaf, TreeBuilt, Level, FirstCode, PushCode, EmptyCrashes, n
<1>2. CASE TakeRoot \/ TakeLeaf \/ EmptyCrashes
  BY <1>1, <1>2 DEF Small, TakeRoot, TakeLeaf, EmptyCrashes
<1>3. CASE TreeBuilt
  <2>1. n = 1 => n - 2 = -1
    OBVIOUS
  <2> QED BY <1>1, <1>3, <2>1 DEF Small, TreeBuilt, TreeTop
<1>4. CASE Level
  <2>1. hpc = "levels" /\ hpc' = "levels"
    BY <1>4 DEF Level
  <2>2. ASSUME n = 1 PROVE ~ heap'
    <3>1. CASE ~ heap
      BY <1>4, <3>1 DEF Level
    <3>2. CASE i = 1 /\ level_top = -1 /\ total_nodes_at_level = 2
      <4>1. LevelStart = -1
        BY <3>2 DEF LevelStart
      <4>2. heap' = (heap /\ i >= total_nodes_at_level - (level_top - LevelStart))
        BY <1>4 DEF Level
      <4>3. ~ (i >= total_nodes_at_level - (level_top - LevelStart))
        BY <3>2, <4>1
      <4> QED BY <4>2, <4>3
    <3> QED BY <2>1, <2>2, <3>1, <3>2 DEF Small
  <2> QED BY <1>1, <2>1, <2>2 DEF Small
<1>5. CASE FirstCode
  <2>1. hpc = "levels" /\ hpc' = "codes" /\ heap' = heap /\ i <= 0 /\ n > 0
    BY <1>5 DEF FirstCode
  <2>2. n = 1 => ~ heap
    BY <2>1 DEF Small
  <2> QED BY <1>1, <2>1, <2>2 DEF Small
<1>6. CASE PushCode
  <2>1. hpc = "codes" /\ hpc' \in {"codes", "coded"} /\ heap' = heap
    BY <1>6 DEF PushCode
  <2> QED BY <1>1, <2>1 DEF Small
<1> QED BY <1>2, <1>3, <1>4, <1>5, <1>6 DEF HuffmanStep

---------------------------------------------------------------------------
(* What holds of the codes until the end.                                  *)

SInv == CInv /\ Passed /\ Lightest /\ Shallow /\ Short /\ Small

LEMMA InitSInv == Init => SInv
<1> SUFFICES ASSUME Init PROVE SInv
  OBVIOUS
<1>1. /\ text \in Seq(0 .. 255) /\ Len(text) <= INT_MAX /\ freq = frequencyIncreasing(text)
      /\ hpc = "tree" /\ root = 0 /\ leaf = 0 /\ next = 0 /\ pass = 0
  BY CompressionAssumption DEF Init, HuffmanInit
<1>2. n \in Nat /\ \E G \in [0 .. n -> Nat] : Sums(G, freq, n) /\ G[n] = Len(text)
  BY <1>1, FrequenciesAddUp
<1>3. PICK G \in [0 .. n -> Nat] : Sums(G, freq, n) /\ G[n] = Len(text)
  BY <1>2
<1> DEFINE W == [j \in 0 .. n - 1 |-> 0]
           H == [j \in 0 .. n |-> 0]
<1>4. W \in [0 .. n - 1 -> Nat] /\ H \in [0 .. n -> Nat] /\ H[0] = 0 /\ G[0] = 0 /\ 0 \in Nat
  BY <1>2, <1>3 DEF Sums
<1> HIDE DEF W, H
<1>5. Sums(H, W, next)
  BY <1>1, <1>4 DEF Sums
<1>6. \A j \in leaf .. n - 1 : freq[j] >= 0
  BY <1>1, FrequenciesAddUp
<1>7. Weights(W, 0, G, H)
  BY <1>1, <1>3, <1>4, <1>5, <1>6 DEF Weights
<1>8. Lightest
  BY <1>3, <1>4, <1>7 DEF Lightest
<1>9. Passed /\ Shallow /\ Short /\ Small
  BY <1>1, <1>2 DEF Passed, Shallow, Short, Small
<1> QED BY InitCInv, <1>8, <1>9 DEF SInv

\* Only HuffmanStep and the abort at the end of deflate change the codes.
LEMMA LaterSInv ==
    ASSUME SInv, text' = text, UNCHANGED hvars \/ (hpc' = "crash" /\ UNCHANGED <<freq, heap>>)
    PROVE  Passed' /\ Lightest' /\ Shallow' /\ Short' /\ Small'
<1>1. n' = n /\ freq' = freq /\ heap' = heap /\ text' = text
  BY DEF hvars, n
<1>2. Passed'
  BY <1>1 DEF SInv, Passed
<1>3. CASE hpc' = "crash"
  BY <1>1, <1>2, <1>3 DEF SInv, Lightest, Shallow, Short, Small
<1>4. CASE UNCHANGED hvars
  <2>1. Lightest'
    BY <1>1, <1>4 DEF SInv, hvars, treeVars, levelVars, Lightest, Weights
  <2>2. Shallow'
    BY <1>1, <1>4 DEF SInv, hvars, treeVars, levelVars, Shallow, Depths
  <2>3. Short'
    BY <1>1, <1>4 DEF SInv, hvars, Short
  <2>4. Small'
    BY <1>1, <1>4 DEF SInv, hvars, levelVars, Small
  <2> QED BY <1>2, <2>1, <2>2, <2>3, <2>4
<1> QED BY <1>3, <1>4

LEMMA HuffmanSInv ==
    ASSUME SInv, HuffmanStep, text' = text
    PROVE  Passed' /\ Lightest' /\ Shallow' /\ Short' /\ Small'
<1>1. n \in Nat /\ IInv /\ Parents /\ Levels /\ Coding
  BY DEF SInv, CInv, IInv, ArrayOK
<1>2. freq' = freq /\ n' = n
  BY DEF HuffmanStep, TakeRoot, TakeLeaf, TreeBuilt, Level, FirstCode, PushCode, EmptyCrashes, n
<1>3. Passed' /\ Small'
  BY <1>1, <1>2, HuffmanSmall DEF SInv, Passed
<1>4. CASE TakeRoot \/ TakeLeaf
  <2>1. hpc' = "tree"
    BY <1>4 DEF TakeRoot, TakeLeaf
  <2> QED BY <1>1, <1>3, <1>4, <2>1, TakeLightest DEF SInv, Shallow, Short
<1>5. CASE TreeBuilt
  <2>1. hpc' = "levels"
    BY <1>5 DEF TreeBuilt
  <2> QED BY <1>1, <1>3, <1>5, <2>1, TreeBuiltShallow DEF SInv, Lightest, Short
<1>6. CASE Level
  <2>1. hpc' = "levels"
    BY <1>6 DEF Level
  <2> QED BY <1>1, <1>3, <1>6, <2>1, LevelShallow DEF SInv, Lightest, Short
<1>7. CASE FirstCode
  <2>1. hpc' = "codes"
    BY <1>7 DEF FirstCode
  <2> QED BY <1>1, <1>3, <1>7, <2>1, FirstCodeShort DEF SInv, Lightest, Shallow
<1>8. CASE PushCode
  <2>1. hpc' \in {"codes", "coded"}
    BY <1>8 DEF PushCode
  <2> QED BY <1>1, <1>3, <1>8, <2>1, PushCodeShort DEF SInv, Lightest, Shallow
<1>9. CASE EmptyCrashes
  <2>1. hpc' = "crash"
    BY <1>9 DEF EmptyCrashes
  <2> QED BY <1>3, <2>1 DEF Lightest, Shallow, Short
<1> QED BY <1>4, <1>5, <1>6, <1>7, <1>8, <1>9 DEF HuffmanStep

LEMMA StepSInv == ASSUME SInv, [Next]_cvars PROVE SInv'
<1>1. CInv'
  BY StepCInv DEF SInv
<1>2. text' = text
  BY DEF Next, GetCodes, Deflate, combineBinaryFiles, separateBinaryFile, decodeBinaryFileToMap,
         inflateOpens, inflate, cvars
<1>3. HuffmanStep \/ UNCHANGED hvars \/ (hpc' = "crash" /\ UNCHANGED <<freq, heap>>)
  BY DEF Next, GetCodes, Deflate, combineBinaryFiles, separateBinaryFile, decodeBinaryFileToMap,
         inflateOpens, inflate, cvars
<1> QED BY <1>1, <1>2, <1>3, HuffmanSInv, LaterSInv DEF SInv

---------------------------------------------------------------------------
(* The data file.                                                          *)

Bit == {0, 1}

\* What eight bits make.
byteOf(b1, b2, b3, b4, b5, b6, b7, b8) ==
    b1 + 2 * b2 + 4 * b3 + 8 * b4 + 16 * b5 + 32 * b6 + 64 * b7 + 128 * b8

\* packBits makes bytes, and readBinaryFile the bits they were made of.
LEMMA PackedBits ==
    ASSUME NEW bits \in Bits, Len(bits) % 8 = 0
    PROVE  packBits(bits) \in Seq(Byte) /\ readBinaryFile(packBits(bits)) = bits
<1>1. PICK K \in Nat : Len(bits) = 8 * K /\ Len(bits) \div 8 = K
  <2>1. Len(bits) \in Nat
    BY DEF Bits
  <2> QED BY <2>1
<1> DEFINE at(k, j) == bits[8 * k - 8 + j]
           value(k) == byteOf(at(k, 1), at(k, 2), at(k, 3), at(k, 4),
                              at(k, 5), at(k, 6), at(k, 7), at(k, 8))
<1>2. ASSUME NEW k \in 1 .. K
      PROVE  /\ \A j \in 1 .. 8 : at(k, j) \in {0, 1}
             /\ \A j \in 1 .. 8 : SubSeq(bits, 8 * k - 7, 8 * k)[j] = at(k, j)
  <2>1. \A q \in Seq({0, 1}) : \A l \in 1 .. Len(q) : q[l] \in {0, 1}
    OBVIOUS
  <2>2. \A j \in 1 .. 8 : 8 * k - 8 + j \in 1 .. Len(bits)
    BY <1>1
  <2>3. \A j \in 1 .. 8 : at(k, j) \in {0, 1}
    BY <2>1, <2>2 DEF Bits
  <2>4. PICK a, b : a = 8 * k - 7 /\ b = 8 * k
    OBVIOUS
  <2>5. /\ a \in 1 .. Len(bits) + 1 /\ b \in a - 1 .. Len(bits) /\ b + 1 - a = 8
        /\ \A j \in 1 .. 8 : a - 1 + j = 8 * k - 8 + j
    BY <1>1, <2>4
  <2>6. \A s \in Seq({0, 1}) : \A f \in 1 .. Len(s) + 1 : \A g \in f - 1 .. Len(s) :
           /\ SubSeq(s, f, g) \in Seq({0, 1}) /\ Len(SubSeq(s, f, g)) = g + 1 - f
           /\ \A l \in 1 .. g + 1 - f : SubSeq(s, f, g)[l] = s[f - 1 + l]
    BY CutAndJoin
  <2>7. \A l \in 1 .. b + 1 - a : SubSeq(bits, a, b)[l] = bits[a - 1 + l]
    BY <2>5, <2>6, Zenon DEF Bits
  <2>8. \A l \in 1 .. 8 : SubSeq(bits, a, b)[l] = at(k, l)
    BY <2>5, <2>7, Zenon
  <2> QED BY <2>3, <2>4, <2>8, Zenon
<1>3. packBits(bits) = [k \in 1 .. K |-> value(k)]
  <2> DEFINE byte(b) == b[1] + 2 * b[2] + 4 * b[3] + 8 * b[4]
                        + 16 * b[5] + 32 * b[6] + 64 * b[7] + 128 * b[8]
  <2>1. \A k \in 1 .. K : byte(SubSeq(bits, 8 * k - 7, 8 * k)) = value(k)
    <3> TAKE k \in 1 .. K
    <3>1. /\ 1 \in 1 .. 8 /\ 2 \in 1 .. 8 /\ 3 \in 1 .. 8 /\ 4 \in 1 .. 8
          /\ 5 \in 1 .. 8 /\ 6 \in 1 .. 8 /\ 7 \in 1 .. 8 /\ 8 \in 1 .. 8
      OBVIOUS
    <3> HIDE DEF at
    <3>2. PICK b : b = SubSeq(bits, 8 * k - 7, 8 * k)
      OBVIOUS
    <3>3. \A j \in 1 .. 8 : b[j] = at(k, j)
      BY <1>2, <3>2
    <3>4. byte(b) = value(k)
      BY <3>1, <3>3 DEF byteOf
    <3> QED BY <3>2, <3>4
  <2> HIDE DEF value
  <2>2. packBits(bits) = [k \in 1 .. K |-> byte(SubSeq(bits, 8 * k - 7, 8 * k))]
    BY <1>1 DEF packBits
  <2> HIDE DEF byte
  <2> QED BY <2>1, <2>2
<1>4. ASSUME NEW k \in 1 .. K
      PROVE  /\ value(k) \in Byte
             /\ \A j \in 1 .. 8 : (value(k) \div bitValue[j]) % 2 = at(k, j)
  <2> HIDE DEF at
  <2>1. /\ at(k, 1) \in Bit /\ at(k, 2) \in Bit /\ at(k, 3) \in Bit /\ at(k, 4) \in Bit
        /\ at(k, 5) \in Bit /\ at(k, 6) \in Bit /\ at(k, 7) \in Bit /\ at(k, 8) \in Bit
    BY <1>2 DEF Bit
  <2>2. PICK v : v = value(k)
    OBVIOUS
  <2>3. PICK a1 \in Bit, a2 \in Bit, a3 \in Bit, a4 \in Bit,
             a5 \in Bit, a6 \in Bit, a7 \in Bit, a8 \in Bit :
           /\ a1 = at(k, 1) /\ a2 = at(k, 2) /\ a3 = at(k, 3) /\ a4 = at(k, 4)
           /\ a5 = at(k, 5) /\ a6 = at(k, 6) /\ a7 = at(k, 7) /\ a8 = at(k, 8)
    BY <2>1
  <2>v. v = byteOf(a1, a2, a3, a4, a5, a6, a7, a8)
    BY <2>2, <2>3
  <2> HIDE DEF value
  <2>bits. /\ v \in Byte
           /\ (v \div bitValue[1]) % 2 = a1 /\ (v \div bitValue[2]) % 2 = a2
           /\ (v \div bitValue[3]) % 2 = a3 /\ (v \div bitValue[4]) % 2 = a4
           /\ (v \div bitValue[5]) % 2 = a5 /\ (v \div bitValue[6]) % 2 = a6
           /\ (v \div bitValue[7]) % 2 = a7 /\ (v \div bitValue[8]) % 2 = a8
    <3>0. v \in Byte
      BY <2>v DEF byteOf, Byte, Bit
    <3>1. (v \div bitValue[1]) % 2 = a1
      <4>1. bitValue[1] = 1
        BY DEF bitValue
      <4>2. (v \div 1) % 2 = a1
        BY <2>v DEF byteOf, Bit
      <4> QED BY <4>1, <4>2
    <3>2. (v \div bitValue[2]) % 2 = a2
      <4>1. bitValue[2] = 2
        BY DEF bitValue
      <4>2. (v \div 2) % 2 = a2
        BY <2>v DEF byteOf, Bit
      <4> QED BY <4>1, <4>2
    <3>3. (v \div bitValue[3]) % 2 = a3
      <4>1. bitValue[3] = 4
        BY DEF bitValue
      <4>2. (v \div 4) % 2 = a3
        BY <2>v DEF byteOf, Bit
      <4> QED BY <4>1, <4>2
    <3>4. (v \div bitValue[4]) % 2 = a4
      <4>1. bitValue[4] = 8
        BY DEF bitValue
      <4>2. (v \div 8) % 2 = a4
        BY <2>v DEF byteOf, Bit
      <4> QED BY <4>1, <4>2
    <3>5. (v \div bitValue[5]) % 2 = a5
      <4>1. bitValue[5] = 16
        BY DEF bitValue
      <4>2. (v \div 16) % 2 = a5
        BY <2>v DEF byteOf, Bit
      <4> QED BY <4>1, <4>2
    <3>6. (v \div bitValue[6]) % 2 = a6
      <4>1. bitValue[6] = 32
        BY DEF bitValue
      <4>2. (v \div 32) % 2 = a6
        BY <2>v DEF byteOf, Bit
      <4> QED BY <4>1, <4>2
    <3>7. (v \div bitValue[7]) % 2 = a7
      <4>1. bitValue[7] = 64
        BY DEF bitValue
      <4>2. (v \div 64) % 2 = a7
        BY <2>v DEF byteOf, Bit
      <4> QED BY <4>1, <4>2
    <3>8. (v \div bitValue[8]) % 2 = a8
      <4>1. bitValue[8] = 128
        BY DEF bitValue
      <4>2. (v \div 128) % 2 = a8
        BY <2>v DEF byteOf, Bit
      <4> QED BY <4>1, <4>2
    <3> QED BY <3>0, <3>1, <3>2, <3>3, <3>4, <3>5, <3>6, <3>7, <3>8
  <2>4. /\ v \in Byte
        /\ (v \div bitValue[1]) % 2 = at(k, 1) /\ (v \div bitValue[2]) % 2 = at(k, 2)
        /\ (v \div bitValue[3]) % 2 = at(k, 3) /\ (v \div bitValue[4]) % 2 = at(k, 4)
        /\ (v \div bitValue[5]) % 2 = at(k, 5) /\ (v \div bitValue[6]) % 2 = at(k, 6)
        /\ (v \div bitValue[7]) % 2 = at(k, 7) /\ (v \div bitValue[8]) % 2 = at(k, 8)
    BY <2>3, <2>bits, Zenon
  <2>5. \A j \in 1 .. 8 : j = 1 \/ j = 2 \/ j = 3 \/ j = 4 \/ j = 5 \/ j = 6 \/ j = 7 \/ j = 8
    OBVIOUS
  <2>6. \A j \in 1 .. 8 : (v \div bitValue[j]) % 2 = at(k, j)
    BY <2>4, <2>5, Zenon
  <2> QED BY <2>2, <2>4, <2>6, Zenon
<1> HIDE DEF value
<1>5. PICK D : D = packBits(bits)
  OBVIOUS
<1>6. D \in Seq(Byte) /\ Len(D) = K /\ \A k \in 1 .. K : D[k] = value(k)
  <2>1. D \in [1 .. K -> Byte]
    BY <1>3, <1>4, <1>5
  <2>2. \A k \in 1 .. K : D[k] = value(k)
    BY <1>3, <1>5
  <2> QED BY <2>1, <2>2, FcnSeq
<1>7. ASSUME NEW b \in 1 .. 8 * K
      PROVE  (D[(b + 7) \div 8] \div bitValue[((b - 1) % 8) + 1]) % 2 = bits[b]
  <2>1. PICK k, j : k = (b + 7) \div 8 /\ j = ((b - 1) % 8) + 1
    OBVIOUS
  <2>2. k \in 1 .. K /\ j \in 1 .. 8 /\ b = 8 * k - 8 + j
    BY <2>1
  <2>3. D[k] = value(k) /\ (value(k) \div bitValue[j]) % 2 = at(k, j)
    BY <2>2, <1>4, <1>6
  <2> QED BY <2>1, <2>2, <2>3
<1> DEFINE R == readBinaryFile(D)
<1>8. R = [b \in 1 .. 8 * K |-> bits[b]]
  BY <1>6, <1>7 DEF readBinaryFile
<1>9. bits = [b \in 1 .. 8 * K |-> bits[b]]
  BY <1>1 DEF Bits
<1> QED BY <1>5, <1>6, <1>8, <1>9

\* The padding makes the last byte full.
LEMMA Padded ==
    ASSUME packed \in Bits
    PROVE  /\ Padding \in 0 .. 7
           /\ packed \o Zeros(Padding) \in Bits
           /\ Len(packed \o Zeros(Padding)) = Len(packed) + Padding
           /\ Len(packed \o Zeros(Padding)) % 8 = 0
           /\ \A l \in 1 .. Len(packed) : (packed \o Zeros(Padding))[l] = packed[l]
           /\ \A l \in 1 .. Padding : (packed \o Zeros(Padding))[Len(packed) + l] = 0
<1>1. PICK p \in Seq({0, 1}) : p = packed
  BY DEF Bits
<1>2. PICK d \in 0 .. 7 : d = Padding /\ (Len(p) + d) % 8 = 0
  <2>1. \A l \in Nat : (8 - (l % 8)) % 8 \in 0 .. 7 /\ (l + ((8 - (l % 8)) % 8)) % 8 = 0
    OBVIOUS
  <2>2. Len(p) \in Nat
    OBVIOUS
  <2>3. PICK l \in Nat : l = Len(p)
    BY <2>2
  <2>4. Padding = (8 - (l % 8)) % 8
    BY <1>1, <2>3 DEF Padding
  <2>5. PICK d \in 0 .. 7 : d = (8 - (l % 8)) % 8 /\ (l + d) % 8 = 0
    BY <2>1
  <2> QED BY <2>3, <2>4, <2>5, Zenon
<1>3. PICK z \in Seq({0, 1}) : z = Zeros(d) /\ Len(z) = d /\ \A l \in 1 .. d : z[l] = 0
  <2>1. Zeros(d) \in Seq({0, 1}) /\ Len(Zeros(d)) = d /\ \A l \in 1 .. d : Zeros(d)[l] = 0
    BY DEF Zeros
  <2> QED BY <2>1
<1>4. /\ p \o z \in Seq({0, 1}) /\ Len(p \o z) = Len(p) + Len(z)
      /\ \A l \in 1 .. Len(p) : (p \o z)[l] = p[l]
      /\ \A l \in 1 .. Len(z) : (p \o z)[Len(p) + l] = z[l]
  BY CutAndJoin
<1> QED BY <1>1, <1>2, <1>3, <1>4 DEF Bits

\* The codes of the file's characters, one after the other.
Coded(C, t) == [k \in DOMAIN t |-> C[t[k]]]

LEMMA CodesLaid ==
    ASSUME NEW t \in Seq(0 .. 255), NEW C, CodeTable(C, ToSet(t))
    PROVE  /\ Len(Coded(C, t)) = Len(t) /\ \A k \in 1 .. Len(t) : Coded(C, t)[k] = C[t[k]]
           /\ FlattenSeq(Coded(C, t)) \in Bits
           /\ \E Q : Laid(FlattenSeq(Coded(C, t)), Coded(C, t), Q)
<1>1. Len(t) \in Nat /\ DOMAIN t = 1 .. Len(t) /\ \A k \in 1 .. Len(t) : t[k] \in ToSet(t)
  <2>1. Len(t) \in Nat /\ DOMAIN t = 1 .. Len(t)
    OBVIOUS
  <2> QED BY <2>1 DEF ToSet
<1>2. \A c \in ToSet(t) : C[c] \in Seq({0, 1})
  BY DEF CodeTable, Bits
<1>3. PICK s : s = Coded(C, t)
  OBVIOUS
<1>4. PICK N \in Nat : N = Len(t)
  OBVIOUS
<1>5. \A k \in 1 .. N : s[k] = C[t[k]]
  BY <1>1, <1>3, <1>4 DEF Coded
<1>6. s \in [1 .. N -> Seq({0, 1})]
  <2>1. \A k \in 1 .. N : s[k] \in Seq({0, 1})
    BY <1>1, <1>2, <1>4, <1>5
  <2>2. s = [k \in 1 .. N |-> s[k]]
    BY <1>1, <1>3, <1>4 DEF Coded
  <2> QED BY <2>1, <2>2
<1>7. s \in Seq(Seq({0, 1})) /\ Len(s) = N
  BY <1>6, FcnSeq
<1>8. FlattenSeq(s) \in Seq({0, 1}) /\ \E Q : Laid(FlattenSeq(s), s, Q)
  BY <1>7, FlattenLayout
<1> QED BY <1>3, <1>4, <1>5, <1>7, <1>8 DEF Bits

---------------------------------------------------------------------------
(* From deflate to inflate.                                                *)

Written == PackedFile(CodeOf)

\* What has been made in each stage.
Stages ==
    /\ stage \in {"codes", "pack", "combine", "combined", "separated", "inflating", "inflated"}
    /\ stage = "combine" => hpc = "coded" \/ (hpc = "crash" /\ ~ heap)
    /\ stage \in {"pack", "combined", "separated", "inflating", "inflated"} => hpc = "coded"
    /\ stage \in {"combined", "separated", "inflating", "inflated"} => n > 1
    /\ stage # "codes" => charWithHuffmanCodes = CodeOf
    /\ stage \notin {"codes", "pack"} => packed = FlattenSeq(Coded(CodeOf, Source))
    /\ stage = "combined" =>
          combined = encodeMapToBinaryFile(CodeOf) \o delimiter \o Written
    /\ stage \in {"separated", "inflating", "inflated"} =>
          map = encodeMapToBinaryFile(CodeOf) /\ data = Written
    /\ stage \in {"codes", "pack", "combine", "combined"} => reverseValue = {}
    /\ stage \in {"codes", "pack", "combine", "combined", "separated"} =>
          output = <<>> /\ currentCode = <<>>

\* Where the codes are, the packed ones are bits and the file consists of
\* bytes, whatever it is called.
LEMMA WrittenBytes ==
    ASSUME SInv, hpc = "coded", n > 1, packed = FlattenSeq(Coded(CodeOf, Source))
    PROVE  /\ CodeTable(CodeOf, ToSet(text)) /\ packed \in Bits
           /\ Written \in Seq(Byte)
           /\ ThreeFiles => readBinaryFile(Written) = packed \o Zeros(Padding)
<1>1. CodeTable(CodeOf, ToSet(text)) /\ text \in Seq(0 .. 255)
  BY CodesTabled DEF SInv, Passed
<1>2. Source \in Seq(0 .. 255) /\ CodeTable(CodeOf, ToSet(text))
  BY <1>1 DEF Source
<1>3. packed \in Bits
  <2>1. CASE name.ext # "bin"
    <3>1. Source = text
      BY <2>1 DEF Source
    <3> QED BY <1>1, <3>1, CodesLaid
  <2>2. CASE name.ext = "bin"
    <3>1. Coded(CodeOf, Source) = <<>>
      BY <2>2 DEF Source, Coded
    <3>2. <<>> \in Seq(Seq({0, 1}))
      OBVIOUS
    <3> QED BY <3>1, <3>2, FlattenLayout DEF Bits
  <2> QED BY <2>1, <2>2
<1>4. packed \o Zeros(Padding) \in Bits /\ Len(packed \o Zeros(Padding)) % 8 = 0
  BY <1>3, Padded
<1>5. /\ packBits(packed \o Zeros(Padding)) \in Seq(Byte)
      /\ readBinaryFile(packBits(packed \o Zeros(Padding))) = packed \o Zeros(Padding)
  BY <1>4, PackedBits
<1>6. encodeMapToBinaryFile(CodeOf) \in Seq(Byte)
  <2>1. PICK S, C : S = ToSet(text) /\ C = CodeOf
    OBVIOUS
  <2>2. CodeTable(C, S)
    BY <1>1, <2>1
  <2>3. encodeMapToBinaryFile(C) \in Seq(Byte)
    BY <2>2, MapLayout
  <2> QED BY <2>1, <2>3
<1> QED BY <1>1, <1>3, <1>5, <1>6 DEF Written, PackedFile, ThreeFiles

LEMMA WrittenKept ==
    ASSUME UNCHANGED <<name, text, freq, huffmanCodes, packed>> PROVE Written' = Written
<1>1. CodeOf' = CodeOf
  BY DEF CodeOf, n
<1>2. packBits(packed \o Zeros(Padding))' = packBits(packed \o Zeros(Padding))
  BY DEF Padding
<1>3. encodeMapToBinaryFile(CodeOf)' = encodeMapToBinaryFile(CodeOf)
  <2>1. PICK C : C = CodeOf
    OBVIOUS
  <2> QED BY <1>1, <2>1
<1> QED BY <1>2, <1>3 DEF Written, PackedFile

\* Both files come out as deflate wrote them.
LEMMA Separated ==
    ASSUME SInv, Stages, separateBinaryFile
    PROVE  map' = encodeMapToBinaryFile(CodeOf) /\ data' = Written
<1>1. /\ hpc = "coded" /\ n > 1 /\ packed = FlattenSeq(Coded(CodeOf, Source))
      /\ combined = encodeMapToBinaryFile(CodeOf) \o delimiter \o Written
  BY DEF Stages, separateBinaryFile
<1>2. CodeTable(CodeOf, ToSet(text)) /\ Written \in Seq(Byte)
  BY <1>1, WrittenBytes
<1>3. PICK E, D : E = encodeMapToBinaryFile(CodeOf) /\ D = Written
  OBVIOUS
<1>4. PICK S, C : S = ToSet(text) /\ C = CodeOf
  OBVIOUS
<1>5. CodeTable(C, S) /\ E = encodeMapToBinaryFile(C)
  BY <1>2, <1>3, <1>4
<1>6. E \in Seq(Byte) /\ \E keys, P : Lists(keys, S) /\ MapLaid(E, C, keys, P)
  BY <1>5, MapLayout
<1>7. \A k \in 1 .. Len(E) - 1 : ~ (E[k] = delimiter[1] /\ E[k + 1] = delimiter[2])
  BY <1>5, <1>6, DelimiterNowhere
<1>8. /\ SubSeq(combined, 1, DelimiterAt - 1) = E
      /\ SubSeq(combined, DelimiterAt + 2, Len(combined)) = D
  BY <1>1, <1>2, <1>3, <1>6, <1>7, DelimiterHere
<1> QED BY <1>3, <1>8 DEF separateBinaryFile

LEMMA InitStages == Init => Stages
  BY DEF Init, HuffmanInit, Stages

LEMMA StepStages == ASSUME SInv, Stages, [Next]_cvars PROVE Stages'
<1>1. CASE HuffmanStep /\ UNCHANGED <<stage, name, text, deflating, files, inflating>>
  <2>1. hpc \in {"tree", "levels", "codes"}
    BY <1>1 DEF HuffmanStep, TakeRoot, TakeLeaf, TreeBuilt, Level, FirstCode, PushCode, EmptyCrashes
  <2>2. stage = "codes"
    BY <2>1 DEF Stages
  <2> QED BY <1>1, <2>2 DEF Stages, deflating, files, inflating
<1> DEFINE same == n' = n /\ CodeOf' = CodeOf /\ text' = text /\ name' = name /\ Source' = Source
<1>2. ASSUME UNCHANGED <<name, text, freq, huffmanCodes>> PROVE same
  BY <1>2 DEF CodeOf, n, Source
<1>3. CASE GetCodes
  <2>1. same
    BY <1>2, <1>3 DEF GetCodes, hvars
  <2> QED BY <1>3, <2>1 DEF GetCodes, Stages, files, inflating, hvars
<1>4. CASE Deflate
  <2>1. same
    BY <1>2, <1>4 DEF Deflate, hvars
  <2>2. packed' = FlattenSeq(Coded(CodeOf, Source))
    BY <1>4 DEF Deflate, Stages, Coded
  <2> HIDE DEF same
  <2> QED BY <1>4, <2>1, <2>2 DEF same, Deflate, Stages, files, inflating, hvars
<1>5. CASE combineBinaryFiles
  <2>1. same
    BY <1>2, <1>5 DEF combineBinaryFiles, hvars
  <2>2. /\ stage = "combine" /\ packed = FlattenSeq(Coded(CodeOf, Source))
        /\ charWithHuffmanCodes = CodeOf
    BY <1>5 DEF combineBinaryFiles, Stages
  <2>3. combined' = encodeMapToBinaryFile(CodeOf) \o delimiter \o Written
    BY <1>5, <2>2 DEF combineBinaryFiles, Written
  <2>4. Written' = Written
    <3>1. UNCHANGED <<name, text, freq, huffmanCodes, packed>>
      BY <1>5 DEF combineBinaryFiles, deflating, hvars
    <3> QED BY <3>1, WrittenKept
  <2>5. CASE heap
    <3>1. hpc = "coded" /\ hpc' = "coded" /\ stage' = "combined" /\ n \in Nat
      BY <1>5, <2>2, <2>5 DEF combineBinaryFiles, Stages, hvars, SInv, CInv, IInv, ArrayOK
    <3>2. n > 1
      BY <2>5, <3>1 DEF SInv, Small
    <3> QED BY <1>5, <2>1, <2>2, <2>3, <2>4, <3>1, <3>2
            DEF combineBinaryFiles, Stages, deflating, inflating
  <2>6. CASE ~ heap
    BY <1>5, <2>1, <2>2, <2>6 DEF combineBinaryFiles, Stages, deflating, inflating
  <2> QED BY <2>5, <2>6
<1>6. CASE separateBinaryFile
  <2>1. same
    BY <1>2, <1>6 DEF separateBinaryFile, hvars
  <2>2. map' = encodeMapToBinaryFile(CodeOf) /\ data' = Written
    BY <1>6, Separated
  <2>3. Written' = Written
    BY <1>6, WrittenKept DEF separateBinaryFile, deflating, hvars
  <2> QED BY <1>6, <2>1, <2>2, <2>3 DEF separateBinaryFile, Stages, deflating, hvars
<1>7. CASE decodeBinaryFileToMap \/ inflateOpens \/ inflate
  <2>1. same
    BY <1>2, <1>7 DEF decodeBinaryFileToMap, inflateOpens, inflate, hvars
  <2>2. Written' = Written
    BY <1>7, WrittenKept DEF decodeBinaryFileToMap, inflateOpens, inflate, deflating, hvars
  <2>3. /\ stage \in {"separated", "inflating"} /\ stage' \in {"separated", "inflating", "inflated"}
        /\ UNCHANGED <<hpc, map, data, charWithHuffmanCodes, packed>>
        /\ stage' = "separated" => output' = output /\ currentCode' = currentCode /\ stage = "separated"
    BY <1>7 DEF decodeBinaryFileToMap, inflateOpens, inflate, hvars, files, deflating
  <2> QED BY <2>1, <2>2, <2>3 DEF Stages
<1>8. CASE UNCHANGED cvars
  <2>1. same
    BY <1>2, <1>8 DEF cvars, hvars
  <2>2. Written' = Written
    BY <1>8, WrittenKept DEF cvars, deflating, hvars
  <2> QED BY <1>8, <2>1, <2>2 DEF Stages, cvars, hvars, deflating, files, inflating
<1> QED BY <1>1, <1>3, <1>4, <1>5, <1>6, <1>7, <1>8 DEF Next

\* The file a READ has received is cut where deflate joined its two parts,
\* whatever characters the file has and however often: the map file holds no
\* 7F FE, as no code has FE bits or more.
THEOREM DelimiterFound == Spec => []SeparatedAtDelimiter
<1>1. Stages => SeparatedAtDelimiter
  BY DEF Stages, SeparatedAtDelimiter
<1> QED BY InitSInv, StepSInv, InitStages, StepStages, <1>1, PTL DEF Spec

---------------------------------------------------------------------------
(* The map file is read entry by entry.                                    *)

\* The entry read next is that of the next character, and the others remain.
NextEntry(E, C, keys, P, m) ==
    LET u == SubSeq(E, P[m] + 1, Len(E)) IN
    IF u = <<>> THEN m = Len(keys)
    ELSE /\ m + 1 \in 1 .. Len(keys)
         /\ u[1] = keys[m + 1]
         /\ [b \in 1 .. u[2] |-> u[9 + b] - 48] = C[keys[m + 1]]
         /\ SubSeq(u, 10 + u[2], Len(u)) = SubSeq(E, P[m + 1] + 1, Len(E))

LEMMA EntryRead ==
    ASSUME NEW S, NEW C, CodeTable(C, S), NEW keys, Lists(keys, S), NEW P,
           NEW E \in Seq(Byte), MapLaid(E, C, keys, P),
           NEW m \in 0 .. Len(keys)
    PROVE  NextEntry(E, C, keys, P, m)
<1>0. PICK N \in Nat : N = Len(keys)
  BY DEF Lists
<1>1. /\ P \in [0 .. N -> Nat] /\ Len(E) = P[N]
      /\ \A j, k \in 0 .. N : j <= k => P[j] <= P[k]
      /\ \A k \in 1 .. N :
            /\ P[k] = P[k - 1] + 9 + Len(C[keys[k]])
            /\ E[P[k - 1] + 1] = keys[k] /\ E[P[k - 1] + 2] = Len(C[keys[k]])
            /\ \A b \in 1 .. Len(C[keys[k]]) : E[P[k - 1] + 9 + b] = 48 + C[keys[k]][b]
  BY <1>0, Zenon DEF MapLaid
<1>2. PICK e \in Nat : e = Len(E)
  OBVIOUS
<1>3. PICK p \in Nat : p = P[m] /\ p <= e
  <2>1. m \in 0 .. N /\ N \in 0 .. N /\ m <= N
    BY <1>0
  <2>2. P[m] <= P[N]
    BY <2>1, <1>1, Zenon
  <2>3. \A f \in [0 .. N -> Nat] : \A x \in 0 .. N : f[x] \in Nat
    OBVIOUS
  <2>4. P[m] \in Nat
    BY <2>1, <2>3, <1>1, Zenon
  <2> QED BY <2>2, <2>4, <1>1, <1>2, Zenon
<1>cut. \A s \in Seq(Byte) : \A a \in 1 .. Len(s) + 1 : \A b \in a - 1 .. Len(s) :
           /\ SubSeq(s, a, b) \in Seq(Byte) /\ Len(SubSeq(s, a, b)) = b + 1 - a
           /\ \A l \in 1 .. b + 1 - a : SubSeq(s, a, b)[l] = s[a - 1 + l]
  BY CutAndJoin
<1>4. PICK u : u = SubSeq(E, p + 1, e)
  OBVIOUS
<1>5. u \in Seq(Byte) /\ Len(u) = e - p /\ \A l \in 1 .. e - p : u[l] = E[p + l]
  <2>1. /\ p + 1 \in 1 .. e + 1 /\ e \in (p + 1) - 1 .. e /\ e + 1 - (p + 1) = e - p
        /\ (p + 1) - 1 = p
    <3>1. \A x, y \in Nat : x <= y => /\ x + 1 \in 1 .. y + 1 /\ y \in (x + 1) - 1 .. y
                                      /\ y + 1 - (x + 1) = y - x /\ (x + 1) - 1 = x
      OBVIOUS
    <3> QED BY <3>1, <1>3, Zenon
  <2>2. /\ SubSeq(E, p + 1, e) \in Seq(Byte) /\ Len(SubSeq(E, p + 1, e)) = e + 1 - (p + 1)
        /\ \A l \in 1 .. e + 1 - (p + 1) : SubSeq(E, p + 1, e)[l] = E[(p + 1) - 1 + l]
    BY <2>1, <1>cut, <1>2, Zenon
  <2> QED BY <2>1, <2>2, <1>4, Zenon
<1>6. CASE m = N
  <2>1. u = <<>>
    <3>1. e - p = 0
      BY <1>1, <1>2, <1>3, <1>6
    <3>2. Len(u) = 0
      BY <3>1, <1>5
    <3> QED BY <3>2, <1>5
  <2> QED BY <2>1, <1>0, <1>2, <1>3, <1>4, <1>6, Zenon DEF NextEntry
<1>7. CASE m # N
  <2>1. m + 1 \in 1 .. N /\ m + 1 \in 0 .. N /\ N \in 0 .. N /\ (m + 1) - 1 = m /\ m + 1 <= N
    BY <1>0, <1>7
  <2>2. PICK c \in S : c = keys[m + 1]
    <3>1. keys \in Seq(S) /\ m + 1 \in 1 .. Len(keys)
      BY <2>1, <1>0 DEF Lists
    <3>2. \A q \in Seq(S) : \A j \in 1 .. Len(q) : q[j] \in S
      OBVIOUS
    <3> QED BY <3>1, <3>2, Zenon
  <2>3. PICK L \in Sizes : L = Len(C[c]) /\ C[c] \in Seq({0, 1})
    BY DEF CodeTable, Bits
  <2>4. L \in Nat /\ L >= 1
    <3>1. \A x \in Sizes : x \in Nat /\ x >= 1
      BY DEF Sizes
    <3> QED BY <3>1, Zenon
  <2>5. /\ P[m + 1] = p + 9 + L /\ E[p + 1] = c /\ E[p + 2] = L
        /\ \A b \in 1 .. L : E[p + 9 + b] = 48 + C[c][b]
        /\ P[m + 1] <= e
    <3>1. PICK k \in 1 .. N : k = m + 1
      BY <2>1
    <3>2. /\ P[k] = P[k - 1] + 9 + Len(C[keys[k]])
          /\ E[P[k - 1] + 1] = keys[k] /\ E[P[k - 1] + 2] = Len(C[keys[k]])
          /\ \A b \in 1 .. Len(C[keys[k]]) : E[P[k - 1] + 9 + b] = 48 + C[keys[k]][b]
      BY <1>1, Zenon
    <3>3. keys[k] = c /\ Len(C[keys[k]]) = L /\ P[k - 1] = p
      BY <3>1, <2>1, <2>2, <2>3, <1>3, Zenon
    <3>4. P[m + 1] <= e
      BY <2>1, <1>1, <1>2, Zenon
    <3> QED BY <3>1, <3>2, <3>3, <3>4, Zenon
  <2>6. p + 9 + L <= e
    BY <2>5, Zenon
  <2>7. /\ 1 \in 1 .. e - p /\ 2 \in 1 .. e - p /\ e - p \in Nat /\ e - p # 0
        /\ \A b \in 1 .. L : 9 + b \in 1 .. e - p /\ p + (9 + b) = p + 9 + b
    BY <2>4, <2>6
  <2>8. /\ u[1] = c /\ u[2] = L /\ \A b \in 1 .. L : u[9 + b] = 48 + C[c][b]
    <3>1. u[1] = E[p + 1] /\ u[2] = E[p + 2] /\ \A b \in 1 .. L : u[9 + b] = E[p + 9 + b]
      BY <2>7, <1>5, Zenon
    <3> QED BY <2>5, <3>1, Zenon
  <2>9. [b \in 1 .. u[2] |-> u[9 + b] - 48] = C[c]
    <3>1. \A b \in 1 .. L : C[c][b] \in {0, 1}
      BY <2>3
    <3>2. \A b \in 1 .. L : u[9 + b] - 48 = C[c][b]
      <4>1. \A x \in {0, 1} : (48 + x) - 48 = x
        OBVIOUS
      <4> QED BY <3>1, <4>1, <2>8
    <3>3. C[c] = [b \in 1 .. L |-> C[c][b]]
      BY <2>3
    <3> QED BY <3>2, <3>3, <2>8
  <2>10. SubSeq(u, 10 + u[2], Len(u)) = SubSeq(E, P[m + 1] + 1, e)
    <3>1. PICK q \in Nat : q = p + 9 + L
      BY <2>4
    <3>2. /\ q + 1 \in 1 .. e + 1 /\ e \in (q + 1) - 1 .. e /\ e + 1 - (q + 1) = e - q
          /\ e - q \in Nat
      <4>1. \A x, y \in Nat : x <= y => /\ x + 1 \in 1 .. y + 1 /\ y \in (x + 1) - 1 .. y
                                        /\ y + 1 - (x + 1) = y - x /\ y - x \in Nat
        OBVIOUS
      <4> QED BY <4>1, <3>1, <2>6, Zenon
    <3>3. PICK R : R = SubSeq(E, q + 1, e)
      OBVIOUS
    <3>4. /\ R \in Seq(Byte) /\ Len(R) = e - q
          /\ \A l \in 1 .. e - q : R[l] = E[(q + 1) - 1 + l]
      <4>1. /\ SubSeq(E, q + 1, e) \in Seq(Byte) /\ Len(SubSeq(E, q + 1, e)) = e + 1 - (q + 1)
            /\ \A l \in 1 .. e + 1 - (q + 1) : SubSeq(E, q + 1, e)[l] = E[(q + 1) - 1 + l]
        BY <3>2, <1>cut, <1>2, Zenon
      <4> QED BY <3>2, <3>3, <4>1, Zenon
    <3>5. PICK a, z : a = 10 + L /\ z = e - p
      OBVIOUS
    <3>6. /\ a \in 1 .. z + 1 /\ z \in a - 1 .. z /\ z + 1 - a = e - q
          /\ \A l \in 1 .. e - q : a - 1 + l \in 1 .. e - p /\ p + (a - 1 + l) = (q + 1) - 1 + l
      BY <3>1, <3>5, <2>4, <2>6
    <3>7. PICK T : T = SubSeq(u, a, z)
      OBVIOUS
    <3>8. /\ T \in Seq(Byte) /\ Len(T) = z + 1 - a
          /\ \A l \in 1 .. z + 1 - a : T[l] = u[a - 1 + l]
      <4>1. a \in 1 .. Len(u) + 1 /\ z \in a - 1 .. Len(u)
        BY <3>5, <3>6, <1>5, Zenon
      <4>2. /\ SubSeq(u, a, z) \in Seq(Byte) /\ Len(SubSeq(u, a, z)) = z + 1 - a
            /\ \A l \in 1 .. z + 1 - a : SubSeq(u, a, z)[l] = u[a - 1 + l]
        BY <4>1, <1>cut, <1>5, Zenon
      <4> QED BY <3>7, <4>2, Zenon
    <3>9. \A l \in 1 .. e - q : T[l] = R[l]
      BY <3>4, <3>6, <3>8, <1>5, ZenonT(60)
    <3>10. T = R
      <4>1. Len(T) = e - q /\ T \in Seq(Byte) /\ R \in Seq(Byte) /\ Len(R) = e - q /\ e - q \in Nat
        BY <3>2, <3>4, <3>6, <3>8, Zenon
      <4> QED BY <4>1, <3>9, SameSequence
    <3> QED BY <3>1, <3>3, <3>5, <3>7, <3>10, <2>5, <2>8, <1>5, Zenon
  <2>11. u # <<>>
    BY <2>7, <1>5
  <2> QED BY <2>1, <2>2, <2>8, <2>9, <2>10, <2>11, <1>0, <1>2, <1>3, <1>4, Zenon DEF NextEntry
<1> QED BY <1>6, <1>7

\* So far m of the characters have been read, with their codes.
ReadSoFar(keys, P, m) ==
    /\ Lists(keys, ToSet(text)) /\ MapLaid(map, CodeOf, keys, P)
    /\ unread = SubSeq(map, P[m] + 1, Len(map))
    /\ reverseValue = {<<CodeOf[keys[j]], keys[j]>> : j \in 1 .. m}

Decoding ==
    /\ stage = "separated" => \E keys, P : \E m \in 0 .. Len(keys) : ReadSoFar(keys, P, m)
    /\ stage \in {"inflating", "inflated"} =>
          reverseValue = {<<CodeOf[c], c>> : c \in ToSet(text)}

LEMMA StepDecoding == ASSUME SInv, Stages, Decoding, [Next]_cvars PROVE Decoding'
<1> DEFINE S == ToSet(text)
           C == CodeOf
<1>1. CASE stage = "combined" /\ separateBinaryFile
  <2>1. /\ hpc = "coded" /\ n > 1 /\ packed = FlattenSeq(Coded(CodeOf, Source)) /\ reverseValue = {}
    BY <1>1 DEF Stages
  <2>2. CodeTable(C, S)
    BY <2>1, WrittenBytes
  <2>3. /\ text' = text /\ CodeOf' = CodeOf /\ stage' = "separated" /\ unread' = map'
        /\ reverseValue' = {}
    BY <1>1, <2>1 DEF separateBinaryFile, hvars, CodeOf, n
  <2>4. map' = encodeMapToBinaryFile(C)
    BY <1>1, Separated
  <2> HIDE DEF C, S
  <2>5. map' \in Seq(Byte) /\ \E keys, P : Lists(keys, S) /\ MapLaid(map', C, keys, P)
    BY <2>2, <2>4, MapLayout
  <2>6. PICK keys, P : Lists(keys, S) /\ MapLaid(map', C, keys, P)
    BY <2>5
  <2>7. 0 \in 0 .. Len(keys) /\ P[0] = 0
    BY <2>6 DEF Lists, MapLaid
  <2>8. SubSeq(map', 0 + 1, Len(map')) = map'
    BY <2>5
  <2>9. {<<C[keys[j]], keys[j]>> : j \in 1 .. 0} = {}
    OBVIOUS
  <2>10. ReadSoFar(keys, P, 0)'
    BY <2>3, <2>6, <2>7, <2>8, <2>9 DEF ReadSoFar, C, S
  <2> QED BY <2>3, <2>7, <2>10 DEF Decoding
<1>2. ASSUME stage = "separated", UNCHANGED <<hvars, name, text, packed>>
      PROVE  CodeTable(C, S) /\ text' = text /\ CodeOf' = CodeOf /\ map \in Seq(Byte)
  <2>1. /\ hpc = "coded" /\ n > 1 /\ packed = FlattenSeq(Coded(CodeOf, Source))
        /\ map = encodeMapToBinaryFile(C)
    BY <1>2 DEF Stages
  <2>2. CodeTable(C, S)
    BY <2>1, WrittenBytes
  <2>3. CodeOf' = CodeOf /\ text' = text
    BY <1>2 DEF CodeOf, n, hvars
  <2> HIDE DEF C, S
  <2>4. map \in Seq(Byte)
    BY <2>1, <2>2, MapLayout
  <2> QED BY <2>2, <2>3, <2>4
<1>3. CASE decodeBinaryFileToMap
  <2>1. /\ stage = "separated" /\ stage' = "separated" /\ unread # <<>> /\ map' = map
        /\ UNCHANGED <<hvars, name, text, packed>>
        /\ reverseValue' = reverseValue \cup
              {<<[b \in 1 .. unread[2] |-> unread[9 + b] - 48], unread[1]>>}
        /\ unread' = SubSeq(unread, 10 + unread[2], Len(unread))
    BY <1>3 DEF decodeBinaryFileToMap, files, deflating
  <2>2. CodeTable(C, S) /\ text' = text /\ CodeOf' = CodeOf /\ map \in Seq(Byte)
    BY <1>2, <2>1
  <2>3. PICK keys, P : \E m \in 0 .. Len(keys) : ReadSoFar(keys, P, m)
    BY <2>1 DEF Decoding
  <2>4. PICK m \in 0 .. Len(keys) : ReadSoFar(keys, P, m)
    BY <2>3
  <2> HIDE DEF C, S
  <2>5. /\ Lists(keys, S) /\ MapLaid(map, C, keys, P)
        /\ unread = SubSeq(map, P[m] + 1, Len(map))
        /\ reverseValue = {<<C[keys[j]], keys[j]>> : j \in 1 .. m}
    BY <2>4 DEF ReadSoFar, C, S
  <2>6. /\ m + 1 \in 1 .. Len(keys)
        /\ unread[1] = keys[m + 1]
        /\ [b \in 1 .. unread[2] |-> unread[9 + b] - 48] = C[keys[m + 1]]
        /\ SubSeq(unread, 10 + unread[2], Len(unread)) = SubSeq(map, P[m + 1] + 1, Len(map))
    <3>1. NextEntry(map, C, keys, P, m)
      BY <2>2, <2>5, EntryRead
    <3> QED BY <2>1, <2>5, <3>1, Zenon DEF NextEntry
  <2>7. reverseValue' = {<<C[keys[j]], keys[j]>> : j \in 1 .. m + 1}
    <3>1. reverseValue' = reverseValue \cup {<<C[keys[m + 1]], keys[m + 1]>>}
      BY <2>1, <2>6
    <3>2. 1 .. m + 1 = (1 .. m) \cup {m + 1}
      OBVIOUS
    <3> QED BY <3>1, <3>2, <2>5
  <2>8. ReadSoFar(keys, P, m + 1)'
    BY <2>1, <2>2, <2>5, <2>6, <2>7 DEF ReadSoFar, C, S
  <2>9. m + 1 \in 0 .. Len(keys)
    BY <2>6
  <2> QED BY <2>1, <2>8, <2>9 DEF Decoding
<1>4. CASE inflateOpens
  <2>1. /\ stage = "separated" /\ stage' = "inflating" /\ unread = <<>>
        /\ UNCHANGED <<hvars, name, text, packed, reverseValue>>
    BY <1>4 DEF inflateOpens, deflating
  <2>2. CodeTable(C, S) /\ text' = text /\ CodeOf' = CodeOf /\ map \in Seq(Byte)
    BY <1>2, <2>1
  <2>3. PICK keys, P : \E m \in 0 .. Len(keys) : ReadSoFar(keys, P, m)
    BY <2>1 DEF Decoding
  <2>4. PICK m \in 0 .. Len(keys) : ReadSoFar(keys, P, m)
    BY <2>3
  <2> HIDE DEF C, S
  <2>5. /\ Lists(keys, S) /\ MapLaid(map, C, keys, P)
        /\ unread = SubSeq(map, P[m] + 1, Len(map))
        /\ reverseValue = {<<C[keys[j]], keys[j]>> : j \in 1 .. m}
    BY <2>4 DEF ReadSoFar, C, S
  <2>6. m = Len(keys)
    <3>1. NextEntry(map, C, keys, P, m)
      BY <2>2, <2>5, EntryRead
    <3> QED BY <2>1, <2>5, <3>1, Zenon DEF NextEntry
  <2>7. DOMAIN keys = 1 .. m /\ \A j \in 1 .. m : keys[j] \in S
    <3>1. \A q \in Seq(S) : DOMAIN q = 1 .. Len(q) /\ \A j \in 1 .. Len(q) : q[j] \in S
      OBVIOUS
    <3> QED BY <3>1, <2>5, <2>6, Zenon DEF Lists
  <2>8. reverseValue = {<<C[c], c>> : c \in S}
    <3>1. \A c \in S : \E j \in 1 .. m : keys[j] = c
      BY <2>5, <2>7, Zenon DEF Lists
    <3> QED BY <3>1, <2>5, <2>7
  <2> QED BY <2>1, <2>2, <2>8 DEF Decoding, C, S
<1>5. CASE inflate
  <2>1. /\ stage = "inflating" /\ stage' \in {"inflating", "inflated"}
        /\ UNCHANGED <<hvars, text, reverseValue>>
    BY <1>5 DEF inflate
  <2>2. CodeOf' = CodeOf /\ text' = text
    BY <2>1 DEF CodeOf, n, hvars
  <2> QED BY <2>1, <2>2 DEF Decoding
<1>6. CASE HuffmanStep /\ UNCHANGED <<stage, name, text, deflating, files, inflating>>
  <2>1. hpc \in {"tree", "levels", "codes"}
    BY <1>6 DEF HuffmanStep, TakeRoot, TakeLeaf, TreeBuilt, Level, FirstCode, PushCode, EmptyCrashes
  <2>2. stage = "codes" /\ stage' = "codes"
    BY <1>6, <2>1 DEF Stages
  <2> QED BY <2>2 DEF Decoding
<1>7. CASE GetCodes \/ Deflate \/ combineBinaryFiles
  <2>1. stage' \in {"pack", "combine", "combined"}
    BY <1>7 DEF GetCodes, Deflate, combineBinaryFiles, Stages
  <2> QED BY <2>1 DEF Decoding
<1>8. CASE UNCHANGED cvars
  <2>1. CodeOf' = CodeOf /\ text' = text /\ UNCHANGED <<stage, map, unread, reverseValue>>
    BY <1>8 DEF CodeOf, n, hvars, cvars, files, inflating
  <2>2. ASSUME NEW keys, NEW P, NEW m, ReadSoFar(keys, P, m) PROVE ReadSoFar(keys, P, m)'
    BY <2>1, <2>2 DEF ReadSoFar
  <2> QED BY <2>1, <2>2 DEF Decoding
<1> QED BY <1>1, <1>3, <1>4, <1>5, <1>6, <1>7, <1>8 DEF Next, separateBinaryFile

---------------------------------------------------------------------------
(* The data file is read bit by bit.                                       *)

\* The bits B are the codes of the characters ch, up to T[k] those of the
\* first k; of the last one there are some, or none, but not all.
Stream(B, C, S, ch, T) ==
    /\ ch \in Seq(S) /\ Len(ch) >= 1
    /\ T \in [0 .. Len(ch) -> Nat] /\ T[0] = 0
    /\ \A k \in 1 .. Len(ch) : T[k] = T[k - 1] + Len(C[ch[k]])
    /\ \A j, k \in 0 .. Len(ch) : j <= k => T[j] <= T[k]
    /\ \A k \in 1 .. Len(ch) : \A b \in 1 .. Len(C[ch[k]]) :
          T[k - 1] + b <= Len(B) => B[T[k - 1] + b] = C[ch[k]][b]
    /\ T[Len(ch) - 1] <= Len(B) /\ Len(B) < T[Len(ch)]

LEMMA Increasing ==
    ASSUME NEW M \in Nat, NEW T \in [0 .. M -> Nat], \A k \in 1 .. M : T[k - 1] <= T[k]
    PROVE  \A j, k \in 0 .. M : j <= k => T[j] <= T[k]
<1> DEFINE G == {k \in 0 .. M : \A j \in 0 .. k : T[j] <= T[k]}
<1>1. 0 \in G
  OBVIOUS
<1>2. ASSUME NEW k \in 0 .. M - 1, k \in G PROVE k + 1 \in G
  <2>1. k + 1 \in 1 .. M /\ k + 1 \in 0 .. M /\ (k + 1) - 1 = k /\ k \in 0 .. M
    OBVIOUS
  <2>2. T[k] <= T[k + 1]
    BY <2>1, Zenon
  <2>3. ASSUME NEW j \in 0 .. k + 1 PROVE T[j] <= T[k + 1]
    <3>1. CASE j = k + 1
      BY <2>1, <3>1
    <3>2. CASE j # k + 1
      <4>1. j \in 0 .. k /\ j \in 0 .. M
        BY <3>2
      <4>2. T[j] <= T[k]
        BY <4>1, <1>2
      <4>3. T[j] \in Nat /\ T[k] \in Nat /\ T[k + 1] \in Nat
        BY <2>1, <4>1
      <4>4. \A a, b, c \in Nat : a <= b /\ b <= c => a <= c
        OBVIOUS
      <4> QED BY <2>2, <4>2, <4>3, <4>4, Zenon
    <3> QED BY <3>1, <3>2
  <2> QED BY <2>1, <2>3
<1> HIDE DEF G
<1>3. \A k \in 0 .. M : k \in G
  BY <1>1, <1>2, UpTo
<1> SUFFICES ASSUME NEW j \in 0 .. M, NEW k \in 0 .. M, j <= k PROVE T[j] <= T[k]
  OBVIOUS
<1>4. j \in 0 .. k
  OBVIOUS
<1> QED BY <1>3, <1>4 DEF G

LEMMA Divided ==
    \A d, L \in Nat : L >= 1 => d \div L \in Nat /\ (d \div L) * L <= d /\ d < (d \div L) * L + L
  OBVIOUS

AllZero(w) == \A b \in 1 .. Len(w) : w[b] = 0
PaddedTo(B, F, d) ==
    /\ Len(B) = Len(F) + d
    /\ \A l \in 1 .. Len(F) : B[l] = F[l]
    /\ \A l \in 1 .. d : B[Len(F) + l] = 0
StreamOf(B, C, t, z, d) ==
    \E ch, T : /\ Stream(B, C, ToSet(t), ch, T)
               /\ SubSeq(ch, 1, Len(ch) - 1) = t \o [k \in 1 .. d \div Len(C[z]) |-> z]

\* The file's codes and the padding make such a stream, of the file and copies
\* of the character z with only zeros.
LEMMA StreamMade ==
    ASSUME NEW t \in Seq(0 .. 255), NEW C, CodeTable(C, ToSet(t)),
           NEW z \in ToSet(t), AllZero(C[z]), NEW d \in Nat, NEW B,
           PaddedTo(B, FlattenSeq(Coded(C, t)), d)
    PROVE  StreamOf(B, C, t, z, d)
<1> USE DEF AllZero, PaddedTo, StreamOf
<1> PICK F : F = FlattenSeq(Coded(C, t))
  OBVIOUS
<1> DEFINE S == ToSet(t)
<1>1. PICK N \in Nat : N = Len(t)
  OBVIOUS
<1>2. PICK L \in Nat : L = Len(C[z]) /\ L >= 1
  <2>1. Len(C[z]) \in Sizes
    BY DEF CodeTable
  <2> QED BY <2>1, SizesPositive, Zenon
<1>3. PICK x \in Nat : x = d \div L /\ x * L <= d /\ d < x * L + L
  <2>1. d \div L \in Nat /\ (d \div L) * L <= d /\ d < (d \div L) * L + L
    BY <1>2, Divided, Zenon
  <2> QED BY <2>1
<1>4. /\ F \in Bits
      /\ \E Q : Laid(F, Coded(C, t), Q)
      /\ Len(Coded(C, t)) = N /\ \A k \in 1 .. N : Coded(C, t)[k] = C[t[k]]
  BY <1>1, CodesLaid
<1>5. PICK Q : Laid(F, Coded(C, t), Q)
  BY <1>4
<1>6. /\ Q \in [0 .. N -> Nat] /\ Q[0] = 0 /\ Len(F) = Q[N]
      /\ \A k \in 1 .. N : Q[k] = Q[k - 1] + Len(C[t[k]])
      /\ \A k \in 1 .. N : \A b \in 1 .. Len(C[t[k]]) : F[Q[k - 1] + b] = C[t[k]][b]
      /\ \A j, k \in 0 .. N : j <= k => Q[j] <= Q[k]
  <2>1. PICK s : s = Coded(C, t)
    OBVIOUS
  <2>2. Len(s) = N /\ \A k \in 1 .. N : s[k] = C[t[k]]
    BY <2>1, <1>4
  <2>3. /\ Q \in [0 .. N -> Nat] /\ Q[0] = 0 /\ Len(F) = Q[N]
        /\ \A k \in 1 .. N : Q[k] = Q[k - 1] + Len(s[k])
        /\ \A k \in 1 .. N : \A b \in 1 .. Len(s[k]) : F[Q[k - 1] + b] = s[k][b]
        /\ \A j, k \in 0 .. N : j <= k => Q[j] <= Q[k]
    BY <2>1, <2>2, <1>5 DEF Laid
  <2>4. ASSUME NEW k \in 1 .. N
        PROVE  /\ Q[k] = Q[k - 1] + Len(C[t[k]])
               /\ \A b \in 1 .. Len(C[t[k]]) : F[Q[k - 1] + b] = C[t[k]][b]
    <3>1. PICK v : v = s[k] /\ v = C[t[k]]
      BY <2>2
    <3>2. Q[k] = Q[k - 1] + Len(v) /\ \A b \in 1 .. Len(v) : F[Q[k - 1] + b] = v[b]
      <4>1. Q[k] = Q[k - 1] + Len(s[k])
        BY <2>3, Zenon
      <4>2. \A b \in 1 .. Len(s[k]) : F[Q[k - 1] + b] = s[k][b]
        BY <2>3, Zenon
      <4> QED BY <4>1, <4>2, <3>1, Zenon
    <3> QED BY <3>1, <3>2, Zenon
  <2> QED BY <2>3, <2>4, Zenon
<1>7. PICK q \in Nat : q = Q[N] /\ Len(F) = q /\ Len(B) = q + d
  <2>1. N \in 0 .. N
    OBVIOUS
  <2> QED BY <2>1, <1>6
<1> DEFINE M == N + x + 1
           ch == [k \in 1 .. M |-> IF k <= N THEN t[k] ELSE z]
           T == [k \in 0 .. M |-> IF k <= N THEN Q[k] ELSE q + (k - N) * L]
<1>8. \A k \in 1 .. N : t[k] \in S
  BY <1>1 DEF ToSet
<1>9. PICK cs : cs = ch
  OBVIOUS
<1>10. /\ cs \in Seq(S) /\ Len(cs) = M
       /\ \A k \in 1 .. M : cs[k] = IF k <= N THEN t[k] ELSE z
  <2>1. ch \in [1 .. M -> S]
    BY <1>8
  <2>2. M \in Nat
    OBVIOUS
  <2>3. \A k \in 1 .. M : ch[k] = IF k <= N THEN t[k] ELSE z
    OBVIOUS
  <2> HIDE DEF ch, M
  <2> QED BY <2>1, <2>2, <2>3, <1>9, FcnSeq
<1>11. PICK U : U = T
  OBVIOUS
<1>12. /\ U \in [0 .. M -> Nat] /\ U[0] = 0
       /\ \A k \in 0 .. N : U[k] = Q[k]
       /\ \A k \in N .. M : U[k] = q + (k - N) * L
  <2>1. \A k \in 0 .. N : k \in 0 .. M /\ T[k] = Q[k]
    OBVIOUS
  <2>2. ASSUME NEW k \in N .. M PROVE T[k] = q + (k - N) * L /\ q + (k - N) * L \in Nat
    <3>1. k \in 0 .. M /\ k - N \in Nat
      OBVIOUS
    <3>2. q + (k - N) * L \in Nat
      <4>1. \A a, b, c \in Nat : a + b * c \in Nat
        OBVIOUS
      <4> QED BY <3>1, <4>1, Zenon
    <3>3. CASE k = N
      <4>1. (k - N) * L = 0 /\ k <= N
        BY <3>3
      <4> QED BY <4>1, <3>1, <3>2, <3>3, <1>7
    <3>4. CASE k # N
      BY <3>1, <3>2, <3>4
    <3> QED BY <3>3, <3>4
  <2>3. \A k \in 0 .. M : k \in 0 .. N \/ k \in N .. M
    OBVIOUS
  <2>4. \A k \in 0 .. N : Q[k] \in Nat
    BY <1>6
  <2> HIDE DEF M
  <2>5. \A k \in 0 .. M : T[k] \in Nat
    <3> HIDE DEF T
    <3> QED BY <2>1, <2>2, <2>3, <2>4, Zenon
  <2>6. T = [k \in 0 .. M |-> T[k]]
    OBVIOUS
  <2>7. 0 \in 0 .. N
    OBVIOUS
  <2> HIDE DEF T
  <2>8. T \in [0 .. M -> Nat]
    BY <2>5, <2>6
  <2> QED BY <2>1, <2>2, <2>7, <2>8, <1>6, <1>11, Zenon
<1> HIDE DEF ch, T
<1>13. M \in Nat /\ M >= 1 /\ M - 1 = N + x
  OBVIOUS
<1>14. ASSUME NEW k \in 1 .. M
       PROVE  /\ U[k] = U[k - 1] + Len(C[cs[k]])
              /\ \A b \in 1 .. Len(C[cs[k]]) :
                    U[k - 1] + b <= Len(B) => B[U[k - 1] + b] = C[cs[k]][b]
  <2>1. CASE k <= N
    <3>1. k \in 1 .. N /\ k \in 0 .. N /\ k - 1 \in 0 .. N /\ cs[k] = t[k] /\ k <= N /\ N \in 0 .. N
      BY <2>1, <1>10
    <3>2. PICK l \in Nat : l = Len(C[t[k]])
      <4>1. Len(C[t[k]]) \in Sizes
        BY <3>1, <1>8 DEF CodeTable
      <4>2. \A a \in Sizes : a \in Nat
        BY DEF Sizes
      <4> QED BY <4>1, <4>2, Zenon
    <3>3. PICK u \in Nat : u = U[k - 1] /\ u = Q[k - 1] /\ Q[k] = u + l /\ U[k] = u + l /\ u + l <= q
      <4>1. Q[k - 1] \in Nat /\ U[k - 1] = Q[k - 1] /\ U[k] = Q[k]
        BY <3>1, <1>6, <1>12
      <4>2. Q[k] = Q[k - 1] + l
        BY <3>1, <3>2, <1>6, Zenon
      <4>3. Q[k] <= q
        BY <3>1, <1>6, <1>7, Zenon
      <4> QED BY <4>1, <4>2, <4>3, Zenon
    <3>4. ASSUME NEW b \in 1 .. l PROVE B[u + b] = C[t[k]][b]
      <4>1. u + b \in 1 .. q
        <5>1. \A a, e, f \in Nat : a + e <= f => \A c \in 1 .. e : a + c \in 1 .. f
          OBVIOUS
        <5> QED BY <3>3, <5>1, Zenon
      <4>2. F[u + b] = C[t[k]][b]
        BY <3>1, <3>2, <3>3, <1>6, Zenon
      <4> QED BY <4>1, <4>2, <1>7, Zenon
    <3> QED BY <3>1, <3>2, <3>3, <3>4, Zenon
  <2>2. CASE ~ (k <= N)
    <3>1. k \in N .. M /\ k - 1 \in N .. M /\ cs[k] = z /\ k \in Nat /\ k > N
      BY <2>2, <1>10
    <3>2. PICK u \in Nat : u = ((k - 1) - N) * L /\ (k - N) * L = u + L
      <4>1. ((k - 1) - N) * L \in Nat /\ (k - N) * L = ((k - 1) - N) * L + L
        BY <3>1
      <4> QED BY <4>1
    <3>3. U[k - 1] = q + u /\ U[k] = q + (u + L)
      BY <3>1, <3>2, <1>12, Zenon
    <3>4. ASSUME NEW b \in 1 .. L, (q + u) + b <= q + d PROVE B[(q + u) + b] = C[z][b]
      <4>1. u + b \in 1 .. d /\ (q + u) + b = q + (u + b)
        BY <3>4
      <4>2. B[q + (u + b)] = 0
        BY <4>1, <1>7, Zenon
      <4>3. C[z][b] = 0
        BY <1>2
      <4> QED BY <4>1, <4>2, <4>3, Zenon
    <3>5. q + (u + L) = (q + u) + L
      OBVIOUS
    <3> QED BY <3>1, <3>3, <3>4, <3>5, <1>2, <1>7, Zenon
  <2> QED BY <2>1, <2>2
<1>15. \A j, k \in 0 .. M : j <= k => U[j] <= U[k]
  <2>1. ASSUME NEW k \in 1 .. M PROVE U[k - 1] <= U[k]
    <3>1. U[k] = U[k - 1] + Len(C[cs[k]])
      BY <1>14
    <3>2. k - 1 \in 0 .. M
      OBVIOUS
    <3>3. U[k - 1] \in Nat
      BY <3>2, <1>12
    <3>4. Len(C[cs[k]]) \in Nat
      <4>1. cs[k] \in S
        BY <1>8, <1>10
      <4>2. \A c \in S : Len(C[c]) \in Nat
        BY DEF CodeTable, Sizes
      <4> QED BY <4>1, <4>2, Zenon
    <3>5. \A a, b \in Nat : a <= a + b
      OBVIOUS
    <3> QED BY <3>1, <3>3, <3>4, <3>5, Zenon
  <2> HIDE DEF M
  <2> QED BY <2>1, <1>12, <1>13, Increasing
<1>16. U[M - 1] <= Len(B) /\ Len(B) < U[M]
  <2>1. M - 1 \in N .. M /\ M \in N .. M /\ (M - 1) - N = x /\ (M - N) * L = x * L + L
    OBVIOUS
  <2>2. PICK y \in Nat : y = x * L
    OBVIOUS
  <2>3. U[M - 1] = q + y /\ U[M] = q + (y + L)
    BY <2>1, <2>2, <1>12, Zenon
  <2>4. q + y <= q + d /\ q + d < q + (y + L)
    BY <2>2, <1>3
  <2> QED BY <2>3, <2>4, <1>7, Zenon
<1>17. Stream(B, C, S, cs, U)
  <2> HIDE DEF M, S
  <2> QED BY <1>10, <1>12, <1>13, <1>14, <1>15, <1>16, Zenon DEF Stream
<1>18. SubSeq(cs, 1, M - 1) = t \o [k \in 1 .. x |-> z]
  <2>1. PICK w : w = [k \in 1 .. x |-> z]
    OBVIOUS
  <2>2. w \in Seq(S) /\ Len(w) = x /\ \A k \in 1 .. x : w[k] = z
    <3>1. w \in [1 .. x -> S] /\ \A k \in 1 .. x : w[k] = z
      BY <2>1
    <3> QED BY <3>1, FcnSeq
  <2>3. t \in Seq(S)
    <3>1. t \in [1 .. N -> S]
      <4>1. t = [k \in 1 .. N |-> t[k]]
        BY <1>1
      <4> QED BY <4>1, <1>8
    <3> QED BY <3>1, FcnSeq
  <2> HIDE DEF S
  <2>4. \A f, g \in Seq(S) :
           /\ f \o g \in Seq(S) /\ Len(f \o g) = Len(f) + Len(g)
           /\ \A l \in 1 .. Len(f) : (f \o g)[l] = f[l]
           /\ \A l \in 1 .. Len(g) : (f \o g)[Len(f) + l] = g[l]
    OBVIOUS
  <2>5. /\ t \o w \in Seq(S) /\ Len(t \o w) = N + x
        /\ \A l \in 1 .. N : (t \o w)[l] = t[l]
        /\ \A l \in 1 .. x : (t \o w)[N + l] = z
    <3>1. /\ t \o w \in Seq(S) /\ Len(t \o w) = Len(t) + Len(w)
          /\ \A l \in 1 .. Len(t) : (t \o w)[l] = t[l]
          /\ \A l \in 1 .. Len(w) : (t \o w)[Len(t) + l] = w[l]
      BY <2>2, <2>3, <2>4, Zenon
    <3> QED BY <2>2, <3>1, <1>1, Zenon
  <2>6. \A s \in Seq(S) : \A a \in 1 .. Len(s) + 1 : \A b \in a - 1 .. Len(s) :
           /\ SubSeq(s, a, b) \in Seq(S) /\ Len(SubSeq(s, a, b)) = b + 1 - a
           /\ \A l \in 1 .. b + 1 - a : SubSeq(s, a, b)[l] = s[a - 1 + l]
    OBVIOUS
  <2>7. PICK m \in Nat : m = N + x /\ M = m + 1
    OBVIOUS
  <2>8. /\ 1 \in 1 .. M + 1 /\ m \in 1 - 1 .. M /\ m + 1 - 1 = m
        /\ \A l \in 1 .. m : 1 - 1 + l = l /\ l \in 1 .. M
    BY <2>7
  <2> HIDE DEF M
  <2>9. /\ SubSeq(cs, 1, m) \in Seq(S) /\ Len(SubSeq(cs, 1, m)) = m
        /\ \A l \in 1 .. m : SubSeq(cs, 1, m)[l] = cs[l]
    <3>1. /\ SubSeq(cs, 1, m) \in Seq(S) /\ Len(SubSeq(cs, 1, m)) = m + 1 - 1
          /\ \A l \in 1 .. m + 1 - 1 : SubSeq(cs, 1, m)[l] = cs[1 - 1 + l]
      BY <2>6, <2>8, <1>10, Zenon
    <3> QED BY <2>8, <3>1, Zenon
  <2>10. ASSUME NEW l \in 1 .. m PROVE cs[l] = (t \o w)[l]
    <3>1. CASE l <= N
      <4>1. l \in 1 .. N
        BY <3>1
      <4> QED BY <4>1, <3>1, <2>5, <2>8, <1>10, Zenon
    <3>2. CASE ~ (l <= N)
      <4>1. PICK k \in 1 .. x : l = N + k
        <5>1. l - N \in 1 .. x /\ l = N + (l - N)
          BY <3>2, <2>7
        <5> QED BY <5>1
      <4> QED BY <4>1, <3>2, <2>5, <2>8, <1>10, Zenon
    <3> QED BY <3>1, <3>2
  <2>11. SubSeq(cs, 1, m) = t \o w
    <3>1. PICK f, g : f = SubSeq(cs, 1, m) /\ g = t \o w
      OBVIOUS
    <3>2. f \in Seq(S) /\ g \in Seq(S) /\ Len(f) = m /\ Len(g) = m /\ \A l \in 1 .. m : f[l] = g[l]
      BY <3>1, <2>5, <2>7, <2>9, <2>10, Zenon
    <3>3. f = g
      BY <3>2, SameSequence
    <3> QED BY <3>1, <3>3
  <2>12. M - 1 = m
    BY <2>7
  <2> QED BY <2>1, <2>11, <2>12
<1> QED BY <1>2, <1>3, <1>10, <1>17, <1>18

LEMMA PrefixGrows ==
    ASSUME NEW X, NEW w \in Seq(X)
    PROVE  /\ SubSeq(w, 1, Len(w)) = w /\ SubSeq(w, 1, 0) = <<>>
           /\ \A r \in 0 .. Len(w) - 1 : Append(SubSeq(w, 1, r), w[r + 1]) = SubSeq(w, 1, r + 1)
<1>1. SubSeq(w, 1, Len(w)) = w /\ SubSeq(w, 1, 0) = <<>>
  OBVIOUS
<1>2. ASSUME NEW r \in 0 .. Len(w) - 1
      PROVE  Append(SubSeq(w, 1, r), w[r + 1]) = SubSeq(w, 1, r + 1)
  OBVIOUS
<1> QED BY <1>1, <1>2

LEMMA RestShrinks ==
    ASSUME NEW X, NEW w \in Seq(X), NEW c \in 0 .. Len(w)
    PROVE  IF c = Len(w) THEN SubSeq(w, c + 1, Len(w)) = <<>>
           ELSE /\ SubSeq(w, c + 1, Len(w)) # <<>>
                /\ Head(SubSeq(w, c + 1, Len(w))) = w[c + 1]
                /\ Tail(SubSeq(w, c + 1, Len(w))) = SubSeq(w, (c + 1) + 1, Len(w))
<1>1. CASE c = Len(w)
  BY <1>1
<1>2. CASE c # Len(w)
  <2>1. Len(w) \in Nat /\ c + 1 \in 1 .. Len(w)
    BY <1>2
  <2> DEFINE s == SubSeq(w, c + 1, Len(w))
  <2>2. s \in Seq(X) /\ Len(s) = Len(w) - c /\ \A l \in 1 .. Len(w) - c : s[l] = w[c + l]
    BY <2>1
  <2> HIDE DEF s
  <2>3. s # <<>> /\ Head(s) = w[c + 1]
    BY <2>1, <2>2
  <2>4. /\ Tail(s) \in Seq(X) /\ Len(Tail(s)) = Len(w) - c - 1
        /\ \A l \in 1 .. Len(w) - c - 1 : Tail(s)[l] = w[c + (l + 1)]
    BY <2>1, <2>2
  <2> DEFINE t == SubSeq(w, (c + 1) + 1, Len(w))
  <2>5. /\ t \in Seq(X) /\ Len(t) = Len(w) - c - 1
        /\ \A l \in 1 .. Len(w) - c - 1 : t[l] = w[c + (l + 1)]
    <3>1. PICK k, z \in Nat : k = c + 1 /\ z = Len(w) /\ k \in 1 .. z
      BY <2>1
    <3>2. \A v \in Seq(X) : \A a, e \in Nat : 1 <= a /\ e = Len(v) /\ a <= e + 1 =>
             /\ SubSeq(v, a, e) \in Seq(X)
             /\ Len(SubSeq(v, a, e)) = e + 1 - a
             /\ \A l \in 1 .. e + 1 - a : SubSeq(v, a, e)[l] = v[a + l - 1]
      OBVIOUS
    <3>3. PICK x \in Nat : x = k + 1 /\ 1 <= x /\ x <= z + 1 /\ x = (c + 1) + 1
      BY <3>1
    <3>4. /\ SubSeq(w, x, z) \in Seq(X)
          /\ Len(SubSeq(w, x, z)) = z + 1 - x
          /\ \A l \in 1 .. z + 1 - x : SubSeq(w, x, z)[l] = w[x + l - 1]
      BY <3>1, <3>2, <3>3, ZenonT(60)
    <3>5. z + 1 - x = Len(w) - c - 1 /\ \A l \in 1 .. z + 1 - x : x + l - 1 = c + (l + 1)
      BY <3>1, <3>3
    <3>6. t = SubSeq(w, x, z)
      BY <3>1, <3>3, Zenon
    <3> QED BY <3>4, <3>5, <3>6, Zenon
  <2> HIDE DEF t
  <2>6. Tail(s) = t
    <3>1. Len(w) - c - 1 \in Nat
      BY <2>1
    <3>2. \A l \in 1 .. Len(w) - c - 1 : Tail(s)[l] = t[l]
      BY <2>4, <2>5, Zenon
    <3> QED BY <3>1, <3>2, <2>4, <2>5, SameSequence
  <2> QED BY <1>2, <2>3, <2>6 DEF s, t
<1> QED BY <1>1, <1>2

\* c bits have been read: m characters and the beginning of the next code.
ReadTo(B, C, ch, T, m, c, written, code, rest) ==
    /\ m \in 0 .. Len(ch) - 1 /\ c \in 0 .. Len(B) /\ T[m] <= c /\ c < T[m + 1]
    /\ written = SubSeq(ch, 1, m)
    /\ code = SubSeq(C[ch[m + 1]], 1, c - T[m])
    /\ rest = SubSeq(B, c + 1, Len(B))

\* A bit more completes the code of the next character and no other, or none.
BitsGoOn(S, C, B, ch, T, m, c, o, cur, rest) ==
    IF rest = <<>> THEN o = SubSeq(ch, 1, Len(ch) - 1)
    ELSE LET code == Append(cur, Head(rest)) IN
         \/ /\ \A e \in S : C[e] # code
            /\ ReadTo(B, C, ch, T, m, c + 1, o, code, Tail(rest))
         \/ \E d \in S :
            /\ \A e \in S : C[e] = code <=> e = d
            /\ ReadTo(B, C, ch, T, m + 1, c + 1, Append(o, d), <<>>, Tail(rest))

LEMMA BitRead ==
    ASSUME NEW S, NEW C, CodeTable(C, S), NEW B \in Bits, NEW ch, NEW T, Stream(B, C, S, ch, T),
           NEW m, NEW c, NEW o, NEW cur, NEW rest, ReadTo(B, C, ch, T, m, c, o, cur, rest)
    PROVE  BitsGoOn(S, C, B, ch, T, m, c, o, cur, rest)
<1> USE DEF BitsGoOn
<1>1. PICK M \in Nat : M = Len(ch) /\ M >= 1
  BY DEF Stream
<1>2. PICK N \in Nat : N = Len(B)
  BY DEF Bits
<1>3. /\ ch \in Seq(S) /\ T \in [0 .. M -> Nat]
      /\ \A k \in 1 .. M : T[k] = T[k - 1] + Len(C[ch[k]])
      /\ \A j, k \in 0 .. M : j <= k => T[j] <= T[k]
      /\ \A k \in 1 .. M : \A b \in 1 .. Len(C[ch[k]]) :
            T[k - 1] + b <= N => B[T[k - 1] + b] = C[ch[k]][b]
      /\ T[M - 1] <= N /\ N < T[M]
  BY <1>1, <1>2, Zenon DEF Stream
<1>4. /\ m \in 0 .. M - 1 /\ c \in 0 .. N /\ T[m] <= c /\ c < T[m + 1]
      /\ o = SubSeq(ch, 1, m)
      /\ cur = SubSeq(C[ch[m + 1]], 1, c - T[m])
      /\ rest = SubSeq(B, c + 1, N)
  BY <1>1, <1>2, Zenon DEF ReadTo
<1>5. /\ m + 1 \in 1 .. M /\ m + 1 \in 0 .. M /\ m \in 0 .. M /\ M - 1 \in 0 .. M /\ M \in 0 .. M
      /\ (m + 1) - 1 = m /\ m \in Nat /\ c \in Nat
  BY <1>1, <1>4
<1>6. PICK d \in S : d = ch[m + 1]
  <2>1. \A q \in Seq(S) : \A k \in 1 .. Len(q) : q[k] \in S
    OBVIOUS
  <2> QED BY <2>1, <1>1, <1>3, <1>5, Zenon
<1>7. PICK w \in Seq({0, 1}) : w = C[d] /\ w = C[ch[m + 1]]
  BY <1>6 DEF CodeTable, Bits
<1>8. PICK l \in Nat : l = Len(w)
  OBVIOUS
<1>9. PICK p \in Nat : p = T[m] /\ T[m + 1] = p + l /\ p <= c /\ c < p + l
  <2>1. \A f \in [0 .. M -> Nat] : \A k \in 0 .. M : f[k] \in Nat
    OBVIOUS
  <2>2. T[m] \in Nat
    BY <2>1, <1>3, <1>5, Zenon
  <2>3. T[m + 1] = T[(m + 1) - 1] + Len(C[ch[m + 1]])
    BY <1>3, <1>5, Zenon
  <2> QED BY <2>2, <2>3, <1>4, <1>5, <1>7, <1>8, Zenon
<1>10. PICK r \in 0 .. l - 1 : r = c - p /\ c = p + r
  <2>1. \A a, b, e \in Nat : b <= a /\ a < b + e => a - b \in 0 .. e - 1 /\ a = b + (a - b)
    OBVIOUS
  <2>2. c - p \in 0 .. l - 1 /\ c = p + (c - p)
    BY <2>1, <1>5, <1>8, <1>9, Zenon
  <2> QED BY <2>2, Zenon
<1>11. IF c = N THEN rest = <<>>
       ELSE rest # <<>> /\ Head(rest) = B[c + 1] /\ Tail(rest) = SubSeq(B, (c + 1) + 1, N)
  BY <1>2, <1>4, RestShrinks DEF Bits
<1>12. CASE c = N
  <2>1. m = M - 1
    <3>1. SUFFICES ASSUME m # M - 1 PROVE FALSE
      OBVIOUS
    <3>2. m + 1 <= M - 1
      BY <3>1, <1>4
    <3>3. T[m + 1] <= T[M - 1]
      BY <3>2, <1>3, <1>5, Zenon
    <3>4. PICK a, b \in Nat : a = T[m + 1] /\ b = T[M - 1]
      <4>1. \A f \in [0 .. M -> Nat] : \A k \in 0 .. M : f[k] \in Nat
        OBVIOUS
      <4> QED BY <4>1, <1>3, <1>5
    <3>5. a <= b /\ b <= N /\ N < a
      BY <3>3, <3>4, <1>3, <1>4, <1>12, Zenon
    <3> QED BY <3>4, <3>5
  <2> QED BY <2>1, <1>1, <1>4, <1>11, <1>12, Zenon
<1>13. CASE c # N
  <2>1. /\ c + 1 \in 0 .. N /\ c + 1 <= N /\ p + (r + 1) = c + 1 /\ r + 1 \in 1 .. l
        /\ (c + 1) - p = r + 1 /\ r + 1 \in Nat
    BY <1>4, <1>10, <1>13
  <2>2. B[c + 1] = w[r + 1]
    <3>1. \A b \in 1 .. Len(C[ch[m + 1]]) :
             T[(m + 1) - 1] + b <= N => B[T[(m + 1) - 1] + b] = C[ch[m + 1]][b]
      BY <1>3, <1>5, Zenon
    <3>2. \A b \in 1 .. l : p + b <= N => B[p + b] = w[b]
      BY <3>1, <1>5, <1>7, <1>8, <1>9, Zenon
    <3>3. PICK y \in 1 .. l : y = r + 1 /\ p + y = c + 1 /\ p + y <= N
      BY <2>1, Zenon
    <3>4. B[p + y] = w[y]
      BY <3>2, <3>3, Zenon
    <3> QED BY <3>3, <3>4, Zenon
  <2>3. PICK code : code = Append(cur, Head(rest))
    OBVIOUS
  <2>4. code = SubSeq(w, 1, r + 1)
    <3>1. Append(SubSeq(w, 1, r), w[r + 1]) = SubSeq(w, 1, r + 1)
      BY <1>8, PrefixGrows
    <3>2. cur = SubSeq(w, 1, r)
      BY <1>4, <1>7, <1>9, <1>10, Zenon
    <3> QED BY <3>1, <3>2, <2>2, <2>3, <1>11, <1>13, Zenon
  <2>5. \A e \in S : e # d => ~ IsPrefix(C[e], w)
    BY <1>7 DEF CodeTable
  <2>6. \A e \in S : C[e] \in Seq({0, 1})
    BY DEF CodeTable, Bits
  <2>7. CASE r + 1 = l
    <3>1. code = w
      BY <2>4, <2>7, <1>8, PrefixGrows
    <3>2. IsPrefix(w, w)
      BY DEF IsPrefix
    <3>3. \A e \in S : C[e] = code <=> e = d
      BY <3>1, <3>2, <2>5, <1>7, Zenon
    <3>4. c + 1 = T[m + 1]
      BY <2>1, <2>7, <1>9, Zenon
    <3>5. m + 1 \in 0 .. M - 1
      <4>1. m + 1 # M
        <5>1. SUFFICES ASSUME m + 1 = M PROVE FALSE
          OBVIOUS
        <5>2. N < c + 1
          BY <5>1, <3>4, <1>3, Zenon
        <5> QED BY <5>2, <2>1, <1>5
      <4> QED BY <4>1, <1>5, <1>1
    <3>6. PICK k \in 1 .. M : k = (m + 1) + 1 /\ k - 1 = m + 1
      BY <3>5
    <3>7. c + 1 < T[k]
      <4>1. T[k] = T[k - 1] + Len(C[ch[k]])
        BY <1>3, Zenon
      <4>2. ch[k] \in S
        <5>1. \A q \in Seq(S) : \A x \in 1 .. Len(q) : q[x] \in S
          OBVIOUS
        <5> QED BY <5>1, <1>1, <1>3, Zenon
      <4>3. PICK a \in Nat : a = Len(C[ch[k]]) /\ a >= 1
        <5>1. Len(C[ch[k]]) \in Sizes
          BY <4>2 DEF CodeTable
        <5>2. \A x \in Sizes : x \in Nat /\ x >= 1
          BY DEF Sizes
        <5> QED BY <5>1, <5>2, Zenon
      <4>4. T[k] = (c + 1) + a
        BY <4>1, <4>3, <3>4, <3>6, Zenon
      <4>5. c + 1 < (c + 1) + a
        <5>1. \A x, y \in Nat : y >= 1 => x + 1 < (x + 1) + y
          OBVIOUS
        <5> QED BY <5>1, <4>3, <1>5, Zenon
      <4> QED BY <4>4, <4>5, Zenon
    <3>8. Append(o, d) = SubSeq(ch, 1, m + 1)
      <4>1. m \in 0 .. Len(ch) - 1
        BY <1>1, <1>4
      <4>2. Append(SubSeq(ch, 1, m), ch[m + 1]) = SubSeq(ch, 1, m + 1)
        BY <4>1, <1>3, PrefixGrows
      <4> QED BY <4>2, <1>4, <1>6, Zenon
    <3>9. <<>> = SubSeq(C[ch[k]], 1, (c + 1) - T[m + 1])
      <4>1. (c + 1) - T[m + 1] = 0
        BY <3>4, <1>5
      <4>2. SubSeq(C[ch[k]], 1, 0) = <<>>
        <5>1. ch[k] \in S
          <6>1. \A q \in Seq(S) : \A x \in 1 .. Len(q) : q[x] \in S
            OBVIOUS
          <6> QED BY <6>1, <1>1, <1>3, Zenon
        <5> QED BY <5>1, <2>6, PrefixGrows
      <4> QED BY <4>1, <4>2
    <3>10. T[m + 1] <= c + 1
      BY <3>4, <1>5
    <3>11. ReadTo(B, C, ch, T, m + 1, c + 1, Append(o, d), <<>>, Tail(rest))
      BY <3>5, <3>6, <3>7, <3>8, <3>9, <3>10, <2>1, <1>1, <1>2, <1>11, <1>13, Zenon DEF ReadTo
    <3> QED BY <3>3, <3>11, <2>3, <1>11, <1>13, Zenon
  <2>8. CASE r + 1 # l
    <3>1. r + 1 < l /\ c + 1 < p + l /\ p <= c + 1
      <4>1. \A a, b, e \in Nat : \A x \in 0 .. e - 1 :
               a = b + x /\ x + 1 # e => x + 1 < e /\ a + 1 < b + e /\ b <= a + 1
        OBVIOUS
      <4> QED BY <4>1, <2>8, <1>5, <1>8, <1>9, <1>10, Zenon
    <3>2. ASSUME NEW e \in S PROVE C[e] # code
      <4>1. SUFFICES ASSUME C[e] = code PROVE FALSE
        OBVIOUS
      <4>2. Len(code) = r + 1
        BY <2>1, <2>4, <1>8
      <4>3. e # d
        BY <4>1, <4>2, <2>8, <1>7, <1>8
      <4>4. SubSeq(C[e], 1, Len(C[e])) = C[e]
        BY <2>6, PrefixGrows
      <4>5. IsPrefix(C[e], w)
        <5>1. Len(C[e]) <= Len(w) /\ SubSeq(w, 1, Len(C[e])) = code
          BY <4>1, <4>2, <3>1, <2>1, <2>4, <1>8
        <5> QED BY <5>1, <4>1, <4>4 DEF IsPrefix
      <4> QED BY <4>3, <4>5, <2>5
    <3>3. ReadTo(B, C, ch, T, m, c + 1, o, code, Tail(rest))
      <4>1. m \in 0 .. Len(ch) - 1 /\ c + 1 \in 0 .. Len(B) /\ T[m] <= c + 1 /\ c + 1 < T[m + 1]
        BY <3>1, <2>1, <1>1, <1>2, <1>4, <1>9, Zenon
      <4>2. code = SubSeq(C[ch[m + 1]], 1, (c + 1) - T[m])
        BY <2>1, <2>4, <1>7, <1>9, Zenon
      <4>3. Tail(rest) = SubSeq(B, (c + 1) + 1, Len(B)) /\ o = SubSeq(ch, 1, m)
        BY <1>2, <1>4, <1>11, <1>13, Zenon
      <4> QED BY <4>1, <4>2, <4>3, Zenon DEF ReadTo
    <3> QED BY <3>2, <3>3, <2>3, <1>11, <1>13, Zenon
  <2> QED BY <2>7, <2>8
<1> QED BY <1>12, <1>13

\* Before the first bit no character is written and no code begun.
LEMMA StreamStarts ==
    ASSUME NEW S, NEW C, CodeTable(C, S), NEW B \in Bits, NEW ch, NEW T, Stream(B, C, S, ch, T)
    PROVE  ReadTo(B, C, ch, T, 0, 0, <<>>, <<>>, B)
<1>1. PICK M \in Nat : M = Len(ch) /\ M >= 1
  BY DEF Stream
<1>2. ch \in Seq(S) /\ T[0] = 0 /\ \A k \in 1 .. M : T[k] = T[k - 1] + Len(C[ch[k]])
  BY <1>1, Zenon DEF Stream
<1>3. ch[1] \in S
  BY <1>1, <1>2
<1>4. PICK w \in Bits : w = C[ch[1]] /\ Len(w) \in Sizes
  BY <1>3 DEF CodeTable
<1>5. T[1] = Len(w) /\ Len(w) \in Nat /\ Len(w) >= 1
  <2>1. T[1] = T[1 - 1] + Len(w)
    BY <1>1, <1>2, <1>4
  <2>2. \A x \in Sizes : x \in Nat /\ x >= 1 /\ 0 + x = x
    BY DEF Sizes
  <2>3. 1 - 1 = 0
    OBVIOUS
  <2> QED BY <2>1, <2>2, <2>3, <1>2, <1>4, Zenon
<1>6. 0 \in 0 .. Len(ch) - 1 /\ 0 \in 0 .. Len(B) /\ T[0] <= 0 /\ 0 < T[0 + 1]
  BY <1>1, <1>2, <1>5 DEF Bits
<1>7. SubSeq(ch, 1, 0) = <<>>
  BY <1>2, PrefixGrows
<1>8. SubSeq(C[ch[0 + 1]], 1, 0 - T[0]) = <<>>
  <2>1. SubSeq(w, 1, 0) = <<>>
    BY PrefixGrows DEF Bits
  <2> QED BY <2>1, <1>2, <1>4
<1>9. SubSeq(B, 0 + 1, Len(B)) = B
  BY PrefixGrows DEF Bits
<1> QED BY <1>6, <1>7, <1>8, <1>9, Zenon DEF ReadTo

\* The file, and the most frequent character where the padding reads like it.
Expected == text \o [k \in 1 .. Padding \div Len(huffmanCodes[1]) |-> charAccordingToFreq(text)[n]]

\* After c bits the first m characters are written and the next one's code begun.
InflatedSo(B, ch, T, m, c) ==
    /\ Stream(B, CodeOf, ToSet(text), ch, T)
    /\ SubSeq(ch, 1, Len(ch) - 1) = Expected
    /\ ReadTo(B, CodeOf, ch, T, m, c, output, currentCode, heoutput)

Inflating ==
    ThreeFiles =>
      /\ stage = "inflating" => \E ch, T, m, c : InflatedSo(readBinaryFile(Written), ch, T, m, c)
      /\ stage = "inflated" => output = Expected

\* inflate reads the bits that deflate has packed and its padding.
LEMMA BitsOpened ==
    ASSUME SInv, Stages, ThreeFiles, stage \in {"separated", "inflating"}
    PROVE  /\ CodeTable(CodeOf, ToSet(text)) /\ readBinaryFile(Written) \in Bits
           /\ \E ch, T : /\ Stream(readBinaryFile(Written), CodeOf, ToSet(text), ch, T)
                         /\ SubSeq(ch, 1, Len(ch) - 1) = Expected
<1>1. hpc = "coded" /\ n > 1 /\ packed = FlattenSeq(Coded(CodeOf, text))
  BY DEF Stages, Source, ThreeFiles
<1>2. /\ CodeTable(CodeOf, ToSet(text)) /\ packed \in Bits
      /\ readBinaryFile(Written) = packed \o Zeros(Padding)
  <2>1. packed = FlattenSeq(Coded(CodeOf, Source))
    BY DEF Stages
  <2> QED BY <1>1, <2>1, WrittenBytes
<1>3. PICK B, d, p : B = packed \o Zeros(Padding) /\ d = Padding /\ p = packed
  OBVIOUS
<1>4. /\ d \in 0 .. 7 /\ B \in Bits /\ Len(B) = Len(p) + d
      /\ \A l \in 1 .. Len(p) : B[l] = p[l]
      /\ \A l \in 1 .. d : B[Len(p) + l] = 0
  BY <1>2, <1>3, Padded
<1>5. PICK C, t, z : C = CodeOf /\ t = text /\ z = charAccordingToFreq(text)[n]
  OBVIOUS
<1>6. z \in ToSet(t) /\ C[z] = huffmanCodes[1] /\ \A b \in 1 .. Len(C[z]) : C[z][b] = 0
  <2>1. CInv /\ Short /\ Passed
    BY DEF SInv
  <2>2. /\ charAccordingToFreq(text)[n] \in ToSet(text)
        /\ CodeOf[charAccordingToFreq(text)[n]] = huffmanCodes[1]
        /\ \A b \in 1 .. Len(huffmanCodes[1]) : huffmanCodes[1][b] = 0
    BY <2>1, <1>1, CodesTabled
  <2> QED BY <2>2, <1>5, Zenon
<1>7. t \in Seq(0 .. 255)
  BY <1>5 DEF SInv, Passed
<1>8. StreamOf(B, C, t, z, d)
  <2>1. d \in Nat /\ CodeTable(C, ToSet(t)) /\ p = FlattenSeq(Coded(C, t))
    BY <1>1, <1>2, <1>3, <1>4, <1>5
  <2>2. PaddedTo(B, FlattenSeq(Coded(C, t)), d) /\ AllZero(C[z])
    BY <2>1, <1>4, <1>6, Zenon DEF PaddedTo, AllZero
  <2> QED BY <2>1, <2>2, <1>6, <1>7, StreamMade
<1>9. Expected = t \o [k \in 1 .. d \div Len(C[z]) |-> z]
  BY <1>3, <1>5, <1>6, Zenon DEF Expected
<1> QED BY <1>2, <1>3, <1>4, <1>5, <1>8, <1>9, Zenon DEF StreamOf

\* The characters of the pairs whose code has been read.
CharactersRead(R, code) == {e[2] : e \in {d \in R : d[1] = code}}

LEMMA CharactersOf ==
    ASSUME NEW S, NEW C, NEW R, R = {<<C[c], c>> : c \in S}, NEW code
    PROVE  CharactersRead(R, code) = {c \in S : C[c] = code}
<1> DEFINE X == {e[2] : e \in {d \in R : d[1] = code}}
<1>1. ASSUME NEW x \in X PROVE x \in S /\ C[x] = code
  <2>1. PICK e \in R : e[1] = code /\ e[2] = x
    OBVIOUS
  <2>2. PICK c \in S : e = <<C[c], c>>
    OBVIOUS
  <2> QED BY <2>1, <2>2
<1>2. ASSUME NEW c \in S, C[c] = code PROVE c \in X
  <2>1. PICK e \in R : e = <<C[c], c>>
    OBVIOUS
  <2>2. e \in {d \in R : d[1] = code} /\ e[2] = c
    BY <2>1, <1>2
  <2> QED BY <2>2
<1> HIDE DEF X
<1>3. X = {c \in S : C[c] = code}
  BY <1>1, <1>2
<1> QED BY <1>3 DEF X, CharactersRead

\* Neither the codes nor the packed bits change while they are read.
LEMMA ReadingKeeps ==
    ASSUME UNCHANGED <<hvars, name, text, packed>>
    PROVE  /\ text' = text /\ CodeOf' = CodeOf /\ (ThreeFiles' <=> ThreeFiles)
           /\ Written' = Written /\ Expected' = Expected
<1>1. n' = n
  BY DEF n, hvars
<1>2. Padding' = Padding
  BY DEF Padding
<1>3. Written' = Written
  BY WrittenKept DEF hvars
<1> QED BY <1>1, <1>2, <1>3 DEF CodeOf, Expected, ThreeFiles, hvars

LEMMA OpensInflating == ASSUME SInv, Stages, ThreeFiles, inflateOpens PROVE Inflating'
<1>1. /\ stage = "separated" /\ stage' = "inflating" /\ UNCHANGED <<hvars, name, text, packed>>
      /\ output' = output /\ currentCode' = currentCode /\ heoutput' = readBinaryFile(data)
  BY DEF inflateOpens, deflating, files, inflating
<1>2. data = Written /\ output = <<>> /\ currentCode = <<>>
  BY <1>1 DEF Stages
<1>3. text' = text /\ CodeOf' = CodeOf /\ Written' = Written /\ Expected' = Expected
  BY <1>1, ReadingKeeps
<1>4. /\ CodeTable(CodeOf, ToSet(text)) /\ readBinaryFile(Written) \in Bits
      /\ \E ch, T : /\ Stream(readBinaryFile(Written), CodeOf, ToSet(text), ch, T)
                    /\ SubSeq(ch, 1, Len(ch) - 1) = Expected
  BY <1>1, BitsOpened
<1>5. PICK ch, T : /\ Stream(readBinaryFile(Written), CodeOf, ToSet(text), ch, T)
                   /\ SubSeq(ch, 1, Len(ch) - 1) = Expected
  BY <1>4
<1>6. ReadTo(readBinaryFile(Written), CodeOf, ch, T, 0, 0, <<>>, <<>>, readBinaryFile(Written))
  BY <1>4, <1>5, StreamStarts
<1>7. PICK B, W : B = readBinaryFile(Written) /\ W = Written
  OBVIOUS
<1>8. InflatedSo(B, ch, T, 0, 0)'
  BY <1>1, <1>2, <1>3, <1>5, <1>6, <1>7, Zenon DEF InflatedSo
<1>9. readBinaryFile(Written)' = B
  BY <1>3, <1>7 DEF readBinaryFile
<1> QED BY <1>1, <1>8, <1>9 DEF Inflating

\* One bit more, with the code table that has been read.
LEMMA InflateReads ==
    ASSUME SInv, Stages, ThreeFiles, Decoding, Inflating, inflate PROVE Inflating'
<1>1. /\ stage = "inflating" /\ UNCHANGED <<hvars, name, text, packed>>
  BY DEF inflate, deflating
<1>2. text' = text /\ CodeOf' = CodeOf /\ Written' = Written /\ Expected' = Expected
  BY <1>1, ReadingKeeps
<1>3. CodeTable(CodeOf, ToSet(text)) /\ readBinaryFile(Written) \in Bits
  BY <1>1, BitsOpened
<1>4. PICK B \in Bits : B = readBinaryFile(Written)
  BY <1>3
<1>5. readBinaryFile(Written)' = B
  BY <1>2, <1>4 DEF readBinaryFile
<1>6. PICK ch, T, m, c : InflatedSo(B, ch, T, m, c)
  BY <1>1, <1>4 DEF Inflating
<1>7. PICK S, C : S = ToSet(text) /\ C = CodeOf
  OBVIOUS
<1>8. /\ Stream(B, C, S, ch, T) /\ SubSeq(ch, 1, Len(ch) - 1) = Expected
      /\ ReadTo(B, C, ch, T, m, c, output, currentCode, heoutput) /\ CodeTable(C, S)
  BY <1>3, <1>6, <1>7 DEF InflatedSo
<1>9. BitsGoOn(S, C, B, ch, T, m, c, output, currentCode, heoutput)
  BY <1>8, BitRead
<1>10. CASE heoutput = <<>>
  <2>1. stage' = "inflated" /\ output' = output
    BY <1>10 DEF inflate
  <2>2. output = Expected
    BY <1>8, <1>9, <1>10, Zenon DEF BitsGoOn
  <2> QED BY <2>1, <2>2, <1>2 DEF Inflating
<1>11. CASE heoutput # <<>>
  <2>1. PICK code : code = Append(currentCode, Head(heoutput))
    OBVIOUS
  <2>2. reverseValue = {<<C[x], x>> : x \in S}
    BY <1>1, <1>7 DEF Decoding
  <2>3. {e[2] : e \in {d \in reverseValue : d[1] = code}} = {x \in S : C[x] = code}
    <3>1. CharactersRead(reverseValue, code) = {x \in S : C[x] = code}
      BY <2>2, CharactersOf
    <3> QED BY <3>1 DEF CharactersRead
  <2>4. PICK chars : chars = {x \in S : C[x] = code}
    OBVIOUS
  <2>5. /\ heoutput' = Tail(heoutput) /\ stage' = stage
        /\ \/ chars = {} /\ currentCode' = code /\ output' = output
           \/ \E x \in chars : output' = Append(output, x) /\ currentCode' = <<>>
    BY <1>11, <2>1, <2>3, <2>4 DEF inflate
  <2>6. \/ /\ \A e \in S : C[e] # code
           /\ ReadTo(B, C, ch, T, m, c + 1, output, code, Tail(heoutput))
        \/ \E d \in S :
           /\ \A e \in S : C[e] = code <=> e = d
           /\ ReadTo(B, C, ch, T, m + 1, c + 1, Append(output, d), <<>>, Tail(heoutput))
    BY <1>9, <1>11, <2>1, Zenon DEF BitsGoOn
  <2>7. \E q : ReadTo(B, C, ch, T, q, c + 1, output', currentCode', heoutput')
    <3>1. CASE /\ \A e \in S : C[e] # code
               /\ ReadTo(B, C, ch, T, m, c + 1, output, code, Tail(heoutput))
      <4>1. chars = {}
        BY <3>1, <2>4
      <4> QED BY <3>1, <4>1, <2>5
    <3>2. ASSUME NEW d \in S, \A e \in S : C[e] = code <=> e = d,
                 ReadTo(B, C, ch, T, m + 1, c + 1, Append(output, d), <<>>, Tail(heoutput))
          PROVE  \E q : ReadTo(B, C, ch, T, q, c + 1, output', currentCode', heoutput')
      <4>1. chars = {d}
        BY <3>2, <2>4
      <4>2. output' = Append(output, d) /\ currentCode' = <<>> /\ heoutput' = Tail(heoutput)
        BY <4>1, <2>5
      <4> QED BY <3>2, <4>2
    <3> QED BY <2>6, <3>1, <3>2
  <2>8. PICK q : ReadTo(B, C, ch, T, q, c + 1, output', currentCode', heoutput')
    BY <2>7
  <2>9. InflatedSo(B, ch, T, q, c + 1)'
    BY <2>8, <1>2, <1>7, <1>8, Zenon DEF InflatedSo
  <2>10. stage' # "inflated" /\ readBinaryFile(Written)' = B
    BY <1>1, <1>5, <2>5
  <2> QED BY <2>9, <2>10 DEF Inflating
<1> QED BY <1>10, <1>11

LEMMA StepInflating == ASSUME SInv, Stages, Decoding, Inflating, [Next]_cvars PROVE Inflating'
<1>1. ThreeFiles' <=> ThreeFiles
  BY DEF Next, GetCodes, Deflate, combineBinaryFiles, separateBinaryFile, decodeBinaryFileToMap,
         inflateOpens, inflate, cvars, ThreeFiles
<1>2. CASE ~ ThreeFiles
  BY <1>1, <1>2 DEF Inflating
<1>3. CASE HuffmanStep /\ UNCHANGED <<stage, name, text, deflating, files, inflating>>
  <2>1. hpc \in {"tree", "levels", "codes"}
    BY <1>3 DEF HuffmanStep, TakeRoot, TakeLeaf, TreeBuilt, Level, FirstCode, PushCode, EmptyCrashes
  <2> QED BY <1>3, <2>1 DEF Stages, Inflating
<1>4. CASE GetCodes \/ Deflate \/ combineBinaryFiles \/ separateBinaryFile \/ decodeBinaryFileToMap
  BY <1>4 DEF GetCodes, Deflate, combineBinaryFiles, separateBinaryFile, decodeBinaryFileToMap,
              Inflating
<1>5. CASE ThreeFiles /\ inflateOpens
  BY <1>5, OpensInflating
<1>6. CASE ThreeFiles /\ inflate
  BY <1>6, InflateReads
<1>7. CASE ThreeFiles /\ UNCHANGED cvars
  <2>1. /\ UNCHANGED <<hvars, name, text, packed>>
        /\ UNCHANGED <<stage, output, currentCode, heoutput>>
    BY <1>7 DEF cvars, deflating, files, inflating
  <2>2. text' = text /\ CodeOf' = CodeOf /\ Written' = Written /\ Expected' = Expected
    BY <2>1, ReadingKeeps
  <2>3. PICK B : B = readBinaryFile(Written)
    OBVIOUS
  <2>4. readBinaryFile(Written)' = B
    BY <2>2, <2>3 DEF readBinaryFile
  <2>5. ASSUME NEW ch, NEW T, NEW m, NEW c, InflatedSo(B, ch, T, m, c)
        PROVE  InflatedSo(B, ch, T, m, c)'
    BY <2>1, <2>2, <2>5, Zenon DEF InflatedSo
  <2> QED BY <1>7, <2>1, <2>2, <2>3, <2>4, <2>5, Zenon DEF Inflating
<1> QED BY <1>2, <1>3, <1>4, <1>5, <1>6, <1>7 DEF Next

\* Of a file that its own packed bits overwrite there are no bits to read.
Emptying ==
    Emptied /\ stage \in {"inflating", "inflated"} => heoutput = <<>> /\ output = <<>>

LEMMA NothingPacked ==
    ASSUME SInv, Stages, Emptied, stage = "separated" PROVE readBinaryFile(data) = <<>>
<1>1. packed = FlattenSeq(Coded(CodeOf, <<>>)) /\ data = Written
  BY DEF Stages, Emptied, Source
<1>2. packed = <<>>
  <2>1. PICK s : s = <<>>
    OBVIOUS
  <2>2. Coded(CodeOf, <<>>) = s /\ Len(s) = 0
    BY <2>1 DEF Coded
  <2>3. FlattenSeq(s) = s
    BY <2>1, <2>2 DEF FlattenSeq
  <2> QED BY <1>1, <2>1, <2>2, <2>3
<1>3. packed \o Zeros(Padding) = <<>>
  BY <1>2 DEF Padding, Zeros
<1>4. packBits(<<>>) = <<>>
  BY DEF packBits
<1>5. data = <<>>
  BY <1>1, <1>3, <1>4 DEF Written, PackedFile, Emptied
<1> QED BY <1>5 DEF readBinaryFile

LEMMA StepEmptying == ASSUME SInv, Stages, Emptying, [Next]_cvars PROVE Emptying'
<1>1. Emptied' <=> Emptied
  BY DEF Next, GetCodes, Deflate, combineBinaryFiles, separateBinaryFile, decodeBinaryFileToMap,
         inflateOpens, inflate, cvars, Emptied
<1>2. CASE Emptied /\ inflateOpens
  <2>1. stage = "separated" /\ heoutput' = readBinaryFile(data) /\ output' = output
    BY <1>2 DEF inflateOpens, files
  <2>2. output = <<>>
    BY <2>1 DEF Stages
  <2> QED BY <1>2, <2>1, <2>2, NothingPacked DEF Emptying
<1>3. CASE inflate
  <2>1. stage = "inflating" /\ (heoutput = <<>> => UNCHANGED <<output, heoutput>>)
    BY <1>3 DEF inflate
  <2> QED BY <1>1, <2>1 DEF Emptying
<1>4. CASE HuffmanStep /\ UNCHANGED <<stage, name, text, deflating, files, inflating>>
  BY <1>1, <1>4 DEF Emptying, files, inflating
<1>5. CASE GetCodes \/ Deflate \/ combineBinaryFiles \/ separateBinaryFile \/ decodeBinaryFileToMap
  BY <1>5 DEF GetCodes, Deflate, combineBinaryFiles, separateBinaryFile, decodeBinaryFileToMap, Emptying
<1>6. CASE UNCHANGED cvars
  BY <1>1, <1>6 DEF Emptying, cvars, files, inflating
<1>7. CASE ~ Emptied
  BY <1>1, <1>7 DEF Emptying
<1> QED BY <1>2, <1>3, <1>4, <1>5, <1>6, <1>7 DEF Next

\* inflate gives back the file that deflate packed, whatever its bytes, unless
\* its name makes it, its packed bits and the map of its codes one file: no
\* character is lost or changed, and behind the last one come only the copies
\* of the most frequent character that the padding of the last byte spells.  A
\* file that is also the one for the packed bits comes back empty.
THEOREM FileRestored == Spec => []Restored
<1> DEFINE Inv == SInv /\ Stages /\ Decoding /\ Inflating /\ Emptying
<1>1. Init => Inv
  BY InitSInv, InitStages DEF Init, Decoding, Inflating, Emptying
<1>2. Inv /\ [Next]_cvars => Inv'
  BY StepSInv, StepStages, StepDecoding, StepInflating, StepEmptying
<1>3. Inv => Restored
  BY DEF Inflating, Emptying, Restored, Expected
<1> QED BY <1>1, <1>2, <1>3, PTL DEF Spec
=============================================================================
