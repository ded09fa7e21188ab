----------------------------- MODULE HuffmanCode -----------------------------
(***************************************************************************)
(* generateHuffmanCodes of TFTPCompression.cpp: code lengths computed in   *)
(* the array of frequencies itself, then canonical codes.  Arrays are      *)
(* functions on 0 .. n-1, as the code indexes them.                        *)
(***************************************************************************)
EXTENDS Integers, SequencesExt

VARIABLES
    hpc,            \* "tree", "levels", "codes", "coded" or "crash"
    freq,           \* the frequencies, not decreasing (never changed)
    A,              \* the array: frequencies, weights, parents, lengths
    leaf, root, next,   \* the first loop's indices
    pass, sum,          \* its inner i and sum
    i, level_top, depth, total_nodes_at_level,  \* the second loop's
    heap,           \* FALSE once something was written outside of A
    huffmanCodes    \* the codes, sequences of bits, in the order of the reversed A

treeVars  == <<leaf, root, next, pass, sum>>
levelVars == <<i, level_top, depth, total_nodes_at_level>>
hvars     == <<hpc, freq, A, treeVars, levelVars, heap, huffmanCodes>>

n == Cardinality(DOMAIN freq)

\* The function's entry, for the frequencies f of 0 .. n-1.
HuffmanInit(f) ==
    /\ hpc = "tree"
    /\ freq = f /\ A = f
    /\ leaf = 0 /\ root = 0 /\ next = 0
    /\ pass = 0 /\ sum = 0
    /\ i = 0 /\ level_top = 0 /\ depth = 0 /\ total_nodes_at_level = 0
    /\ heap = TRUE
    /\ huffmanCodes = <<>>

---------------------------------------------------------------------------
(* Phase 1: the two lightest of the leaves and the weights built so far    *)
(* make a new weight at `next'; a weight taken keeps its parent's index.   *)

\* Is the next weight built taken, and not the next leaf?
mutTakesRoot ==                                     \* mutant: root may catch up with next
    IF leaf >= n THEN TRUE
    ELSE IF root <= next THEN A[root] < A[leaf] ELSE FALSE
TakesRoot ==
    IF leaf >= n THEN TRUE
    ELSE IF root < next THEN A[root] < A[leaf] ELSE FALSE

\* The end of the inner loop's body: after the second pass A[next] = sum.
Combine(taken, B) ==
    IF pass = 0
    THEN pass' = 1 /\ sum' = taken /\ A' = B /\ next' = next
    ELSE pass' = 0 /\ sum' = 0 /\ A' = [B EXCEPT ![next] = sum + taken] /\ next' = next + 1

TakeRoot ==
    /\ hpc = "tree" /\ next < n - 1
    /\ TakesRoot
    /\ Combine(A[root], [A EXCEPT ![root] = next])
    /\ root' = root + 1
    /\ UNCHANGED <<hpc, freq, leaf, levelVars, heap, huffmanCodes>>

TakeLeaf ==
    /\ hpc = "tree" /\ next < n - 1
    /\ ~TakesRoot
    /\ Combine(A[leaf], IF leaf > next THEN [A EXCEPT ![leaf] = 0] ELSE A)
    /\ leaf' = leaf + 1
    /\ UNCHANGED <<hpc, freq, root, levelVars, heap, huffmanCodes>>

mutTreeTop == n - 1                                 \* mutant: off by one
TreeTop == n - 2
TreeBuilt ==
    /\ hpc = "tree" /\ next >= n - 1
    /\ hpc' = "levels"
    /\ i' = n /\ level_top' = TreeTop /\ depth' = 1 /\ total_nodes_at_level' = 2
    /\ UNCHANGED <<freq, A, treeVars, heap, huffmanCodes>>

---------------------------------------------------------------------------
(* Phase 2: level by level from the root, the nodes of a level that are    *)
(* not internal are leaves of that depth, written from the end of A.       *)

\* Where `for(k=level_top; k>0 && A[k-1]>=level_top; k--)' stops.
LevelStart ==
    IF level_top <= 0 THEN level_top
    ELSE CHOOSE k \in 0 .. level_top :
            /\ k > 0 => A[k-1] < level_top
            /\ \A l \in k + 1 .. level_top : A[l-1] >= level_top

mutLevel ==                                         \* mutant: the level starts one too low
    /\ hpc = "levels" /\ i > 0
    /\ LET internal == level_top - LevelStart
           leaves   == total_nodes_at_level - internal IN
       /\ A' = [j \in DOMAIN A |-> IF j \in i - leaves .. i - 1 THEN depth + 1 ELSE A[j]]
       /\ heap' = (heap /\ i >= leaves)
       /\ i' = i - leaves
       /\ total_nodes_at_level' = internal * 2
    /\ level_top' = LevelStart
    /\ depth' = depth + 1
    /\ UNCHANGED <<hpc, freq, treeVars, huffmanCodes>>
Level ==
    /\ hpc = "levels" /\ i > 0
    /\ LET internal == level_top - LevelStart
           leaves   == total_nodes_at_level - internal IN
       /\ A' = [j \in DOMAIN A |-> IF j \in i - leaves .. i - 1 THEN depth ELSE A[j]]
       /\ heap' = (heap /\ i >= leaves)
       /\ i' = i - leaves
       /\ total_nodes_at_level' = internal * 2
    /\ level_top' = LevelStart
    /\ depth' = depth + 1
    /\ UNCHANGED <<hpc, freq, treeVars, huffmanCodes>>

---------------------------------------------------------------------------
(* The canonical codes.                                                    *)

\* reverseVector; on an empty vector it swaps far outside.
reverseVector(B) == [j \in DOMAIN B |-> B[n - 1 - j]]

Zeros(k) == [b \in 1 .. k |-> 0]

\* addBinary(a, "1"): the last 0 becomes 1 and the 1s behind it 0; without a
\* 0 the result is a bit longer.
addOne(a) ==
    LET ones == {k \in DOMAIN a : \A l \in k .. Len(a) : a[l] = 1}
        at   == Len(a) - Cardinality(ones) IN
    IF at = 0 THEN <<1>> \o Zeros(Len(a))
    ELSE [k \in DOMAIN a |-> IF k < at THEN a[k] ELSE IF k = at THEN 1 ELSE 0]

\* The next code: the last one plus 1, padded with zeros on the right.
padTo(code, length) ==
    code \o Zeros(IF length > Len(code) THEN length - Len(code) ELSE 0)

mutNextCode(last, length) == padTo(last, length)    \* mutant: no addBinary
NextCode(last, length) == padTo(addOne(last), length)

\* The lengths are reversed, and the shortest code is all zeros.
FirstCode ==
    /\ hpc = "levels" /\ i <= 0
    /\ n > 0
    /\ hpc' = "codes"
    /\ A' = reverseVector(A)
    /\ huffmanCodes' = <<Zeros(A[n - 1])>>
    /\ UNCHANGED <<freq, treeVars, levelVars, heap>>

\* The others follow in turn.
PushCode ==
    /\ hpc = "codes"
    /\ IF Len(huffmanCodes) < n
       THEN /\ huffmanCodes' =
                  Append(huffmanCodes, NextCode(Last(huffmanCodes), A[Len(huffmanCodes)]))
            /\ UNCHANGED hpc
       ELSE hpc' = "coded" /\ UNCHANGED huffmanCodes
    /\ UNCHANGED <<freq, A, treeVars, levelVars, heap>>

\* No frequency at all: reverseVector's end is SIZE_MAX, and the swap of
\* elements that do not exist ends the process.
EmptyCrashes ==
    /\ hpc = "levels" /\ n = 0
    /\ hpc' = "crash"
    /\ UNCHANGED <<freq, A, treeVars, levelVars, heap, huffmanCodes>>

HuffmanStep ==
    \/ TakeRoot \/ TakeLeaf \/ TreeBuilt
    \/ Level
    \/ FirstCode \/ PushCode \/ EmptyCrashes
---------------------------------------------------------------------------
(* Properties.                                                             *)

\* The one array holds leaves not yet taken, weights not yet taken and
\* parents at once: nothing that is still needed is overwritten, and every
\* index lies inside of the array when it is used.
InPlace ==
    hpc = "tree" =>
        /\ \A j \in leaf .. n - 1 : A[j] = freq[j]
        /\ root <= next /\ next <= leaf /\ leaf <= n
        /\ next < n - 1 /\ leaf = n => root < next
        /\ leaf + root = 2 * next + pass
        /\ \A j \in 0 .. root - 1 : A[j] \in j + 1 .. next

\* The codes have the computed lengths, none is a prefix of another, and
\* they use up the whole code space: the last one is all ones.  No length was
\* written outside of the array.
PrefixFree ==
    hpc = "coded" /\ n > 1 =>
        /\ heap
        /\ \A j, k \in 1 .. n : j # k => ~IsPrefix(huffmanCodes[j], huffmanCodes[k])
        /\ \A j \in 1 .. n : Len(huffmanCodes[j]) = A[j - 1]
        /\ \A b \in 1 .. A[n - 1] : huffmanCodes[n][b] = 1

=============================================================================
