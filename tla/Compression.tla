----------------------------- MODULE Compression -----------------------------
(***************************************************************************)
(* The way of a file through the client's compression: deflate before a    *)
(* WRITE; separateBinaryFile, decodeBinaryFileToMap, readBinaryFile and    *)
(* inflate after a READ of what was written.  Bytes are numbers 0 .. 255,  *)
(* bits 0 and 1; the characters '0' and '1' are the bytes 48 and 49.       *)
(***************************************************************************)
EXTENDS HuffmanCode

CONSTANTS Texts,        \* the files to compress: sequences of bytes
          FileNames     \* their names: stem and extension

\* The frequencies of a file add up in an int.
INT_MAX == 2147483647

ASSUME CompressionAssumption ==
    /\ Texts \subseteq Seq(0 .. 255)
    /\ \A t \in Texts : Len(t) <= INT_MAX
    /\ FileNames \subseteq [stem : STRING, ext : STRING]

VARIABLES
    stage,      \* "codes", "pack", "combine", "combined", "separated", "inflating", "inflated"
    name, text, \* the file
    charWithHuffmanCodes,
    packed,     \* the bits deflate has packed
    combined,   \* <name>compress.bin
    map, data,  \* output_file1.bin and output_file2.bin
    output,     \* the file inflate writes
    unread,         \* output_file1.bin, as far as it is not read
    heoutput,       \* output_file2.txt, as far as it is not read
    reverseValue,   \* pairs of a code and its character
    currentCode

deflating == <<charWithHuffmanCodes, packed>>
files == <<combined, map, data, output>>
inflating == <<unread, heoutput, reverseValue, currentCode>>
cvars == <<hvars, stage, name, text, deflating, files, inflating>>

---------------------------------------------------------------------------
(* deflate.                                                                *)

\* char is signed: the maps keep 128 .. 255 before 0 .. 127.
Signed(c)   == IF c > 127 THEN c - 256 ELSE c
CharLess(c, d) == Signed(c) < Signed(d)

frequency(t) == [c \in ToSet(t) |-> Cardinality({k \in DOMAIN t : t[k] = c})]

\* The elements of a set in the order of `less'.
Ordered(S, less(_, _)) ==
    [k \in 1 .. Cardinality(S) |->
        CHOOSE c \in S : Cardinality({d \in S : less(d, c)}) = k - 1]

\* The multimap keeps characters of one frequency in the order of insertion.
charAccordingToFreq(t) ==
    LET f == frequency(t) IN
    Ordered(ToSet(t), LAMBDA c, d : f[c] < f[d] \/ (f[c] = f[d] /\ CharLess(c, d)))
frequencyIncreasing(t) ==
    LET B == charAccordingToFreq(t) IN [j \in 0 .. Len(B) - 1 |-> frequency(t)[B[j + 1]]]

\* B is reversed like A: the code of each character.
CodeOf == LET B == charAccordingToFreq(text) IN
          [c \in ToSet(text) |-> huffmanCodes[n + 1 - CHOOSE k \in DOMAIN B : B[k] = c]]

\* A character, the eight bytes of the code's size, the code's digits.
encodeMapToBinaryFile(codes) ==
    LET entry(c) == <<c, Len(codes[c])>> \o Zeros(7) \o [b \in DOMAIN codes[c] |-> 48 + codes[c][b]]
        keys     == Ordered(DOMAIN codes, CharLess)
    IN  FlattenSeq([k \in DOMAIN keys |-> entry(keys[k])])

GetCodes ==
    /\ stage = "codes" /\ hpc = "coded"
    /\ charWithHuffmanCodes' = CodeOf
    /\ stage' = "pack"
    /\ UNCHANGED <<hvars, name, text, packed, files, inflating>>

\* The bits are packed from the low one of a byte upwards.
bitValue == <<1, 2, 4, 8, 16, 32, 64, 128>>
packBits(bits) ==
    LET byte(b) == b[1] + 2 * b[2] + 4 * b[3] + 8 * b[4]
                   + 16 * b[5] + 32 * b[6] + 64 * b[7] + 128 * b[8] IN
    [k \in 1 .. Len(bits) \div 8 |-> byte(SubSeq(bits, 8 * k - 7, 8 * k))]

delimiter == <<127, 254>>

\* The rest of the last byte stays zero; a full one is not written again.
Padding == (8 - (Len(packed) % 8)) % 8

\* What is read for packing: the output, <stem>.bin, is opened first, and
\* opening it empties a file of that name.
Source == IF name.ext = "bin" THEN <<>> ELSE text

mutDeflate ==                                       \* mutant: the bits of a code in reverse
    /\ stage = "pack"
    /\ packed' = FlattenSeq([k \in DOMAIN Source |-> Reverse(charWithHuffmanCodes[Source[k]])])
    /\ stage' = "combine"
    /\ UNCHANGED <<hvars, name, text, charWithHuffmanCodes, files, inflating>>
Deflate ==
    /\ stage = "pack"
    /\ packed' = FlattenSeq([k \in DOMAIN Source |-> charWithHuffmanCodes[Source[k]]])
    /\ stage' = "combine"
    /\ UNCHANGED <<hvars, name, text, charWithHuffmanCodes, files, inflating>>

\* What <stem>.bin holds when the parts are combined: encodeMapToBinaryFile
\* has written encoded_data.bin after it.
PackedFile(codes) ==
    IF name.stem = "encoded_data" THEN encodeMapToBinaryFile(codes)
    ELSE packBits(packed \o Zeros(Padding))

\* When the heap is damaged, freeing A at the end of deflate aborts.
combineBinaryFiles ==
    /\ stage = "combine"
    /\ combined' = encodeMapToBinaryFile(charWithHuffmanCodes) \o delimiter
                   \o PackedFile(charWithHuffmanCodes)
    /\ IF heap THEN stage' = "combined" /\ UNCHANGED hvars
       ELSE /\ hpc' = "crash"
            /\ UNCHANGED <<stage, freq, A, treeVars, levelVars, heap, huffmanCodes>>
    /\ UNCHANGED <<name, text, deflating, map, data, output, inflating>>

---------------------------------------------------------------------------
(* What handleRRQRequest does with the file it has received.               *)

mutDelimiterAt == \* mutant: one byte compared
    CHOOSE k \in 1 .. Len(combined) : combined[k] = 127 /\ \A l \in 1 .. k - 1 : combined[l] # 127
\* The first 7F FE.
DelimiterAt ==
    CHOOSE k \in 1 .. Len(combined) - 1 :
        /\ SubSeq(combined, k, k + 1) = delimiter
        /\ \A l \in 1 .. k - 1 : SubSeq(combined, l, l + 1) # delimiter

separateBinaryFile ==
    /\ stage = "combined"
    /\ map' = SubSeq(combined, 1, DelimiterAt - 1)
    /\ data' = SubSeq(combined, DelimiterAt + 2, Len(combined))
    /\ unread' = map'
    /\ stage' = "separated"
    /\ UNCHANGED <<hvars, name, text, deflating, combined, output, heoutput, reverseValue, currentCode>>

\* One character of the map file and its code more.
decodeBinaryFileToMap ==
    /\ stage = "separated" /\ unread # <<>>
    /\ LET len  == unread[2]
           code == [b \in 1 .. len |-> unread[9 + b] - 48] IN
       /\ reverseValue' = reverseValue \cup {<<code, unread[1]>>}
       /\ unread' = SubSeq(unread, 10 + len, Len(unread))
    /\ UNCHANGED <<hvars, stage, name, text, deflating, files, heoutput, currentCode>>

\* readBinaryFile: the bits of each byte, the low one first.
readBinaryFile(bytes) ==
    [b \in 1 .. 8 * Len(bytes) |-> (bytes[(b + 7) \div 8] \div bitValue[((b - 1) % 8) + 1]) % 2]

inflateOpens ==
    /\ stage = "separated" /\ unread = <<>>
    /\ heoutput' = readBinaryFile(data)
    /\ stage' = "inflating"
    /\ UNCHANGED <<hvars, name, text, deflating, files, unread, reverseValue, currentCode>>

\* One bit more: when currentCode is a code its character is written.  The
\* bits that make up no code at the end are dropped.
inflate ==
    /\ stage = "inflating"
    /\ IF heoutput = <<>>
       THEN stage' = "inflated" /\ UNCHANGED <<output, heoutput, currentCode>>
       ELSE LET code  == Append(currentCode, Head(heoutput))
                chars == {e[2] : e \in {d \in reverseValue : d[1] = code}} IN
            /\ heoutput' = Tail(heoutput)
            /\ \/ chars = {} /\ currentCode' = code /\ UNCHANGED output
               \/ \E c \in chars : output' = Append(output, c) /\ currentCode' = <<>>
            /\ UNCHANGED stage
    /\ UNCHANGED <<hvars, name, text, deflating, combined, map, data, unread, reverseValue>>

---------------------------------------------------------------------------
Init ==
    /\ name \in FileNames /\ text \in Texts
    /\ HuffmanInit(frequencyIncreasing(text))
    /\ stage = "codes"
    /\ charWithHuffmanCodes = <<>> /\ packed = <<>>
    /\ combined = <<>> /\ map = <<>> /\ data = <<>> /\ output = <<>>
    /\ unread = <<>> /\ heoutput = <<>> /\ reverseValue = {} /\ currentCode = <<>>

Next ==
    \/ HuffmanStep /\ UNCHANGED <<stage, name, text, deflating, files, inflating>>
    \/ GetCodes \/ Deflate \/ combineBinaryFiles
    \/ separateBinaryFile \/ decodeBinaryFileToMap
    \/ inflateOpens \/ inflate

Spec == Init /\ [][Next]_cvars
FairSpec == Spec /\ WF_cvars(Next)
---------------------------------------------------------------------------
(* Properties.                                                             *)

\* f[0] + ... + f[m - 1].
Total(f, m) == LET s[k \in 0 .. m] == IF k = 0 THEN 0 ELSE s[k - 1] + f[k - 1] IN s[m]

\* No code uses fewer bits: the in-place lengths are as good as any lengths
\* a prefix code can have (Kraft's inequality).
Cost(lens) == Total([j \in 0 .. n - 1 |-> freq[j] * lens[j]], n)
Powers(m) == LET p[k \in 0 .. m] == IF k = 0 THEN 1 ELSE 2 * p[k - 1] IN p
Kraft(lens) == Total([j \in 0 .. n - 1 |-> Powers(n)[n - lens[j]]], n) <= Powers(n)[n]
Optimal ==
    hpc = "coded" /\ n > 1 /\ stage = "codes" =>
        LET own == [j \in 0 .. n - 1 |-> A[n - 1 - j]] IN
        \A lens \in [0 .. n - 1 -> 1 .. n - 1] : Kraft(lens) => Cost(own) <= Cost(lens)

\* The delimiter found first is the one deflate wrote, whatever characters
\* and whatever name the file has: neither 7F nor FE as a key can make up
\* another one.
SeparatedAtDelimiter ==
    stage = "separated" => map = encodeMapToBinaryFile(charWithHuffmanCodes)

\* The file, its packed bits and the map of its codes are three files; or the
\* packed bits go into the file itself.
ThreeFiles == name.ext # "bin" /\ name.stem # "encoded_data"
Emptied    == name.ext = "bin" /\ name.stem # "encoded_data"

\* Of a file that deflate does not overwrite under way, inflate returns
\* every character, followed by as many copies of the most frequent one
\* (whose code is all zeros) as the padding holds.  Of a file that the opening
\* of <stem>.bin empties before it is read it returns nothing.
Restored ==
    stage = "inflated" =>
        /\ ThreeFiles =>
              LET extra == Padding \div Len(huffmanCodes[1]) IN
              output = text \o [k \in 1 .. extra |-> charAccordingToFreq(text)[n]]
        /\ Emptied => output = <<>>

\* A file of two or more different characters goes through compression and
\* decompression to the end; one of fewer crashes the client before its
\* request is sent.
Finishes == (n > 1 ~> stage = "inflated") /\ (n <= 1 ~> hpc = "crash")

\* inflate undoes deflate.
Lossless == stage = "inflated" => output = text
=============================================================================
