--------------------------- MODULE MCReadTransfer ---------------------------
(* Instances of ReadTransfer for TLC. *)
EXTENDS ReadTransfer

\* Blocks of two bytes: two full blocks and a short one; a single short
\* block; an empty file; and one file that is an exact multiple.
MixedFiles  == [long |-> <<"a", "b", "c", "d", "e">>, short |-> <<"f">>,
                empty |-> <<>>, exact |-> <<"a", "c">>]
MixedNames  == DOMAIN MixedFiles \cup {"missing"}

\* For two clients: a file of two blocks, a file of one, and a missing name.
TwoFiles == [long |-> <<"a", "b", "c">>, short |-> <<"f">>]
TwoNames == DOMAIN TwoFiles \cup {"missing"}

\* For ByteMod = 8, where the signed decoding breaks at block 4: every size up
\* to the first beyond it.
Bytes(n)    == [i \in 1 .. n |-> IF i % 3 = 0 THEN "a" ELSE "b"]
SizeNames   == {"n0", "n1", "n2", "n3", "n7", "n8", "n9", "n11"}
SizeOf      == [n0 |-> 0, n1 |-> 1, n2 |-> 2, n3 |-> 3, n7 |-> 7, n8 |-> 8,
                n9 |-> 9, n11 |-> 11]
SizedFiles  == [f \in SizeNames |-> Bytes(SizeOf[f])]
SizedNames  == SizeNames \cup {"missing"}
=============================================================================
