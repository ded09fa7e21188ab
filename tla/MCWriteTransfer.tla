--------------------------- MODULE MCWriteTransfer ---------------------------
(* Instances of WriteTransfer for TLC. *)
EXTENDS WriteTransfer

\* The server starts with one file.
OldFile  == [old |-> <<"o", "l", "d">>]

\* Blocks of two bytes: two full blocks and a short one; one short block; two
\* full blocks; the name of the file the server has; a name without a local
\* file.
MixedLocal  == [long |-> <<"a", "b", "c", "d", "e">>, short |-> <<"f">>,
                exact |-> <<"a", "b", "c", "d">>, old |-> <<"n">>]
MixedServer == [f \in DOMAIN MixedLocal \cup {"typo"} |-> f]
MixedNames  == DOMAIN MixedServer

\* With ByteMod = 8: short files, exact multiples, one that brings the 6-bit
\* block number to its last value, and one that needs one block more.
Bytes(n)     == [i \in 1 .. n |-> IF i % 3 = 0 THEN "a" ELSE "b"]
SizedLocal   == [one |-> Bytes(1), three |-> Bytes(3), five |-> Bytes(5),
                 exact |-> Bytes(4), old |-> Bytes(1),
                 wide |-> Bytes(125), wrap |-> Bytes(127)]
SizedServer  == [f \in DOMAIN SizedLocal \cup {"typo"} |-> f]
SizedNames   == DOMAIN SizedServer

\* For two clients: two files of two blocks, and no local file of two more
\* names, one of which the server has.
TwoLocal  == [this |-> <<"a", "b", "c">>, that |-> <<"d", "e", "f">>]
TwoServer == [f \in DOMAIN TwoLocal \cup {"typo", "old"} |-> f]
TwoNames  == DOMAIN TwoServer
=============================================================================
