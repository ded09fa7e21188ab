----------------------------- MODULE MCCommands -----------------------------
(* Instances of Commands for TLC. *)
EXTENDS Commands

SomeNames == <<"a", "b", "c", "d", "e", "f", "g", "h", "i">>
AllFiles  == {SomeNames[k] : k \in DOMAIN SomeNames}
EmptyFiles == [f \in AllFiles |-> <<>>]

\* Blocks of two lines: no file, one short block, an exact multiple, a full
\* and a short block, and listings up to and beyond block 4, whose number the
\* server misreads when ByteMod is 8.
FirstFiles(k) == {SomeNames[j] : j \in 1 .. k}
SomeDirectories == {FirstFiles(k) : k \in {0, 1, 2, 3, 7, 9}}
=============================================================================
