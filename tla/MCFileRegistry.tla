--------------------------- MODULE MCFileRegistry ---------------------------
(* Instances of FileRegistry for TLC. *)
EXTENDS FileRegistry

\* One file the server has, and the listing.
OneName   == <<"a", "ls.txt">>
OneFile   == {"a"}
=============================================================================
