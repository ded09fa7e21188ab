------------------------------ MODULE FilesMap ------------------------------
(***************************************************************************)
(* std::map<std::string, int> TFTPServer::files, name -> active readers,   *)
(* as the calls the handlers make on it.                                   *)
(***************************************************************************)
EXTENDS Integers

\* At start every regular file of the directory has no reader.
initializeFileMap(dir) == [f \in DOMAIN dir |-> 0]

\* insert keeps the entry a name already has.
mutMapInsert(m, f, n) == m                          \* mutant: insert forgotten
mapInsert(m, f, n) ==
    IF f \in DOMAIN m THEN m
    ELSE [g \in DOMAIN m \cup {f} |-> IF g = f THEN n ELSE m[g]]
mapErase(m, f) == [g \in DOMAIN m \ {f} |-> m[g]]
=============================================================================
