------------------------------ MODULE FileCopy ------------------------------
(***************************************************************************)
(* What a transfer promises, without packets, ports or timeouts: a copy    *)
(* grows by whole blocks of one source file, from its beginning, in order, *)
(* without a gap or a repetition; it is declared complete exactly when its *)
(* last, short block is in it; and an attempt may fail at any moment.      *)
(* Which file is the source is not promised: it is fixed when the          *)
(* receiver first hears from a sender.                                     *)
(***************************************************************************)
EXTENDS Integers, Sequences

CONSTANTS Content,      \* name -> bytes
          Names,
          BlockSize

VARIABLES status,       \* "idle", "run", "ok" or "fail"
          source,       \* the name being copied, "" while undecided
          copy          \* the bytes copied so far

vars == <<status, source, copy>>

\* The first n blocks of a file, or all of it when it is shorter.
FirstBlocks(bytes, n) ==
    SubSeq(bytes, 1, IF n * BlockSize <= Len(bytes) THEN n * BlockSize
                                                    ELSE Len(bytes))

Init == status = "idle" /\ source = "" /\ copy = <<>>

\* A new attempt; it may fail at once.
Begin ==
    /\ status # "run"
    /\ status' \in {"run", "fail"}
    /\ source' = ""
    /\ copy' = <<>>

KeepSource == source' \in Names \cup {""} /\ (source # "" => source' = source)

\* A sender is heard of before the first block counts.
Hear ==
    /\ status = "run"
    /\ KeepSource
    /\ UNCHANGED <<status, copy>>

Store ==
    /\ status = "run"
    /\ KeepSource
    /\ source' \in DOMAIN Content
    /\ LET bytes == Content[source'] IN
       \E n \in 0 .. Len(bytes) :
          /\ n * BlockSize < Len(bytes)
          /\ copy  = FirstBlocks(bytes, n)
          /\ copy' = FirstBlocks(bytes, n + 1)
          /\ status' = IF Len(bytes) < (n + 1) * BlockSize THEN "ok" ELSE "run"

Fail ==
    /\ status = "run"
    /\ status' = "fail"
    /\ KeepSource
    /\ UNCHANGED copy

Next == Begin \/ Hear \/ Store \/ Fail

Spec == Init /\ [][Next]_vars
=============================================================================
