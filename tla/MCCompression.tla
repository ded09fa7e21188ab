---------------------------- MODULE MCCompression ----------------------------
(* Instances of Compression for TLC. *)
EXTENDS Compression

\* Every file of up to six of the characters 'a', 7F and FE.
Words == UNION {[1 .. k -> {97, 127, 254}] : k \in 0 .. 6}

\* Files with given numbers of four to six characters.
Profiles == {f \in [1 .. 4 -> 1 .. 6] : \A k \in 1 .. 3 : f[k] <= f[k + 1]}
            \cup {f \in [1 .. 5 -> {1, 2, 3, 5}] : \A k \in 1 .. 4 : f[k] <= f[k + 1]}
            \cup {<<1, 1, 1, 1, 1, 1>>, <<1, 1, 2, 3, 5, 8>>, <<2, 2, 2, 3, 3, 3>>}
Characters == <<0, 254, 48, 127, 128, 10>>
TextOf(f) == FlattenSeq([k \in DOMAIN f |-> [l \in 1 .. f[k] |-> Characters[k]]])

SmallTexts == Words \cup {TextOf(f) : f \in Profiles}

\* A file beside those deflate makes; one that is overwritten by its own
\* packed bits; one whose packed bits are overwritten by the map.
PlainNames == {[stem |-> "notes", ext |-> "txt"]}
BinNames   == {[stem |-> "notes", ext |-> "bin"]}
MapNames   == {[stem |-> "encoded_data", ext |-> "txt"]}
SomeNames  == PlainNames \cup BinNames \cup MapNames
=============================================================================
