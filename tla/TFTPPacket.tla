----------------------------- MODULE TFTPPacket -----------------------------
(***************************************************************************)
(* The packets of TFTPPacket.h/.cpp, as far as the handlers tell them      *)
(* apart.  A packet is its opcode, the two bytes that follow it (the block *)
(* number of DATA and ACK, the code of ERROR) and its payload: the bytes   *)
(* of a DATA block, <<filename, mode>> of a request, nothing otherwise.    *)
(*                                                                         *)
(* A file is a sequence of abstract bytes.  The block size (512) and the   *)
(* base of the two-byte block number (256) are parameters, so that short   *)
(* files can reach the boundaries; the code's values satisfy the same      *)
(* assumptions.                                                            *)
(***************************************************************************)
EXTENDS Integers, Sequences

CONSTANTS BlockSize,    \* bytes in a full DATA block: 512 in the code
          ByteMod       \* values of one byte: 256 in the code

ASSUME PacketAssumption ==
    /\ BlockSize \in Nat \ {0}
    /\ ByteMod \in Nat /\ ByteMod > 7

RRQ    == 1
WRQ    == 2
DATA   == 3
ACK    == 4
ERROR  == 5
DELETE == 6
LS     == 7

NOT_DEFINED            == 0
FILE_NOT_FOUND         == 1
ACCESS_VIOLATION       == 2
DISK_FULL              == 3
ILLEGAL_TFTP_OPERATION == 4
UNKNOWN_TID            == 5
FILE_ALREADY_EXISTS    == 6

Octet == "octet"

\* uint16_t holds 0 .. U16-1.
U16    == ByteMod * ByteMod
UInt16 == 0 .. (U16 - 1)
Inc16(b) == (b + 1) % U16
mutDec16(b) == b                                    \* mutant: the - 1 dropped
Dec16(b) == (b + U16 - 1) % U16

\* The two big-endian bytes every constructor writes after the opcode.
Wire(op, b, payload) ==
    [op |-> op, hi |-> b \div ByteMod, lo |-> b % ByteMod, data |-> payload]

createRequestPacket(op, filename, mode) == Wire(op, 0, <<filename, mode>>)
createRRQPacket(filename)      == createRequestPacket(RRQ, filename, Octet)
createWRQPacket(filename)      == createRequestPacket(WRQ, filename, Octet)
createDataPacket(block, bytes) == Wire(DATA, block, bytes)
createACKPacket(block)         == Wire(ACK, block, <<>>)
createErrorPacket(code)        == Wire(ERROR, code, <<>>)

\* How the client, and the server's write handler, read the two bytes:
\* masked with 0xFF, combined and passed through ntohs.
NtohsBlock(p) == p.hi * ByteMod + p.lo

\* How the server's read and list handlers read them: `(char << 8) | char'
\* with a signed char, so a low byte with its top bit set is sign-extended
\* over the high byte.
CharBlock(p) ==
    IF p.lo >= ByteMod \div 2 THEN (ByteMod - 1) * ByteMod + p.lo
                              ELSE p.hi * ByteMod + p.lo

\* readDataBlock: at most BlockSize bytes from offset (b-1)*BlockSize.
\* Block 0 seeks to a negative offset, which fails, and nothing is read.
readDataBlock(file, b) ==
    IF b = 0 \/ (b - 1) * BlockSize >= Len(file) THEN <<>>
    ELSE SubSeq(file, (b - 1) * BlockSize + 1,
                IF b * BlockSize <= Len(file) THEN b * BlockSize ELSE Len(file))

\* A block that ends the transfer: dataLength < 512.
mutIsShort(bytes) == Len(bytes) <= BlockSize        \* mutant: off by one
isShort(bytes) == Len(bytes) < BlockSize
=============================================================================
