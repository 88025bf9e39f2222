---------------------------- MODULE MoldFraming ----------------------------
(***************************************************************************)
(* What a MoldUDP64 message block is, as smtrecv decodes it: a two-byte    *)
(* big-endian length followed by that many bytes.  A byte is a number      *)
(* below Base; the code has Base = 256 and SizeMod = 2^64, the modulus of  *)
(* uint64_t and size_t.  The conversion is the one of smttool.c: the       *)
(* unsigned converter calls the signed one, so that a first byte with its  *)
(* top bit set sign-extends the length to the full width.                  *)
(***************************************************************************)
EXTENDS Naturals, Sequences

CONSTANTS
    Base,       \* how many values a byte has; 256 in the code
    SizeMod,    \* modulus of the 64-bit unsigned integers
    Cap         \* sizeof(msgbuff.buffer), MAX_BUFFER_SIZE

ASSUME FramingAssumption ==
    /\ Base \in Nat \ {0, 1}
    /\ Cap \in Nat \ {0}
    /\ SizeMod \in Nat
    /\ SizeMod > Base * Base + Cap

Byte == 0 .. (Base - 1)

\* The two length bytes as convert_big_endian_to_uint64_t returns them.
LengthField(hi, lo) ==
    IF hi * 2 < Base THEN hi * Base + lo
                     ELSE (SizeMod - Base * Base) + (hi * Base + lo)

LengthBytes == 2

\* The length stored at byte position p (counted from 0) of the byte string f.
LengthAt(f, p) == LengthField(f[p + 1], f[p + 2])

\* A complete message block starts at position p of f.
Whole(f, p) ==
    /\ p + LengthBytes <= Len(f)
    /\ p + LengthBytes + LengthAt(f, p) <= Len(f)

\* The data of the message block that starts at position p of f.
DataAt(f, p) == SubSeq(f, p + LengthBytes + 1, p + LengthBytes + LengthAt(f, p))
=============================================================================
