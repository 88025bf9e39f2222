---------------------------- MODULE MCMoldBuffer ----------------------------
(***************************************************************************)
(* MoldBuffer on files of up to MaxFrames blocks of 0 to MaxLen bytes,     *)
(* each followed by nothing, by a truncated block or by a block whose      *)
(* length has its top bit set, and on two runs of two files.  With Cap = 4 *)
(* a block of 3 bytes does not fit in the buffer.                          *)
(***************************************************************************)
EXTENDS MoldBuffer, SequencesExt

CONSTANTS MaxFrames, MaxLen

Frame(n, k) == <<0, n>> \o [i \in 1 .. n |-> (i + k) % Base]

Tails == {<<>>, <<0>>, <<0, 2, 3>>, <<2, 0, 1>>, <<1, 0, 2, 1>>}

Lengths == UNION {[1 .. n -> 0 .. MaxLen] : n \in 0 .. MaxFrames}

FileOf(s, tail) == FlattenSeq([k \in DOMAIN s |-> Frame(s[k], k)]) \o tail

MCFileLists ==
    {<<FileOf(s, t)>> : s \in Lengths, t \in Tails}
    \cup {<<FileOf(<<1, 2>>, <<0>>), FileOf(<<2, 0>>, <<>>)>>,
          <<FileOf(<<3, 1>>, <<>>), FileOf(<<1>>, <<0, 2, 3>>), FileOf(<<0, 2>>, <<>>)>>}
=============================================================================
