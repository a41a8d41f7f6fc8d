-------------------------- MODULE MCSuffixTreeScore --------------------------
(***************************************************************************)
(* Instances of SuffixTreeScore for TLC: all words up to a length, and     *)
(* longer ones that repeat words of two letters.                           *)
(***************************************************************************)
EXTENDS SuffixTreeScore

CONSTANT WordLength

ShortWords == BoundedSeq(Letter, WordLength) \ {<<>>}
AllWords == ShortWords \cup {w \o w : w \in {v \in ShortWords : Len(v) = 2}}
=============================================================================
