---------------------------- MODULE MCDecompress ----------------------------
(* Strings longer than the distance they are copied over, and longer than what *)
(* is left of dst; blocks that end inside dst, and one of no symbols.          *)
EXTENDS Decompress

CONSTANTS a, b

MCChars == {a, b}
MCOffsets == 0..2
MCLengths == 3..4
MCDstSizes == {0, 1, 5, 7}
MCSrcSizes == 7..9
MCBlockSizes == {0, 1, 3}

=============================================================================
