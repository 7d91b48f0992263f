------------------------- MODULE MCGlobalAllocator --------------------------
(* Words of two bytes; layouts aligned to half a word, to a word, and to two *)
(* and four words, one of them too large to be extended.                     *)
EXTENDS GlobalAllocator

Layout(size, align) == [size |-> size, align |-> align]
MCLayouts == {Layout(1, 1), Layout(3, 2), Layout(1, 4), Layout(3, 4), Layout(4, 4), Layout(2, 8),
              Layout(8, 8), Layout(40, 8)}

=============================================================================
