--------------------------- MODULE CanonicalCode ----------------------------
(***************************************************************************)
(* The reference for module HuffmanTable and for module CodeLengths: what a *)
(* code given by its lengths stands for.  Codes are given out by length,    *)
(* then by symbol, from 0 up; length 0 means that a symbol is not used.     *)
(***************************************************************************)
EXTENDS Words, FiniteSetsExt

CONSTANT CodeBits  \* longest code, and width of the words start and count

ASSUME CodeBitsAssumption == CodeBits \in Nat

\* Code space, in units of 2^-CodeBits, of each symbol, and of the symbols in S.
Weights(lens) == [c \in DOMAIN lens |-> Pow2[CodeBits - lens[c]]]
Space(lens, S) == SumFunctionOnSet(Weights(lens), S)

\* The symbols of a code shorter than l.
Shorter(lens, l) == {c \in DOMAIN lens : lens[c] # 0 /\ lens[c] < l}

\* A complete prefix code: the lengths fill the code space exactly.
Complete(lens) ==
  /\ \A c \in DOMAIN lens : lens[c] <= CodeBits
  /\ Space(lens, Shorter(lens, CodeBits + 1)) = Pow2[CodeBits]

CanonicalStart(lens, c) ==
  Space(lens, {d \in Shorter(lens, lens[c] + 1) : lens[d] < lens[c] \/ d < c})

\* x, read to CodeBits bits, starts with the code of the symbol it decodes to.
Canonical(lens, x) ==
  CHOOSE c \in DOMAIN lens :
    /\ lens[c] # 0
    /\ CanonicalStart(lens, c) <= x
    /\ x < CanonicalStart(lens, c) + Pow2[CodeBits - lens[c]]

=============================================================================
