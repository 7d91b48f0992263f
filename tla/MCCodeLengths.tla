--------------------------- MODULE MCCodeLengths ----------------------------
(* Sets of 5, 10 and 6 symbols, codes of up to 5 bits.  The escape of a length *)
(* is 3; runs of zeros are short at 3 and 4, split at 5 and long from 6.       *)
EXTENDS CodeLengths

MCNumSymbols == [T |-> 5, C |-> 10, P |-> 6]
MCCountBits == [T |-> 3, C |-> 4, P |-> 3]
MCTableBits == [T |-> 2, C |-> 4, P |-> 2]

\* All complete codes of a set with codes of up to l bits.
AllCodes(s, l) == {lens \in [Symbols(s) -> 0..l] : Complete(lens)}
Of(lens) == [lens |-> lens, only |-> None]
Only(s, c) == [lens |-> [d \in Symbols(s) |-> 0], only |-> c]
Array(s, seq) == [c \in Symbols(s) |-> IF c < Len(seq) THEN seq[c + 1] ELSE 0]

Plan(t, c, p, sym, pos) == [T |-> t, C |-> c, P |-> p, symbol |-> sym, position |-> pos]

T1 == Of(Array("T", <<3, 2, 2, 2, 3>>))
T2 == Of(Array("T", <<2, 2, 3, 3, 2>>))
C1 == Of(Array("C", <<0, 1, 0, 0, 0, 0, 2, 0, 2>>))
C2 == Of(Array("C", <<1, 0, 0, 0, 0, 0, 0, 0, 0, 1>>))
C3 == Of(Array("C", <<2, 2, 2, 2>>))
P1 == Of(Array("P", <<0, 2, 1, 0, 3, 3>>))
Positions == {0, 1, 2, 3, 5, 8, 15, 16, 31}

\* Every code of T, every code of C of one or two bits, every such code of P with the
\* positions it has, and sets of one symbol.
Plans ==
  LET all == {Plan(Of(t), c, P1, 8, 9) : t \in AllCodes("T", 4), c \in {C1}}
             \cup {Plan(t, Of(c), P1, sym, 9) : t \in {T1, T2}, c \in AllCodes("C", 2), sym \in {3, 9}}
             \cup {Plan(T2, C1, Of(p), 8, pos) : p \in AllCodes("P", 2), pos \in Positions}
             \cup {Plan(Only("T", 4), C3, P1, 2, 0),
                   Plan(T1, Only("C", 7), P1, 7, 16), Plan(T1, Only("C", 0), P1, 0, 0),
                   Plan(T1, C2, Only("P", 3), 9, 6), Plan(T1, C2, Only("P", 0), 9, 0)}
  IN {plan \in all : Encodable(plan)}

\* The plans whose encodings are also cut and changed.
Samples == {Plan(T1, C1, P1, 8, 9), Plan(T2, C2, Only("P", 3), 9, 6), Plan(T2, Only("C", 7), P1, 7, 16),
            Plan(T1, C2, Only("P", 0), 9, 0)}

Padded(bits) == bits \o [k \in 1..4 |-> 0]
Flip(bits, i) == [bits EXCEPT ![i] = 1 - @]
OnesFrom(bits, i) == [k \in DOMAIN bits |-> IF k < i THEN bits[k] ELSE 1]

MCInputs ==
  {[kind |-> "whole", plan |-> plan, src |-> Padded(Encoded(plan))] : plan \in Plans}
    \cup {[kind |-> "whole", plan |-> plan, src |-> Encoded(plan)] : plan \in Samples}
    \cup UNION {LET bits == Encoded(plan)
                IN {[kind |-> "cut", plan |-> plan, src |-> SubSeq(bits, 1, i - 1)] : i \in DOMAIN bits}
                     \cup {[kind |-> "damaged", plan |-> plan, src |-> Padded(Flip(bits, i))] : i \in DOMAIN bits}
                     \cup {[kind |-> "damaged", plan |-> plan, src |-> OnesFrom(bits, i)] : i \in DOMAIN bits}
                : plan \in Samples}

MCStale ==
  {[pt |-> [i \in 0..(NPT - 1) |-> 0], c |-> [i \in Symbols("C") |-> 0]],
   [pt |-> Array("P", <<1, 2, 4, 4, 4, 4>>), c |-> Array("C", <<4, 4, 3, 3, 3, 3, 3, 4, 4, 3>>)]}

=============================================================================
