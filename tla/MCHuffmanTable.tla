--------------------------- MODULE MCHuffmanTable ---------------------------
(* Codes of up to five bits over alphabets of six, four and four symbols, with *)
(* tables of three and two bits: codes of C reach two levels below the table,  *)
(* those of T and P one.                                                       *)
EXTENDS HuffmanTable

MCNumSymbols == [T |-> 4, C |-> 6, P |-> 4]
MCTableBits == [T |-> 2, C |-> 3, P |-> 2]

\* All complete codes of n symbols.
AllCodes(n) == {lens \in [0..(n - 1) -> 0..5] : Complete(lens)}

Four(a, b, c, d) == [i \in 0..3 |-> <<a, b, c, d>>[i + 1]]
Six(a, b, c, d, e, f) == [i \in 0..5 |-> <<a, b, c, d, e, f>>[i + 1]]

\* The first block leaves flat, deep and sparse codes behind; for T there are also an
\* incomplete code, one that exceeds the code space and one of six bits.
First == [T |-> {Four(3, 1, 3, 2), Four(2, 2, 2, 0), Four(1, 1, 1, 1), Four(6, 1, 1, 0)},
          C |-> {Six(1, 2, 3, 4, 5, 5), Six(3, 3, 3, 3, 2, 2)},
          P |-> {Four(3, 3, 2, 1)}]

\* In the second, every code of C goes between a T and a P code with trees.
Second == [T |-> {Four(1, 2, 3, 3)},
           C |-> AllCodes(6),
           P |-> {Four(2, 3, 1, 3)}]

MCCodes == <<First, Second>>
MCOnlySymbols == <<[T |-> {4}, C |-> {5}, P |-> {3}], [T |-> {}, C |-> {}, P |-> {0}]>>

=============================================================================
