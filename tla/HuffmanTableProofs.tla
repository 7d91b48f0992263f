------------------------- MODULE HuffmanTableProofs -------------------------
(***************************************************************************)
(* build_huffman_table builds what the canonical code says, for all widths, *)
(* alphabets and sequences of blocks.                                       *)
(***************************************************************************)
EXTENDS HuffmanTable, CanonicalCodeProofs

Lens == code[set].lens

\* Strengthening of TypeOK: tables and codes of all sets, and what the loop is at.
TypeInv ==
  /\ TypeOK
  /\ DOMAIN table = {"c_table", "pt_table"} /\ DOMAIN code = Sets
  /\ \A s \in Sets : code[s].lens \in [Symbols(s) -> Nat]
  /\ phase \in {"symbols", "tree"} =>
       /\ char \in 0..NumSymbols[set]
       /\ \A c \in Symbols(set) : Lens[c] <= CodeBits
  /\ phase = "tree" =>
       /\ char \in Symbols(set)
       /\ Lens[char] > TableBits[set]

-----------------------------------------------------------------------------
(* Constants                                                               *)

\* The sizes of a set's table and of the trees.
LEMMA Sizes ==
  ASSUME NEW s \in Sets
  PROVE  /\ NumSymbols[s] \in Nat \ {0} /\ Nodes \in Nat \ {0} /\ NumSymbols[s] <= Nodes
         /\ TableBits[s] \in Nat /\ CodeBits \in Nat /\ TableBits[s] < CodeBits
         /\ NumSymbols[s] <= Pow2[TableBits[s]]
         /\ Pow2[TableBits[s]] \in Nat \ {0} /\ Pow2[CodeBits] \in Nat \ {0}
         /\ Extended(s) \in Nat \ {0} /\ Pow2[Extended(s)] \in Nat \ {0}
         /\ Pow2[CodeBits] = Pow2[Extended(s)] * Pow2[TableBits[s]]
         /\ Symbols(s) \subseteq 0..(Nodes - 1)
         /\ Symbols(s) = 0..(NumSymbols[s] - 1) /\ Entries(s) = 0..(Pow2[TableBits[s]] - 1)
<1>1. /\ \A r \in Sets : NumSymbols[r] \in Nat \ {0} /\ TableBits[r] \in Nat
      /\ CodeBits \in Nat /\ TableBits[s] < CodeBits /\ NumSymbols[s] <= Pow2[TableBits[s]]
      /\ s \in {"T", "P"} => 2 * NumSymbols[s] - 2 <= NumSymbols["C"]
  BY HuffmanAssumption, CodeBitsAssumption
<1>2. s \in {"T", "P"} \/ s = "C"
  BY DEF Sets
<1>3. NumSymbols["C"] \in Nat \ {0} /\ NumSymbols[s] \in Nat \ {0} /\ TableBits[s] \in Nat
  BY <1>1 DEF Sets
<1>4. Nodes \in Nat \ {0} /\ NumSymbols[s] <= Nodes
  BY <1>1, <1>2, <1>3 DEF Nodes
<1>5. Extended(s) \in Nat \ {0} /\ Extended(s) + TableBits[s] = CodeBits
  BY <1>1, <1>3 DEF Extended
<1>6. Pow2[Extended(s) + TableBits[s]] = Pow2[Extended(s)] * Pow2[TableBits[s]]
  BY <1>3, <1>5, Pow2Add
<1>7. /\ Pow2[TableBits[s]] \in Nat \ {0} /\ Pow2[CodeBits] \in Nat \ {0}
      /\ Pow2[Extended(s)] \in Nat \ {0}
  BY <1>1, <1>3, <1>5, Pow2Type
<1>8. Symbols(s) \subseteq 0..(Nodes - 1)
  BY <1>3, <1>4 DEF Symbols
<1>9. Symbols(s) = 0..(NumSymbols[s] - 1) /\ Entries(s) = 0..(Pow2[TableBits[s]] - 1)
  BY DEF Symbols, Entries
<1> QED BY <1>1, <1>3, <1>4, <1>5, <1>6, <1>7, <1>8, <1>9

\* T and P have tables of one size.
LEMMA SharedEntries ==
  /\ Table("C") = "c_table" /\ Table("T") = "pt_table" /\ Table("P") = "pt_table"
  /\ Entries("T") = Entries("P")
BY HuffmanAssumption DEF Table, Entries

\* The table of a set.
LEMMA TableType ==
  ASSUME TypeInv, NEW s \in Sets
  PROVE  Table(s) \in DOMAIN table /\ table[Table(s)] \in [Entries(s) -> 0..(Nodes - 1)]
BY SharedEntries DEF TypeInv, TypeOK, Sets, Table

\* A table may be replaced by another of its type.
LEMMA TableUpdate ==
  ASSUME TypeInv, NEW s \in Sets, NEW t \in [Entries(s) -> 0..(Nodes - 1)],
         NEW new, new = [table EXCEPT ![Table(s)] = t]
  PROVE  /\ DOMAIN new = {"c_table", "pt_table"}
         /\ new["c_table"] \in [Entries("C") -> 0..(Nodes - 1)]
         /\ new["pt_table"] \in [Entries("P") -> 0..(Nodes - 1)]
BY SharedEntries DEF TypeInv, TypeOK, Sets, Table

\* A quotient is no larger than the number.
LEMMA DivLess ==
  ASSUME NEW x \in Nat, NEW m \in Nat \ {0}
  PROVE  x \div m \in Nat /\ x \div m <= x
<1> DEFINE q == x \div m
           r == x % m
<1>1. q \in Nat /\ r \in 0..(m - 1) /\ x = m * q + r
  BY Division, Zenon
<1> HIDE DEF q, r
<1>2. m * q >= q
  BY <1>1
<1>3. q <= x
  BY <1>1, <1>2
<1> QED BY <1>1, <1>3 DEF q

\* Words.
LEMMA WordType ==
  ASSUME NEW n \in Nat
  PROVE  Word(n) \in 0..(Pow2[CodeBits] - 1) /\ (n < Pow2[CodeBits] => Word(n) = n)
<1>1. PICK m \in Nat \ {0} : m = Pow2[CodeBits]
  BY CodeBitsAssumption, Pow2Type
<1>2. n % m \in 0..(m - 1)
  BY Division
<1>3. n < m => n % m = n
  <2> SUFFICES ASSUME n < m PROVE n % m = n
    OBVIOUS
  <2>1. n \in 0..(m - 1) /\ n = m * 0 + n
    OBVIOUS
  <2> QED BY <2>1, DivisionIs
<1> QED BY <1>1, <1>2, <1>3 DEF Word

\* The code space of lengths that need not be a code's.
LEMMA StartsType ==
  ASSUME NEW s \in Sets, NEW lens \in [Symbols(s) -> Nat]
  PROVE  /\ Starts(lens) \in [1..(CodeBits + 1) -> 0..(Pow2[CodeBits] - 1)]
         /\ Scaled(s, Starts(lens)) \in [1..(CodeBits + 1) -> 0..(Pow2[CodeBits] - 1)]
<1>1. /\ CodeBits \in Nat /\ Pow2[CodeBits] \in Nat \ {0} /\ Pow2[Extended(s)] \in Nat \ {0}
      /\ NumSymbols[s] \in Nat \ {0} /\ Symbols(s) = 0..(NumSymbols[s] - 1)
  BY Sizes
<1>2. ASSUME NEW l \in 1..(CodeBits + 1)
      PROVE  Space(lens, Shorter(lens, l)) \in Nat
  <2>1. \A c \in Shorter(lens, l) : c \in Symbols(s) /\ CodeBits - lens[c] \in Nat
    BY <1>1 DEF Shorter
  <2>2. \A c \in Shorter(lens, l) : Weights(lens)[c] \in Nat
    BY <2>1, Pow2Type DEF Weights
  <2>3. IsFiniteSet(Symbols(s)) /\ Shorter(lens, l) \subseteq Symbols(s)
    <3>1. 0 \in Int /\ NumSymbols[s] - 1 \in Int
      BY <1>1
    <3> QED BY <1>1, <2>1, <3>1, FS_Interval
  <2>4. IsFiniteSet(Shorter(lens, l))
    BY <2>3, FS_Subset
  <2> QED BY <2>2, <2>4, SumType DEF Space
<1>3. \A l \in 1..(CodeBits + 1) : Word(Space(lens, Shorter(lens, l))) \in 0..(Pow2[CodeBits] - 1)
  BY <1>2, WordType
<1>4. Starts(lens) \in [1..(CodeBits + 1) -> 0..(Pow2[CodeBits] - 1)]
  BY <1>3 DEF Starts
<1>5. \A x \in 0..(Pow2[CodeBits] - 1) : x \div Pow2[Extended(s)] \in 0..(Pow2[CodeBits] - 1)
  <2> SUFFICES ASSUME NEW x \in 0..(Pow2[CodeBits] - 1)
               PROVE  x \div Pow2[Extended(s)] \in 0..(Pow2[CodeBits] - 1)
    OBVIOUS
  <2>1. x \div Pow2[Extended(s)] \in Nat /\ x \div Pow2[Extended(s)] <= x
    BY <1>1, DivLess
  <2> QED BY <1>1, <2>1
<1>6. Scaled(s, Starts(lens)) \in [1..(CodeBits + 1) -> 0..(Pow2[CodeBits] - 1)]
  BY <1>4, <1>5 DEF Scaled
<1> QED BY <1>4, <1>6

-----------------------------------------------------------------------------
(* Types                                                                   *)

\* The symbol and the length the loop is at.
LEMMA LoopSymbol ==
  ASSUME TypeInv, phase \in {"symbols", "tree"}, char \in Symbols(set)
  PROVE  /\ set \in Sets /\ Lens \in [Symbols(set) -> Nat]
         /\ SymBitLen = Lens[char] /\ SymBitLen \in 0..CodeBits
         /\ SymBitLen # 0 => /\ SymBitLen \in 1..(CodeBits + 1)
                             /\ Weight(set, SymBitLen) \in Nat \ {0}
                             /\ start[SymBitLen] \in 0..(Pow2[CodeBits] - 1)
                             /\ NextCode \in 0..(Pow2[CodeBits] - 1)
<1>1. set \in Sets /\ Lens \in [Symbols(set) -> Nat] /\ Lens[char] <= CodeBits /\ CodeBits \in Nat
      /\ start \in [1..(CodeBits + 1) -> 0..(Pow2[CodeBits] - 1)]
  BY CodeBitsAssumption DEF TypeInv, TypeOK, Lens
<1>2. SymBitLen = Lens[char] /\ SymBitLen \in 0..CodeBits
  BY <1>1 DEF SymBitLen, Lens
<1>3. ASSUME SymBitLen # 0
      PROVE  /\ SymBitLen \in 1..(CodeBits + 1)
             /\ Weight(set, SymBitLen) \in Nat \ {0}
             /\ start[SymBitLen] \in 0..(Pow2[CodeBits] - 1)
             /\ NextCode \in 0..(Pow2[CodeBits] - 1)
  <2>1. SymBitLen \in 1..(CodeBits + 1) /\ start[SymBitLen] \in 0..(Pow2[CodeBits] - 1)
    BY <1>1, <1>2, <1>3
  <2>2. Weight(set, SymBitLen) \in Nat \ {0}
    <3>1. CodeBits - SymBitLen \in Nat
      BY <1>1, <1>2
    <3>2. SymBitLen <= TableBits[set] => TableBits[set] - SymBitLen \in Nat
      BY <1>1, <1>2, Sizes
    <3> QED BY <3>1, <3>2, Pow2Type DEF Weight
  <2>3. start[SymBitLen] + Weight(set, SymBitLen) \in Nat
    BY <2>1, <2>2
  <2>4. NextCode \in 0..(Pow2[CodeBits] - 1)
    BY <2>3, WordType DEF NextCode
  <2> QED BY <2>1, <2>2, <2>4
<1> QED BY <1>1, <1>2, <1>3

\* CodeIterator::new gives arrays of the right sizes.
LEMMA TypeInit == Init => TypeInv
<1> SUFFICES ASSUME Init PROVE TypeInv
  OBVIOUS
<1>1. Nodes \in Nat \ {0} /\ CodeBits \in Nat /\ Pow2[CodeBits] \in Nat \ {0}
  BY Sizes DEF Sets
<1>2. /\ table["c_table"] \in [Entries("C") -> 0..(Nodes - 1)]
      /\ table["pt_table"] \in [Entries("P") -> 0..(Nodes - 1)]
      /\ DOMAIN table = {"c_table", "pt_table"}
  BY <1>1 DEF Init
<1>3. left \in [0..(Nodes - 1) -> 0..(Nodes - 1)] /\ right \in [0..(Nodes - 1) -> 0..(Nodes - 1)]
  BY <1>1 DEF Init
<1>4. /\ DOMAIN code = Sets
      /\ \A s \in Sets : /\ code[s].lens \in [Symbols(s) -> Nat] /\ DOMAIN code[s].lens = Symbols(s)
                         /\ code[s].only \in 0..None
  BY <1>1 DEF Init, None
<1>5. built \subseteq Sets /\ set \in Sets /\ phase = "ready"
  BY DEF Init, Sets
<1>6. block \in 0..Len(Codes)
  BY HuffmanAssumption DEF Init
<1>7. /\ start \in [1..(CodeBits + 1) -> 0..(Pow2[CodeBits] - 1)]
      /\ char \in Nat /\ next_avail_node \in 0..Nodes
      /\ symbol_bitstring \in 0..(Pow2[CodeBits] - 1) /\ idx \in 0..CodeBits
  BY <1>1 DEF Init
<1>8. pointer \in Pointers
  BY DEF Init, Pointers
<1> QED BY <1>2, <1>3, <1>4, <1>5, <1>6, <1>7, <1>8 DEF TypeInv, TypeOK

\* Both ways to read a set.
LEMMA ReadsType ==
  ASSUME TypeInv, NEW s \in Sets, Reads(s)
  PROVE  /\ set' = s /\ block' \in 0..Len(Codes) /\ BlockOf(s) \in DOMAIN Codes /\ phase = "ready"
BY HuffmanAssumption DEF Reads, Due

\* A table filled with one symbol keeps the types.
LEMMA TypeOnlySymbol ==
  ASSUME TypeInv, NEW s \in Sets, NEW c \in OnlySymbols[BlockOf(s)][s], OnlySymbol(s, c)
  PROVE  TypeInv'
<1>1. set' = s /\ block' \in 0..Len(Codes) /\ BlockOf(s) \in DOMAIN Codes /\ phase = "ready"
  BY ReadsType DEF OnlySymbol
<1>2. c \in 0..(Nodes - 1)
  BY <1>1, HuffmanAssumption
<1>3. table[Table(s)] \in [Entries(s) -> 0..(Nodes - 1)] /\ Table(s) \in DOMAIN table
  BY TableType
<1>4. [i \in DOMAIN table[Table(s)] |-> c] \in [Entries(s) -> 0..(Nodes - 1)]
  BY <1>2, <1>3
<1>5. table' = [table EXCEPT ![Table(s)] = [i \in DOMAIN table[Table(s)] |-> c]]
  BY <1>3 DEF OnlySymbol
<1>6. /\ DOMAIN table' = {"c_table", "pt_table"}
      /\ table'["c_table"] \in [Entries("C") -> 0..(Nodes - 1)]
      /\ table'["pt_table"] \in [Entries("P") -> 0..(Nodes - 1)]
  BY <1>4, <1>5, TableUpdate
<1>7. /\ DOMAIN code' = Sets
      /\ \A r \in Sets : /\ code'[r].lens \in [Symbols(r) -> Nat] /\ DOMAIN code'[r].lens = Symbols(r)
                         /\ code'[r].only \in 0..None
  <2>1. Nodes \in Nat \ {0}
    BY Sizes
  <2>2. c \in 0..None
    BY <1>2, <2>1 DEF None
  <2>3. code' = [code EXCEPT ![s] = [lens |-> [d \in Symbols(s) |-> 0], only |-> c]]
    BY DEF OnlySymbol
  <2> QED BY <2>2, <2>3 DEF TypeInv, TypeOK
<1>8. built' \subseteq Sets
  BY DEF OnlySymbol, TypeInv, TypeOK
<1>9. UNCHANGED <<left, right, phase, start, char, next_avail_node, pointer, symbol_bitstring, idx>>
  BY DEF OnlySymbol
<1> QED BY <1>1, <1>6, <1>7, <1>8, <1>9 DEF TypeInv, TypeOK

\* So does the start of a build, complete or refused;
LEMMA TypeBuildTable ==
  ASSUME TypeInv, NEW s \in Sets, NEW lens \in Codes[BlockOf(s)][s], BuildTable(s, lens)
  PROVE  TypeInv' /\ lens \in [Symbols(s) -> Nat]
<1>1. set' = s /\ block' \in 0..Len(Codes) /\ BlockOf(s) \in DOMAIN Codes /\ phase = "ready"
  BY ReadsType DEF BuildTable
<1>2. lens \in [Symbols(s) -> Nat]
  BY <1>1, HuffmanAssumption
<1>3. table[Table(s)] \in [Entries(s) -> 0..(Nodes - 1)] /\ Table(s) \in DOMAIN table
  BY TableType
<1>4. start' \in [1..(CodeBits + 1) -> 0..(Pow2[CodeBits] - 1)]
  BY <1>2, StartsType DEF BuildTable
<1>5. /\ DOMAIN code' = Sets /\ code'[s].lens = lens
      /\ \A r \in Sets : /\ code'[r].lens \in [Symbols(r) -> Nat] /\ DOMAIN code'[r].lens = Symbols(r)
                         /\ code'[r].only \in 0..None
  <2>1. None \in 0..None
    BY Sizes DEF None
  <2>2. code' = [code EXCEPT ![s] = [lens |-> lens, only |-> None]]
    BY DEF BuildTable
  <2> QED BY <1>2, <2>1, <2>2 DEF TypeInv, TypeOK
<1>6. built' \subseteq Sets
  BY DEF BuildTable, TypeInv, TypeOK
<1>7. UNCHANGED <<left, right, pointer, symbol_bitstring, idx>>
  BY DEF BuildTable
<1>8. CASE start'[CodeBits + 1] # 0 \/ \E c \in Symbols(s) : lens[c] > CodeBits
  <2>1. phase' = "error" /\ UNCHANGED <<table, char, next_avail_node>>
    BY <1>8 DEF BuildTable
  <2> QED BY <1>1, <1>2, <1>4, <1>5, <1>6, <1>7, <2>1 DEF TypeInv, TypeOK
<1>9. CASE ~(start'[CodeBits + 1] # 0 \/ \E c \in Symbols(s) : lens[c] > CodeBits)
  <2> DEFINE t == ZeroUnused(table[Table(s)], start'[TableBits[s] + 1] \div Pow2[Extended(s)])
  <2>1. phase' = "symbols" /\ char' = 0 /\ next_avail_node' = NumSymbols[s]
    BY <1>9 DEF BuildTable, FirstNode
  <2>2. table' = [table EXCEPT ![Table(s)] = t]
    BY <1>3, <1>9 DEF BuildTable
  <2>3. 0 \in 0..(Nodes - 1) /\ NumSymbols[s] \in 0..Nodes /\ 0 \in 0..NumSymbols[s]
    BY Sizes
  <2>4. t \in [Entries(s) -> 0..(Nodes - 1)]
    BY <1>3, <2>3 DEF ZeroUnused
  <2> HIDE DEF t
  <2>5. /\ DOMAIN table' = {"c_table", "pt_table"}
        /\ table'["c_table"] \in [Entries("C") -> 0..(Nodes - 1)]
        /\ table'["pt_table"] \in [Entries("P") -> 0..(Nodes - 1)]
    BY <2>2, <2>4, TableUpdate
  <2>6. \A c \in Symbols(s) : lens[c] <= CodeBits
    BY <1>2, <1>9, CodeBitsAssumption
  <2>7. Lens' = lens
    BY <1>1, <1>5 DEF Lens
  <2> QED BY <1>1, <1>2, <1>4, <1>5, <1>6, <1>7, <2>1, <2>3, <2>5, <2>6, <2>7 DEF TypeInv, TypeOK
<1> QED BY <1>2, <1>8, <1>9

\* a symbol without a code;
LEMMA TypeSymbolUnused ==
  ASSUME TypeInv, SymbolUnused PROVE TypeInv'
<1>1. char' = char + 1 /\ phase = "symbols" /\ char \in Symbols(set) /\ set \in Sets
      /\ UNCHANGED <<table, left, right, code, built, set, block, phase, start, next_avail_node,
                     pointer, symbol_bitstring, idx>>
  BY DEF SymbolUnused, TypeInv, TypeOK
<1>2. char' \in Nat /\ char' \in 0..NumSymbols[set]
  BY <1>1, Sizes
<1>3. Lens' = Lens
  BY <1>1 DEF Lens
<1> QED BY <1>1, <1>2, <1>3 DEF TypeInv, TypeOK

\* a symbol whose code fits the table;
LEMMA TypeSymbolShort ==
  ASSUME TypeInv, SymbolShort PROVE TypeInv'
<1>1. /\ phase = "symbols" /\ char \in Symbols(set) /\ set \in Sets
      /\ SymBitLen \in 1..TableBits[set]
      /\ UNCHANGED <<left, right, code, built, set, block, next_avail_node, pointer,
                     symbol_bitstring, idx>>
  BY DEF SymbolShort, TypeInv, TypeOK
<1>2. Lens' = Lens
  BY <1>1 DEF Lens
<1>3. CASE start[SymBitLen] >= NextCode \/ NextCode > Pow2[TableBits[set]]
  <2>1. phase' = "error" /\ UNCHANGED <<table, start, char>>
    BY <1>3 DEF SymbolShort
  <2> QED BY <1>1, <2>1 DEF TypeInv, TypeOK
<1>4. CASE ~(start[SymBitLen] >= NextCode \/ NextCode > Pow2[TableBits[set]])
  <2> DEFINE t == [i \in DOMAIN table[Table(set)] |->
                     IF start[SymBitLen] <= i /\ i < NextCode THEN char ELSE table[Table(set)][i]]
  <2>1. table[Table(set)] \in [Entries(set) -> 0..(Nodes - 1)] /\ Table(set) \in DOMAIN table
    BY <1>1, TableType
  <2>2. /\ table' = [table EXCEPT ![Table(set)] = t]
        /\ start' = [start EXCEPT ![SymBitLen] = NextCode]
        /\ char' = char + 1 /\ phase' = "symbols"
    BY <1>1, <1>4, <2>1 DEF SymbolShort
  <2>3. char \in 0..(Nodes - 1) /\ char' \in Nat /\ char' \in 0..NumSymbols[set]
    BY <1>1, <2>2, Sizes
  <2>4. t \in [Entries(set) -> 0..(Nodes - 1)]
    BY <2>1, <2>3
  <2> HIDE DEF t
  <2>5. /\ DOMAIN table' = {"c_table", "pt_table"}
        /\ table'["c_table"] \in [Entries("C") -> 0..(Nodes - 1)]
        /\ table'["pt_table"] \in [Entries("P") -> 0..(Nodes - 1)]
    BY <1>1, <2>2, <2>4, TableUpdate
  <2>6. NextCode \in 0..(Pow2[CodeBits] - 1)
    BY <1>1, LoopSymbol
  <2>7. start' \in [1..(CodeBits + 1) -> 0..(Pow2[CodeBits] - 1)]
    BY <2>2, <2>6 DEF TypeInv, TypeOK
  <2> QED BY <1>1, <1>2, <2>2, <2>3, <2>5, <2>7 DEF TypeInv, TypeOK
<1> QED BY <1>3, <1>4

\* the start of a walk into the tree;
LEMMA TypeSymbolLong ==
  ASSUME TypeInv, SymbolLong PROVE TypeInv'
<1>1. /\ phase = "symbols" /\ char \in Symbols(set) /\ set \in Sets
      /\ SymBitLen > TableBits[set]
      /\ phase' = "tree" /\ symbol_bitstring' = start[SymBitLen]
      /\ pointer' = [kind |-> "table", at |-> start[SymBitLen] \div Pow2[Extended(set)]]
      /\ idx' = SymBitLen - TableBits[set]
      /\ UNCHANGED <<table, left, right, code, built, set, block, start, char, next_avail_node>>
  BY DEF SymbolLong, TypeInv, TypeOK
<1>2. Lens' = Lens
  BY <1>1 DEF Lens
<1>3. /\ SymBitLen = Lens[char] /\ SymBitLen \in 0..CodeBits /\ SymBitLen # 0
      /\ start[SymBitLen] \in 0..(Pow2[CodeBits] - 1)
  <2>1. SymBitLen = Lens[char] /\ SymBitLen \in 0..CodeBits /\ SymBitLen # 0
    BY <1>1, LoopSymbol, Sizes
  <2> QED BY <1>1, <2>1, LoopSymbol
<1>4. idx' \in 0..CodeBits
  <2>1. TableBits[set] \in Nat /\ CodeBits \in Nat
    BY <1>1, Sizes
  <2> QED BY <1>1, <1>3, <2>1
<1> DEFINE e == Pow2[Extended(set)]
           x == start[SymBitLen]
<1>5. x \div e \in Nat /\ x \div e \in Entries(set)
  <2>1. /\ Pow2[CodeBits] = e * Pow2[TableBits[set]] /\ Entries(set) = 0..(Pow2[TableBits[set]] - 1)
        /\ e \in Nat \ {0} /\ Pow2[TableBits[set]] \in Nat /\ Pow2[CodeBits] \in Nat
    BY <1>1, Sizes
  <2>2. x \in Nat /\ x < e * Pow2[TableBits[set]]
    BY <1>3, <2>1
  <2> HIDE DEF x, e
  <2>3. x \div e < Pow2[TableBits[set]] /\ x \div e \in Nat
    BY <2>1, <2>2, DivBound, DivLess
  <2> QED BY <2>1, <2>3
<1>6. pointer' \in Pointers /\ pointer'.kind = "table" /\ pointer'.at \in Entries(set)
  <2> HIDE DEF x, e
  <2>1. pointer' = [kind |-> "table", at |-> x \div e]
    BY <1>1 DEF x, e
  <2> QED BY <1>5, <2>1 DEF Pointers
<1> QED BY <1>1, <1>2, <1>3, <1>4, <1>6 DEF TypeInv, TypeOK

\* What the pointer points to.
LEMMA GetType ==
  ASSUME TypeInv, phase = "tree"
  PROVE  /\ Get(pointer) \in 0..(Nodes - 1) /\ set \in Sets
         /\ pointer.kind \in {"table", "left", "right"}
<1>1. pointer.kind \in {"table", "left", "right"} /\ set \in Sets
  BY DEF TypeInv, TypeOK, Pointers
<1>2. CASE pointer.kind = "table"
  <2>1. Get(pointer) = table[Table(set)][pointer.at] /\ pointer.at \in Entries(set)
    BY <1>2 DEF Get, TypeInv, TypeOK
  <2> QED BY <1>1, <2>1, TableType
<1>3. CASE pointer.kind = "left"
  <2>1. Get(pointer) = left[pointer.at] /\ pointer.at \in 0..(Nodes - 1)
    BY <1>3 DEF Get, TypeInv, TypeOK
  <2> QED BY <1>1, <2>1 DEF TypeInv, TypeOK
<1>4. CASE pointer.kind = "right"
  <2>1. Get(pointer) = right[pointer.at] /\ pointer.at \in 0..(Nodes - 1)
    BY <1>4 DEF Get, TypeInv, TypeOK
  <2> QED BY <1>1, <2>1 DEF TypeInv, TypeOK
<1> QED BY <1>1, <1>2, <1>3, <1>4

\* Setting it keeps the types of tables and trees.
LEMMA SetType ==
  ASSUME TypeInv, phase = "tree", NEW v \in 0..(Nodes - 1)
  PROVE  /\ DOMAIN TableSet(pointer, v) = {"c_table", "pt_table"}
         /\ TableSet(pointer, v)["c_table"] \in [Entries("C") -> 0..(Nodes - 1)]
         /\ TableSet(pointer, v)["pt_table"] \in [Entries("P") -> 0..(Nodes - 1)]
         /\ LeftSet(pointer, v) \in [0..(Nodes - 1) -> 0..(Nodes - 1)]
         /\ RightSet(pointer, v) \in [0..(Nodes - 1) -> 0..(Nodes - 1)]
<1>1. set \in Sets
  BY GetType
<1>2. LeftSet(pointer, v) \in [0..(Nodes - 1) -> 0..(Nodes - 1)]
  BY DEF LeftSet, TypeInv, TypeOK
<1>3. RightSet(pointer, v) \in [0..(Nodes - 1) -> 0..(Nodes - 1)]
  BY DEF RightSet, TypeInv, TypeOK
<1>4. CASE pointer.kind = "table"
  <2>1. table[Table(set)] \in [Entries(set) -> 0..(Nodes - 1)] /\ Table(set) \in DOMAIN table
    BY <1>1, TableType
  <2>2. pointer.at \in Entries(set)
    BY <1>4 DEF TypeInv, TypeOK
  <2> DEFINE t == [table[Table(set)] EXCEPT ![pointer.at] = v]
  <2>3. t \in [Entries(set) -> 0..(Nodes - 1)]
    BY <2>1, <2>2
  <2>4. TableSet(pointer, v) = [table EXCEPT ![Table(set)] = t]
    BY <1>4, <2>1 DEF TableSet
  <2> HIDE DEF t
  <2> QED BY <1>1, <1>2, <1>3, <2>3, <2>4, TableUpdate
<1>5. CASE pointer.kind # "table"
  <2>1. TableSet(pointer, v) = table
    BY <1>5 DEF TableSet
  <2> QED BY <1>2, <1>3, <2>1 DEF TypeInv, TypeOK
<1> QED BY <1>4, <1>5

\* a step of the walk, which may take a new node;
LEMMA TypeDescend ==
  ASSUME TypeInv, Descend PROVE TypeInv'
<1> DEFINE new == Get(pointer) = 0 /\ next_avail_node < Nodes
           node == IF new THEN next_avail_node ELSE Get(pointer)
<1>1. /\ phase = "tree" /\ idx # 0
      /\ symbol_bitstring' = Word(2 * symbol_bitstring) /\ idx' = idx - 1
      /\ UNCHANGED <<code, built, set, block, phase, start, char>>
  BY DEF Descend
<1>2. /\ table' = IF new THEN TableSet(pointer, node) ELSE table
      /\ left' = IF new THEN [LeftSet(pointer, node) EXCEPT ![node] = 0] ELSE left
      /\ right' = IF new THEN [RightSet(pointer, node) EXCEPT ![node] = 0] ELSE right
      /\ next_avail_node' = IF new THEN next_avail_node + 1 ELSE next_avail_node
      /\ pointer' = [kind |-> IF GoesRight THEN "right" ELSE "left", at |-> node]
  BY DEF Descend
<1>3. Get(pointer) \in 0..(Nodes - 1) /\ set \in Sets
  BY <1>1, GetType
<1>4. Nodes \in Nat \ {0} /\ next_avail_node \in 0..Nodes
  BY <1>3, Sizes DEF TypeInv, TypeOK
<1>5. node \in 0..(Nodes - 1)
  BY <1>3, <1>4
<1>6. next_avail_node' \in 0..Nodes
  BY <1>2, <1>4
<1> HIDE DEF new, node
<1>7. /\ DOMAIN TableSet(pointer, node) = {"c_table", "pt_table"}
      /\ TableSet(pointer, node)["c_table"] \in [Entries("C") -> 0..(Nodes - 1)]
      /\ TableSet(pointer, node)["pt_table"] \in [Entries("P") -> 0..(Nodes - 1)]
      /\ LeftSet(pointer, node) \in [0..(Nodes - 1) -> 0..(Nodes - 1)]
      /\ RightSet(pointer, node) \in [0..(Nodes - 1) -> 0..(Nodes - 1)]
  BY <1>1, <1>5, SetType
<1>8. /\ DOMAIN table' = {"c_table", "pt_table"}
      /\ table'["c_table"] \in [Entries("C") -> 0..(Nodes - 1)]
      /\ table'["pt_table"] \in [Entries("P") -> 0..(Nodes - 1)]
  BY <1>2, <1>7 DEF TypeInv, TypeOK
<1>9. 0 \in 0..(Nodes - 1)
  BY <1>4
<1>10. left' \in [0..(Nodes - 1) -> 0..(Nodes - 1)] /\ right' \in [0..(Nodes - 1) -> 0..(Nodes - 1)]
  BY <1>2, <1>7, <1>9 DEF TypeInv, TypeOK
<1>11. /\ pointer' \in Pointers /\ pointer'.kind # "table" /\ pointer'.at \in 0..(Nodes - 1)
  BY <1>2, <1>4, <1>5 DEF Pointers
<1>12. symbol_bitstring' \in 0..(Pow2[CodeBits] - 1)
  <2>1. 2 * symbol_bitstring \in Nat
    BY DEF TypeInv, TypeOK
  <2> QED BY <1>1, <2>1, WordType
<1>13. idx' \in 0..CodeBits
  BY <1>1, CodeBitsAssumption DEF TypeInv, TypeOK
<1>14. Lens' = Lens
  BY <1>1 DEF Lens
<1> QED BY <1>1, <1>6, <1>8, <1>10, <1>11, <1>12, <1>13, <1>14 DEF TypeInv, TypeOK

\* its end;
LEMMA TypeSetLeaf ==
  ASSUME TypeInv, SetLeaf PROVE TypeInv'
<1>1. /\ phase = "tree" /\ phase' = "symbols" /\ char' = char + 1
      /\ table' = TableSet(pointer, char)
      /\ left' = LeftSet(pointer, char) /\ right' = RightSet(pointer, char)
      /\ start' = [start EXCEPT ![SymBitLen] = NextCode]
      /\ UNCHANGED <<code, built, set, block, next_avail_node, pointer, symbol_bitstring, idx>>
  BY DEF SetLeaf
<1>2. set \in Sets /\ char \in Symbols(set) /\ Lens[char] > TableBits[set]
  BY <1>1 DEF TypeInv, TypeOK
<1>3. char \in 0..(Nodes - 1) /\ char' \in Nat /\ char' \in 0..NumSymbols[set]
  BY <1>1, <1>2, Sizes
<1>4. SymBitLen # 0 /\ SymBitLen \in 1..(CodeBits + 1) /\ NextCode \in 0..(Pow2[CodeBits] - 1)
  <2>1. SymBitLen = Lens[char] /\ TableBits[set] \in Nat
    BY <1>1, <1>2, LoopSymbol, Sizes
  <2>2. SymBitLen # 0
    BY <1>2, <2>1
  <2> QED BY <1>1, <1>2, <2>2, LoopSymbol
<1>5. start' \in [1..(CodeBits + 1) -> 0..(Pow2[CodeBits] - 1)]
  BY <1>1, <1>4 DEF TypeInv, TypeOK
<1>6. /\ DOMAIN table' = {"c_table", "pt_table"}
      /\ table'["c_table"] \in [Entries("C") -> 0..(Nodes - 1)]
      /\ table'["pt_table"] \in [Entries("P") -> 0..(Nodes - 1)]
      /\ left' \in [0..(Nodes - 1) -> 0..(Nodes - 1)] /\ right' \in [0..(Nodes - 1) -> 0..(Nodes - 1)]
  BY <1>1, <1>3, SetType
<1>7. Lens' = Lens
  BY <1>1 DEF Lens
<1> QED BY <1>1, <1>3, <1>5, <1>6, <1>7 DEF TypeInv, TypeOK

\* the end of the build;
LEMMA TypeTableBuilt ==
  ASSUME TypeInv, TableBuilt PROVE TypeInv'
BY DEF TableBuilt, TypeInv, TypeOK

\* and a step of nobody.
LEMMA TypeStutter ==
  ASSUME TypeInv, UNCHANGED vars PROVE TypeInv'
BY DEF TypeInv, TypeOK, vars, Lens

\* Every step keeps the types.
LEMMA TypeNext == TypeInv /\ [Next]_vars => TypeInv'
BY TypeOnlySymbol, TypeBuildTable, TypeSymbolUnused, TypeSymbolShort, TypeSymbolLong, TypeDescend,
   TypeSetLeaf, TypeTableBuilt, TypeStutter DEF Next

\* TypeInv is invariant.
LEMMA TypeInvariant == Spec => []TypeInv
  BY TypeInit, TypeNext, PTL DEF Spec

-----------------------------------------------------------------------------
(* The tree under construction                                             *)
(*                                                                         *)
(* A place in the tree is a number of bits and their value.  pos says which *)
(* place each node number stands for; L are the lengths of set s, m is the  *)
(* first node number not in use, and n the first symbol not done yet.       *)

\* The first k bits of the code of c, and one bit more.
At(L, c, k) == <<k, Top(CanonicalStart(L, c), k)>>
Kid(q, b) == <<q[1] + 1, 2 * q[2] + b>>

\* The done symbols whose codes do not fit the table.
Long(s, L, n) == {c \in Used(L) : L[c] > TableBits[s] /\ c < n}

NodeIds(s, m) == NumSymbols[s]..(m - 1)

\* The content w of place q: its node's number, the symbol whose code it is, or zero.
Holds(s, L, pos, m, n, q, w) ==
  /\ \A i \in NodeIds(s, m) : pos[i] = q => w = i
  /\ \A c \in Long(s, L, n) : At(L, c, L[c]) = q => w = c
  /\ (\A i \in NodeIds(s, m) : pos[i] # q) /\ (\A c \in Long(s, L, n) : At(L, c, L[c]) # q) => w = 0

\* Where a place's content is kept: entries of the table that no short code takes, and
\* both sides of every node.
Cells(s, L, m) ==
  [kind : {"table"}, at : Taken(L, TableBits[s])..(Pow2[TableBits[s]] - 1)]
    \cup [kind : {"left", "right"}, at : NodeIds(s, m)]

CellPlace(s, pos, p) ==
  CASE p.kind = "table" -> <<TableBits[s], p.at>>
    [] p.kind = "left"  -> Kid(pos[p.at], 0)
    [] p.kind = "right" -> Kid(pos[p.at], 1)

\* What a pointer into the trees of s leads to.
Content(s, p) ==
  CASE p.kind = "table" -> table[Table(s)][p.at]
    [] p.kind = "left"  -> left[p.at]
    [] p.kind = "right" -> right[p.at]

\* Node numbers stand for different inner places, not above the table's, and a node's
\* parent is one too.
NodesOk(s, L, pos, m) ==
  /\ m \in Nat /\ NumSymbols[s] <= m
  /\ \A i \in NodeIds(s, m) : Inner(L, pos[i]) /\ pos[i][1] >= TableBits[s]
  /\ \A i, j \in NodeIds(s, m) : pos[i] = pos[j] => i = j
  /\ \A i \in NodeIds(s, m) :
       pos[i][1] = TableBits[s] \/ \E j \in NodeIds(s, m), b \in {0, 1} : pos[i] = Kid(pos[j], b)

\* The done codes have their nodes.
PathsOk(s, L, pos, m, n) ==
  \A c \in Long(s, L, n) : \A k \in TableBits[s]..(L[c] - 1) :
    \E i \in NodeIds(s, m) : pos[i] = At(L, c, k)

CellsOk(s, L, pos, m, n) ==
  \A p \in Cells(s, L, m) : Holds(s, L, pos, m, n, CellPlace(s, pos, p), Content(s, p))

\* The entries of the short codes that are done.
ShortOk(s, L, n) ==
  \A c \in Used(L), x \in 0..(Pow2[CodeBits] - 1) :
    L[c] <= TableBits[s] /\ c < n /\ Covers(L, c, x) => Root(s, x) = c

TreeOf(s, L, pos, m, n) ==
  /\ NodesOk(s, L, pos, m) /\ PathsOk(s, L, pos, m, n)
  /\ CellsOk(s, L, pos, m, n) /\ ShortOk(s, L, n)

\* Lengths of set s that are a complete code.
CodeOf(s, L) == s \in Sets /\ IsCode(L, NumSymbols[s])

-----------------------------------------------------------------------------
(* Places                                                                  *)

\* A code's start and its beginnings.
LEMMA AtType ==
  ASSUME NEW L, NEW N, IsCode(L, N), NEW c \in Used(L), NEW k \in 0..L[c]
  PROVE  /\ k \in 0..CodeBits /\ k \in Nat
         /\ At(L, c, k)[1] = k /\ At(L, c, k)[2] = Top(CanonicalStart(L, c), k)
         /\ At(L, c, k)[2] \in Nat /\ At(L, c, k)[2] < Pow2[k]
<1>1. /\ L[c] \in 1..CodeBits /\ CanonicalStart(L, c) \in Nat /\ CodeBits \in Nat
      /\ W(L, c) \in Nat \ {0} /\ Pow2[CodeBits] \in Nat
      /\ CanonicalStart(L, c) + W(L, c) <= Pow2[CodeBits]
  BY StartType, CodeBitsAssumption
<1>2. k \in 0..CodeBits /\ k \in Nat /\ CanonicalStart(L, c) < Pow2[CodeBits]
  BY <1>1
<1>3. Top(CanonicalStart(L, c), k) \in Nat /\ Top(CanonicalStart(L, c), k) < Pow2[k]
  BY <1>1, <1>2, TopType
<1> QED BY <1>2, <1>3 DEF At

\* One bit further along a code.
LEMMA AtKid ==
  ASSUME NEW L, NEW N, IsCode(L, N), NEW c \in Used(L), NEW k \in 0..(L[c] - 1)
  PROVE  /\ k + 1 \in 0..L[c] /\ k \in 0..L[c]
         /\ Top(CanonicalStart(L, c), k + 1) % 2 \in {0, 1}
         /\ At(L, c, k + 1) = Kid(At(L, c, k), Top(CanonicalStart(L, c), k + 1) % 2)
<1>1. /\ L[c] \in 1..CodeBits /\ CanonicalStart(L, c) \in Nat /\ CodeBits \in Nat
  BY StartType, CodeBitsAssumption
<1>2. k \in Nat /\ k < CodeBits /\ k + 1 \in 0..L[c] /\ k \in 0..L[c]
  BY <1>1
<1>3. /\ Top(CanonicalStart(L, c), k + 1) % 2 \in {0, 1}
      /\ Top(CanonicalStart(L, c), k + 1)
           = 2 * Top(CanonicalStart(L, c), k) + (Top(CanonicalStart(L, c), k + 1) % 2)
  BY <1>1, <1>2, TopStep
<1>4. Kid(At(L, c, k), Top(CanonicalStart(L, c), k + 1) % 2)
        = <<k + 1, 2 * Top(CanonicalStart(L, c), k) + (Top(CanonicalStart(L, c), k + 1) % 2)>>
  BY DEF Kid, At
<1>5. At(L, c, k + 1) = <<k + 1, Top(CanonicalStart(L, c), k + 1)>>
  BY DEF At
<1> QED BY <1>2, <1>3, <1>4, <1>5

\* A place is the kid of one place, on one side.
LEMMA KidOne ==
  ASSUME NEW q, NEW r, NEW b \in {0, 1}, NEW d \in {0, 1},
         q = <<q[1], q[2]>>, q[1] \in Nat, q[2] \in Nat,
         r = <<r[1], r[2]>>, r[1] \in Nat, r[2] \in Nat,
         Kid(q, b) = Kid(r, d)
  PROVE  q = r /\ b = d
<1>1. q[1] + 1 = r[1] + 1 /\ 2 * q[2] + b = 2 * r[2] + d
  BY DEF Kid
<1>2. b = d
  BY <1>1
<1>3. q[1] = r[1] /\ q[2] = r[2]
  BY <1>1, <1>2
<1> QED BY <1>2, <1>3

\* A code ends at no inner place.
LEMMA LeafNotInner ==
  ASSUME NEW L, NEW N, IsCode(L, N), NEW c \in Used(L), NEW q, Inner(L, q)
  PROVE  At(L, c, L[c]) # q
<1> SUFFICES ASSUME At(L, c, L[c]) = q PROVE FALSE
  OBVIOUS
<1>1. PICK d \in Used(L) : \E k \in 0..(L[d] - 1) : q = <<k, Top(CanonicalStart(L, d), k)>>
  BY DEF Inner
<1>2. PICK k \in 0..(L[d] - 1) : q = <<k, Top(CanonicalStart(L, d), k)>>
  BY <1>1
<1>3. k = L[c] /\ Top(CanonicalStart(L, d), L[c]) = Top(CanonicalStart(L, c), L[c])
  BY <1>2 DEF At
<1>4. c = d
  BY <1>3, PrefixFree
<1>5. L[c] \in Nat
  BY StartType
<1> QED BY <1>2, <1>3, <1>4, <1>5

\* Codes end at different places.
LEMMA LeafOne ==
  ASSUME NEW L, NEW N, IsCode(L, N), NEW c \in Used(L), NEW d \in Used(L),
         At(L, c, L[c]) = At(L, d, L[d])
  PROVE  c = d
<1>1. L[c] = L[d] /\ Top(CanonicalStart(L, d), L[c]) = Top(CanonicalStart(L, c), L[c])
  BY DEF At
<1> QED BY <1>1, PrefixFree

\* The beginnings of a code are inner places.
LEMMA AtInner ==
  ASSUME NEW L, NEW c \in Used(L), NEW k \in 0..(L[c] - 1)
  PROVE  Inner(L, At(L, c, k))
BY DEF Inner, At

\* What is known of a set with a complete code.
LEMMA CodeOfFacts ==
  ASSUME NEW s, NEW L, CodeOf(s, L)
  PROVE  /\ s \in Sets /\ IsCode(L, NumSymbols[s]) /\ TableBits[s] \in Nat \ {0}
         /\ TableBits[s] < CodeBits /\ CodeBits \in Nat /\ NumSymbols[s] \in Nat \ {0}
         /\ Taken(L, TableBits[s]) \in Nat \ {0} /\ Taken(L, TableBits[s]) <= Pow2[TableBits[s]]
         /\ Pow2[TableBits[s]] \in Nat \ {0}
         /\ Filled(L, TableBits[s] + 1, 0) = Pow2[Extended(s)] * Taken(L, TableBits[s])
<1>1. /\ s \in Sets /\ IsCode(L, NumSymbols[s])
  BY DEF CodeOf
<1>2. /\ TableBits[s] \in Nat /\ CodeBits \in Nat /\ TableBits[s] < CodeBits
      /\ NumSymbols[s] <= Pow2[TableBits[s]] /\ NumSymbols[s] \in Nat \ {0}
  BY <1>1, Sizes
<1>3. PICK c \in Used(L) : L[c] <= TableBits[s]
  BY <1>1, <1>2, ShortExists
<1>4. L[c] \in 1..CodeBits /\ CanonicalStart(L, c) \in Nat /\ W(L, c) \in Nat \ {0}
  BY <1>1, StartType
<1>5. TableBits[s] \in Nat \ {0}
  BY <1>2, <1>3, <1>4
<1>6. /\ Taken(L, TableBits[s]) \in 0..Pow2[TableBits[s]] /\ Pow2[TableBits[s]] \in Nat \ {0}
      /\ Pow2[CodeBits - TableBits[s]] \in Nat \ {0}
      /\ Filled(L, TableBits[s] + 1, 0) = Pow2[CodeBits - TableBits[s]] * Taken(L, TableBits[s])
      /\ CanonicalStart(L, c) + W(L, c) <= Filled(L, TableBits[s] + 1, 0)
  BY <1>1, <1>2, <1>3, TakenBoundary
<1>7. Taken(L, TableBits[s]) # 0
  <2> SUFFICES ASSUME Taken(L, TableBits[s]) = 0 PROVE FALSE
    OBVIOUS
  <2>1. Pow2[CodeBits - TableBits[s]] * 0 = 0
    BY <1>6
  <2> QED BY <1>4, <1>6, <2>1
<1> QED BY <1>1, <1>2, <1>5, <1>6, <1>7 DEF Extended

\* The nodes of a tree are its set's own.
Own(s) == {i \in 0..(Nodes - 1) : i >= NumSymbols[s] /\ (s # "C" => i < NumSymbols["C"])}

\* The nodes of a tree are numbered within the range of its set.
LEMMA NodesOwn ==
  ASSUME NEW s, NEW L, CodeOf(s, L), NEW pos, NEW m, NodesOk(s, L, pos, m)
  PROVE  /\ NodeIds(s, m) \subseteq Own(s) /\ m < Nodes
         /\ m - NumSymbols[s] <= NumSymbols[s] - 2
<1>1. /\ s \in Sets /\ IsCode(L, NumSymbols[s]) /\ NumSymbols[s] \in Nat \ {0}
      /\ TableBits[s] \in Nat \ {0}
  BY CodeOfFacts
<1>2. /\ m \in Nat /\ NumSymbols[s] <= m
      /\ \A i \in NumSymbols[s]..(m - 1) : Inner(L, pos[i]) /\ pos[i][1] >= TableBits[s]
      /\ \A i, j \in NumSymbols[s]..(m - 1) : pos[i] = pos[j] => i = j
  BY DEF NodesOk, NodeIds
<1>3. \A i \in NumSymbols[s]..(m - 1) : Inner(L, pos[i]) /\ pos[i][1] # 0
  BY <1>1, <1>2
<1>4. m - NumSymbols[s] <= NumSymbols[s] - 2
  BY <1>1, <1>2, <1>3, InnerCount
<1>5. /\ NumSymbols["C"] \in Nat \ {0}
      /\ s # "C" => 2 * NumSymbols[s] - 2 <= NumSymbols["C"]
  BY <1>1, HuffmanAssumption DEF Sets
<1>6. m <= 2 * NumSymbols[s] - 2 /\ m < Nodes /\ (s # "C" => m <= NumSymbols["C"])
  BY <1>1, <1>2, <1>4, <1>5 DEF Nodes
<1>7. Nodes \in Nat
  BY <1>1, Sizes
<1>8. NodeIds(s, m) \subseteq Own(s)
  BY <1>1, <1>2, <1>5, <1>6, <1>7 DEF NodeIds, Own
<1> QED BY <1>4, <1>6, <1>8

-----------------------------------------------------------------------------
(* Lookups in a finished tree                                              *)

\* The first bits of a word are those of the code it starts with.
LEMMA CoveredTop ==
  ASSUME NEW L, NEW N, IsCode(L, N), NEW c \in Used(L), NEW x \in Nat, Covers(L, c, x),
         NEW k \in 0..L[c]
  PROVE  Top(x, k) = Top(CanonicalStart(L, c), k)
<1>1. L[c] \in 0..CodeBits /\ CanonicalStart(L, c) \in Nat
  BY StartType
<1>2. Top(x, L[c]) = Top(CanonicalStart(L, c), L[c])
  BY TopCovers
<1> QED BY <1>1, <1>2, TopAgree

\* The entry that a code that does not fit the table goes through.
LEMMA LongEntry ==
  ASSUME NEW s, NEW L, CodeOf(s, L), NEW c \in Used(L), L[c] > TableBits[s]
  PROVE  Top(CanonicalStart(L, c), TableBits[s]) \in Taken(L, TableBits[s])..(Pow2[TableBits[s]] - 1)
<1>1. /\ s \in Sets /\ IsCode(L, NumSymbols[s]) /\ TableBits[s] \in Nat \ {0}
      /\ TableBits[s] < CodeBits /\ Taken(L, TableBits[s]) \in Nat /\ Pow2[TableBits[s]] \in Nat
      /\ Filled(L, TableBits[s] + 1, 0) = Pow2[Extended(s)] * Taken(L, TableBits[s])
  BY CodeOfFacts
<1>2. Filled(L, TableBits[s] + 1, 0) <= CanonicalStart(L, c)
  BY <1>1, TakenBoundary
<1>3. L[c] \in Nat /\ CanonicalStart(L, c) \in Nat
  BY <1>1, StartType
<1>4. TableBits[s] \in 0..L[c]
  BY <1>1, <1>3
<1>5. /\ Top(CanonicalStart(L, c), TableBits[s]) \in Nat
      /\ Top(CanonicalStart(L, c), TableBits[s]) < Pow2[TableBits[s]]
  BY <1>1, <1>4, AtType
<1> DEFINE e == Pow2[Extended(s)]
           x == CanonicalStart(L, c)
           f == Taken(L, TableBits[s])
           q == x \div e
           r == x % e
<1>6. e \in Nat \ {0} /\ x \in Nat /\ f \in Nat /\ e * f <= x
  BY <1>1, <1>2, <1>3, Sizes
<1>7. Top(CanonicalStart(L, c), TableBits[s]) = q
  BY DEF Top, Extended
<1> HIDE DEF e, x, f
<1>8. q \in Nat /\ r \in 0..(e - 1) /\ x = e * q + r
  BY <1>6, Division, Zenon
<1> HIDE DEF q, r
<1>9. ~(q < f)
  <2> SUFFICES ASSUME q < f PROVE FALSE
    OBVIOUS
  <2>1. q + 1 <= f
    BY <1>6, <1>8
  <2>2. e * (q + 1) <= e * f /\ e * (q + 1) = e * q + e
    BY <1>6, <1>8, <2>1
  <2> QED BY <1>6, <1>8, <2>2
<1>10. f <= q
  BY <1>6, <1>8, <1>9
<1> QED BY <1>1, <1>5, <1>7, <1>10 DEF f

\* One step of a lookup along the code of c: k bits after the table's, at node i.
LEMMA LookupStep ==
  ASSUME NEW s, NEW L, CodeOf(s, L), NEW pos, NEW m, TreeOf(s, L, pos, m, NumSymbols[s]),
         NEW x \in 0..(Pow2[CodeBits] - 1), NEW c \in Used(L), Covers(L, c, x),
         NEW k \in TableBits[s]..(L[c] - 1), NEW i \in NodeIds(s, m), pos[i] = At(L, c, k),
         NEW bit, bit = Top(x, k + 1) % 2
  PROVE  /\ k + 1 = L[c] => Child(i, bit) = c
         /\ \A j \in NodeIds(s, m) : pos[j] = At(L, c, k + 1) => Child(i, bit) = j
<1>1. /\ s \in Sets /\ IsCode(L, NumSymbols[s]) /\ TableBits[s] \in Nat \ {0}
  BY CodeOfFacts
<1>2. L[c] \in 1..CodeBits /\ c \in 0..(NumSymbols[s] - 1) /\ Pow2[CodeBits] \in Nat
  BY <1>1, StartType
<1>3. k \in 0..(L[c] - 1) /\ x \in Nat /\ c < NumSymbols[s] /\ L[c] > TableBits[s]
  BY <1>1, <1>2, Sizes, SMTT(30)
<1>4. /\ k + 1 \in 0..L[c] /\ Top(CanonicalStart(L, c), k + 1) % 2 \in {0, 1}
      /\ At(L, c, k + 1) = Kid(At(L, c, k), Top(CanonicalStart(L, c), k + 1) % 2)
  BY <1>1, <1>3, AtKid
<1>5. Top(x, k + 1) = Top(CanonicalStart(L, c), k + 1)
  BY <1>1, <1>3, <1>4, CoveredTop
<1>6. bit \in {0, 1} /\ At(L, c, k + 1) = Kid(pos[i], bit)
  BY <1>4, <1>5
<1>7. PICK p : p = [kind |-> IF bit = 1 THEN "right" ELSE "left", at |-> i]
  OBVIOUS
<1>8. p \in Cells(s, L, m)
  BY <1>7 DEF Cells
<1>9. CellPlace(s, pos, p) = At(L, c, k + 1) /\ Content(s, p) = Child(i, bit)
  BY <1>6, <1>7 DEF CellPlace, Content, Child
<1>10. Holds(s, L, pos, m, NumSymbols[s], At(L, c, k + 1), Child(i, bit))
  BY <1>8, <1>9 DEF TreeOf, CellsOk
<1>11. c \in Long(s, L, NumSymbols[s])
  BY <1>3 DEF Long
<1> QED BY <1>10, <1>11 DEF Holds

\* The root of a lookup.
LEMMA LookupRoot ==
  ASSUME NEW s, NEW L, CodeOf(s, L), NEW pos, NEW m, TreeOf(s, L, pos, m, NumSymbols[s]),
         NEW x \in 0..(Pow2[CodeBits] - 1), NEW c \in Used(L), Covers(L, c, x)
  PROVE  /\ L[c] <= TableBits[s] => Root(s, x) = c
         /\ L[c] > TableBits[s] =>
              \A j \in NodeIds(s, m) : pos[j] = At(L, c, TableBits[s]) => Root(s, x) = j
<1>1. /\ s \in Sets /\ IsCode(L, NumSymbols[s]) /\ TableBits[s] \in Nat \ {0}
  BY CodeOfFacts
<1>2. L[c] \in 1..CodeBits /\ c \in 0..(NumSymbols[s] - 1) /\ Pow2[CodeBits] \in Nat
  BY <1>1, StartType
<1>3. x \in Nat /\ c < NumSymbols[s]
  BY <1>1, <1>2, Sizes
<1>4. L[c] <= TableBits[s] => Root(s, x) = c
  BY <1>3 DEF TreeOf, ShortOk
<1>5. ASSUME L[c] > TableBits[s], NEW j \in NodeIds(s, m), pos[j] = At(L, c, TableBits[s])
      PROVE  Root(s, x) = j
  <2>1. PICK e : e = Top(CanonicalStart(L, c), TableBits[s])
    OBVIOUS
  <2>2. e \in Taken(L, TableBits[s])..(Pow2[TableBits[s]] - 1)
    BY <1>5, <2>1, LongEntry
  <2>3. TableBits[s] \in 0..L[c]
    BY <1>1, <1>2, <1>5
  <2>4. Top(x, TableBits[s]) = e
    BY <1>1, <1>3, <2>1, <2>3, CoveredTop
  <2>5. Root(s, x) = table[Table(s)][e]
    BY <2>4 DEF Root, Top, Extended
  <2>6. PICK p : p = [kind |-> "table", at |-> e]
    OBVIOUS
  <2>7. p \in Cells(s, L, m)
    BY <2>2, <2>6 DEF Cells
  <2>8. CellPlace(s, pos, p) = At(L, c, TableBits[s]) /\ Content(s, p) = Root(s, x)
    BY <2>1, <2>5, <2>6 DEF CellPlace, Content, At
  <2>9. Holds(s, L, pos, m, NumSymbols[s], At(L, c, TableBits[s]), Root(s, x))
    BY <2>7, <2>8 DEF TreeOf, CellsOk
  <2> QED BY <1>5, <2>9 DEF Holds
<1> QED BY <1>4, <1>5

\* A lookup ends at the symbol whose code the word starts with.
LEMMA LookupIs ==
  ASSUME NEW s, NEW L, CodeOf(s, L), NEW pos, NEW m, TreeOf(s, L, pos, m, NumSymbols[s]),
         NEW x \in 0..(Pow2[CodeBits] - 1), NEW c \in Used(L), Covers(L, c, x)
  PROVE  Lookup(s, x) = c
<1> DEFINE t == TableBits[s]
           e == Extended(s)
           N == NumSymbols[s]
           P(f) == f = [k \in 0..e |->
                          IF k = 0 THEN Root(s, x)
                          ELSE IF f[k - 1] < N THEN f[k - 1]
                          ELSE Child(f[k - 1], (x \div Pow2[e - k]) % 2)]
           g == [k \in 0..e |-> IF L[c] <= t + k THEN c
                                ELSE CHOOSE i \in NodeIds(s, m) : pos[i] = At(L, c, t + k)]
           walk == CHOOSE f : P(f)
<1>1. /\ s \in Sets /\ IsCode(L, N) /\ t \in Nat \ {0} /\ t < CodeBits /\ CodeBits \in Nat
      /\ N \in Nat \ {0}
  BY CodeOfFacts
<1>2. L[c] \in 1..CodeBits /\ c \in 0..(N - 1)
  BY <1>1, StartType
<1>3. e \in Nat \ {0} /\ t + e = CodeBits
  BY <1>1 DEF Extended
<1>4. Lookup(s, x) = walk[e]
  BY DEF Lookup
<1>5. c \in Nat /\ c < N
  BY <1>1, <1>2
<1>6. ASSUME NEW k \in 0..e, ~(L[c] <= t + k)
      PROVE  /\ t + k \in t..(L[c] - 1)
             /\ g[k] \in NodeIds(s, m) /\ pos[g[k]] = At(L, c, t + k) /\ ~(g[k] < N)
  <2>1. t + k \in t..(L[c] - 1) /\ L[c] > t
    BY <1>1, <1>2, <1>3, <1>6
  <2>2. c \in Long(s, L, N)
    BY <1>5, <2>1 DEF Long
  <2>3. \E i \in NodeIds(s, m) : pos[i] = At(L, c, t + k)
    BY <2>1, <2>2 DEF TreeOf, PathsOk
  <2>4. g[k] = CHOOSE i \in NodeIds(s, m) : pos[i] = At(L, c, t + k)
    BY <1>6
  <2>5. g[k] \in NodeIds(s, m) /\ pos[g[k]] = At(L, c, t + k)
    BY <2>3, <2>4
  <2>6. \A i \in NodeIds(s, m) : ~(i < N)
    BY <1>1 DEF NodeIds
  <2> QED BY <2>1, <2>5, <2>6
<1>7. ASSUME NEW k \in 0..e, L[c] <= t + k PROVE g[k] = c
  BY <1>7
<1>8. DOMAIN g = 0..e /\ g = [k \in 0..e |-> g[k]]
  OBVIOUS
<1> HIDE DEF g, t, N
<1>9. g[0] = Root(s, x)
  <2>1. 0 \in 0..e /\ t + 0 = t
    BY <1>1, <1>3
  <2>2. CASE L[c] <= t
    <3>1. g[0] = c
      BY <1>7, <2>1, <2>2
    <3>2. Root(s, x) = c
      BY <2>2, LookupRoot DEF t
    <3> QED BY <3>1, <3>2
  <2>3. CASE ~(L[c] <= t)
    <3>1. g[0] \in NodeIds(s, m) /\ pos[g[0]] = At(L, c, t)
      BY <1>6, <2>1, <2>3
    <3>2. L[c] > t
      BY <1>1, <1>2, <2>3
    <3>3. Root(s, x) = g[0]
      BY <3>1, <3>2, LookupRoot DEF t, N
    <3> QED BY <3>3
  <2> QED BY <2>2, <2>3
<1>10. ASSUME NEW k \in 0..e, k # 0
       PROVE  g[k] = IF g[k - 1] < N THEN g[k - 1]
                     ELSE Child(g[k - 1], (x \div Pow2[e - k]) % 2)
  <2>1. PICK j \in 0..e : j = k - 1
    BY <1>3, <1>10
  <2>2. t + k = (t + j) + 1 /\ e - k = CodeBits - ((t + j) + 1)
    BY <1>1, <1>3, <2>1
  <2>3. (x \div Pow2[e - k]) % 2 = Top(x, (t + j) + 1) % 2
    BY <2>2 DEF Top
  <2>4. CASE L[c] <= t + j
    <3>1. g[j] = c /\ L[c] <= t + k
      BY <1>1, <1>2, <1>7, <2>1, <2>2, <2>4
    <3>2. g[k] = c
      BY <1>7, <3>1
    <3> QED BY <1>5, <2>1, <3>1, <3>2
  <2>5. CASE ~(L[c] <= t + j)
    <3>1. /\ t + j \in t..(L[c] - 1)
          /\ g[j] \in NodeIds(s, m) /\ pos[g[j]] = At(L, c, t + j) /\ ~(g[j] < N)
      BY <1>6, <2>5
    <3>2. PICK bit : bit = Top(x, (t + j) + 1) % 2
      OBVIOUS
    <3>3. PICK h : h = t + j
      OBVIOUS
    <3>4. h \in TableBits[s]..(L[c] - 1) /\ pos[g[j]] = At(L, c, h) /\ bit = Top(x, h + 1) % 2
      BY <3>1, <3>2, <3>3 DEF t
    <3>5. /\ h + 1 = L[c] => Child(g[j], bit) = c
          /\ \A i \in NodeIds(s, m) : pos[i] = At(L, c, h + 1) => Child(g[j], bit) = i
      BY <3>1, <3>4, LookupStep DEF N
    <3>6. g[k] = Child(g[j], bit)
      <4>1. CASE L[c] <= t + k
        <5>1. h + 1 = L[c]
          BY <1>1, <1>2, <2>2, <3>1, <3>3, <4>1
        <5>2. g[k] = c
          BY <1>7, <4>1
        <5> QED BY <3>5, <5>1, <5>2
      <4>2. CASE ~(L[c] <= t + k)
        <5>1. g[k] \in NodeIds(s, m) /\ pos[g[k]] = At(L, c, h + 1)
          BY <1>6, <2>2, <3>3, <4>2
        <5> QED BY <3>5, <5>1
      <4> QED BY <4>1, <4>2
    <3> QED BY <2>1, <2>3, <3>1, <3>2, <3>6, Zenon
  <2> QED BY <2>4, <2>5
<1>11. P(g)
  BY <1>8, <1>9, <1>10, Zenon
<1>12. P(walk)
  BY <1>11
<1> HIDE DEF walk
<1>13. DOMAIN walk = 0..e
  BY <1>12
<1>14. walk[0] = Root(s, x)
  BY <1>3, <1>12
<1>15. \A k \in 0..e : k # 0 =>
         walk[k] = IF walk[k - 1] < N THEN walk[k - 1]
                   ELSE Child(walk[k - 1], (x \div Pow2[e - k]) % 2)
  BY <1>3, <1>12
<1>16. \A k \in 0..e : walk[k] = g[k]
  <2> DEFINE T == {k \in Nat : k <= e /\ walk[k] # g[k]}
  <2> SUFFICES ASSUME T # {} PROVE FALSE
    BY <1>3
  <2>1. PICK k \in T : \A j \in T : k <= j
    <3>1. T \subseteq Nat
      OBVIOUS
    <3> HIDE DEF T
    <3> QED BY <3>1, NatLeast
  <2>2. k \in Nat /\ k <= e /\ walk[k] # g[k]
    OBVIOUS
  <2>3. k # 0
    BY <1>9, <1>14, <2>2
  <2>4. PICK j \in Nat : j = k - 1
    BY <2>2, <2>3
  <2>5. ~(k <= j) /\ j <= e
    BY <1>3, <2>2, <2>4
  <2>6. walk[j] = g[j]
    BY <2>1, <2>4, <2>5
  <2>7. k \in 0..e
    BY <1>3, <2>2
  <2>8. walk[k] = IF walk[k - 1] < N THEN walk[k - 1]
                  ELSE Child(walk[k - 1], (x \div Pow2[e - k]) % 2)
    BY <1>15, <2>3, <2>7
  <2>9. g[k] = IF g[k - 1] < N THEN g[k - 1]
               ELSE Child(g[k - 1], (x \div Pow2[e - k]) % 2)
    BY <1>10, <2>3, <2>7
  <2> QED BY <2>2, <2>4, <2>6, <2>8, <2>9, Zenon
<1>17. e \in 0..e /\ L[c] <= t + e
  BY <1>2, <1>3
<1> QED BY <1>4, <1>7, <1>16, <1>17

-----------------------------------------------------------------------------
(* The bits of symbol_bitstring                                            *)

\* Shifts to the left and to the right.
LEMMA MulDiv ==
  ASSUME NEW x \in Nat, NEW a \in Nat \ {0}, NEW b \in Nat \ {0}
  PROVE  (x * a) \div (b * a) = x \div b
<1> DEFINE q == x \div b
           r == x % b
<1>1. q \in Nat /\ r \in 0..(b - 1) /\ x = b * q + r
  BY Division, Zenon
<1> HIDE DEF q, r
<1>2. x * a = (b * a) * q + r * a
  BY <1>1
<1>3. b * a \in Nat \ {0} /\ r * a \in Nat /\ x * a \in Nat
  BY <1>1
<1>4. r * a < b * a
  <2>1. r + 1 <= b
    BY <1>1
  <2>2. (r + 1) * a <= b * a /\ (r + 1) * a = r * a + a
    BY <1>1, <2>1
  <2> QED BY <1>1, <1>3, <2>2
<1> DEFINE c == b * a
           d == r * a
           z == x * a
<1>5. c \in Nat \ {0} /\ d \in 0..(c - 1) /\ z \in Nat /\ z = c * q + d
  BY <1>2, <1>3, <1>4
<1> HIDE DEF c, d, z
<1>6. z \div c = q
  BY <1>1, <1>5, DivisionIs
<1> QED BY <1>6 DEF z, c, q

\* A bit of a word is the bit of the number the word is cut from.
LEMMA ModBit ==
  ASSUME NEW x \in Nat, NEW p \in Nat \ {0}, NEW h \in Nat \ {0}
  PROVE  ((x % (p * (2 * h))) \div p) % 2 = (x \div p) % 2
<1> DEFINE m == p * (2 * h)
           q == x \div m
           r == x % m
           u == r \div p
           v == r % p
<1>1. m \in Nat \ {0} /\ m = p * (2 * h)
  OBVIOUS
<1> HIDE DEF m
<1>2. q \in Nat /\ r \in 0..(m - 1) /\ x = m * q + r
  BY <1>1, Division, Zenon
<1> HIDE DEF q, r
<1>3. r \in Nat
  BY <1>1, <1>2
<1>4. u \in Nat /\ v \in 0..(p - 1) /\ r = p * u + v
  BY <1>3, Division, Zenon
<1> HIDE DEF u, v
<1>5. x = p * (2 * (h * q) + u) + v
  BY <1>1, <1>2, <1>4
<1>6. 2 * (h * q) + u \in Nat /\ h * q \in Nat
  BY <1>2, <1>4
<1>7. PICK n \in Nat : n = h * q
  BY <1>6
<1>8. x = p * (2 * n + u) + v /\ 2 * n + u \in Nat
  BY <1>4, <1>5, <1>7
<1>9. x \div p = 2 * n + u
  BY <1>4, <1>8, DivisionIs
<1>10. (2 * n + u) % 2 = u % 2
  BY <1>4
<1> QED BY <1>9, <1>10 DEF u, r, m

\* Shifting a word that was cut.
LEMMA WordTwice ==
  ASSUME NEW y \in Nat
  PROVE  Word(2 * Word(y)) = Word(2 * y)
<1>1. PICK m \in Nat \ {0} : m = Pow2[CodeBits]
  BY CodeBitsAssumption, Pow2Type
<1> DEFINE q == y \div m
           r == y % m
           z == 2 * r
           u == z \div m
           v == z % m
<1>2. q \in Nat /\ r \in 0..(m - 1) /\ y = m * q + r
  BY Division, Zenon
<1>3. Word(y) = r
  BY <1>1 DEF Word
<1> HIDE DEF q, r
<1>4. z \in Nat
  BY <1>2
<1>5. 2 * y = m * (2 * q) + z
  BY <1>2
<1>6. Word(2 * Word(y)) = v
  BY <1>1, <1>3 DEF Word
<1> HIDE DEF z
<1>7. u \in Nat /\ v \in 0..(m - 1) /\ z = m * u + v
  BY <1>4, Division, Zenon
<1> HIDE DEF u, v
<1>8. 2 * y = m * (2 * q + u) + v /\ 2 * q + u \in Nat /\ 2 * y \in Nat
  BY <1>2, <1>5, <1>7
<1>9. PICK w \in Nat, n \in Nat : w = 2 * y /\ n = 2 * q + u
  BY <1>8
<1>10. w % m = v
  BY <1>7, <1>8, <1>9, DivisionIs
<1> QED BY <1>1, <1>6, <1>9, <1>10 DEF Word

\* The bit below the table's of a code shifted by k - t is its bit k + 1.
LEMMA NextBit ==
  ASSUME NEW s \in Sets, NEW x \in Nat, NEW k \in Nat, TableBits[s] <= k, k < CodeBits
  PROVE  /\ (Word(x * Pow2[k - TableBits[s]]) \div Pow2[Extended(s) - 1]) % 2 = Top(x, k + 1) % 2
         /\ Word(2 * Word(x * Pow2[k - TableBits[s]])) = Word(x * Pow2[(k + 1) - TableBits[s]])
<1>1. PICK t \in Nat : t = TableBits[s]
  BY Sizes
<1>2. PICK d \in Nat : d = k - t
  BY <1>1
<1>3. PICK g \in Nat : g = CodeBits - (k + 1)
  BY CodeBitsAssumption
<1>4. /\ Extended(s) - 1 = g + d /\ CodeBits = (g + d) + (t + 1)
      /\ (k + 1) - TableBits[s] = d + 1 /\ k - TableBits[s] = d /\ g + d \in Nat /\ t + 1 \in Nat
  BY <1>1, <1>2, <1>3, CodeBitsAssumption DEF Extended
<1>5. /\ Pow2[g] \in Nat \ {0} /\ Pow2[d] \in Nat \ {0} /\ Pow2[t] \in Nat \ {0}
      /\ Pow2[g + d] \in Nat \ {0}
      /\ Pow2[g + d] = Pow2[g] * Pow2[d] /\ Pow2[t + 1] = 2 * Pow2[t]
      /\ Pow2[(g + d) + (t + 1)] = Pow2[g + d] * Pow2[t + 1]
      /\ Pow2[d + 1] = 2 * Pow2[d]
  BY <1>4, Pow2Type, Pow2Add, Pow2Rec
<1>6. PICK p \in Nat \ {0} : p = Pow2[d]
  BY <1>5
<1>7. PICK y \in Nat : y = x * p
  BY <1>6
<1>8. y \div Pow2[g + d] = x \div Pow2[g]
  <2>1. (x * p) \div (Pow2[g] * p) = x \div Pow2[g]
    BY <1>5, MulDiv
  <2> QED BY <1>5, <1>6, <1>7, <2>1
<1>9. Word(y) = y % (Pow2[g + d] * (2 * Pow2[t]))
  BY <1>4, <1>5 DEF Word
<1>10. (Word(y) \div Pow2[g + d]) % 2 = (y \div Pow2[g + d]) % 2
  <2>1. ((y % (Pow2[g + d] * (2 * Pow2[t]))) \div Pow2[g + d]) % 2 = (y \div Pow2[g + d]) % 2
    BY <1>5, ModBit
  <2> QED BY <1>9, <2>1
<1>11. Top(x, k + 1) = x \div Pow2[g]
  BY <1>3 DEF Top
<1>12. Word(2 * Word(y)) = Word(2 * y)
  BY WordTwice
<1>13. 2 * y = x * Pow2[d + 1]
  BY <1>5, <1>6, <1>7
<1> QED BY <1>4, <1>6, <1>7, <1>8, <1>10, <1>11, <1>12, <1>13

-----------------------------------------------------------------------------
(* The invariant                                                           *)

\* start[l] when the codes of length l fill the space up to f.
Scale(s, l, f) == IF l <= TableBits[s] THEN f \div Pow2[Extended(s)] ELSE f

\* The next codes of the lengths that are still to come.
StartsOk ==
  \A c \in Used(Lens) :
    c >= char => start[Lens[c]] = Scale(set, Lens[c], Filled(Lens, Lens[c], char))

\* The inner loop is Lens[char] - idx bits down the code of char.
Depth == Lens[char] - idx

PathOk(pos) ==
  /\ Depth >= TableBits[set]
  /\ \A j \in TableBits[set]..(Depth - 1) :
       \E i \in NodeIds(set, next_avail_node) : pos[i] = At(Lens, char, j)
  /\ pointer \in Cells(set, Lens, next_avail_node)
  /\ CellPlace(set, pos, pointer) = At(Lens, char, Depth)
  /\ symbol_bitstring = Word(CanonicalStart(Lens, char) * Pow2[Depth - TableBits[set]])

Building(pos) ==
  /\ StartsOk
  /\ TreeOf(set, Lens, pos, next_avail_node, char)
  /\ phase = "tree" => PathOk(pos)

\* What a finished table decodes.
BuiltOk(s) ==
  /\ code[s].only \in Symbols(s) => \A i \in Entries(s) : table[Table(s)][i] = code[s].only
  /\ code[s].only = None /\ Complete(code[s].lens) =>
       \E pos, m : TreeOf(s, code[s].lens, pos, m, NumSymbols[s])

Inv ==
  /\ TypeInv
  /\ phase = "error" => ~Complete(Lens)
  /\ phase \in {"symbols", "tree"} =>
       /\ code[set].only = None /\ built \cap Sharing(set) = {}
       /\ Complete(Lens) => \E pos : Building(pos)
       /\ ~Complete(Lens) => built = {}
  /\ \A s \in built : BuiltOk(s)

-----------------------------------------------------------------------------
(* Starts                                                                  *)

\* A code that fits the table is a run of entries.
LEMMA ShortCode ==
  ASSUME NEW s, NEW L, CodeOf(s, L), NEW c \in Used(L), L[c] <= TableBits[s],
         NEW a, a = CanonicalStart(L, c) \div Pow2[Extended(s)],
         NEW w, w = Pow2[TableBits[s] - L[c]]
  PROVE  /\ a \in Nat /\ w \in Nat \ {0}
         /\ a + w <= Taken(L, TableBits[s])
         /\ (CanonicalStart(L, c) + W(L, c)) \div Pow2[Extended(s)] = a + w
         /\ \A x \in Nat : Covers(L, c, x) <=> a <= x \div Pow2[Extended(s)]
                                               /\ x \div Pow2[Extended(s)] < a + w
<1>1. /\ s \in Sets /\ IsCode(L, NumSymbols[s]) /\ TableBits[s] \in Nat /\ CodeBits \in Nat
      /\ TableBits[s] < CodeBits /\ Taken(L, TableBits[s]) \in Nat
      /\ Filled(L, TableBits[s] + 1, 0) = Pow2[Extended(s)] * Taken(L, TableBits[s])
  BY CodeOfFacts
<1>2. L[c] \in 1..CodeBits /\ CanonicalStart(L, c) \in Nat /\ W(L, c) \in Nat \ {0}
  BY <1>1, StartType
<1>3. /\ Extended(s) \in Nat /\ TableBits[s] - L[c] \in Nat
      /\ CodeBits - L[c] = Extended(s) + (TableBits[s] - L[c])
  BY <1>1, <1>2 DEF Extended
<1>4. PICK e \in Nat \ {0} : e = Pow2[Extended(s)]
  BY <1>3, Pow2Type
<1>5. w \in Nat \ {0}
  BY <1>3, Pow2Type
<1>6. W(L, c) = e * w
  BY <1>3, <1>4, Pow2Add DEF W
<1>7. PICK q \in Nat : CanonicalStart(L, c) = W(L, c) * q
  BY <1>1, StartAligned
<1>8. PICK b \in Nat : b = w * q
  BY <1>5
<1>9. CanonicalStart(L, c) = e * b
  BY <1>5, <1>6, <1>7, <1>8
<1>10. PICK x0 \in Nat : x0 = CanonicalStart(L, c)
  BY <1>2
<1>11. a = b
  <2>1. x0 = e * b + 0 /\ 0 \in 0..(e - 1)
    BY <1>9, <1>10
  <2>2. x0 \div e = b
    BY <2>1, DivisionIs
  <2> QED BY <1>4, <1>10, <2>2
<1>12. CanonicalStart(L, c) + W(L, c) = e * (a + w) /\ a \in Nat
  BY <1>5, <1>6, <1>9, <1>11
<1>13. (CanonicalStart(L, c) + W(L, c)) \div e = a + w
  <2>1. PICK z \in Nat, n \in Nat : z = CanonicalStart(L, c) + W(L, c) /\ n = a + w
    BY <1>2, <1>5, <1>12
  <2>2. z = e * n + 0 /\ 0 \in 0..(e - 1)
    BY <1>12, <2>1
  <2>3. z \div e = n
    BY <2>2, DivisionIs
  <2> QED BY <2>1, <2>3
<1>14. a + w <= Taken(L, TableBits[s])
  <2>1. CanonicalStart(L, c) + W(L, c) <= Filled(L, TableBits[s] + 1, 0)
    BY <1>1, TakenBoundary
  <2>2. PICK n \in Nat, f \in Nat : n = a + w /\ f = Taken(L, TableBits[s])
    BY <1>1, <1>5, <1>12
  <2>3. e * n <= e * f
    BY <1>1, <1>4, <1>12, <2>1, <2>2
  <2>4. ~(f < n)
    <3> SUFFICES ASSUME f < n PROVE FALSE
      OBVIOUS
    <3>1. f + 1 <= n
      OBVIOUS
    <3>2. e * (f + 1) <= e * n /\ e * (f + 1) = e * f + e
      BY <3>1
    <3> QED BY <2>3, <3>2
  <2> QED BY <2>2, <2>4
<1>15. ASSUME NEW x \in Nat
       PROVE  Covers(L, c, x) <=> a <= x \div e /\ x \div e < a + w
  <2> DEFINE u == x \div e
             v == x % e
  <2>1. u \in Nat /\ v \in 0..(e - 1) /\ x = e * u + v
    BY Division, Zenon
  <2> HIDE DEF u, v
  <2>2. PICK n \in Nat : n = a + w
    BY <1>5, <1>12
  <2>3. Covers(L, c, x) <=> e * a <= x /\ x < e * n
    BY <1>9, <1>11, <1>12, <2>2 DEF Covers
  <2>4. e * a <= x <=> a <= u
    <3>1. CASE a <= u
      <4>1. e * a <= e * u
        BY <1>12, <2>1, <3>1
      <4> QED BY <1>12, <2>1, <3>1, <4>1
    <3>2. CASE u + 1 <= a
      <4>1. e * (u + 1) <= e * a /\ e * (u + 1) = e * u + e
        BY <1>12, <2>1, <3>2
      <4> QED BY <1>12, <2>1, <3>2, <4>1
    <3> QED BY <1>12, <2>1, <3>1, <3>2
  <2>5. x < e * n <=> u < n
    <3>1. CASE n <= u
      <4>1. e * n <= e * u
        BY <2>1, <3>1
      <4> QED BY <2>1, <3>1, <4>1
    <3>2. CASE u + 1 <= n
      <4>1. e * (u + 1) <= e * n /\ e * (u + 1) = e * u + e
        BY <2>1, <3>2
      <4> QED BY <2>1, <3>2, <4>1
    <3> QED BY <2>1, <3>1, <3>2
  <2> QED BY <2>2, <2>3, <2>4, <2>5 DEF u
<1> QED BY <1>4, <1>5, <1>12, <1>13, <1>14, <1>15

\* The next code of a length, after a symbol of that length, if another one is to come.
LEMMA NextStart ==
  ASSUME NEW s, NEW L, CodeOf(s, L), NEW c \in Used(L), NEW v,
         v = Word(Scale(s, L[c], CanonicalStart(L, c)) + Weight(s, L[c]))
  PROVE  /\ L[c] <= TableBits[s] => v = Scale(s, L[c], Filled(L, L[c], c + 1))
         /\ \A d \in Used(L) : L[d] = L[c] /\ d > c => v = Scale(s, L[c], Filled(L, L[c], c + 1))
<1>1. /\ s \in Sets /\ IsCode(L, NumSymbols[s]) /\ TableBits[s] \in Nat /\ CodeBits \in Nat
      /\ TableBits[s] < CodeBits /\ Taken(L, TableBits[s]) \in Nat
      /\ Taken(L, TableBits[s]) <= Pow2[TableBits[s]] /\ Pow2[TableBits[s]] \in Nat \ {0}
  BY CodeOfFacts
<1>2. /\ L[c] \in 1..CodeBits /\ CanonicalStart(L, c) \in Nat /\ W(L, c) \in Nat \ {0}
      /\ c \in Nat /\ Pow2[CodeBits] \in Nat
  BY <1>1, StartType
<1>3. Filled(L, L[c], c + 1) = CanonicalStart(L, c) + W(L, c)
  BY <1>1, FilledNext
<1>4. ASSUME L[c] <= TableBits[s]
      PROVE  v = Scale(s, L[c], Filled(L, L[c], c + 1))
  <2>1. PICK a : a = CanonicalStart(L, c) \div Pow2[Extended(s)]
    OBVIOUS
  <2>2. PICK w : w = Pow2[TableBits[s] - L[c]]
    OBVIOUS
  <2>3. /\ a \in Nat /\ w \in Nat \ {0} /\ a + w <= Taken(L, TableBits[s])
        /\ (CanonicalStart(L, c) + W(L, c)) \div Pow2[Extended(s)] = a + w
    BY <1>4, <2>1, <2>2, ShortCode
  <2>4. v = Word(a + w)
    BY <1>4, <2>1, <2>2 DEF Scale, Weight
  <2>5. Pow2[TableBits[s]] < Pow2[CodeBits]
    <3>1. TableBits[s] + 1 \in Nat /\ TableBits[s] + 1 <= CodeBits
      BY <1>1
    <3>2. Pow2[TableBits[s] + 1] <= Pow2[CodeBits] /\ Pow2[TableBits[s] + 1] = 2 * Pow2[TableBits[s]]
      BY <1>1, <3>1, Pow2Mono, Pow2Rec
    <3> QED BY <1>1, <1>2, <3>2
  <2>6. a + w \in Nat /\ a + w < Pow2[CodeBits]
    BY <1>1, <1>2, <2>3, <2>5
  <2>7. v = a + w
    BY <2>4, <2>6, WordType
  <2> QED BY <1>3, <1>4, <2>3, <2>7 DEF Scale
<1>5. ASSUME ~(L[c] <= TableBits[s]), NEW d \in Used(L), L[d] = L[c], d > c
      PROVE  v = Scale(s, L[c], Filled(L, L[c], c + 1))
  <2>1. v = Word(CanonicalStart(L, c) + W(L, c))
    BY <1>5 DEF Scale, Weight, W
  <2>2. CanonicalStart(L, c) + W(L, c) <= CanonicalStart(L, d)
    BY <1>1, <1>5, StartsOrdered
  <2>3. /\ CanonicalStart(L, d) \in Nat /\ W(L, d) \in Nat \ {0}
        /\ CanonicalStart(L, d) + W(L, d) <= Pow2[CodeBits]
    BY <1>1, StartType
  <2>4. PICK z \in Nat : z = CanonicalStart(L, c) + W(L, c)
    BY <1>2
  <2>5. z < Pow2[CodeBits]
    BY <1>2, <2>2, <2>3, <2>4
  <2>6. v = z
    BY <2>1, <2>4, <2>5, WordType
  <2> QED BY <1>3, <1>5, <2>4, <2>6 DEF Scale
<1> QED BY <1>4, <1>5

-----------------------------------------------------------------------------
(* Other sets                                                              *)

\* Sets with different tables have different nodes.
LEMMA OwnDisjoint ==
  ASSUME NEW s \in Sets, NEW r \in Sets, Table(s) # Table(r)
  PROVE  Own(s) \cap Own(r) = {}
<1>1. (s = "C" /\ r # "C") \/ (s # "C" /\ r = "C")
  BY DEF Sets, Table
<1>2. NumSymbols["C"] \in Nat /\ Nodes \in Nat
  BY Sizes DEF Sets
<1> QED BY <1>1, <1>2 DEF Own

\* Cells of a tree.
LEMMA CellKinds ==
  ASSUME NEW s, NEW L, NEW m, NEW p \in Cells(s, L, m)
  PROVE  \/ p.kind = "table" /\ p.at \in Taken(L, TableBits[s])..(Pow2[TableBits[s]] - 1)
         \/ p.kind \in {"left", "right"} /\ p.at \in NodeIds(s, m)
BY DEF Cells

\* A tree stays what it is while its cells and the entries of short codes do.
LEMMA TreeFrame ==
  ASSUME NEW s, NEW L, CodeOf(s, L), NEW pos, NEW m, NEW n, TreeOf(s, L, pos, m, n),
         table'[Table(s)] = table[Table(s)],
         \A i \in Own(s) : left'[i] = left[i] /\ right'[i] = right[i]
  PROVE  TreeOf(s, L, pos, m, n)'
<1>1. NodesOk(s, L, pos, m) /\ PathsOk(s, L, pos, m, n) /\ CellsOk(s, L, pos, m, n) /\ ShortOk(s, L, n)
  BY DEF TreeOf
<1>2. \A i \in NodeIds(s, m) : left'[i] = left[i] /\ right'[i] = right[i]
  BY <1>1, NodesOwn
<1>3. ASSUME NEW p \in Cells(s, L, m) PROVE Content(s, p)' = Content(s, p)
  BY <1>2, CellKinds DEF Content
<1>4. ASSUME NEW p \in Cells(s, L, m)
      PROVE  Holds(s, L, pos, m, n, CellPlace(s, pos, p), Content(s, p)')
  BY <1>1, <1>3 DEF CellsOk
<1>5. CellsOk(s, L, pos, m, n)'
  BY <1>4 DEF CellsOk
<1>6. \A x : Root(s, x)' = Root(s, x)
  BY DEF Root
<1>7. ShortOk(s, L, n)'
  BY <1>1, <1>6 DEF ShortOk
<1> QED BY <1>1, <1>5, <1>7 DEF TreeOf

\* The same for a finished set.
LEMMA BuiltFrame ==
  ASSUME TypeInv, NEW s \in Sets, BuiltOk(s), code'[s] = code[s],
         table'[Table(s)] = table[Table(s)],
         \A i \in Own(s) : left'[i] = left[i] /\ right'[i] = right[i]
  PROVE  BuiltOk(s)'
<1>1. code[s].only \in Symbols(s) => \A i \in Entries(s) : table'[Table(s)][i] = code[s].only
  BY DEF BuiltOk
<1>2. ASSUME code[s].only = None, Complete(code[s].lens)
      PROVE  \E pos, m : TreeOf(s, code[s].lens, pos, m, NumSymbols[s])'
  <2>1. PICK L : L = code[s].lens
    OBVIOUS
  <2>2. PICK pos, m : TreeOf(s, L, pos, m, NumSymbols[s])
    BY <1>2, <2>1 DEF BuiltOk
  <2>3. CodeOf(s, L)
    <3>1. L \in [0..(NumSymbols[s] - 1) -> Nat] /\ NumSymbols[s] \in Nat
      BY <2>1, Sizes DEF TypeInv, Symbols
    <3> QED BY <1>2, <2>1, <3>1, CompleteIsCode DEF CodeOf
  <2>4. TreeOf(s, L, pos, m, NumSymbols[s])'
    BY <2>2, <2>3, TreeFrame
  <2>5. code'[s].lens = L
    BY <2>1
  <2> QED BY <2>4, <2>5
<1> QED BY <1>1, <1>2 DEF BuiltOk

-----------------------------------------------------------------------------
(* The loop over the symbols                                               *)

\* The set being built has a complete code.
LEMMA BuildFacts ==
  ASSUME TypeInv, Complete(Lens)
  PROVE  set \in Sets /\ CodeOf(set, Lens)
<1>1. set \in Sets
  BY DEF TypeInv, TypeOK
<1>2. Lens \in [0..(NumSymbols[set] - 1) -> Nat] /\ NumSymbols[set] \in Nat
  BY <1>1, Sizes DEF TypeInv, Symbols, Lens
<1> QED BY <1>1, <1>2, CompleteIsCode DEF CodeOf

\* The code of the loop's symbol.
LEMMA StartHere ==
  ASSUME TypeInv, Complete(Lens), StartsOk, char \in Used(Lens)
  PROVE  start[Lens[char]] = Scale(set, Lens[char], CanonicalStart(Lens, char))
<1>1. IsCode(Lens, NumSymbols[set])
  BY BuildFacts DEF CodeOf
<1>2. CanonicalStart(Lens, char) = Filled(Lens, Lens[char], char) /\ char \in Nat
  BY <1>1, FilledStart, StartType
<1> QED BY <1>2 DEF StartsOk

\* The starts after a round of the loop.
LEMMA StartsNext ==
  ASSUME TypeInv, Complete(Lens), StartsOk, phase \in {"symbols", "tree"}, char \in Symbols(set),
         char' = char + 1, UNCHANGED <<code, set>>,
         IF Lens[char] = 0 THEN start' = start
         ELSE start' = [start EXCEPT ![SymBitLen] = NextCode]
  PROVE  StartsOk'
<1>1. PICK s, L, n : s = set /\ L = Lens /\ n = char
  OBVIOUS
<1>2. Lens' = L /\ set' = s /\ char' = n + 1
  BY <1>1 DEF Lens
<1>3. /\ s \in Sets /\ CodeOf(s, L) /\ IsCode(L, NumSymbols[s])
      /\ n \in 0..(NumSymbols[s] - 1) /\ NumSymbols[s] \in Nat
  BY <1>1, BuildFacts, Sizes DEF CodeOf, Symbols
<1>4. SymBitLen = L[n]
  BY <1>1 DEF SymBitLen, Lens
<1> SUFFICES ASSUME NEW c \in Used(L), c >= n + 1
             PROVE  start'[L[c]] = Scale(s, L[c], Filled(L, L[c], n + 1))
  BY <1>2 DEF StartsOk
<1>5. c \in Nat /\ L[c] \in 1..CodeBits /\ L[c] \in Nat \ {0}
  BY <1>3, StartType
<1>6. c > n /\ c >= n
  BY <1>3, <1>5
<1>7. start[L[c]] = Scale(s, L[c], Filled(L, L[c], n))
  BY <1>1, <1>6 DEF StartsOk
<1>8. CASE L[c] # L[n]
  <2>1. start'[L[c]] = start[L[c]]
    <3>1. DOMAIN start = 1..(CodeBits + 1) /\ L[c] \in DOMAIN start
      BY <1>5, CodeBitsAssumption DEF TypeInv, TypeOK
    <3> QED BY <1>1, <1>4, <1>8, <3>1
  <2>2. Filled(L, L[c], n + 1) = Filled(L, L[c], n)
    BY <1>3, <1>5, <1>8, FilledOther
  <2> QED BY <1>7, <2>1, <2>2
<1>9. CASE L[c] = L[n]
  <2>1. n \in Used(L)
    BY <1>3, <1>5, <1>9, CodeTypes DEF Used
  <2>2. start'[L[n]] = NextCode
    BY <1>1, <1>4, <1>5, <1>9, CodeBitsAssumption DEF TypeInv, TypeOK
  <2>3. start[L[n]] = Scale(s, L[n], CanonicalStart(L, n))
    BY <1>1, <2>1, StartHere
  <2>4. NextCode = Word(Scale(s, L[n], CanonicalStart(L, n)) + Weight(s, L[n]))
    BY <1>1, <1>4, <2>3 DEF NextCode
  <2>5. NextCode = Scale(s, L[n], Filled(L, L[n], n + 1))
    BY <1>3, <1>6, <1>9, <2>1, <2>4, NextStart
  <2> QED BY <1>9, <2>2, <2>5
<1> QED BY <1>8, <1>9

\* A round for a symbol whose code is not in the tree leaves the tree as it is.
LEMMA LongSame ==
  ASSUME NEW s, NEW L, CodeOf(s, L), NEW n \in Nat, n \notin Used(L) \/ L[n] <= TableBits[s]
  PROVE  Long(s, L, n + 1) = Long(s, L, n)
<1>1. IsCode(L, NumSymbols[s]) /\ TableBits[s] \in Nat
  BY CodeOfFacts
<1>2. \A c \in Used(L) : c \in Nat /\ L[c] \in Nat
  BY <1>1, StartType
<1> QED BY <1>1, <1>2 DEF Long

\* A symbol without a code changes nothing in table and tree.
LEMMA BuildingUnused ==
  ASSUME TypeInv, Complete(Lens), NEW pos, Building(pos), SymbolUnused
  PROVE  Building(pos)'
<1>1. PICK s, L, n, m : s = set /\ L = Lens /\ n = char /\ m = next_avail_node
  OBVIOUS
<1>2. /\ phase = "symbols" /\ char \in Symbols(set) /\ SymBitLen = 0 /\ char' = char + 1
      /\ UNCHANGED <<table, left, right, code, set, phase, start, next_avail_node>>
  BY DEF SymbolUnused
<1>3. Lens' = L /\ set' = s /\ char' = n + 1 /\ next_avail_node' = m
  BY <1>1, <1>2 DEF Lens
<1>4. CodeOf(s, L) /\ IsCode(L, NumSymbols[s]) /\ n \in Nat /\ L[n] = 0
  BY <1>1, <1>2, BuildFacts DEF CodeOf, SymBitLen, Lens, TypeInv, TypeOK
<1>5. StartsOk'
  BY <1>1, <1>2, <1>4, StartsNext DEF Building
<1>6. n \notin Used(L)
  BY <1>4 DEF Used
<1>7. Long(s, L, n + 1) = Long(s, L, n)
  BY <1>4, <1>6, LongSame
<1>8. TreeOf(s, L, pos, m, n)
  BY <1>1 DEF Building
<1>9. TreeOf(s, L, pos, m, n)'
  BY <1>2, <1>4, <1>8, TreeFrame
<1>10. NodesOk(s, L, pos, m)' /\ PathsOk(s, L, pos, m, n)' /\ CellsOk(s, L, pos, m, n)' /\ ShortOk(s, L, n)'
  BY <1>9 DEF TreeOf
<1>11. PathsOk(s, L, pos, m, n + 1)'
  BY <1>7, <1>10 DEF PathsOk
<1>12. CellsOk(s, L, pos, m, n + 1)'
  BY <1>7, <1>10 DEF CellsOk, Holds
<1>13. \A c \in Used(L) : c < n + 1 => c < n
  <2>1. \A c \in Used(L) : c \in Nat /\ c # n
    BY <1>4, <1>6, StartType
  <2> QED BY <1>4, <2>1
<1>14. ShortOk(s, L, n + 1)'
  BY <1>10, <1>13 DEF ShortOk
<1>15. TreeOf(s, L, pos, m, n + 1)'
  BY <1>10, <1>11, <1>12, <1>14 DEF TreeOf
<1>16. phase' # "tree"
  BY <1>2
<1> QED BY <1>3, <1>5, <1>15, <1>16 DEF Building

\* A short code fills its run of entries.
LEMMA BuildingShort ==
  ASSUME TypeInv, Complete(Lens), NEW pos, Building(pos), SymbolShort
  PROVE  phase' = "symbols" /\ Building(pos)'
<1>1. PICK s, L, n, m : s = set /\ L = Lens /\ n = char /\ m = next_avail_node
  OBVIOUS
<1>2. /\ phase = "symbols" /\ char \in Symbols(set) /\ SymBitLen \in 1..TableBits[set]
      /\ UNCHANGED <<left, right, code, set, next_avail_node>>
  BY DEF SymbolShort
<1>3. Lens' = L /\ set' = s /\ next_avail_node' = m
  BY <1>1, <1>2 DEF Lens
<1>4. /\ s \in Sets /\ CodeOf(s, L) /\ IsCode(L, NumSymbols[s]) /\ n \in Nat
      /\ n \in 0..(NumSymbols[s] - 1) /\ SymBitLen = L[n]
  BY <1>1, <1>2, BuildFacts DEF CodeOf, SymBitLen, Lens, TypeInv, TypeOK, Symbols
<1>5. TableBits[s] \in Nat /\ Taken(L, TableBits[s]) \in Nat /\ Pow2[TableBits[s]] \in Nat
      /\ Taken(L, TableBits[s]) <= Pow2[TableBits[s]]
  BY <1>4, CodeOfFacts
<1>6. n \in Used(L) /\ L[n] <= TableBits[s]
  <2>1. n \in DOMAIN L
    BY <1>4, CodeTypes
  <2> QED BY <1>1, <1>2, <1>4, <1>5, <2>1 DEF Used
<1>7. StartsOk /\ TreeOf(s, L, pos, m, n)
  BY <1>1 DEF Building
<1>8. PICK a : a = CanonicalStart(L, n) \div Pow2[Extended(s)]
  OBVIOUS
<1>9. PICK w : w = Pow2[TableBits[s] - L[n]]
  OBVIOUS
<1>10. /\ a \in Nat /\ w \in Nat \ {0} /\ a + w <= Taken(L, TableBits[s])
       /\ (CanonicalStart(L, n) + W(L, n)) \div Pow2[Extended(s)] = a + w
       /\ \A x \in Nat : Covers(L, n, x) <=> a <= x \div Pow2[Extended(s)]
                                             /\ x \div Pow2[Extended(s)] < a + w
  BY <1>4, <1>6, <1>8, <1>9, ShortCode
<1>11. start[L[n]] = Scale(s, L[n], CanonicalStart(L, n))
  BY <1>1, <1>6, <1>7, StartHere
<1>12. NextCode = Scale(s, L[n], Filled(L, L[n], n + 1))
  <2>1. NextCode = Word(Scale(s, L[n], CanonicalStart(L, n)) + Weight(s, L[n]))
    BY <1>1, <1>4, <1>11 DEF NextCode
  <2> QED BY <1>4, <1>6, <2>1, NextStart
<1>13. start[SymBitLen] = a /\ NextCode = a + w
  <2>1. Filled(L, L[n], n + 1) = CanonicalStart(L, n) + W(L, n)
    BY <1>4, <1>6, FilledNext
  <2> QED BY <1>4, <1>6, <1>8, <1>10, <1>11, <1>12, <2>1 DEF Scale
<1>14. ~(start[SymBitLen] >= NextCode \/ NextCode > Pow2[TableBits[set]])
  BY <1>1, <1>5, <1>10, <1>13
<1>15. /\ table' = [table EXCEPT ![Table(set)] =
                      [i \in DOMAIN table[Table(set)] |-> IF start[SymBitLen] <= i /\ i < NextCode
                                                          THEN char ELSE table[Table(set)][i]]]
       /\ start' = [start EXCEPT ![SymBitLen] = NextCode]
       /\ char' = char + 1 /\ phase' = "symbols"
  <2>1. Table(set) \in DOMAIN table
    BY <1>1, <1>4, TableType
  <2> QED BY <1>2, <1>14, <2>1 DEF SymbolShort
<1>16. \A i \in Entries(s) : table'[Table(s)][i] = IF a <= i /\ i < a + w THEN n ELSE table[Table(s)][i]
  <2>1. Table(s) \in DOMAIN table /\ DOMAIN table[Table(s)] = Entries(s)
    BY <1>4, TableType
  <2> QED BY <1>1, <1>13, <1>15, <2>1
<1>17. StartsOk'
  <2>1. Lens[char] # 0
    BY <1>1, <1>6 DEF Used
  <2> QED BY <1>1, <1>2, <1>7, <1>15, <2>1, StartsNext
<1>18. Long(s, L, n + 1) = Long(s, L, n)
  BY <1>4, <1>6, LongSame
<1>19. NodesOk(s, L, pos, m) /\ PathsOk(s, L, pos, m, n) /\ CellsOk(s, L, pos, m, n) /\ ShortOk(s, L, n)
  BY <1>7 DEF TreeOf
<1>20. PathsOk(s, L, pos, m, n + 1)
  BY <1>18, <1>19 DEF PathsOk
<1>21. ASSUME NEW p \in Cells(s, L, m) PROVE Content(s, p)' = Content(s, p)
  <2>1. CASE p.kind = "table"
    <3>1. p.at \in Taken(L, TableBits[s])..(Pow2[TableBits[s]] - 1)
      BY <2>1, CellKinds
    <3>2. p.at \in Entries(s) /\ ~(p.at < a + w)
      BY <1>5, <1>10, <3>1 DEF Entries
    <3> QED BY <1>16, <2>1, <3>2 DEF Content
  <2>2. CASE p.kind \in {"left", "right"}
    BY <1>2, <2>2 DEF Content
  <2> QED BY <2>1, <2>2, CellKinds
<1>22. CellsOk(s, L, pos, m, n + 1)'
  <2> SUFFICES ASSUME NEW p \in Cells(s, L, m)
               PROVE  Holds(s, L, pos, m, n + 1, CellPlace(s, pos, p), Content(s, p)')
    BY DEF CellsOk
  <2>1. Holds(s, L, pos, m, n, CellPlace(s, pos, p), Content(s, p)')
    BY <1>19, <1>21 DEF CellsOk
  <2> QED BY <1>18, <2>1 DEF Holds
<1>23. ShortOk(s, L, n + 1)'
  <2> SUFFICES ASSUME NEW c \in Used(L), NEW x \in 0..(Pow2[CodeBits] - 1),
                      L[c] <= TableBits[s], c < n + 1, Covers(L, c, x)
               PROVE  Root(s, x)' = c
    BY DEF ShortOk
  <2>1. /\ x \in Nat /\ x \div Pow2[Extended(s)] \in Entries(s)
    <3>1. /\ Pow2[CodeBits] = Pow2[Extended(s)] * Pow2[TableBits[s]] /\ Pow2[CodeBits] \in Nat
          /\ Pow2[Extended(s)] \in Nat \ {0} /\ Entries(s) = 0..(Pow2[TableBits[s]] - 1)
      BY <1>4, Sizes
    <3>2. x \in Nat /\ x < Pow2[Extended(s)] * Pow2[TableBits[s]]
      BY <3>1
    <3>3. x \div Pow2[Extended(s)] < Pow2[TableBits[s]] /\ x \div Pow2[Extended(s)] \in Nat
      BY <1>5, <3>1, <3>2, DivBound, DivLess
    <3> QED BY <1>5, <3>1, <3>2, <3>3
  <2>2. Root(s, x)' = table'[Table(s)][x \div Pow2[Extended(s)]]
    BY DEF Root
  <2>3. CASE c = n
    <3>1. a <= x \div Pow2[Extended(s)] /\ x \div Pow2[Extended(s)] < a + w
      BY <1>10, <2>1, <2>3
    <3> QED BY <1>16, <2>1, <2>2, <2>3, <3>1
  <2>4. CASE c # n
    <3>1. c < n
      BY <1>4, <2>4, StartType
    <3>2. Root(s, x) = c
      BY <1>19, <3>1 DEF ShortOk
    <3>3. ~Covers(L, n, x)
      BY <1>4, <1>6, <2>1, <2>4, CoversOne
    <3>4. ~(a <= x \div Pow2[Extended(s)] /\ x \div Pow2[Extended(s)] < a + w)
      BY <1>10, <2>1, <3>3
    <3>5. Root(s, x) = table[Table(s)][x \div Pow2[Extended(s)]]
      BY DEF Root
    <3> QED BY <1>16, <2>1, <2>2, <3>2, <3>4, <3>5
  <2> QED BY <2>3, <2>4
<1>24. TreeOf(s, L, pos, m, n + 1)'
  BY <1>19, <1>20, <1>22, <1>23 DEF TreeOf
<1>25. char' = n + 1 /\ phase' # "tree"
  BY <1>1, <1>15
<1> QED BY <1>3, <1>15, <1>17, <1>24, <1>25 DEF Building

\* A long code starts its walk at its entry.
LEMMA BuildingLong ==
  ASSUME TypeInv, Complete(Lens), NEW pos, Building(pos), SymbolLong
  PROVE  Building(pos)'
<1>1. PICK s, L, n, m : s = set /\ L = Lens /\ n = char /\ m = next_avail_node
  OBVIOUS
<1>2. /\ phase = "symbols" /\ char \in Symbols(set) /\ SymBitLen > TableBits[set]
      /\ symbol_bitstring' = start[SymBitLen]
      /\ pointer' = [kind |-> "table", at |-> start[SymBitLen] \div Pow2[Extended(set)]]
      /\ idx' = SymBitLen - TableBits[set]
      /\ UNCHANGED <<table, left, right, code, set, start, char, next_avail_node>>
  BY DEF SymbolLong
<1>3. Lens' = L /\ set' = s /\ next_avail_node' = m /\ char' = n
  BY <1>1, <1>2 DEF Lens
<1>4. /\ s \in Sets /\ CodeOf(s, L) /\ IsCode(L, NumSymbols[s]) /\ n \in Nat
      /\ n \in 0..(NumSymbols[s] - 1) /\ SymBitLen = L[n]
  BY <1>1, <1>2, BuildFacts DEF CodeOf, SymBitLen, Lens, TypeInv, TypeOK, Symbols
<1>5. TableBits[s] \in Nat /\ L[n] > TableBits[s] /\ ~(L[n] <= TableBits[s])
  BY <1>1, <1>2, <1>4, CodeOfFacts, CodeTypes, SMTT(30)
<1>6. n \in Used(L)
  <2>1. n \in DOMAIN L
    BY <1>4, CodeTypes
  <2> QED BY <1>5, <2>1 DEF Used
<1>7. StartsOk /\ TreeOf(s, L, pos, m, n)
  BY <1>1 DEF Building
<1>8. start[SymBitLen] = CanonicalStart(L, n)
  <2>1. start[L[n]] = Scale(s, L[n], CanonicalStart(L, n))
    BY <1>1, <1>6, <1>7, StartHere
  <2> QED BY <1>4, <1>5, <2>1 DEF Scale
<1>9. /\ CanonicalStart(L, n) \in Nat /\ CanonicalStart(L, n) < Pow2[CodeBits] /\ L[n] \in Nat
  <2>1. /\ CanonicalStart(L, n) \in Nat /\ W(L, n) \in Nat \ {0} /\ Pow2[CodeBits] \in Nat
        /\ CanonicalStart(L, n) + W(L, n) <= Pow2[CodeBits] /\ L[n] \in Nat
    BY <1>4, <1>6, StartType
  <2> QED BY <2>1
<1>10. StartsOk'
  BY <1>1, <1>2, <1>3, <1>7 DEF StartsOk
<1>11. TreeOf(s, L, pos, m, n)'
  BY <1>2, <1>4, <1>7, TreeFrame
<1>12. Depth' = TableBits[s]
  BY <1>1, <1>2, <1>3, <1>4, <1>5, <1>9 DEF Depth
<1>13. pointer' \in Cells(s, L, m) /\ CellPlace(s, pos, pointer') = At(L, n, TableBits[s])
  <2>1. PICK e : e = Top(CanonicalStart(L, n), TableBits[s])
    OBVIOUS
  <2>2. e \in Taken(L, TableBits[s])..(Pow2[TableBits[s]] - 1)
    BY <1>4, <1>5, <1>6, <2>1, LongEntry
  <2>3. pointer' = [kind |-> "table", at |-> e]
    BY <1>1, <1>2, <1>8, <2>1 DEF Top, Extended
  <2> QED BY <2>1, <2>2, <2>3 DEF Cells, CellPlace, At
<1>14. symbol_bitstring' = Word(CanonicalStart(L, n) * Pow2[TableBits[s] - TableBits[s]])
  <2>1. TableBits[s] - TableBits[s] = 0 /\ Pow2[0] = 1
    BY <1>5, Pow2Rec
  <2>2. CanonicalStart(L, n) * Pow2[TableBits[s] - TableBits[s]] = CanonicalStart(L, n)
    BY <1>9, <2>1
  <2>3. Word(CanonicalStart(L, n)) = CanonicalStart(L, n)
    BY <1>9, WordType
  <2> QED BY <1>2, <1>8, <2>2, <2>3
<1>15. TableBits[s]..(TableBits[s] - 1) = {} /\ TableBits[s] >= TableBits[s]
  BY <1>5
<1>16. PathOk(pos)'
  BY <1>3, <1>12, <1>13, <1>14, <1>15 DEF PathOk
<1> QED BY <1>3, <1>10, <1>11, <1>16 DEF Building

-----------------------------------------------------------------------------
(* The inner loop                                                          *)

\* Different cells are different places.
LEMMA CellOne ==
  ASSUME NEW s, NEW L, CodeOf(s, L), NEW pos, NEW m, NodesOk(s, L, pos, m),
         NEW p \in Cells(s, L, m), NEW q \in Cells(s, L, m), CellPlace(s, pos, p) = CellPlace(s, pos, q)
  PROVE  p = q
<1>1. IsCode(L, NumSymbols[s]) /\ TableBits[s] \in Nat
  BY CodeOfFacts
<1>2. ASSUME NEW i \in NodeIds(s, m)
      PROVE  /\ pos[i] = <<pos[i][1], pos[i][2]>> /\ pos[i][1] \in Nat /\ pos[i][2] \in Nat
             /\ pos[i][1] >= TableBits[s]
  BY <1>1, InnerType DEF NodesOk
<1>3. ASSUME NEW r \in Cells(s, L, m), r.kind # "table"
      PROVE  /\ r.at \in NodeIds(s, m) /\ r.kind \in {"left", "right"}
             /\ CellPlace(s, pos, r) = Kid(pos[r.at], IF r.kind = "right" THEN 1 ELSE 0)
             /\ CellPlace(s, pos, r)[1] > TableBits[s]
  <2>1. r.at \in NodeIds(s, m) /\ r.kind \in {"left", "right"}
    BY <1>3, CellKinds
  <2>2. CellPlace(s, pos, r) = Kid(pos[r.at], IF r.kind = "right" THEN 1 ELSE 0)
    BY <2>1 DEF CellPlace
  <2>3. CellPlace(s, pos, r)[1] = pos[r.at][1] + 1
    BY <2>2 DEF Kid
  <2> QED BY <1>1, <1>2, <2>1, <2>2, <2>3
<1>4. ASSUME NEW r \in Cells(s, L, m), r.kind = "table"
      PROVE  CellPlace(s, pos, r) = <<TableBits[s], r.at>>
  BY <1>4 DEF CellPlace
<1>5. ASSUME NEW r \in Cells(s, L, m)
      PROVE  r = [kind |-> r.kind, at |-> r.at]
  BY DEF Cells
<1>6. p.kind = "table" <=> q.kind = "table"
  BY <1>1, <1>3, <1>4
<1>7. CASE p.kind = "table"
  BY <1>4, <1>5, <1>6, <1>7
<1>8. CASE p.kind # "table"
  <2>1. PICK b \in {0, 1}, d \in {0, 1} : /\ b = IF p.kind = "right" THEN 1 ELSE 0
                                          /\ d = IF q.kind = "right" THEN 1 ELSE 0
    OBVIOUS
  <2>2. p.at \in NodeIds(s, m) /\ q.at \in NodeIds(s, m)
    BY <1>3, <1>6, <1>8
  <2>3. Kid(pos[p.at], b) = Kid(pos[q.at], d)
    BY <1>3, <1>6, <1>8, <2>1
  <2>4. pos[p.at] = pos[q.at] /\ b = d
    BY <1>2, <2>2, <2>3, KidOne
  <2>5. p.at = q.at
    BY <2>2, <2>4 DEF NodesOk
  <2>6. p.kind = q.kind
    BY <1>3, <1>6, <1>8, <2>1, <2>4
  <2> QED BY <1>5, <2>5, <2>6
<1> QED BY <1>7, <1>8

\* Setting a cell changes what it holds, and no other cell or entry of a short code.
LEMMA SetCell ==
  ASSUME TypeInv, NEW s, s = set, NEW L, CodeOf(s, L), NEW pos, NEW m, NodesOk(s, L, pos, m),
         NEW p \in Cells(s, L, m), NEW v, table' = TableSet(p, v),
         \A i \in NodeIds(s, m) : left'[i] = LeftSet(p, v)[i] /\ right'[i] = RightSet(p, v)[i]
  PROVE  /\ Content(s, p)' = v
         /\ \A q \in Cells(s, L, m) : q # p => Content(s, q)' = Content(s, q)
         /\ \A n : ShortOk(s, L, n) => ShortOk(s, L, n)'
<1>1. /\ s \in Sets /\ IsCode(L, NumSymbols[s]) /\ TableBits[s] \in Nat
      /\ Taken(L, TableBits[s]) \in Nat /\ Pow2[TableBits[s]] \in Nat
      /\ Taken(L, TableBits[s]) <= Pow2[TableBits[s]]
  BY CodeOfFacts
<1>2. \A i \in NodeIds(s, m) : i \in 0..(Nodes - 1)
  BY NodesOwn DEF Own
<1>3. /\ Table(s) \in DOMAIN table /\ DOMAIN table[Table(s)] = Entries(s)
      /\ DOMAIN left = 0..(Nodes - 1) /\ DOMAIN right = 0..(Nodes - 1)
  BY <1>1, TableType DEF TypeInv, TypeOK
<1>4. ASSUME NEW q \in Cells(s, L, m)
      PROVE  \/ q.kind = "table" /\ q.at \in Entries(s) /\ q.at >= Taken(L, TableBits[s])
             \/ q.kind \in {"left", "right"} /\ q.at \in NodeIds(s, m)
  BY <1>1, CellKinds DEF Entries
<1>5. \A i \in Entries(s) :
        table'[Table(s)][i] = IF p.kind = "table" /\ p.at = i THEN v ELSE table[Table(s)][i]
  BY <1>3, <1>4 DEF TableSet
<1>6. \A i \in NodeIds(s, m) :
        /\ left'[i] = IF p.kind = "left" /\ p.at = i THEN v ELSE left[i]
        /\ right'[i] = IF p.kind = "right" /\ p.at = i THEN v ELSE right[i]
  BY <1>2, <1>3 DEF LeftSet, RightSet
<1>7. Content(s, p)' = v
  BY <1>4, <1>5, <1>6 DEF Content
<1>8. ASSUME NEW q \in Cells(s, L, m), q # p PROVE Content(s, q)' = Content(s, q)
  <2>1. q.kind # p.kind \/ q.at # p.at
    BY <1>8 DEF Cells
  <2> QED BY <1>4, <1>5, <1>6, <2>1 DEF Content
<1>9. ASSUME NEW n, ShortOk(s, L, n) PROVE ShortOk(s, L, n)'
  <2> SUFFICES ASSUME NEW c \in Used(L), NEW x \in 0..(Pow2[CodeBits] - 1),
                      L[c] <= TableBits[s], c < n, Covers(L, c, x)
               PROVE  Root(s, x)' = c
    BY DEF ShortOk
  <2>1. Root(s, x) = c
    BY <1>9 DEF ShortOk
  <2>2. PICK a : a = CanonicalStart(L, c) \div Pow2[Extended(s)]
    OBVIOUS
  <2>3. PICK w : w = Pow2[TableBits[s] - L[c]]
    OBVIOUS
  <2>4. PICK i : i = x \div Pow2[Extended(s)]
    OBVIOUS
  <2>5. x \in Nat /\ i \in Nat
    <3>1. Pow2[CodeBits] \in Nat /\ Pow2[Extended(s)] \in Nat \ {0}
      BY <1>1, Sizes
    <3>2. x \in Nat
      BY <3>1
    <3> QED BY <2>4, <3>1, <3>2, DivLess
  <2>6. a \in Nat /\ w \in Nat /\ a + w <= Taken(L, TableBits[s]) /\ i < a + w
    BY <2>2, <2>3, <2>4, <2>5, ShortCode
  <2>7. i \in Entries(s) /\ ~(i >= Taken(L, TableBits[s]))
    BY <1>1, <2>5, <2>6 DEF Entries
  <2>8. ~(p.kind = "table" /\ p.at = i)
    BY <1>4, <2>7
  <2> QED BY <1>5, <2>1, <2>4, <2>7, <2>8 DEF Root
<1> QED BY <1>7, <1>8, <1>9

\* Where the inner loop is.
LEMMA TreeFacts ==
  ASSUME TypeInv, Complete(Lens), phase = "tree", NEW pos, Building(pos),
         NEW s, s = set, NEW L, L = Lens, NEW n, n = char, NEW m, m = next_avail_node,
         NEW k, k = Depth
  PROVE  /\ s \in Sets /\ CodeOf(s, L) /\ IsCode(L, NumSymbols[s]) /\ NumSymbols[s] \in Nat \ {0}
         /\ n \in Used(L) /\ n \in Nat /\ L[n] > TableBits[s] /\ TableBits[s] \in Nat \ {0}
         /\ L[n] \in 1..CodeBits /\ CanonicalStart(L, n) \in Nat /\ CodeBits \in Nat
         /\ k \in TableBits[s]..L[n] /\ idx = L[n] - k
         /\ StartsOk /\ TreeOf(s, L, pos, m, n) /\ NodesOk(s, L, pos, m) /\ m \in Nat
         /\ \A j \in TableBits[s]..(k - 1) : \E i \in NodeIds(s, m) : pos[i] = At(L, n, j)
         /\ pointer \in Cells(s, L, m) /\ CellPlace(s, pos, pointer) = At(L, n, k)
         /\ symbol_bitstring = Word(CanonicalStart(L, n) * Pow2[k - TableBits[s]])
         /\ Holds(s, L, pos, m, n, At(L, n, k), Get(pointer))
         /\ Get(pointer) = Content(s, pointer)
<1>1. s \in Sets /\ CodeOf(s, L) /\ IsCode(L, NumSymbols[s])
  BY BuildFacts DEF CodeOf
<1>2. n \in Symbols(s) /\ L[n] > TableBits[s] /\ idx \in Nat
  BY CodeBitsAssumption DEF TypeInv, TypeOK
<1>3. TableBits[s] \in Nat \ {0} /\ CodeBits \in Nat /\ NumSymbols[s] \in Nat \ {0}
  BY <1>1, CodeOfFacts
<1>4. n \in Used(L)
  <2>1. DOMAIN L = 0..(NumSymbols[s] - 1)
    BY <1>1, CodeTypes
  <2> QED BY <1>2, <1>3, <2>1 DEF Symbols, Used
<1>5. n \in Nat /\ L[n] \in 1..CodeBits /\ CanonicalStart(L, n) \in Nat
  BY <1>1, <1>4, StartType
<1>6. PathOk(pos) /\ StartsOk /\ TreeOf(s, L, pos, m, n)
  BY DEF Building
<1>7. k \in TableBits[s]..L[n] /\ idx = L[n] - k
  BY <1>2, <1>3, <1>5, <1>6 DEF Depth, PathOk
<1>8. /\ \A j \in TableBits[s]..(k - 1) : \E i \in NodeIds(s, m) : pos[i] = At(L, n, j)
      /\ pointer \in Cells(s, L, m) /\ CellPlace(s, pos, pointer) = At(L, n, k)
      /\ symbol_bitstring = Word(CanonicalStart(L, n) * Pow2[k - TableBits[s]])
  BY <1>6 DEF PathOk
<1>9. NodesOk(s, L, pos, m) /\ CellsOk(s, L, pos, m, n)
  BY <1>6 DEF TreeOf
<1>10. m \in Nat
  BY <1>9 DEF NodesOk
<1>11. Get(pointer) = Content(s, pointer)
  BY DEF Get, Content
<1>12. Holds(s, L, pos, m, n, At(L, n, k), Get(pointer))
  BY <1>8, <1>9, <1>11 DEF CellsOk
<1> QED BY <1>1, <1>2, <1>3, <1>4, <1>5, <1>6, <1>7, <1>8, <1>9, <1>10, <1>11, <1>12

\* The end of a walk puts the symbol at the place of its code.
LEMMA BuildingLeaf ==
  ASSUME TypeInv, Complete(Lens), NEW pos, Building(pos), SetLeaf
  PROVE  Building(pos)'
<1>1. PICK s, L, n, m, k, p0 :
        s = set /\ L = Lens /\ n = char /\ m = next_avail_node /\ k = Depth /\ p0 = pointer
  OBVIOUS
<1>2. /\ phase = "tree" /\ idx = 0 /\ phase' = "symbols" /\ char' = char + 1
      /\ table' = TableSet(pointer, n)
      /\ left' = LeftSet(pointer, n) /\ right' = RightSet(pointer, n)
      /\ start' = [start EXCEPT ![SymBitLen] = NextCode]
      /\ UNCHANGED <<code, set, next_avail_node>>
  BY <1>1 DEF SetLeaf
<1>3. Lens' = L /\ set' = s /\ next_avail_node' = m /\ char' = n + 1
  BY <1>1, <1>2 DEF Lens
<1>4. /\ s \in Sets /\ CodeOf(s, L) /\ IsCode(L, NumSymbols[s]) /\ NumSymbols[s] \in Nat \ {0}
      /\ n \in Used(L) /\ n \in Nat /\ L[n] > TableBits[s] /\ TableBits[s] \in Nat \ {0}
      /\ L[n] \in 1..CodeBits /\ k \in TableBits[s]..L[n] /\ idx = L[n] - k
      /\ StartsOk /\ TreeOf(s, L, pos, m, n) /\ NodesOk(s, L, pos, m)
      /\ \A j \in TableBits[s]..(k - 1) : \E i \in NodeIds(s, m) : pos[i] = At(L, n, j)
      /\ pointer \in Cells(s, L, m) /\ CellPlace(s, pos, pointer) = At(L, n, k)
  BY <1>1, <1>2, TreeFacts
<1>5. k = L[n]
  BY <1>2, <1>4
<1>6. /\ Content(s, p0)' = n
      /\ \A q \in Cells(s, L, m) : q # p0 => Content(s, q)' = Content(s, q)
      /\ \A j : ShortOk(s, L, j) => ShortOk(s, L, j)'
  <2>1. p0 \in Cells(s, L, m) /\ table' = TableSet(p0, n)
    BY <1>1, <1>2, <1>4
  <2>2. \A i \in NodeIds(s, m) : left'[i] = LeftSet(p0, n)[i] /\ right'[i] = RightSet(p0, n)[i]
    BY <1>1, <1>2
  <2> QED BY <1>1, <1>4, <2>1, <2>2, SetCell
<1>7. PathsOk(s, L, pos, m, n) /\ CellsOk(s, L, pos, m, n) /\ ShortOk(s, L, n)
  BY <1>4 DEF TreeOf
<1>8. Long(s, L, n + 1) = Long(s, L, n) \cup {n}
  <2>1. \A c \in Used(L) : c \in Nat
    BY <1>4, StartType
  <2>2. \A c \in Used(L) : c < n + 1 <=> (c < n \/ c = n)
    <3>1. n \in Nat
      BY <1>4
    <3> QED BY <2>1, <3>1
  <2>3. L[n] > TableBits[s] /\ n \in Used(L)
    BY <1>4
  <2> QED BY <2>2, <2>3 DEF Long
<1>9. PathsOk(s, L, pos, m, n + 1)
  BY <1>4, <1>5, <1>7, <1>8 DEF PathsOk
<1>10. CellsOk(s, L, pos, m, n + 1)'
  <2> SUFFICES ASSUME NEW p \in Cells(s, L, m)
               PROVE  Holds(s, L, pos, m, n + 1, CellPlace(s, pos, p), Content(s, p)')
    BY DEF CellsOk
  <2>1. CASE p = p0
    <3>1. CellPlace(s, pos, p) = At(L, n, L[n]) /\ Content(s, p)' = n
      BY <1>1, <1>4, <1>5, <1>6, <2>1
    <3>2. \A i \in NodeIds(s, m) : pos[i] # At(L, n, L[n])
      BY <1>4, LeafNotInner DEF NodesOk
    <3>3. \A c \in Long(s, L, n + 1) : At(L, c, L[c]) = At(L, n, L[n]) => c = n
      <4>1. \A c \in Long(s, L, n + 1) : c \in Used(L)
        BY DEF Long
      <4> QED BY <1>4, <4>1, LeafOne
    <3>4. n \in Long(s, L, n + 1)
      BY <1>8
    <3>5. Holds(s, L, pos, m, n + 1, At(L, n, L[n]), n)
      BY <3>2, <3>3, <3>4 DEF Holds
    <3> QED BY <3>1, <3>5
  <2>2. CASE p # p0
    <3>1. CellPlace(s, pos, p) # At(L, n, L[n])
      BY <1>1, <1>4, <1>5, <2>2, CellOne
    <3>2. Holds(s, L, pos, m, n, CellPlace(s, pos, p), Content(s, p)')
      BY <1>6, <1>7, <2>2 DEF CellsOk
    <3> QED BY <1>8, <3>1, <3>2 DEF Holds
  <2> QED BY <2>1, <2>2
<1>11. ShortOk(s, L, n + 1)'
  <2>1. \A c \in Used(L) : L[c] <= TableBits[s] /\ c < n + 1 => c < n
    <3>1. \A c \in Used(L) : c \in Nat /\ L[c] \in Nat
      BY <1>4, StartType
    <3> QED BY <1>4, <3>1
  <2>2. ShortOk(s, L, n)'
    BY <1>6, <1>7
  <2> QED BY <2>1, <2>2 DEF ShortOk
<1>12. TreeOf(s, L, pos, m, n + 1)'
  BY <1>4, <1>9, <1>10, <1>11 DEF TreeOf
<1>13. StartsOk'
  <2>1. Lens[char] # 0 /\ char \in Symbols(set)
    BY <1>1, <1>2, <1>4 DEF TypeInv
  <2> QED BY <1>2, <1>4, <2>1, StartsNext
<1>14. phase' # "tree"
  BY <1>2
<1> QED BY <1>3, <1>12, <1>13, <1>14 DEF Building

\* A new node: the place of the pointer, which had none.
LEMMA NewNode ==
  ASSUME NEW s, NEW L, CodeOf(s, L), NEW n \in Used(L), NEW k \in TableBits[s]..(L[n] - 1),
         NEW pos, NEW m, NodesOk(s, L, pos, m),
         \A j \in TableBits[s]..(k - 1) : \E i \in NodeIds(s, m) : pos[i] = At(L, n, j),
         \A i \in NodeIds(s, m) : pos[i] # At(L, n, k),
         NEW pos2, pos2 = [i \in NodeIds(s, m + 1) |-> IF i = m THEN At(L, n, k) ELSE pos[i]]
  PROVE  /\ NodesOk(s, L, pos2, m + 1)
         /\ NodeIds(s, m + 1) = NodeIds(s, m) \cup {m} /\ m \notin NodeIds(s, m)
         /\ pos2[m] = At(L, n, k) /\ \A i \in NodeIds(s, m) : pos2[i] = pos[i]
<1>1. /\ s \in Sets /\ IsCode(L, NumSymbols[s]) /\ TableBits[s] \in Nat \ {0}
      /\ NumSymbols[s] \in Nat \ {0}
  BY CodeOfFacts
<1>2. L[n] \in 1..CodeBits
  BY <1>1, StartType
<1>3. k \in 0..(L[n] - 1) /\ k \in Nat /\ k >= TableBits[s] /\ k \in 0..L[n]
  BY <1>1, <1>2, CodeBitsAssumption
<1>4. m \in Nat /\ NumSymbols[s] <= m
  BY DEF NodesOk
<1>5. NodeIds(s, m + 1) = NodeIds(s, m) \cup {m} /\ m \notin NodeIds(s, m)
  BY <1>1, <1>4 DEF NodeIds
<1>6. pos2[m] = At(L, n, k) /\ \A i \in NodeIds(s, m) : pos2[i] = pos[i]
  BY <1>5
<1>7. Inner(L, At(L, n, k)) /\ At(L, n, k)[1] = k
  BY <1>1, <1>3, AtInner, AtType
<1>8. \A i \in NodeIds(s, m + 1) : Inner(L, pos2[i]) /\ pos2[i][1] >= TableBits[s]
  BY <1>3, <1>5, <1>6, <1>7 DEF NodesOk
<1>9. \A i, j \in NodeIds(s, m + 1) : pos2[i] = pos2[j] => i = j
  BY <1>5, <1>6 DEF NodesOk
<1>10. ASSUME NEW i \in NodeIds(s, m + 1), pos2[i][1] # TableBits[s]
       PROVE  \E j \in NodeIds(s, m + 1), b \in {0, 1} : pos2[i] = Kid(pos2[j], b)
  <2>1. CASE i = m
    <3>1. k # TableBits[s]
      BY <1>6, <1>7, <1>10, <2>1
    <3>2. PICK h : h = k - 1
      OBVIOUS
    <3>3. h \in TableBits[s]..(k - 1) /\ h \in 0..(L[n] - 1) /\ k = h + 1
      BY <1>1, <1>2, <1>3, <3>1, <3>2
    <3>4. PICK j \in NodeIds(s, m) : pos[j] = At(L, n, h)
      BY <3>3
    <3>5. \E b \in {0, 1} : At(L, n, h + 1) = Kid(At(L, n, h), b)
      BY <1>1, <3>3, AtKid
    <3>6. pos2[i] = At(L, n, h + 1) /\ pos2[j] = At(L, n, h) /\ j \in NodeIds(s, m + 1)
      BY <1>5, <1>6, <2>1, <3>3, <3>4
    <3> QED BY <3>5, <3>6
  <2>2. CASE i # m
    <3>1. i \in NodeIds(s, m) /\ pos2[i] = pos[i]
      BY <1>5, <1>6, <2>2
    <3>2. PICK j \in NodeIds(s, m), b \in {0, 1} : pos[i] = Kid(pos[j], b)
      BY <1>10, <3>1 DEF NodesOk
    <3> QED BY <1>5, <1>6, <3>1, <3>2
  <2> QED BY <2>1, <2>2
<1>11. m + 1 \in Nat /\ NumSymbols[s] <= m + 1
  BY <1>1, <1>4
<1>12. NodesOk(s, L, pos2, m + 1)
  BY <1>8, <1>9, <1>10, <1>11 DEF NodesOk
<1> QED BY <1>5, <1>6, <1>12

\* Below a place without a node there is nothing.
LEMMA NothingBelow ==
  ASSUME NEW s, NEW L, CodeOf(s, L), NEW n \in Used(L), NEW k \in TableBits[s]..(L[n] - 1),
         NEW pos, NEW m, NodesOk(s, L, pos, m), NEW j, PathsOk(s, L, pos, m, j),
         \A i \in NodeIds(s, m) : pos[i] # At(L, n, k), NEW b \in {0, 1}
  PROVE  /\ \A i \in NodeIds(s, m) : pos[i] # Kid(At(L, n, k), b)
         /\ \A c \in Long(s, L, j) : At(L, c, L[c]) # Kid(At(L, n, k), b)
         /\ At(L, n, k) # Kid(At(L, n, k), b)
<1>1. /\ s \in Sets /\ IsCode(L, NumSymbols[s]) /\ TableBits[s] \in Nat \ {0}
  BY CodeOfFacts
<1>2. L[n] \in 1..CodeBits
  BY <1>1, StartType
<1>3. k \in 0..(L[n] - 1) /\ k \in Nat /\ k >= TableBits[s] /\ k \in 0..L[n]
  BY <1>1, <1>2, CodeBitsAssumption
<1>4. PICK q : q = At(L, n, k)
  OBVIOUS
<1>5. q = <<q[1], q[2]>> /\ q[1] = k /\ q[1] \in Nat /\ q[2] \in Nat
  <2>1. Inner(L, q)
    BY <1>3, <1>4, AtInner
  <2>2. q[1] = k
    BY <1>1, <1>3, <1>4, AtType
  <2> QED BY <1>1, <2>1, <2>2, InnerType
<1>6. Kid(q, b)[1] = k + 1
  BY <1>5 DEF Kid
<1>7. ASSUME NEW i \in NodeIds(s, m), pos[i] = Kid(q, b) PROVE FALSE
  <2>1. pos[i][1] # TableBits[s]
    BY <1>1, <1>3, <1>6, <1>7
  <2>2. PICK h \in NodeIds(s, m), d \in {0, 1} : pos[i] = Kid(pos[h], d)
    BY <2>1 DEF NodesOk
  <2>3. pos[h] = <<pos[h][1], pos[h][2]>> /\ pos[h][1] \in Nat /\ pos[h][2] \in Nat
    BY <1>1, InnerType DEF NodesOk
  <2>4. Kid(pos[h], d) = Kid(q, b)
    BY <1>7, <2>2
  <2>5. pos[h] = q
    BY <1>5, <2>3, <2>4, KidOne
  <2> QED BY <1>4, <2>5
<1>8. ASSUME NEW c \in Long(s, L, j), At(L, c, L[c]) = Kid(q, b) PROVE FALSE
  <2>1. c \in Used(L) /\ L[c] > TableBits[s]
    BY DEF Long
  <2>2. L[c] \in 1..CodeBits
    BY <1>1, <2>1, StartType
  <2>3. L[c] \in 0..L[c]
    BY <2>2, CodeBitsAssumption
  <2>4. L[c] = k + 1
    BY <1>1, <1>6, <1>8, <2>1, <2>3, AtType
  <2>5. k \in TableBits[s]..(L[c] - 1) /\ k \in 0..(L[c] - 1) /\ k \in 0..L[c]
    BY <1>1, <1>3, <2>4
  <2>6. PICK i \in NodeIds(s, m) : pos[i] = At(L, c, k)
    BY <2>5 DEF PathsOk
  <2>7. PICK d \in {0, 1} : At(L, c, k + 1) = Kid(At(L, c, k), d)
    BY <1>1, <2>1, <2>5, AtKid
  <2>8. PICK r : r = At(L, c, k)
    OBVIOUS
  <2>9. r = <<r[1], r[2]>> /\ r[1] \in Nat /\ r[2] \in Nat
    BY <1>1, <2>6, <2>8, InnerType DEF NodesOk
  <2>10. Kid(r, d) = Kid(q, b)
    BY <1>8, <2>4, <2>7, <2>8
  <2>11. r = q
    BY <1>5, <2>9, <2>10, KidOne
  <2> QED BY <1>4, <2>6, <2>8, <2>11
<1>9. q # Kid(q, b)
  BY <1>5, <1>6
<1> QED BY <1>4, <1>7, <1>8, <1>9

\* One step down: node is the pointer's, found or new, and pos2 knows it.
LEMMA StepDown ==
  ASSUME TypeInv, Complete(Lens), NEW pos, Building(pos), Descend,
         NEW s, s = set, NEW L, L = Lens, NEW n, n = char, NEW k, k = Depth,
         NEW m2, m2 = next_avail_node', NEW pos2, TreeOf(s, L, pos2, m2, n)',
         \A j \in TableBits[s]..(k - 1) : \E i \in NodeIds(s, m2) : pos2[i] = At(L, n, j),
         NEW node \in NodeIds(s, m2), pos2[node] = At(L, n, k),
         pointer' = [kind |-> IF GoesRight THEN "right" ELSE "left", at |-> node]
  PROVE  Building(pos2)'
<1>1. /\ phase = "tree" /\ idx # 0 /\ idx' = idx - 1
      /\ symbol_bitstring' = Word(2 * symbol_bitstring)
      /\ UNCHANGED <<code, set, phase, start, char>>
  BY DEF Descend
<1>2. PICK m : m = next_avail_node
  OBVIOUS
<1>3. /\ s \in Sets /\ CodeOf(s, L) /\ IsCode(L, NumSymbols[s])
      /\ n \in Used(L) /\ TableBits[s] \in Nat \ {0}
      /\ L[n] \in 1..CodeBits /\ CanonicalStart(L, n) \in Nat /\ CodeBits \in Nat
      /\ k \in TableBits[s]..L[n] /\ idx = L[n] - k /\ StartsOk
      /\ symbol_bitstring = Word(CanonicalStart(L, n) * Pow2[k - TableBits[s]])
  BY <1>1, <1>2, TreeFacts
<1>4. k \in Nat /\ TableBits[s] <= k /\ k < CodeBits /\ k \in 0..(L[n] - 1)
  BY <1>1, <1>3
<1>5. /\ (symbol_bitstring \div Pow2[Extended(s) - 1]) % 2 = Top(CanonicalStart(L, n), k + 1) % 2
      /\ symbol_bitstring' = Word(CanonicalStart(L, n) * Pow2[(k + 1) - TableBits[s]])
  BY <1>1, <1>3, <1>4, NextBit
<1>6. PICK bit : bit = Top(CanonicalStart(L, n), k + 1) % 2
  OBVIOUS
<1>7. bit \in {0, 1} /\ At(L, n, k + 1) = Kid(At(L, n, k), bit)
  BY <1>3, <1>4, <1>6, AtKid
<1>8. GoesRight <=> bit = 1
  BY <1>5, <1>6 DEF GoesRight
<1>9. pointer' = [kind |-> IF bit = 1 THEN "right" ELSE "left", at |-> node]
  BY <1>8
<1>10. pointer' \in Cells(s, L, m2) /\ CellPlace(s, pos2, pointer') = At(L, n, k + 1)
  BY <1>7, <1>9 DEF Cells, CellPlace
<1>11. Lens' = L /\ set' = s /\ char' = n
  BY <1>1 DEF Lens
<1>12. Depth' = k + 1
  BY <1>1, <1>3, <1>4, <1>11 DEF Depth
<1>13. ASSUME NEW j \in TableBits[s]..((k + 1) - 1)
       PROVE  \E i \in NodeIds(s, m2) : pos2[i] = At(L, n, j)
  <2>1. j \in TableBits[s]..(k - 1) \/ j = k
    BY <1>3, <1>4
  <2> QED BY <2>1
<1>14. k + 1 >= TableBits[s]
  BY <1>3, <1>4
<1>15. PathOk(pos2)'
  BY <1>5, <1>10, <1>11, <1>12, <1>13, <1>14 DEF PathOk
<1>16. StartsOk'
  BY <1>1, <1>3, <1>11 DEF StartsOk
<1> QED BY <1>11, <1>15, <1>16 DEF Building

\* A step of the walk goes one bit down, through a node that is found or new.
LEMMA BuildingDescend ==
  ASSUME TypeInv, Complete(Lens), NEW pos, Building(pos), Descend
  PROVE  \E pos2 : Building(pos2)'
<1>1. PICK s, L, n, m, k, p0 :
        s = set /\ L = Lens /\ n = char /\ m = next_avail_node /\ k = Depth /\ p0 = pointer
  OBVIOUS
<1>2. phase = "tree" /\ idx # 0 /\ UNCHANGED <<code, set, char>>
  BY DEF Descend
<1>3. /\ s \in Sets /\ CodeOf(s, L) /\ IsCode(L, NumSymbols[s]) /\ NumSymbols[s] \in Nat \ {0}
      /\ n \in Used(L) /\ TableBits[s] \in Nat \ {0} /\ L[n] \in 1..CodeBits /\ CodeBits \in Nat
      /\ k \in TableBits[s]..L[n] /\ idx = L[n] - k
      /\ TreeOf(s, L, pos, m, n) /\ NodesOk(s, L, pos, m) /\ m \in Nat
      /\ \A j \in TableBits[s]..(k - 1) : \E i \in NodeIds(s, m) : pos[i] = At(L, n, j)
      /\ p0 \in Cells(s, L, m) /\ CellPlace(s, pos, p0) = At(L, n, k)
      /\ Holds(s, L, pos, m, n, At(L, n, k), Get(p0))
  BY <1>1, <1>2, TreeFacts
<1>4. k \in TableBits[s]..(L[n] - 1) /\ k \in 0..(L[n] - 1)
  BY <1>2, <1>3
<1>5. \A c \in Long(s, L, n) : At(L, c, L[c]) # At(L, n, k)
  <2>1. Inner(L, At(L, n, k))
    BY <1>3, <1>4, AtInner
  <2>2. \A c \in Long(s, L, n) : c \in Used(L)
    BY DEF Long
  <2> QED BY <1>3, <2>1, <2>2, LeafNotInner
<1>6. PathsOk(s, L, pos, m, n) /\ CellsOk(s, L, pos, m, n) /\ ShortOk(s, L, n)
  BY <1>3 DEF TreeOf
<1>7. CASE \E i \in NodeIds(s, m) : pos[i] = At(L, n, k)
  <2>1. PICK node \in NodeIds(s, m) : pos[node] = At(L, n, k)
    BY <1>7
  <2>2. Get(p0) = node
    BY <1>3, <2>1 DEF Holds
  <2>3. node # 0
    BY <1>3, <2>1 DEF NodeIds
  <2>4. /\ UNCHANGED <<table, left, right, next_avail_node>>
        /\ pointer' = [kind |-> IF GoesRight THEN "right" ELSE "left", at |-> node]
    BY <1>1, <2>2, <2>3 DEF Descend
  <2>5. TreeOf(s, L, pos, m, n)'
    BY <1>3, <2>4, TreeFrame
  <2>6. m = next_avail_node'
    BY <1>1, <2>4
  <2>7. Building(pos)'
    BY <1>1, <1>3, <2>1, <2>4, <2>5, <2>6, StepDown
  <2> QED BY <2>7
<1>8. CASE \A i \in NodeIds(s, m) : pos[i] # At(L, n, k)
  <2>1. Get(p0) = 0
    BY <1>3, <1>5, <1>8 DEF Holds
  <2>2. m < Nodes
    BY <1>3, NodesOwn
  <2>3. /\ table' = TableSet(p0, m)
        /\ left' = [LeftSet(p0, m) EXCEPT ![m] = 0]
        /\ right' = [RightSet(p0, m) EXCEPT ![m] = 0]
        /\ next_avail_node' = m + 1
        /\ pointer' = [kind |-> IF GoesRight THEN "right" ELSE "left", at |-> m]
    BY <1>1, <2>1, <2>2 DEF Descend
  <2>4. PICK pos2 : pos2 = [i \in NodeIds(s, m + 1) |-> IF i = m THEN At(L, n, k) ELSE pos[i]]
    OBVIOUS
  <2>5. /\ NodesOk(s, L, pos2, m + 1)
        /\ NodeIds(s, m + 1) = NodeIds(s, m) \cup {m} /\ m \notin NodeIds(s, m)
        /\ pos2[m] = At(L, n, k) /\ \A i \in NodeIds(s, m) : pos2[i] = pos[i]
    BY <1>3, <1>4, <1>8, <2>4, NewNode
  <2>6. /\ Content(s, p0)' = m
        /\ \A q \in Cells(s, L, m) : q # p0 => Content(s, q)' = Content(s, q)
        /\ ShortOk(s, L, n)'
    <3>1. \A i \in NodeIds(s, m) : left'[i] = LeftSet(p0, m)[i] /\ right'[i] = RightSet(p0, m)[i]
      <4>1. DOMAIN LeftSet(p0, m) = 0..(Nodes - 1) /\ DOMAIN RightSet(p0, m) = 0..(Nodes - 1)
        BY DEF LeftSet, RightSet, TypeInv, TypeOK
      <4>2. \A i \in NodeIds(s, m) : i \in 0..(Nodes - 1) /\ i # m
        BY <1>3, <2>5, NodesOwn DEF Own
      <4> QED BY <2>3, <4>1, <4>2
    <3> QED BY <1>1, <1>3, <1>6, <2>3, <3>1, SetCell
  <2>7. left'[m] = 0 /\ right'[m] = 0
    <3>1. m \in 0..(Nodes - 1)
      BY <1>3, <2>2, Sizes
    <3>2. DOMAIN LeftSet(p0, m) = 0..(Nodes - 1) /\ DOMAIN RightSet(p0, m) = 0..(Nodes - 1)
      BY DEF LeftSet, RightSet, TypeInv, TypeOK
    <3> QED BY <2>3, <3>1, <3>2
  <2>8. ASSUME NEW p \in Cells(s, L, m)
        PROVE  CellPlace(s, pos2, p) = CellPlace(s, pos, p)
    BY <2>5, CellKinds DEF CellPlace
  <2>9. CellsOk(s, L, pos2, m + 1, n)'
    <3> SUFFICES ASSUME NEW p \in Cells(s, L, m + 1)
                 PROVE  Holds(s, L, pos2, m + 1, n, CellPlace(s, pos2, p), Content(s, p)')
      BY DEF CellsOk
    <3>1. CASE p = p0
      <4>1. CellPlace(s, pos2, p) = At(L, n, k) /\ Content(s, p)' = m
        BY <1>3, <2>6, <2>8, <3>1
      <4>2. Holds(s, L, pos2, m + 1, n, At(L, n, k), m)
        BY <1>5, <1>8, <2>5 DEF Holds
      <4> QED BY <4>1, <4>2
    <3>2. CASE p # p0 /\ p \in Cells(s, L, m)
      <4>1. CellPlace(s, pos2, p) # At(L, n, k)
        BY <1>3, <2>8, <3>2, CellOne
      <4>2. Holds(s, L, pos, m, n, CellPlace(s, pos2, p), Content(s, p)')
        BY <1>6, <2>6, <2>8, <3>2 DEF CellsOk
      <4> QED BY <2>5, <4>1, <4>2 DEF Holds
    <3>3. CASE p \notin Cells(s, L, m)
      <4>1. p.kind \in {"left", "right"} /\ p.at = m
        BY <2>5, <3>3 DEF Cells
      <4>2. PICK b \in {0, 1} : b = IF p.kind = "right" THEN 1 ELSE 0
        OBVIOUS
      <4>3. CellPlace(s, pos2, p) = Kid(At(L, n, k), b) /\ Content(s, p)' = 0
        BY <2>5, <2>7, <4>1, <4>2 DEF CellPlace, Content
      <4>4. /\ \A i \in NodeIds(s, m) : pos[i] # Kid(At(L, n, k), b)
            /\ \A c \in Long(s, L, n) : At(L, c, L[c]) # Kid(At(L, n, k), b)
            /\ At(L, n, k) # Kid(At(L, n, k), b)
        BY <1>3, <1>4, <1>6, <1>8, NothingBelow
      <4>5. Holds(s, L, pos2, m + 1, n, Kid(At(L, n, k), b), 0)
        BY <2>5, <4>4 DEF Holds
      <4> QED BY <4>3, <4>5
    <3> QED BY <3>1, <3>2, <3>3
  <2>10. PathsOk(s, L, pos2, m + 1, n)
    BY <1>6, <2>5 DEF PathsOk
  <2>11. TreeOf(s, L, pos2, m + 1, n)'
    BY <2>5, <2>6, <2>9, <2>10 DEF TreeOf
  <2>12. /\ \A j \in TableBits[s]..(k - 1) : \E i \in NodeIds(s, m + 1) : pos2[i] = At(L, n, j)
         /\ m \in NodeIds(s, m + 1)
    BY <1>3, <2>5
  <2>13. PICK m2 : m2 = m + 1
    OBVIOUS
  <2>14. Building(pos2)'
    BY <1>1, <2>3, <2>5, <2>11, <2>12, <2>13, StepDown
  <2> QED BY <2>14
<1> QED BY <1>7, <1>8

-----------------------------------------------------------------------------
(* The start of build_huffman_table                                        *)

\* The words of start before the loop.
LEMMA FirstStarts ==
  ASSUME NEW s, NEW L, CodeOf(s, L), NEW l \in 1..(CodeBits + 1)
  PROVE  Scaled(s, Starts(L))[l] = Scale(s, l, Word(Filled(L, l, 0)))
<1>1. IsCode(L, NumSymbols[s]) /\ CodeBits \in Nat
  BY CodeOfFacts
<1>2. \A c \in Used(L) : c \in Nat /\ L[c] \in Nat
  BY <1>1, StartType
<1>3. Shorter(L, l) = Below(L, l, 0)
  BY <1>2 DEF Shorter, Below, Used
<1>4. Starts(L)[l] = Word(Filled(L, l, 0))
  BY <1>3 DEF Starts, Filled
<1> QED BY <1>4 DEF Scaled, Scale

\* A complete code is not refused, and the loop starts with an empty tree.
LEMMA BuildingStart ==
  ASSUME TypeInv, NEW s \in Sets, NEW lens \in Codes[BlockOf(s)][s], BuildTable(s, lens),
         Complete(lens)
  PROVE  phase' = "symbols" /\ \E pos : Building(pos)'
<1>1. lens \in [Symbols(s) -> Nat]
  BY TypeBuildTable
<1>2. NumSymbols[s] \in Nat \ {0} /\ Symbols(s) = 0..(NumSymbols[s] - 1)
  BY Sizes
<1>3. CodeOf(s, lens) /\ IsCode(lens, NumSymbols[s])
  BY <1>1, <1>2, CompleteIsCode DEF CodeOf
<1>4. /\ TableBits[s] \in Nat \ {0} /\ TableBits[s] < CodeBits /\ CodeBits \in Nat
      /\ Taken(lens, TableBits[s]) \in Nat \ {0}
      /\ Taken(lens, TableBits[s]) <= Pow2[TableBits[s]] /\ Pow2[TableBits[s]] \in Nat \ {0}
      /\ Filled(lens, TableBits[s] + 1, 0) = Pow2[Extended(s)] * Taken(lens, TableBits[s])
  BY <1>3, CodeOfFacts
<1>5. /\ Pow2[CodeBits] \in Nat \ {0} /\ Pow2[Extended(s)] \in Nat \ {0}
      /\ Pow2[CodeBits] = Pow2[Extended(s)] * Pow2[TableBits[s]]
  BY Sizes
<1>6. start' = Scaled(s, Starts(lens)) /\ set' = s /\ code'[s].lens = lens
  BY DEF BuildTable, Reads, TypeInv
<1>7. \A l \in 1..(CodeBits + 1) : start'[l] = Scale(s, l, Word(Filled(lens, l, 0)))
  BY <1>3, <1>6, FirstStarts
<1>8. start'[CodeBits + 1] = 0
  <2>1. CodeBits + 1 \in 1..(CodeBits + 1) /\ ~(CodeBits + 1 <= TableBits[s])
    BY <1>4
  <2>2. Filled(lens, CodeBits + 1, 0) = Pow2[CodeBits]
    BY <1>3, FilledAll
  <2>3. Word(Pow2[CodeBits]) = 0
    <3>1. PICK M \in Nat \ {0} : M = Pow2[CodeBits]
      BY <1>5
    <3>2. M = M * 1 + 0 /\ 0 \in 0..(M - 1)
      OBVIOUS
    <3>3. M % M = 0
      BY <3>2, DivisionIs
    <3> QED BY <3>1, <3>3 DEF Word
  <2> QED BY <1>7, <2>1, <2>2, <2>3 DEF Scale
<1>9. ~ \E c \in Symbols(s) : lens[c] > CodeBits
  BY <1>1, <1>4 DEF Complete
<1>10. PICK first : first = start'[TableBits[s] + 1] \div Pow2[Extended(s)]
  OBVIOUS
<1>11. /\ phase' = "symbols" /\ char' = 0 /\ next_avail_node' = NumSymbols[s]
       /\ table'[Table(s)] = ZeroUnused(table[Table(s)], first)
  <2>1. Table(s) \in DOMAIN table
    BY TableType
  <2> QED BY <1>8, <1>9, <1>10, <2>1 DEF BuildTable, FirstNode
<1>12. Taken(lens, TableBits[s]) < Pow2[TableBits[s]] => first = Taken(lens, TableBits[s])
  <2> SUFFICES ASSUME Taken(lens, TableBits[s]) < Pow2[TableBits[s]]
               PROVE  first = Taken(lens, TableBits[s])
    OBVIOUS
  <2>1. TableBits[s] + 1 \in 1..(CodeBits + 1) /\ ~(TableBits[s] + 1 <= TableBits[s])
    BY <1>4
  <2>2. start'[TableBits[s] + 1] = Word(Filled(lens, TableBits[s] + 1, 0))
    BY <1>7, <2>1 DEF Scale
  <2>3. PICK e \in Nat \ {0}, f \in Nat, b \in Nat :
          e = Pow2[Extended(s)] /\ f = Taken(lens, TableBits[s]) /\ b = Pow2[TableBits[s]]
    BY <1>4, <1>5
  <2>4. PICK z \in Nat : z = e * f
    OBVIOUS
  <2>5. z < e * b
    <3>1. f + 1 <= b
      BY <2>3
    <3>2. e * (f + 1) <= e * b /\ e * (f + 1) = e * f + e
      BY <3>1
    <3> QED BY <2>4, <3>2
  <2>6. Word(z) = z
    BY <1>5, <2>3, <2>4, <2>5, WordType
  <2>7. z \div e = f
    <3>1. z = e * f + 0 /\ 0 \in 0..(e - 1)
      BY <2>4
    <3> QED BY <3>1, DivisionIs
  <2> QED BY <1>4, <1>10, <2>2, <2>3, <2>4, <2>6, <2>7
<1>13. \A i \in Taken(lens, TableBits[s])..(Pow2[TableBits[s]] - 1) : table'[Table(s)][i] = 0
  <2> SUFFICES ASSUME NEW i \in Taken(lens, TableBits[s])..(Pow2[TableBits[s]] - 1)
               PROVE  table'[Table(s)][i] = 0
    OBVIOUS
  <2>1. Taken(lens, TableBits[s]) < Pow2[TableBits[s]]
    BY <1>4
  <2>2. i \in Entries(s)
    BY <1>4 DEF Entries
  <2>3. DOMAIN table[Table(s)] = Entries(s)
    BY TableType
  <2>4. first # 0 /\ i >= first
    BY <1>4, <1>12, <2>1
  <2> QED BY <1>11, <2>2, <2>3, <2>4 DEF ZeroUnused
<1>14. Lens' = lens
  BY <1>6 DEF Lens
<1>15. StartsOk'
  <2> SUFFICES ASSUME NEW c \in Used(lens)
               PROVE  start'[lens[c]] = Scale(s, lens[c], Filled(lens, lens[c], 0))
    BY <1>6, <1>11, <1>14 DEF StartsOk
  <2>1. /\ lens[c] \in 1..CodeBits /\ CanonicalStart(lens, c) \in Nat /\ W(lens, c) \in Nat \ {0}
        /\ c \in Nat /\ CanonicalStart(lens, c) + W(lens, c) <= Pow2[CodeBits] /\ lens[c] \in Nat
    BY <1>3, StartType
  <2>2. Filled(lens, lens[c], 0) \in Nat /\ Filled(lens, lens[c], 0) <= Filled(lens, lens[c], c)
    <3>1. Filled(lens, lens[c], 0) \in 0..Pow2[CodeBits]
      BY <1>3, <2>1, FilledType
    <3>2. 0 \in Nat /\ 0 <= c
      BY <2>1
    <3>3. Filled(lens, lens[c], 0) <= Filled(lens, lens[c], c)
      BY <1>3, <2>1, <3>2, FilledMono
    <3> QED BY <1>5, <3>1, <3>3
  <2>3. CanonicalStart(lens, c) = Filled(lens, lens[c], c)
    BY <1>3, FilledStart
  <2>4. Filled(lens, lens[c], 0) < Pow2[CodeBits]
    BY <1>5, <2>1, <2>2, <2>3
  <2>5. Word(Filled(lens, lens[c], 0)) = Filled(lens, lens[c], 0)
    BY <2>2, <2>4, WordType
  <2>6. lens[c] \in 1..(CodeBits + 1)
    BY <1>4, <2>1
  <2> QED BY <1>7, <2>5, <2>6
<1>16. PICK pos : pos = [i \in {} |-> 0]
  OBVIOUS
<1>17. NodeIds(s, NumSymbols[s]) = {}
  BY <1>2 DEF NodeIds
<1>18. \A c \in Used(lens) : ~(c < 0)
  <2>1. \A c \in Used(lens) : c \in Nat
    BY <1>3, StartType
  <2> QED BY <2>1
<1>19. Long(s, lens, 0) = {}
  BY <1>18 DEF Long
<1>20. NodesOk(s, lens, pos, NumSymbols[s])
  BY <1>2, <1>17 DEF NodesOk
<1>21. PathsOk(s, lens, pos, NumSymbols[s], 0)
  BY <1>19 DEF PathsOk
<1>22. ShortOk(s, lens, 0)'
  BY <1>18 DEF ShortOk
<1>23. CellsOk(s, lens, pos, NumSymbols[s], 0)'
  <2> SUFFICES ASSUME NEW p \in Cells(s, lens, NumSymbols[s])
               PROVE  Holds(s, lens, pos, NumSymbols[s], 0, CellPlace(s, pos, p), Content(s, p)')
    BY DEF CellsOk
  <2>1. p.kind = "table" /\ p.at \in Taken(lens, TableBits[s])..(Pow2[TableBits[s]] - 1)
    BY <1>17, CellKinds
  <2>2. Content(s, p)' = 0
    BY <1>13, <2>1 DEF Content
  <2> QED BY <1>17, <1>19, <2>2 DEF Holds
<1>24. TreeOf(s, lens, pos, NumSymbols[s], 0)'
  BY <1>20, <1>21, <1>22, <1>23 DEF TreeOf
<1>25. Building(pos)'
  BY <1>6, <1>11, <1>14, <1>15, <1>24 DEF Building
<1> QED BY <1>11, <1>25

-----------------------------------------------------------------------------
(* Nodes that change                                                       *)

\* Node i's sides stay as they are.
Same(i) == left'[i] = left[i] /\ right'[i] = right[i]

\* The inner loop writes to nodes of its own set only.
LEMMA OwnDescend ==
  ASSUME TypeInv, Complete(Lens), NEW pos, Building(pos), Descend
  PROVE  \A i \in 0..(Nodes - 1) : i \in Own(set) \/ Same(i)
<1>1. PICK s, L, n, m, k : s = set /\ L = Lens /\ n = char /\ m = next_avail_node /\ k = Depth
  OBVIOUS
<1>2. phase = "tree" /\ UNCHANGED <<code, set>>
  BY DEF Descend
<1>3. /\ s \in Sets /\ CodeOf(s, L) /\ NodesOk(s, L, pos, m) /\ m \in Nat /\ NumSymbols[s] \in Nat
      /\ pointer \in Cells(s, L, m)
  BY <1>1, <1>2, TreeFacts
<1>4. pointer.kind \in {"left", "right"} => pointer.at \in Own(s)
  BY <1>3, CellKinds, NodesOwn
<1>5. CASE Get(pointer) = 0 /\ next_avail_node < Nodes
  <2>1. /\ left' = [LeftSet(pointer, m) EXCEPT ![m] = 0]
        /\ right' = [RightSet(pointer, m) EXCEPT ![m] = 0]
        /\ next_avail_node' = m + 1
    BY <1>1, <1>5 DEF Descend
  <2>2. PICK pos2 : Building(pos2)'
    BY BuildingDescend
  <2>3. Lens' = L /\ set' = s
    BY <1>1, <1>2 DEF Lens
  <2>4. NodesOk(s, L, pos2, m + 1)
    BY <2>1, <2>2, <2>3 DEF Building, TreeOf
  <2>5. NodeIds(s, m + 1) \subseteq Own(s)
    BY <1>3, <2>4, NodesOwn
  <2>6. m \in Own(s)
    <3>1. NumSymbols[s] <= m
      BY <1>3 DEF NodesOk
    <3>2. m \in NodeIds(s, m + 1)
      BY <1>3, <3>1 DEF NodeIds
    <3> QED BY <2>5, <3>2
  <2>7. DOMAIN left = 0..(Nodes - 1) /\ DOMAIN right = 0..(Nodes - 1)
    BY DEF TypeInv, TypeOK
  <2>8. ASSUME NEW i \in 0..(Nodes - 1), i \notin Own(s)
        PROVE  left'[i] = left[i] /\ right'[i] = right[i]
    <3>1. i # m /\ (pointer.kind \in {"left", "right"} => pointer.at # i)
      BY <1>4, <2>6, <2>8
    <3>2. LeftSet(pointer, m)[i] = left[i] /\ RightSet(pointer, m)[i] = right[i]
      BY <2>7, <3>1 DEF LeftSet, RightSet
    <3>3. i \in DOMAIN LeftSet(pointer, m) /\ i \in DOMAIN RightSet(pointer, m)
      BY <2>7 DEF LeftSet, RightSet
    <3> QED BY <2>1, <3>1, <3>2, <3>3
  <2> QED BY <1>1, <2>8 DEF Same
<1>6. CASE ~(Get(pointer) = 0 /\ next_avail_node < Nodes)
  BY <1>6 DEF Descend, Same
<1> QED BY <1>5, <1>6

\* The end of a walk writes to a node of its own set.
LEMMA OwnLeaf ==
  ASSUME TypeInv, Complete(Lens), NEW pos, Building(pos), SetLeaf
  PROVE  \A i \in 0..(Nodes - 1) : i \in Own(set) \/ Same(i)
<1>1. PICK s, L, n, m, k : s = set /\ L = Lens /\ n = char /\ m = next_avail_node /\ k = Depth
  OBVIOUS
<1>2. phase = "tree" /\ left' = LeftSet(pointer, char) /\ right' = RightSet(pointer, char)
  BY DEF SetLeaf
<1>3. CodeOf(s, L) /\ NodesOk(s, L, pos, m) /\ pointer \in Cells(s, L, m)
  BY <1>1, <1>2, TreeFacts
<1>4. pointer.kind \in {"left", "right"} => pointer.at \in Own(s)
  BY <1>3, CellKinds, NodesOwn
<1>5. DOMAIN left = 0..(Nodes - 1) /\ DOMAIN right = 0..(Nodes - 1)
  BY DEF TypeInv, TypeOK
<1> QED BY <1>1, <1>2, <1>4, <1>5 DEF LeftSet, RightSet, Same

-----------------------------------------------------------------------------
(* Every step keeps the invariant                                          *)

\* What a round of either loop must do to keep it.
LEMMA LoopKeeps ==
  ASSUME Inv, TypeInv', phase \in {"symbols", "tree"}, UNCHANGED <<code, built, set>>,
         \A r \in Sets : Table(r) # Table(set) => table'[Table(r)] = table[Table(r)],
         Complete(Lens) => /\ phase' # "error" /\ \E pos : Building(pos)'
                           /\ \A i \in 0..(Nodes - 1) : i \in Own(set) \/ Same(i)
  PROVE  Inv'
<1>1. Lens' = Lens
  BY DEF Lens
<1>2. /\ TypeInv /\ code[set].only = None /\ built \cap Sharing(set) = {}
      /\ ~Complete(Lens) => built = {}
      /\ \A s \in built : BuiltOk(s)
  BY DEF Inv
<1>3. set \in Sets /\ built \subseteq Sets
  BY <1>2 DEF TypeInv, TypeOK
<1>4. ASSUME NEW s \in built PROVE BuiltOk(s)'
  <2>1. s \in Sets /\ Complete(Lens) /\ BuiltOk(s)
    BY <1>2, <1>3
  <2>2. Table(s) # Table(set)
    BY <1>2, <2>1 DEF Sharing
  <2>3. table'[Table(s)] = table[Table(s)]
    BY <2>1, <2>2
  <2>4. \A i \in Own(s) : i \notin Own(set) /\ i \in 0..(Nodes - 1)
    <3>1. \A i \in Own(s) : i \notin Own(set)
      BY <1>3, <2>1, <2>2, OwnDisjoint
    <3> QED BY <3>1 DEF Own
  <2>5. \A i \in Own(s) : left'[i] = left[i] /\ right'[i] = right[i]
    BY <2>1, <2>4 DEF Same
  <2>6. code'[s] = code[s]
    OBVIOUS
  <2> QED BY <1>2, <2>1, <2>3, <2>5, <2>6, BuiltFrame
<1>5. phase' = "error" => ~Complete(Lens')
  BY <1>1
<1>6. Complete(Lens') => \E pos : Building(pos)'
  BY <1>1
<1>7. (code[set].only = None /\ built \cap Sharing(set) = {} /\ (~Complete(Lens) => built = {}))'
  BY <1>1, <1>2
<1> QED BY <1>4, <1>5, <1>6, <1>7 DEF Inv

\* A symbol without a code keeps the invariant;
LEMMA InvSymbolUnused ==
  ASSUME Inv, SymbolUnused PROVE Inv'
<1>1. TypeInv /\ TypeInv'
  BY TypeSymbolUnused DEF Inv
<1>2. phase = "symbols" /\ phase' = "symbols" /\ UNCHANGED <<table, left, right, code, built, set>>
  BY DEF SymbolUnused
<1>3. Complete(Lens) => \E pos : Building(pos)'
  BY <1>1, <1>2, BuildingUnused DEF Inv
<1> QED BY <1>1, <1>2, <1>3, LoopKeeps DEF Same

\* a symbol whose code fits the table;
LEMMA InvSymbolShort ==
  ASSUME Inv, SymbolShort PROVE Inv'
<1>1. TypeInv /\ TypeInv' /\ set \in Sets
  BY TypeSymbolShort DEF Inv, TypeInv, TypeOK
<1>2. phase = "symbols" /\ UNCHANGED <<left, right, code, built, set>>
  BY DEF SymbolShort
<1>3. Complete(Lens) => phase' = "symbols" /\ \E pos : Building(pos)'
  BY <1>1, <1>2, BuildingShort DEF Inv
<1>4. ASSUME NEW r \in Sets, Table(r) # Table(set) PROVE table'[Table(r)] = table[Table(r)]
  <2>1. Table(r) \in DOMAIN table
    BY <1>1, TableType
  <2> QED BY <1>4, <2>1 DEF SymbolShort
<1> QED BY <1>1, <1>2, <1>3, <1>4, LoopKeeps DEF Same

\* the start of a walk;
LEMMA InvSymbolLong ==
  ASSUME Inv, SymbolLong PROVE Inv'
<1>1. TypeInv /\ TypeInv'
  BY TypeSymbolLong DEF Inv
<1>2. phase = "symbols" /\ phase' = "tree" /\ UNCHANGED <<table, left, right, code, built, set>>
  BY DEF SymbolLong
<1>3. Complete(Lens) => \E pos : Building(pos)'
  BY <1>1, <1>2, BuildingLong DEF Inv
<1> QED BY <1>1, <1>2, <1>3, LoopKeeps DEF Same

\* Setting a cell leaves the tables of other sets alone.
LEMMA OtherTables ==
  ASSUME TypeInv, NEW v, NEW r \in Sets, Table(r) # Table(set)
  PROVE  TableSet(pointer, v)[Table(r)] = table[Table(r)]
<1>1. Table(r) \in DOMAIN table
  BY TableType
<1> QED BY <1>1 DEF TableSet

\* A step of a walk keeps the invariant;
LEMMA InvDescend ==
  ASSUME Inv, Descend PROVE Inv'
<1>1. TypeInv /\ TypeInv'
  BY TypeDescend DEF Inv
<1>2. phase = "tree" /\ phase' = "tree" /\ UNCHANGED <<code, built, set>>
  BY DEF Descend
<1>3. Complete(Lens) => /\ \E pos : Building(pos)'
                        /\ \A i \in 0..(Nodes - 1) : i \in Own(set) \/ Same(i)
  <2> SUFFICES ASSUME Complete(Lens)
               PROVE  /\ \E pos : Building(pos)'
                      /\ \A i \in 0..(Nodes - 1) : i \in Own(set) \/ Same(i)
    OBVIOUS
  <2>1. PICK pos : Building(pos)
    BY <1>2 DEF Inv
  <2> QED BY <1>1, <2>1, BuildingDescend, OwnDescend
<1>4. \E v : table' = TableSet(pointer, v) \/ table' = table
  BY DEF Descend
<1>5. ASSUME NEW r \in Sets, Table(r) # Table(set) PROVE table'[Table(r)] = table[Table(r)]
  BY <1>1, <1>4, <1>5, OtherTables
<1> QED BY <1>1, <1>2, <1>3, <1>5, LoopKeeps

\* the end of a walk;
LEMMA InvSetLeaf ==
  ASSUME Inv, SetLeaf PROVE Inv'
<1>1. TypeInv /\ TypeInv'
  BY TypeSetLeaf DEF Inv
<1>2. /\ phase = "tree" /\ phase' = "symbols" /\ UNCHANGED <<code, built, set>>
      /\ table' = TableSet(pointer, char)
  BY DEF SetLeaf
<1>3. Complete(Lens) => /\ \E pos : Building(pos)'
                        /\ \A i \in 0..(Nodes - 1) : i \in Own(set) \/ Same(i)
  <2> SUFFICES ASSUME Complete(Lens)
               PROVE  /\ \E pos : Building(pos)'
                      /\ \A i \in 0..(Nodes - 1) : i \in Own(set) \/ Same(i)
    OBVIOUS
  <2>1. PICK pos : Building(pos)
    BY <1>2 DEF Inv
  <2> QED BY <1>1, <2>1, BuildingLeaf, OwnLeaf
<1>4. ASSUME NEW r \in Sets, Table(r) # Table(set) PROVE table'[Table(r)] = table[Table(r)]
  <2>1. PICK v : v = char
    OBVIOUS
  <2> QED BY <1>1, <1>2, <1>4, <2>1, OtherTables
<1> QED BY <1>1, <1>2, <1>3, <1>4, LoopKeeps

\* and the end of a build, when the set can be looked up.
LEMMA InvTableBuilt ==
  ASSUME Inv, TableBuilt PROVE Inv'
<1>1. TypeInv /\ TypeInv' /\ \A s \in built : BuiltOk(s)
  BY TypeTableBuilt DEF Inv
<1>2. /\ phase = "symbols" /\ phase' = "ready" /\ char = NumSymbols[set] /\ built' = built \cup {set}
      /\ UNCHANGED <<table, left, right, code, set>>
  BY DEF TableBuilt
<1>3. set \in Sets /\ built \subseteq Sets
  BY <1>1 DEF TypeInv, TypeOK
<1>4. BuiltOk(set)
  <2>1. code[set].only = None /\ (Complete(Lens) => \E pos : Building(pos))
    BY <1>2 DEF Inv
  <2>2. code[set].only \notin Symbols(set)
    <3>1. Symbols(set) \subseteq 0..(Nodes - 1) /\ Nodes \in Nat
      BY <1>3, Sizes
    <3> QED BY <2>1, <3>1 DEF None
  <2>3. Complete(Lens) => \E pos, m : TreeOf(set, Lens, pos, m, NumSymbols[set])
    BY <1>2, <2>1 DEF Building
  <2> QED BY <2>2, <2>3 DEF BuiltOk, Lens
<1>5. ASSUME NEW s \in built' PROVE BuiltOk(s)'
  <2>1. s \in Sets /\ BuiltOk(s)
    BY <1>1, <1>2, <1>3, <1>4
  <2> QED BY <1>1, <1>2, <2>1, BuiltFrame
<1> QED BY <1>1, <1>2, <1>5 DEF Inv

\* The sets that keep their tables when s is read.
LEMMA ReadKeeps ==
  ASSUME TypeInv, \A r \in built : BuiltOk(r), NEW s \in Sets, NEW t, NEW d,
         table' = [table EXCEPT ![Table(s)] = t] \/ table' = table,
         code' = [code EXCEPT ![s] = d], UNCHANGED <<left, right>>
  PROVE  \A r \in built \ Sharing(s) : BuiltOk(r)'
<1> SUFFICES ASSUME NEW r \in built \ Sharing(s) PROVE BuiltOk(r)'
  OBVIOUS
<1>1. r \in Sets /\ BuiltOk(r)
  BY DEF TypeInv, TypeOK
<1>2. Table(r) # Table(s) /\ r # s
  BY <1>1 DEF Sharing
<1>3. Table(r) \in DOMAIN table /\ DOMAIN code = Sets
  BY <1>1, TableType DEF TypeInv
<1>4. table'[Table(r)] = table[Table(r)] /\ code'[r] = code[r]
  BY <1>1, <1>2, <1>3
<1> QED BY <1>1, <1>4, BuiltFrame

\* Reading a set of one symbol keeps the invariant;
LEMMA InvOnlySymbol ==
  ASSUME Inv, NEW s \in Sets, NEW c \in OnlySymbols[BlockOf(s)][s], OnlySymbol(s, c)
  PROVE  Inv'
<1>1. TypeInv /\ TypeInv' /\ \A r \in built : BuiltOk(r)
  BY TypeOnlySymbol DEF Inv
<1>2. set' = s /\ BlockOf(s) \in DOMAIN Codes /\ phase = "ready"
  BY <1>1, ReadsType DEF OnlySymbol
<1>3. /\ table' = [table EXCEPT ![Table(s)] = [i \in DOMAIN table[Table(s)] |-> c]]
      /\ code' = [code EXCEPT ![s] = [lens |-> [d \in Symbols(s) |-> 0], only |-> c]]
      /\ built' = (built \ Sharing(s)) \cup {s}
      /\ UNCHANGED <<left, right, phase>>
  <2>1. Table(s) \in DOMAIN table
    BY <1>1, TableType
  <2> QED BY <2>1 DEF OnlySymbol
<1>4. \A r \in built \ Sharing(s) : BuiltOk(r)'
  <2>1. PICK t, d : /\ t = [i \in DOMAIN table[Table(s)] |-> c]
                    /\ d = [lens |-> [e \in Symbols(s) |-> 0], only |-> c]
    OBVIOUS
  <2> QED BY <1>1, <1>3, <2>1, ReadKeeps
<1>5. BuiltOk(s)'
  <2>1. code'[s].only = c
    BY <1>1, <1>3 DEF TypeInv
  <2>2. \A i \in Entries(s) : table'[Table(s)][i] = c
    <3>1. Table(s) \in DOMAIN table /\ DOMAIN table[Table(s)] = Entries(s)
      BY <1>1, TableType
    <3> QED BY <1>3, <3>1
  <2>3. c # None
    <3>1. Nodes \in Nat /\ c \in 0..(Nodes - 1)
      BY <1>2, Sizes, HuffmanAssumption
    <3> QED BY <3>1 DEF None
  <2> QED BY <2>1, <2>2, <2>3 DEF BuiltOk
<1>6. phase' = "ready"
  BY <1>2, <1>3
<1> QED BY <1>1, <1>3, <1>4, <1>5, <1>6 DEF Inv

\* so does the start of a build;
LEMMA InvBuildTable ==
  ASSUME Inv, NEW s \in Sets, NEW lens \in Codes[BlockOf(s)][s], BuildTable(s, lens)
  PROVE  Inv'
<1>1. TypeInv /\ TypeInv' /\ \A r \in built : BuiltOk(r)
  BY TypeBuildTable DEF Inv
<1>2. set' = s /\ phase = "ready"
  BY <1>1, ReadsType DEF BuildTable
<1>3. /\ code' = [code EXCEPT ![s] = [lens |-> lens, only |-> None]]
      /\ built' = IF Complete(lens) THEN built \ Sharing(s) ELSE {}
      /\ UNCHANGED <<left, right>> /\ phase' \in {"error", "symbols"}
  BY DEF BuildTable
<1>4. Lens' = lens /\ code'[set'].only = None
  BY <1>1, <1>2, <1>3 DEF Lens, TypeInv
<1>5. built' \cap Sharing(s) = {} /\ (~Complete(lens) => built' = {})
  BY <1>3
<1>6. Complete(lens) => phase' = "symbols" /\ \E pos : Building(pos)'
  BY <1>1, BuildingStart
<1>7. ASSUME NEW r \in built' PROVE BuiltOk(r)'
  <2>1. r \in built \ Sharing(s)
    BY <1>3
  <2>2. PICK t, d :
          /\ t = ZeroUnused(table[Table(s)], start'[TableBits[s] + 1] \div Pow2[Extended(s)])
          /\ d = [lens |-> lens, only |-> None]
    OBVIOUS
  <2>3. table' = [table EXCEPT ![Table(s)] = t] \/ table' = table
    <3>1. Table(s) \in DOMAIN table
      BY <1>1, TableType
    <3> QED BY <2>2, <3>1 DEF BuildTable
  <2> QED BY <1>1, <1>3, <2>1, <2>2, <2>3, ReadKeeps
<1>8. (built \cap Sharing(set) = {})' /\ (Complete(Lens) => \E pos : Building(pos))'
  BY <1>2, <1>4, <1>5, <1>6 DEF Sharing
<1> QED BY <1>1, <1>3, <1>4, <1>5, <1>6, <1>7, <1>8 DEF Inv

\* and a step of nobody.
LEMMA InvStutter ==
  ASSUME Inv, UNCHANGED vars PROVE Inv'
<1>1. TypeInv /\ TypeInv'
  BY TypeStutter DEF Inv
<1>2. ASSUME NEW s \in built PROVE BuiltOk(s)'
  <2>1. s \in Sets /\ BuiltOk(s)
    BY <1>1 DEF Inv, TypeInv, TypeOK
  <2>2. UNCHANGED <<code, table, left, right>>
    BY DEF vars
  <2> QED BY <1>1, <2>1, <2>2, BuiltFrame
<1>3. Lens' = Lens
  BY DEF vars, Lens
<1>4. ASSUME NEW pos, Building(pos) PROVE Building(pos)'
  BY <1>3, <1>4 DEF Building, vars, StartsOk, PathOk, Depth, TreeOf, CellsOk, ShortOk, Content, Root
<1>5. (\E pos : Building(pos)) => \E pos : Building(pos)'
  BY <1>4
<1> QED BY <1>1, <1>2, <1>3, <1>5 DEF Inv, vars

\* Every step keeps the invariant.
LEMMA InvNext == Inv /\ [Next]_vars => Inv'
BY InvOnlySymbol, InvBuildTable, InvSymbolUnused, InvSymbolShort, InvSymbolLong, InvDescend,
   InvSetLeaf, InvTableBuilt, InvStutter DEF Next

\* The invariant of tables and trees.
LEMMA Invariant == Spec => []Inv
<1>1. Init => Inv
  BY TypeInit DEF Init, Inv
<1> QED BY <1>1, InvNext, PTL DEF Spec

-----------------------------------------------------------------------------
(* Theorems                                                                *)

\* A table filled with one symbol.
LEMMA LookupOnly ==
  ASSUME TypeInv, NEW s \in Sets, NEW c \in Symbols(s),
         \A i \in Entries(s) : table[Table(s)][i] = c, NEW x \in 0..(Pow2[CodeBits] - 1)
  PROVE  Lookup(s, x) = c
<1> DEFINE e == Extended(s)
           N == NumSymbols[s]
           P(f) == f = [k \in 0..e |->
                          IF k = 0 THEN Root(s, x)
                          ELSE IF f[k - 1] < N THEN f[k - 1]
                          ELSE Child(f[k - 1], (x \div Pow2[e - k]) % 2)]
           g == [k \in 0..e |-> c]
           walk == CHOOSE f : P(f)
<1>1. /\ N \in Nat \ {0} /\ e \in Nat \ {0} /\ Symbols(s) = 0..(N - 1)
      /\ Pow2[CodeBits] = Pow2[e] * Pow2[TableBits[s]] /\ Entries(s) = 0..(Pow2[TableBits[s]] - 1)
      /\ Pow2[e] \in Nat \ {0} /\ Pow2[TableBits[s]] \in Nat /\ Pow2[CodeBits] \in Nat
  BY Sizes
<1>2. c < N
  BY <1>1
<1>3. Root(s, x) = c
  <2>1. x \in Nat /\ x < Pow2[e] * Pow2[TableBits[s]]
    BY <1>1
  <2>2. x \div Pow2[e] \in Nat /\ x \div Pow2[e] < Pow2[TableBits[s]]
    BY <1>1, <2>1, DivBound, DivLess
  <2>3. x \div Pow2[e] \in Entries(s)
    BY <1>1, <2>2
  <2> QED BY <2>3 DEF Root
<1>4. Lookup(s, x) = walk[e]
  BY DEF Lookup
<1>5. \A k \in 0..e : k # 0 => k - 1 \in 0..e
  BY <1>1
<1>6. P(g)
  BY <1>2, <1>3, <1>5
<1>7. P(walk)
  BY <1>6
<1> HIDE DEF walk
<1>8. walk[0] = c
  BY <1>1, <1>3, <1>7
<1>9. \A k \in 0..e : k # 0 =>
        walk[k] = IF walk[k - 1] < N THEN walk[k - 1]
                  ELSE Child(walk[k - 1], (x \div Pow2[e - k]) % 2)
  BY <1>1, <1>7
<1>10. \A k \in 0..e : walk[k] = c
  <2> DEFINE T == {k \in Nat : k <= e /\ walk[k] # c}
  <2>0. \A k \in 0..e : k \in Nat /\ k <= e
    BY <1>1
  <2> SUFFICES ASSUME T # {} PROVE FALSE
    BY <2>0
  <2>1. PICK k \in T : \A j \in T : k <= j
    <3>1. T \subseteq Nat
      OBVIOUS
    <3> HIDE DEF T
    <3> QED BY <3>1, NatLeast
  <2>2. k \in Nat /\ k <= e /\ walk[k] # c
    OBVIOUS
  <2>3. k # 0
    BY <1>8, <2>2
  <2>4. k - 1 \in Nat /\ ~(k <= k - 1) /\ k - 1 <= e /\ k \in 0..e
    BY <1>1, <2>2, <2>3
  <2>5. walk[k - 1] = c
    BY <2>1, <2>4
  <2> QED BY <1>2, <1>9, <2>2, <2>3, <2>4, <2>5
<1>11. e \in 0..e
  BY <1>1
<1> QED BY <1>4, <1>10, <1>11

\* TypeOK for all widths and alphabets: build_huffman_table and the lookups index c_table,
\* pt_table, left, right and start within their bounds, malformed codes included.
THEOREM Types == Spec => []TypeOK
<1>1. TypeInv => TypeOK
  BY DEF TypeInv
<1> QED BY <1>1, TypeInvariant, PTL

\* build_huffman_table never refuses a complete code; whatever the tables and trees held
\* before, and whatever other sets are read since, the lookups of a set decode every bit
\* string to the symbol of the canonical code, or to the only symbol.
THEOREM CanonicalDecoding == Spec => []DecodesCanonically
<1>1. Inv => DecodesCanonically
  <2> SUFFICES ASSUME Inv PROVE DecodesCanonically
    OBVIOUS
  <2>1. phase = "error" => ~Complete(code[set].lens)
    BY DEF Inv, Lens
  <2>2. TypeInv /\ \A s \in built : s \in Sets /\ BuiltOk(s)
    BY DEF Inv, TypeInv, TypeOK
  <2>3. ASSUME NEW s \in built, NEW x \in 0..(Pow2[CodeBits] - 1), code[s].only \in Symbols(s)
        PROVE  Lookup(s, x) = code[s].only
    <3>1. PICK c \in Symbols(s) : c = code[s].only
      BY <2>3
    <3>2. s \in Sets /\ \A i \in Entries(s) : table[Table(s)][i] = c
      BY <2>2, <2>3, <3>1 DEF BuiltOk
    <3> QED BY <2>2, <3>1, <3>2, LookupOnly
  <2>4. ASSUME NEW s \in built, NEW x \in 0..(Pow2[CodeBits] - 1), code[s].only = None,
               Complete(code[s].lens)
        PROVE  Lookup(s, x) = Canonical(code[s].lens, x)
    <3>1. PICK L : L = code[s].lens
      OBVIOUS
    <3>2. s \in Sets /\ \E pos, m : TreeOf(s, L, pos, m, NumSymbols[s])
      BY <2>2, <2>4, <3>1 DEF BuiltOk
    <3>3. CodeOf(s, L) /\ IsCode(L, NumSymbols[s]) /\ x \in Nat
      <4>1. L \in [0..(NumSymbols[s] - 1) -> Nat] /\ NumSymbols[s] \in Nat /\ Pow2[CodeBits] \in Nat
        BY <2>2, <3>1, <3>2, Sizes DEF TypeInv, Symbols
      <4>2. x \in Nat
        BY <4>1
      <4>3. IsCode(L, NumSymbols[s])
        BY <2>4, <3>1, <4>1, CompleteIsCode
      <4> QED BY <3>2, <4>2, <4>3 DEF CodeOf
    <3>4. PICK c \in Used(L) : Covers(L, c, x)
      BY <3>3, CoversSome
    <3>5. Lookup(s, x) = c
      BY <3>2, <3>3, <3>4, LookupIs
    <3>6. Canonical(L, x) = c
      BY <3>3, <3>4, CanonicalIs
    <3> QED BY <3>1, <3>5, <3>6
  <2> QED BY <2>1, <2>3, <2>4 DEF DecodesCanonically
<1> QED BY <1>1, Invariant, PTL

\* Building a complete code writes to left and right only at the nodes of its set, which
\* for T and P are below those of C.
THEOREM TreesDisjoint == Spec => OwnNodesOnly
<1> DEFINE A == Complete(code'[set'].lens) =>
                  \A i \in 0..(Nodes - 1) :
                    left'[i] # left[i] \/ right'[i] # right[i] =>
                      i >= NumSymbols[set'] /\ (set' # "C" => i < NumSymbols["C"])
<1>1. Inv /\ [Next]_vars => [A]_vars
  <2> SUFFICES ASSUME Inv, Next PROVE A
    OBVIOUS
  <2>1. UNCHANGED <<left, right>> => A
    OBVIOUS
  <2>2. ASSUME phase = "tree", UNCHANGED <<code, set>>,
               \A pos : Complete(Lens) /\ Building(pos) =>
                 \A i \in 0..(Nodes - 1) : i \in Own(set) \/ Same(i)
        PROVE  A
    <3> SUFFICES ASSUME Complete(code'[set'].lens), NEW i \in 0..(Nodes - 1),
                        left'[i] # left[i] \/ right'[i] # right[i]
                 PROVE  i >= NumSymbols[set'] /\ (set' # "C" => i < NumSymbols["C"])
      OBVIOUS
    <3>1. Complete(Lens) /\ \E pos : Building(pos)
      BY <2>2 DEF Inv, Lens
    <3>2. i \in Own(set)
      BY <2>2, <3>1 DEF Same
    <3> QED BY <2>2, <3>2 DEF Own
  <2> HIDE DEF A
  <2>3. ASSUME NEW s \in Sets, NEW c, OnlySymbol(s, c) PROVE A
    BY <2>1, <2>3 DEF OnlySymbol
  <2>4. ASSUME NEW s \in Sets, NEW lens, BuildTable(s, lens) PROVE A
    BY <2>1, <2>4 DEF BuildTable
  <2>5. CASE SymbolUnused
    BY <2>1, <2>5 DEF SymbolUnused
  <2>6. CASE SymbolShort
    BY <2>1, <2>6 DEF SymbolShort
  <2>7. CASE SymbolLong
    BY <2>1, <2>7 DEF SymbolLong
  <2>8. CASE Descend
    <3>1. phase = "tree" /\ UNCHANGED <<code, set>> /\ TypeInv
      BY <2>8 DEF Descend, Inv
    <3> QED BY <2>2, <2>8, <3>1, OwnDescend
  <2>9. CASE SetLeaf
    <3>1. phase = "tree" /\ UNCHANGED <<code, set>> /\ TypeInv
      BY <2>9 DEF SetLeaf, Inv
    <3> QED BY <2>2, <2>9, <3>1, OwnLeaf
  <2>10. CASE TableBuilt
    BY <2>1, <2>10 DEF TableBuilt
  <2> QED BY <2>3, <2>4, <2>5, <2>6, <2>7, <2>8, <2>9, <2>10 DEF Next
<1> QED BY <1>1, Invariant, PTL DEF Spec, OwnNodesOnly

=============================================================================
