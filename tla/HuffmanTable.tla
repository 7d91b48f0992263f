---------------------------- MODULE HuffmanTable ----------------------------
(***************************************************************************)
(* build_huffman_table of uefi_decompress, and the lookups that use what it *)
(* builds.  Each block of a compressed stream brings three codes, in order: *)
(* the Extra Set T (to read the next), the Char&Len Set C and the Position  *)
(* Set P.  T and P share pt_table, and all three share the left and right   *)
(* arrays of the secondary trees.                                           *)
(*                                                                          *)
(* The widths of the code are constants, so that every code of a small      *)
(* alphabet can be tried: 16 bits, tables of 12 and 8 bits, alphabets of    *)
(* 510, 19 and 31 symbols in the source.                                    *)
(***************************************************************************)
EXTENDS CanonicalCode, Sequences

CONSTANTS
  NumSymbols,  \* size of each symbol set (NC, NT, MAXNP)
  TableBits,   \* width of each set's lookup table (CTABLE_BITSIZE, PTABLE_BITSIZE)
  Codes,       \* bound: for each block, the length arrays to try for each set
  OnlySymbols  \* for each block, the symbols to try as the only symbol of a set

Sets == {"T", "C", "P"}

Nodes == 2 * NumSymbols["C"] - 1    \* 2 * NC - 1
Symbols(s) == 0..(NumSymbols[s] - 1)

\* What the source's constants give: C's table holds every symbol, and so does the
\* table T and P share; the nodes of T's and P's trees stay below C's; the field of an
\* only symbol, which need not be one of the set's, holds no more than an index of a node.
ASSUME HuffmanAssumption ==
  /\ \A s \in Sets : /\ NumSymbols[s] \in Nat \ {0} /\ TableBits[s] \in Nat
                     /\ TableBits[s] < CodeBits /\ NumSymbols[s] <= Pow2[TableBits[s]]
  /\ TableBits["T"] = TableBits["P"]
  /\ \A s \in {"T", "P"} : 2 * NumSymbols[s] - 2 <= NumSymbols["C"]
  /\ Len(Codes) \in Nat /\ DOMAIN Codes = 1..Len(Codes)
  /\ \A b \in DOMAIN Codes, s \in Sets :
       /\ OnlySymbols[b][s] \subseteq 0..(Nodes - 1)
       /\ \A lens \in Codes[b][s] :
            DOMAIN lens = Symbols(s) /\ lens = [c \in Symbols(s) |-> lens[c]]
              /\ \A c \in Symbols(s) : lens[c] \in Nat

Entries(s) == 0..(Pow2[TableBits[s]] - 1)
Table(s) == IF s = "C" THEN "c_table" ELSE "pt_table"
Extended(s) == CodeBits - TableBits[s]
None == Nodes                       \* no only symbol

VARIABLES
  table,       \* c_table and pt_table
  left, right, \* the secondary trees
  code,        \* c_len or pt_len of each set, with the only symbol of a one-symbol set
  built,       \* sets whose code can be looked up at this point
  set,         \* the set being built, or built last
  block,       \* the number of the block
  phase,       \* ready, symbols (the loop), tree (its inner loop), error
  start,       \* next code of each length
  char,        \* the loop's symbol
  next_avail_node,
  pointer, symbol_bitstring, idx

vars == <<table, left, right, code, built, set, block, phase, start, char, next_avail_node,
          pointer, symbol_bitstring, idx>>

Pointers == [kind : {"table", "left", "right"}, at : Nat]

\* The pointer is inside the array it points into whenever the inner loop follows it.
TypeOK ==
  /\ table["c_table"] \in [Entries("C") -> 0..(Nodes - 1)]
  /\ table["pt_table"] \in [Entries("P") -> 0..(Nodes - 1)]
  /\ left \in [0..(Nodes - 1) -> 0..(Nodes - 1)] /\ right \in [0..(Nodes - 1) -> 0..(Nodes - 1)]
  /\ \A s \in Sets : DOMAIN code[s].lens = Symbols(s) /\ code[s].only \in 0..None
  /\ built \subseteq Sets /\ set \in Sets /\ block \in 0..Len(Codes)
  /\ phase \in {"ready", "symbols", "tree", "error"}
  /\ start \in [1..(CodeBits + 1) -> 0..(Pow2[CodeBits] - 1)]
  /\ char \in Nat /\ next_avail_node \in 0..Nodes
  /\ pointer \in Pointers /\ symbol_bitstring \in 0..(Pow2[CodeBits] - 1) /\ idx \in 0..CodeBits
  /\ phase = "tree" =>
       pointer.at \in IF pointer.kind = "table" THEN Entries(set) ELSE 0..(Nodes - 1)

\* CodeIterator::new.
Init ==
  /\ table = [t \in {"c_table", "pt_table"} |->
                [i \in Entries(IF t = "c_table" THEN "C" ELSE "P") |-> 0]]
  /\ left = [i \in 0..(Nodes - 1) |-> 0]
  /\ right = left
  /\ code = [s \in Sets |-> [lens |-> [c \in Symbols(s) |-> 0], only |-> None]]
  /\ built = {}
  /\ set = "P" /\ block = 0
  /\ phase = "ready"
  /\ start = [l \in 1..(CodeBits + 1) |-> 0]
  /\ char = 0 /\ next_avail_node = 0
  /\ pointer = [kind |-> "table", at |-> 0] /\ symbol_bitstring = 0 /\ idx = 0

-----------------------------------------------------------------------------
(* build_huffman_table                                                     *)

\* Mutant: the words of start are not 16 bits wide.
WordUnbounded(n) == n

Word(n) == n % Pow2[CodeBits]

\* start[] after its first loop: wrapping sums of count[l] << (CodeBits - l).
Starts(lens) == [l \in 1..(CodeBits + 1) |-> Word(Space(lens, Shorter(lens, l)))]

\* start[] after the second: codes that fit the table become table indexes.
Scaled(s, starts) ==
  [l \in 1..(CodeBits + 1) |->
     IF l <= TableBits[s] THEN starts[l] \div Pow2[Extended(s)] ELSE starts[l]]

Weight(s, l) == IF l <= TableBits[s] THEN Pow2[TableBits[s] - l] ELSE Pow2[CodeBits - l]

\* Entries that codes longer than the table is wide go through are zeroed.
ZeroUnused(t, first) == [i \in DOMAIN t |-> IF first # 0 /\ i >= first THEN 0 ELSE t[i]]

\* Mutant: the trees of all sets start at the same node.
SameFirstNode(s) == NumSymbols["C"]

\* The initial next_avail_node.
FirstNode(s) == NumSymbols[s]

Follows == [T |-> "C", C |-> "P", P |-> "T"]

\* The block that s is read in: T is the first set of a new one.
BlockOf(s) == IF s = "T" THEN block + 1 ELSE block

\* The next set of the block, or the first one of the next block.
Due(s) == phase = "ready" /\ s = Follows[set] /\ BlockOf(s) \in DOMAIN Codes

Reads(s) ==
  /\ Due(s)
  /\ set' = s
  /\ block' = BlockOf(s)

Sharing(s) == {r \in Sets : Table(r) = Table(s)}

\* read_pt_len and read_c_len when the array size is 0: one symbol of length 0.
OnlySymbol(s, c) ==
  /\ Reads(s)
  /\ table' = [table EXCEPT ![Table(s)] = [i \in DOMAIN @ |-> c]]
  /\ code' = [code EXCEPT ![s] = [lens |-> [d \in Symbols(s) |-> 0], only |-> c]]
  /\ built' = (built \ Sharing(s)) \cup {s}
  /\ UNCHANGED <<left, right, phase, start, char, next_avail_node, pointer,
                 symbol_bitstring, idx>>

\* read_pt_len and read_c_len otherwise, and build_huffman_table up to its loop.  A code
\* that is not complete and not refused either may take nodes of the other sets' trees:
\* nothing can be said of their lookups then.
BuildTable(s, lens) ==
  /\ Reads(s)
  /\ code' = [code EXCEPT ![s] = [lens |-> lens, only |-> None]]
  /\ built' = IF Complete(lens) THEN built \ Sharing(s) ELSE {}
  /\ start' = Scaled(s, Starts(lens))
  /\ IF start'[CodeBits + 1] # 0 \/ \E c \in Symbols(s) : lens[c] > CodeBits
     THEN phase' = "error" /\ UNCHANGED <<table, char, next_avail_node>>
     ELSE /\ phase' = "symbols"
          /\ table' = [table EXCEPT ![Table(s)] =
                         ZeroUnused(@, start'[TableBits[s] + 1] \div Pow2[Extended(s)])]
          /\ char' = 0
          /\ next_avail_node' = FirstNode(s)
  /\ UNCHANGED <<left, right, pointer, symbol_bitstring, idx>>

SymBitLen == code[set].lens[char]
NextCode == Word(start[SymBitLen] + Weight(set, SymBitLen))

\* One round of the loop over the symbols.
SymbolUnused ==
  /\ phase = "symbols" /\ char \in Symbols(set)
  /\ SymBitLen = 0
  /\ char' = char + 1
  /\ UNCHANGED <<table, left, right, code, built, set, block, phase, start, next_avail_node,
                 pointer, symbol_bitstring, idx>>

\* A code that fits the table: every entry it is a prefix of.
SymbolShort ==
  /\ phase = "symbols" /\ char \in Symbols(set)
  /\ SymBitLen \in 1..TableBits[set]
  /\ IF start[SymBitLen] >= NextCode \/ NextCode > Pow2[TableBits[set]]
     THEN phase' = "error" /\ UNCHANGED <<table, start, char>>
     ELSE /\ table' = [table EXCEPT ![Table(set)] =
                         [i \in DOMAIN @ |-> IF start[SymBitLen] <= i /\ i < NextCode
                                             THEN char ELSE @[i]]]
          /\ start' = [start EXCEPT ![SymBitLen] = NextCode]
          /\ char' = char + 1
          /\ UNCHANGED phase
  /\ UNCHANGED <<left, right, code, built, set, block, next_avail_node, pointer,
                 symbol_bitstring, idx>>

\* A code that goes on in the tree.
SymbolLong ==
  /\ phase = "symbols" /\ char \in Symbols(set)
  /\ SymBitLen > TableBits[set]
  /\ phase' = "tree"
  /\ symbol_bitstring' = start[SymBitLen]
  /\ pointer' = [kind |-> "table", at |-> start[SymBitLen] \div Pow2[Extended(set)]]
  /\ idx' = SymBitLen - TableBits[set]
  /\ UNCHANGED <<table, left, right, code, built, set, block, start, char, next_avail_node>>

\* TablePointer::get and TablePointer::set.
Get(p) == CASE p.kind = "table" -> table[Table(set)][p.at]
            [] p.kind = "left"  -> left[p.at]
            [] p.kind = "right" -> right[p.at]

TableSet(p, v) == IF p.kind = "table" THEN [table EXCEPT ![Table(set)][p.at] = v] ELSE table
LeftSet(p, v) == IF p.kind = "left" THEN [left EXCEPT ![p.at] = v] ELSE left
RightSet(p, v) == IF p.kind = "right" THEN [right EXCEPT ![p.at] = v] ELSE right

\* The bit of symbol_bitstring that follows the table's width (mask).
GoesRight == (symbol_bitstring \div Pow2[Extended(set) - 1]) % 2 = 1

\* One step down the tree, with a new node where there is none yet.
Descend ==
  /\ phase = "tree" /\ idx # 0
  /\ LET new == Get(pointer) = 0 /\ next_avail_node < Nodes
         node == IF new THEN next_avail_node ELSE Get(pointer)
     IN /\ table' = IF new THEN TableSet(pointer, node) ELSE table
        /\ left' = IF new THEN [LeftSet(pointer, node) EXCEPT ![node] = 0] ELSE left
        /\ right' = IF new THEN [RightSet(pointer, node) EXCEPT ![node] = 0] ELSE right
        /\ next_avail_node' = IF new THEN next_avail_node + 1 ELSE next_avail_node
        /\ pointer' = [kind |-> IF GoesRight THEN "right" ELSE "left", at |-> node]
  /\ symbol_bitstring' = Word(2 * symbol_bitstring)
  /\ idx' = idx - 1
  /\ UNCHANGED <<code, built, set, block, phase, start, char>>

\* The end of the code: a leaf.
SetLeaf ==
  /\ phase = "tree" /\ idx = 0
  /\ table' = TableSet(pointer, char)
  /\ left' = LeftSet(pointer, char)
  /\ right' = RightSet(pointer, char)
  /\ start' = [start EXCEPT ![SymBitLen] = NextCode]
  /\ char' = char + 1
  /\ phase' = "symbols"
  /\ UNCHANGED <<code, built, set, block, next_avail_node, pointer, symbol_bitstring, idx>>

TableBuilt ==
  /\ phase = "symbols" /\ char = NumSymbols[set]
  /\ phase' = "ready"
  /\ built' = built \cup {set}
  /\ UNCHANGED <<table, left, right, code, set, block, start, char, next_avail_node, pointer,
                 symbol_bitstring, idx>>

Next ==
  \/ \E s \in Sets :
       /\ Due(s)
       /\ \/ \E c \in OnlySymbols[BlockOf(s)][s] : OnlySymbol(s, c)
          \/ \E lens \in Codes[BlockOf(s)][s] : BuildTable(s, lens)
  \/ SymbolUnused \/ SymbolShort \/ SymbolLong
  \/ Descend \/ SetLeaf
  \/ TableBuilt

Spec == Init /\ [][Next]_vars

-----------------------------------------------------------------------------
(* Lookups: read_c_len (T), next (C) and decode_position (P).              *)

\* The table's entry for the first bits of x.
Root(s, x) == table[Table(s)][x \div Pow2[Extended(s)]]

\* The node below a node of the tree, on the side the next bit tells.
Child(node, bit) == IF bit = 1 THEN right[node] ELSE left[node]

\* The symbol that the next CodeBits bits x decode to: one node of the tree for each bit
\* after those of the table, down to a symbol.
Lookup(s, x) ==
  LET extra == Extended(s)
      walk[k \in 0..extra] ==
        IF k = 0 THEN Root(s, x)
        ELSE IF walk[k - 1] < NumSymbols[s] THEN walk[k - 1]
        ELSE Child(walk[k - 1], (x \div Pow2[extra - k]) % 2)
  IN walk[extra]

\* A complete code is never taken for malformed data, though the sum that checks it
\* wraps to zero.  Whatever the tables and trees held before, a code that has been read
\* decodes every bit string to the symbol of the canonical code, and goes on doing so
\* while the codes of other sets are built into the arrays it shares with them.
DecodesCanonically ==
  /\ phase = "error" => ~Complete(code[set].lens)
  /\ \A s \in built, x \in 0..(Pow2[CodeBits] - 1) :
       /\ code[s].only \in Symbols(s) => Lookup(s, x) = code[s].only
       /\ code[s].only = None /\ Complete(code[s].lens) =>
            Lookup(s, x) = Canonical(code[s].lens, x)

\* "The portions of left & right used by each decode are disjoint", "constructing a
\* table only modifies left & right indices associated with that table".
OwnNodesOnly ==
  [][Complete(code'[set'].lens) =>
       \A i \in 0..(Nodes - 1) :
         left'[i] # left[i] \/ right'[i] # right[i] =>
           i >= NumSymbols[set'] /\ (set' # "C" => i < NumSymbols["C"])]_vars

=============================================================================
