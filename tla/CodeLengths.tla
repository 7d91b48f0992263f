---------------------------- MODULE CodeLengths -----------------------------
(***************************************************************************)
(* How CodeIterator of uefi_decompress reads the head of a block and its    *)
(* first symbol: read_pt_len for the Extra Set T, read_c_len for the        *)
(* Char&Len Set C, read_pt_len for the Position Set P, then a C symbol and, *)
(* for a string, decode_position.  One action is one field of the source.   *)
(*                                                                          *)
(* The encoder at the end is the reference: it follows what the comments of *)
(* the source say of the encoding, but not the example worked out before    *)
(* read_pt_len, which contradicts both them and the code.                   *)
(* Widths and sizes are constants, so that every code of a small alphabet   *)
(* can be encoded; the source's values are beside them.  What a table built *)
(* from a complete code returns is what module HuffmanTable shows; what one *)
(* built from another code returns is left open here.                       *)
(***************************************************************************)
EXTENDS CanonicalCode, Sequences

CONSTANTS
  NumSymbols,  \* of each set: NT = 19, NC = 510, MAXNP = 31
  CountBits,   \* width of each set's array size: TBIT = 5, CBIT = 9, p_bit = 4 or 5
  TableBits,   \* bits peeked for a symbol: PTABLE_BITSIZE = 8, CTABLE_BITSIZE = 12
  LenBits,     \* 3: a length in one field, if it is less than 7
  ExtraAt,     \* 3: lengths of T before the extra field
  ExtraBits,   \* 2
  RunBits,     \* 4: width of a short run of zeros
  ShortRun,    \* 3
  LongRun,     \* 20
  Literals,    \* 256
  U8Values,    \* 256
  Inputs,      \* bound: the sources to read (see Input)
  Stale        \* bound: pt_len and c_len as the block before left them

Sets == {"T", "C", "P"}
Symbols(s) == 0..(NumSymbols[s] - 1)
NPT == Max({NumSymbols["T"], NumSymbols["P"]})
NC == NumSymbols["C"]
None == Pow2[CountBits["C"]]
Escape == Pow2[LenBits] - 1

\* What the source's constants give: array sizes of no more than the widest field holds,
\* runs that follow each other but for one length, which is split, and lengths that a u8
\* holds.  The extra field cannot leave pt_len.
ASSUME CodeLengthsAssumption ==
  /\ \A s \in Sets : /\ NumSymbols[s] \in Nat \ {0} /\ NumSymbols[s] < None
                     /\ CountBits[s] \in Nat /\ CountBits[s] <= CountBits["C"]
                     /\ TableBits[s] \in Nat /\ TableBits[s] <= TableBits["C"]
  /\ LenBits \in Nat /\ ExtraAt \in Nat /\ ExtraBits \in Nat /\ RunBits \in Nat /\ Literals \in Nat
  /\ ShortRun \in Nat \ {0} /\ LongRun = ShortRun + Pow2[RunBits] + 1
  /\ ExtraAt + Pow2[ExtraBits] - 1 <= NPT
  /\ U8Values \in Nat /\ CodeBits < U8Values /\ Pow2[LenBits] <= U8Values
  /\ NumSymbols["T"] <= U8Values
  /\ \A old \in Stale : /\ old.pt \in [0..(NPT - 1) -> 0..(U8Values - 1)]
                        /\ old.c \in [Symbols("C") -> 0..(U8Values - 1)]

VARIABLES
  input,         \* fixed: the source, and what it encodes
  src_index,
  set,           \* the set being read
  phase,         \* the field to read next, or the outcome
  count, idx,    \* array size, and position in the array
  code_len,      \* the length being read
  pt_len, c_len,
  only,          \* of each set: its symbol, if it has only one, or None
  symbol, val    \* the C symbol, and the position

vars == <<input, src_index, set, phase, count, idx, code_len, pt_len, c_len, only, symbol, val>>

src == input.src
Fields == {"count", "only", "length", "ones", "extra", "code", "short", "long", "build",
           "symbol", "position", "value"}
Outcomes == {"done", "error", "panic"}

\* Every index into pt_len and c_len is in bounds: a loop that writes them stops at
\* their ends, whatever the source holds.
TypeOK ==
  /\ src_index \in 0..Len(src) /\ set \in Sets /\ phase \in Fields \cup Outcomes
  /\ count \in 0..(None - 1) /\ idx \in 0..(IF set = "C" THEN NC ELSE NPT)
  /\ code_len \in 0..(U8Values - 1)
  /\ pt_len \in [0..(NPT - 1) -> 0..(U8Values - 1)] /\ c_len \in [Symbols("C") -> 0..(U8Values - 1)]
  /\ only \in [Sets -> 0..None]
  /\ symbol \in Symbols("C") /\ val \in Nat

Init ==
  /\ input \in Inputs
  /\ src_index = 0 /\ set = "T" /\ phase = "count"
  /\ count = 0 /\ idx = 0 /\ code_len = 0
  /\ \E old \in Stale : pt_len = old.pt /\ c_len = old.c
  /\ only = [s \in Sets |-> None]
  /\ symbol = 0 /\ val = 0

-----------------------------------------------------------------------------
(* pop_bits, peek_bits and the lookup of a symbol.                         *)

\* load_be of the next n bits, taking bits beyond the source for zeros.
Value(n) ==
  SumFunctionOnSet([k \in 1..n |-> Pow2[n - k]],
                   {k \in 1..n : src_index + k <= Len(src) /\ src[src_index + k] = 1})

\* Mutant: bits beyond the source read as zeros.
HasAlways(n) == TRUE

\* src.get(src_index..src_index + n) is Some.
Has(n) == src_index + n <= Len(src)

Pop(n) == Has(n) /\ src_index' = Min({src_index + n, Len(src)})

\* The lengths of a set, as far as they are its own.
Lens(s) == IF s = "C" THEN c_len ELSE [c \in Symbols(s) |-> pt_len[c]]

\* What the set's table leads to: the only symbol, the symbol of a complete code, or,
\* where there is no such, whatever the tables and trees held before.
Determined(s) == only[s] \in Symbols(s) \/ (only[s] = None /\ Complete(Lens(s)))
Looked(s) ==
  IF ~Determined(s) THEN Symbols(s)
  ELSE {IF only[s] = None THEN Canonical(Lens(s), Value(CodeBits)) ELSE only[s]}

\* The set whose symbol a field is.
CodedBy == [code |-> "T", symbol |-> "C", position |-> "P"]

\* Width of the field to read, as far as it is known.
Need ==
  CASE phase \in {"count", "only"} -> CountBits[set]
    [] phase = "length" -> LenBits
    [] phase = "ones"   -> 1
    [] phase = "extra"  -> ExtraBits
    [] phase = "short"  -> RunBits
    [] phase = "long"   -> CountBits["C"]
    [] phase = "value"  -> val - 1
    [] phase \in DOMAIN CodedBy -> TableBits[CodedBy[phase]]
    [] OTHER -> 0

\* The source ends before a field does, or inside the code of a symbol; a walk through
\* trees that are not this code's may run out of bits too.
EndOfSource ==
  /\ phase \in Fields
  /\ \/ ~Has(Need)
     \/ /\ phase \in DOMAIN CodedBy
        /\ \/ ~Determined(CodedBy[phase])
           \/ \E c \in Looked(CodedBy[phase]) : ~Has(Lens(CodedBy[phase])[c])
  /\ phase' = "error"
  /\ UNCHANGED <<input, src_index, set, count, idx, code_len, pt_len, c_len, only, symbol, val>>

\* A field of Need bits, of value Value(Need).
Field(name) == phase = name /\ Pop(Need)

\* A symbol c of set s: peeked at, then popped by its length.
SymbolField(name, c) ==
  /\ phase = name /\ Has(Need)
  /\ c \in Looked(CodedBy[name])
  /\ Pop(Lens(CodedBy[name])[c])

-----------------------------------------------------------------------------
(* read_pt_len and read_c_len                                              *)

\* On to the next set, or to the first symbol of the block.
SetRead ==
  /\ set' = IF set = "T" THEN "C" ELSE "P"
  /\ phase' = IF set = "P" THEN "symbol" ELSE "count"

ReadCount ==
  /\ Field("count")
  /\ count' = Value(Need) /\ idx' = 0
  /\ phase' = IF count' = 0 THEN "only" ELSE IF set = "C" THEN "code" ELSE "length"
  /\ UNCHANGED <<input, set, code_len, pt_len, c_len, only, symbol, val>>

\* A lens array with everything from i on, that is the set's, zero.
ZeroFrom(s, lens, i) == [c \in DOMAIN lens |-> IF c >= i /\ c \in Symbols(s) THEN 0 ELSE lens[c]]

\* An array size of 0: the only symbol follows.
ReadOnly ==
  /\ Field("only")
  /\ only' = [only EXCEPT ![set] = Value(Need)]
  /\ IF set = "C" THEN c_len' = ZeroFrom("C", c_len, 0) /\ UNCHANGED pt_len
                  ELSE pt_len' = ZeroFrom(set, pt_len, 0) /\ UNCHANGED c_len
  /\ idx' = 0
  /\ SetRead
  /\ UNCHANGED <<input, count, code_len, symbol, val>>

\* The while condition of read_pt_len.
PtLoop(i) == IF i < count /\ i < NPT THEN "length" ELSE "build"

\* pt_len[idx] = len, and on to the extra field where it is due.
PtStore(len) ==
  /\ pt_len' = [pt_len EXCEPT ![idx] = len]
  /\ idx' = idx + 1
  /\ phase' = IF set = "T" /\ idx' = ExtraAt THEN "extra" ELSE PtLoop(idx')
  /\ UNCHANGED <<input, set, count, c_len, only, symbol, val>>

\* A length, or the start of a long one.
ReadLength ==
  /\ Field("length")
  /\ code_len' = Value(Need)
  /\ IF code_len' = Escape
     THEN phase' = "ones" /\ UNCHANGED <<input, set, count, idx, pt_len, c_len, only, symbol, val>>
     ELSE PtStore(code_len')

\* One more bit of a long length: a one adds to it, a zero ends it.
ReadOne ==
  /\ Field("ones") /\ Value(1) = 1
  /\ code_len # U8Values - 1
  /\ code_len' = code_len + 1
  /\ UNCHANGED <<input, set, phase, count, idx, pt_len, c_len, only, symbol, val>>

\* code_len is a u8: one more panics in a debug build and wraps in a release build.
ReadOneOverflows ==
  /\ Field("ones") /\ Value(1) = 1
  /\ code_len = U8Values - 1
  /\ \/ phase' = "panic" /\ UNCHANGED code_len
     \/ code_len' = 0 /\ UNCHANGED phase
  /\ UNCHANGED <<input, set, count, idx, pt_len, c_len, only, symbol, val>>

ReadOnesEnd ==
  /\ Field("ones") /\ Value(1) = 0
  /\ PtStore(code_len)
  /\ UNCHANGED code_len

\* The number of zero lengths after the third one of T.
ReadExtra ==
  /\ Field("extra")
  /\ idx' = idx + Value(Need)
  /\ pt_len' = [c \in DOMAIN pt_len |-> IF c \in idx..(idx' - 1) THEN 0 ELSE pt_len[c]]
  /\ phase' = PtLoop(idx')
  /\ UNCHANGED <<input, set, count, code_len, c_len, only, symbol, val>>

\* The while condition of read_c_len.
CLoop(i) == IF i < count THEN "code" ELSE "build"

\* Mutant: a run of zeros is taken as it comes.
FillUnchecked(n, len) ==
  /\ c_len' = [c \in DOMAIN c_len |-> IF c \in idx..(idx + n - 1) THEN len ELSE c_len[c]]
  /\ idx' = idx + n
  /\ phase' = CLoop(idx')

\* The next n lengths of c_len, which are malformed if they leave it.
Fill(n, len) ==
  /\ c_len' = [c \in DOMAIN c_len |-> IF c \in idx..(idx + n - 1) THEN len ELSE c_len[c]]
  /\ idx' = Min({idx + n, NC})
  /\ phase' = IF idx + n > NC THEN "error" ELSE CLoop(idx')

\* A T symbol: a zero length, the head of a run of them, or a length plus 2.
ReadCode ==
  /\ \E c \in Symbols("T") :
       /\ SymbolField("code", c)
       /\ CASE c = 0 -> Fill(1, 0)
            [] c = 1 -> phase' = "short" /\ UNCHANGED <<idx, c_len>>
            [] c = 2 -> phase' = "long" /\ UNCHANGED <<idx, c_len>>
            [] c > 2 -> Fill(1, c - 2)
  /\ UNCHANGED <<input, set, count, code_len, pt_len, only, symbol, val>>

\* Mutant: a long run follows the short ones without a gap.
RunStartNoGap(name) == IF name = "short" THEN ShortRun ELSE LongRun - 1

\* The shortest run of each kind.
RunStart(name) == IF name = "short" THEN ShortRun ELSE LongRun

ReadRun(name) ==
  /\ Field(name)
  /\ Fill(Value(Need) + RunStart(name), 0)
  /\ UNCHANGED <<input, set, count, code_len, pt_len, only, symbol, val>>

\* The end of both functions: zero the rest, and build_huffman_table, which refuses the
\* code unless its lengths fill the code space, counted modulo its size; it may also
\* refuse one that fills it more than once.
Build ==
  /\ phase = "build"
  /\ LET filled == ZeroFrom(set, IF set = "C" THEN c_len ELSE pt_len, idx)
         own == [c \in Symbols(set) |-> filled[c]]
         fits == /\ \A c \in Symbols(set) : own[c] <= CodeBits
                 /\ Space(own, Shorter(own, CodeBits + 1)) % Pow2[CodeBits] = 0
     IN IF idx > NumSymbols[set]
        THEN phase' = "error" /\ UNCHANGED <<set, idx, pt_len, c_len, only>>
        ELSE /\ IF set = "C" THEN c_len' = filled /\ UNCHANGED pt_len
                             ELSE pt_len' = filled /\ UNCHANGED c_len
             /\ only' = [only EXCEPT ![set] = None]
             /\ idx' = 0
             /\ \/ fits /\ SetRead
                \/ ~Complete(own) /\ phase' = "error" /\ UNCHANGED set
  /\ UNCHANGED <<input, src_index, count, code_len, symbol, val>>

-----------------------------------------------------------------------------
(* The rest of CodeIterator::next, and decode_position.                    *)

ReadSymbol ==
  /\ \E c \in Symbols("C") :
       /\ SymbolField("symbol", c)
       /\ symbol' = c
       /\ phase' = IF c < Literals THEN "done" ELSE "position"
  /\ UNCHANGED <<input, set, count, idx, code_len, pt_len, c_len, only, val>>

\* The bit length of the position; 0 and 1 are the position itself.
ReadPosition ==
  /\ \E c \in Symbols("P") :
       /\ SymbolField("position", c)
       /\ val' = c
       /\ phase' = IF c > 1 THEN "value" ELSE "done"
  /\ UNCHANGED <<input, set, count, idx, code_len, pt_len, c_len, only, symbol>>

ReadValue ==
  /\ Field("value")
  /\ val' = Pow2[val - 1] + Value(val - 1)
  /\ phase' = "done"
  /\ UNCHANGED <<input, set, count, idx, code_len, pt_len, c_len, only, symbol>>

Returned == phase \in Outcomes /\ UNCHANGED vars

Next ==
  \/ EndOfSource
  \/ ReadCount \/ ReadOnly \/ ReadLength \/ ReadOne \/ ReadOneOverflows \/ ReadOnesEnd \/ ReadExtra
  \/ ReadCode \/ ReadRun("short") \/ ReadRun("long")
  \/ Build
  \/ ReadSymbol \/ ReadPosition \/ ReadValue
  \/ Returned

Spec == Init /\ [][Next]_vars

-----------------------------------------------------------------------------
(* The encoder.  A plan has for each set its lengths and its only symbol (or *)
(* None), the C symbol, and the position that follows it.                    *)

Bits(v, n) == [k \in 1..n |-> (v \div Pow2[n - k]) % 2]

\* The array size: up to the last length that is not zero.
Size(lens) == Max({0} \cup {c + 1 : c \in {d \in DOMAIN lens : lens[d] # 0}})

\* The number of zero lengths from i on.
ZerosAt(lens, i) ==
  Min({c \in DOMAIN lens : c >= i /\ lens[c] # 0} \cup {Cardinality(DOMAIN lens)}) - i

\* n ones and a zero.
Unary(n) == [k \in 1..(n + 1) |-> IF k <= n THEN 1 ELSE 0]

EncodedLength(l) ==
  IF l < Escape THEN Bits(l, LenBits) ELSE Bits(Escape, LenBits) \o Unary(l - Escape)

\* The pieces from each position on, up to size: that of a position, then those from the
\* position that follows it.
Chain(n, size, piece, follows) ==
  LET from[i \in 0..n] == IF i >= size THEN <<>> ELSE piece[i] \o from[follows[i]] IN from

\* The zero lengths that the extra field tells, and the field: after the third length, as
\* the prose and the comment in the loop say (the example puts it after the second).
Extra(s, lens, i) ==
  IF s = "T" /\ i = ExtraAt THEN Min({ZerosAt(lens, i), Pow2[ExtraBits] - 1}) ELSE 0
ExtraField(s, lens, i) ==
  IF s = "T" /\ i = ExtraAt THEN Bits(Extra(s, lens, i), ExtraBits) ELSE <<>>

\* The lengths of T or P from each position on.
PtFrom(s, lens) ==
  Chain(NumSymbols[s], Size(lens),
        [i \in 0..(Size(lens) - 1) |-> EncodedLength(lens[i]) \o ExtraField(s, lens, i + 1)],
        [i \in 0..(Size(lens) - 1) |-> i + 1 + Extra(s, lens, i + 1)])

\* The code of a symbol of set s.
Code(plan, s, c) ==
  LET lens == plan[s].lens
  IN IF plan[s].only # None THEN <<>>
     ELSE Bits(CanonicalStart(lens, c) \div Pow2[CodeBits - lens[c]], lens[c])

\* The T symbol of the next lengths of C, and what follows it.
Single(run) == run < ShortRun \/ run = LongRun - 1
TSymbol(lens, i) ==
  LET run == ZerosAt(lens, i)
  IN IF lens[i] # 0 THEN lens[i] + 2 ELSE IF Single(run) THEN 0 ELSE IF run < LongRun THEN 1 ELSE 2
RunField(lens, i) ==
  LET run == ZerosAt(lens, i)
  IN CASE TSymbol(lens, i) = 1 -> Bits(run - ShortRun, RunBits)
       [] TSymbol(lens, i) = 2 -> Bits(run - LongRun, CountBits["C"])
       [] OTHER -> <<>>
RunEnd(lens, i) == IF TSymbol(lens, i) \in {1, 2} THEN i + ZerosAt(lens, i) ELSE i + 1

\* The lengths of C from each position on.
CFrom(plan) ==
  LET lens == plan["C"].lens
  IN Chain(NC, Size(lens),
           [i \in 0..(Size(lens) - 1) |-> Code(plan, "T", TSymbol(lens, i)) \o RunField(lens, i)],
           [i \in 0..(Size(lens) - 1) |-> RunEnd(lens, i)])

\* The lengths of a set from each position on.
From(plan, s) == IF s = "C" THEN CFrom(plan) ELSE PtFrom(s, plan[s].lens)

EncodedSet(plan, s) ==
  IF plan[s].only # None THEN Bits(0, CountBits[s]) \o Bits(plan[s].only, CountBits[s])
  ELSE Bits(Size(plan[s].lens), CountBits[s]) \o From(plan, s)[0]

\* The bit length of a position, and the bits after its first one.
Width(p) == Min({n \in Symbols("P") : p < Pow2[n]})
ValueField(p) == IF Width(p) > 1 THEN Bits(p - Pow2[Width(p) - 1], Width(p) - 1) ELSE <<>>

EncodedSymbol(plan) ==
  Code(plan, "C", plan.symbol)
    \o IF plan.symbol < Literals THEN <<>>
       ELSE Code(plan, "P", Width(plan.position)) \o ValueField(plan.position)

Encoded(plan) ==
  EncodedSet(plan, "T") \o (EncodedSet(plan, "C") \o (EncodedSet(plan, "P") \o EncodedSymbol(plan)))

\* A set's code that can be encoded: complete, or of one symbol, with an array size that
\* the field holds.
Encodes(s, p) ==
  /\ p.lens \in [Symbols(s) -> Nat]
  /\ \/ p.only = None /\ Complete(p.lens) /\ Size(p.lens) < Pow2[CountBits[s]]
     \/ /\ p.only \in Symbols(s) /\ p.only < Pow2[CountBits[s]]
        /\ p.lens = [c \in Symbols(s) |-> 0]

\* A plan that can be encoded: so can its sets, and each symbol it uses has a code.
Uses(plan, s, c) ==
  c \in Symbols(s) /\ IF plan[s].only # None THEN plan[s].only = c ELSE plan[s].lens[c] # 0
Encodable(plan) ==
  /\ \A s \in Sets : Encodes(s, plan[s])
  /\ \A i \in 0..(Size(plan["C"].lens) - 1) : Uses(plan, "T", TSymbol(plan["C"].lens, i))
  /\ Uses(plan, "C", plan.symbol)
  /\ plan.position \in Nat
  /\ plan.symbol >= Literals =>
       \E n \in Symbols("P") : plan.position < Pow2[n] /\ Uses(plan, "P", Width(plan.position))

-----------------------------------------------------------------------------
\* An input is a source: "whole" has the encoding of a plan and what follows it, "cut" a
\* proper prefix of the encoding, "damaged" any bits.
ASSUME InputsAssumption ==
  \A i \in Inputs :
    /\ i.src \in Seq({0, 1})
    /\ i.kind \in {"whole", "cut", "damaged"}
    /\ i.kind # "damaged" =>
         LET bits == Encoded(i.plan)
         IN /\ Encodable(i.plan)
            /\ IF i.kind = "whole" THEN Len(i.src) >= Len(bits) ELSE Len(i.src) < Len(bits)
            /\ \A k \in DOMAIN bits \cap DOMAIN i.src : i.src[k] = bits[k]

\* What was encoded is what is read, whatever the arrays held before: the lengths of
\* each set when it is used, then the symbol and its position, with exactly the bits of
\* the encoding popped.  A source is refused only if it ends less than a table's width
\* after the start of a symbol.
ReadsBack ==
  input.kind = "whole" =>
    /\ set = "C" /\ phase = "count" => Lens("T") = input.plan["T"].lens
    /\ phase = "symbol" => \A s \in {"C", "P"} : Lens(s) = input.plan[s].lens
    /\ phase = "done" =>
         /\ symbol = input.plan.symbol
         /\ symbol >= Literals => val = input.plan.position
         /\ src_index = Len(Encoded(input.plan))
    /\ phase = "error" => Len(src) - src_index < TableBits["C"]
    /\ phase # "panic"

\* A source that has lost its end is never read as if it were whole: the read that
\* misses a bit is an error.
TruncatedIsRefused == input.kind = "cut" => phase # "done"

=============================================================================
