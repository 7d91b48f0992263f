-------------------------- MODULE DecompressProofs --------------------------
(***************************************************************************)
(* decompress_into_with_algo, for every size of dst and whatever src holds. *)
(* The invariant says where dst_idx and the copying loop's range may be at   *)
(* each point of the call; without it neither the indexing nor the Ok is     *)
(* covered by what the code checks on the spot.                              *)
(***************************************************************************)
EXTENDS Decompress, WellFoundedInduction, TLAPS

\* Everything before dst_idx was written by this call.
Written == \A i \in 0..(dst_idx - 1) : dst[i] \in Chars

\* dst is not full while the loop runs, and the copying loop reads what was written.
InLoop ==
  /\ pc \in {"start", "next", "symbol"} => dst_len = 0 \/ dst_idx < dst_len
  /\ pc = "copy" => dst_idx < dst_len /\ src < dst_idx /\ src < end
  /\ pc = "Ok" => dst_idx = dst_len
  /\ pc = "index panic" => dst_len = 0

Inv == TypeOK /\ Written /\ InLoop

\* A usize stays one when it wraps.
LEMMA DecrementType ==
  ASSUME remaining_block_size \in 0..(UsizeValues - 1)
  PROVE  Decrement \in 0..(UsizeValues - 1)
BY DecompressAssumption, SMT DEF Decrement

\* decoded grows by symbols.
LEMMA AppendType ==
  ASSUME NEW S, NEW s \in Seq(S), NEW e \in S
  PROVE  Append(s, e) \in Seq(S)
OBVIOUS

\* The call starts in the invariant.
LEMMA InvInit == Init => Inv
BY DecompressAssumption DEF Init, Inv, TypeOK, Written, InLoop

\* Each step of the call keeps it.
LEMMA InvStep == Inv /\ [Next]_vars => Inv'
<1> SUFFICES ASSUME Inv, [Next]_vars PROVE Inv'
    OBVIOUS
<1> USE DecompressAssumption
<1>1. ASSUME NEW src_len \in SrcSizes, NEW compressed_size \in SrcSizes, NEW orig_size \in DstSizes,
             CheckHeader(src_len, compressed_size, orig_size)
      PROVE  Inv'
  BY <1>1 DEF CheckHeader, Inv, TypeOK, Written, InLoop, Results, Errors
<1>2. ASSUME NEW size \in BlockSizes, ReadBlock(size) PROVE Inv'
  BY <1>2 DEF ReadBlock, Inv, TypeOK, Written, InLoop, Results, Errors
<1>3. CASE ReadBlockError
  BY <1>3 DEF ReadBlockError, Inv, TypeOK, Written, InLoop, Results, Errors
<1>4. CASE EmptyBlockPanics
  BY <1>4 DEF EmptyBlockPanics, Inv, TypeOK, Written, InLoop, Results, Errors
<1>5. CASE SymbolError
  BY <1>5, DecrementType DEF SymbolError, Inv, TypeOK, Written, InLoop, Results, Errors
<1>6. ASSUME NEW symbol \in OrigChars, OrigChar(symbol) PROVE Inv'
  <2>1. remaining_block_size' \in 0..(UsizeValues - 1)
    BY <1>6, DecrementType DEF OrigChar, Inv, TypeOK
  <2>2. decoded' \in Seq(OrigChars \cup StrPointers)
    <3>1. symbol \in OrigChars \cup StrPointers /\ decoded \in Seq(OrigChars \cup StrPointers)
      BY DEF Inv, TypeOK
    <3> QED BY <1>6, <3>1, AppendType DEF OrigChar
  <2>3. symbol.char \in Chars
    BY DEF OrigChars
  <2>4. CASE dst_idx < dst_len
    <3>1. /\ dst' = [dst EXCEPT ![dst_idx] = symbol.char]
          /\ dst_idx' = dst_idx + 1 /\ dst_len' = dst_len
          /\ pc' = IF dst_idx' = dst_len THEN "Ok" ELSE "next"
          /\ src' = src /\ end' = end /\ overflow_checks' = overflow_checks
      BY <1>6, <2>4 DEF OrigChar, AfterSymbol
    <3>2. dst_len \in Nat /\ dst_idx \in 0..(dst_len - 1)
          /\ dst \in [0..(dst_len - 1) -> Chars \cup {Old}]
      BY <2>4 DEF Inv, TypeOK
    <3>3. dst' \in [0..(dst_len - 1) -> Chars \cup {Old}]
      BY <2>3, <3>1, <3>2
    <3>4. TypeOK'
      <4>1. dst_idx' \in 0..dst_len' /\ pc' \in {"next", "Ok"}
        BY <3>1, <3>2
      <4> QED BY <2>1, <2>2, <3>1, <3>3, <4>1 DEF Inv, TypeOK, Results
    <3>5. Written'
      BY <2>3, <3>1, <3>2 DEF Inv, Written
    <3>6. InLoop'
      BY <3>1, <3>2 DEF InLoop
    <3> QED BY <3>4, <3>5, <3>6 DEF Inv
  <2>5. CASE ~(dst_idx < dst_len)
    BY <1>6, <2>1, <2>2, <2>5
       DEF OrigChar, AtSymbol, Inv, TypeOK, Written, InLoop, Results, Errors
  <2> QED BY <2>4, <2>5
<1>7. ASSUME NEW symbol \in StrPointers, StrPointerTooFar(symbol) PROVE Inv'
  BY <1>7, DecrementType DEF StrPointerTooFar, Inv, TypeOK, Written, InLoop, Results, Errors
<1>8. ASSUME NEW symbol \in StrPointers, StrPointer(symbol) PROVE Inv'
  <2>1. symbol.offset \in Nat /\ symbol.len \in Nat \ {0}
    BY DEF StrPointers
  <2>2. remaining_block_size' \in 0..(UsizeValues - 1)
    BY <1>8, DecrementType DEF StrPointer, Inv, TypeOK
  <2>3. decoded' \in Seq(OrigChars \cup StrPointers)
    <3>1. symbol \in OrigChars \cup StrPointers /\ decoded \in Seq(OrigChars \cup StrPointers)
      BY DEF Inv, TypeOK
    <3> QED BY <1>8, <3>1, AppendType DEF StrPointer
  <2>4. /\ dst_idx \in Nat /\ dst_len \in Nat /\ dst_idx <= dst_len
        /\ symbol.offset + 1 <= dst_idx
        /\ src' = dst_idx - symbol.offset - 1 /\ end' = src' + symbol.len
    BY <1>8 DEF StrPointer, Inv, TypeOK
  <2>5. src' \in Nat /\ end' \in Nat /\ src' < dst_idx /\ src' < end'
    BY <2>1, <2>4
  <2>6. TypeOK'
    BY <1>8, <2>2, <2>3, <2>5 DEF StrPointer, Inv, TypeOK
  <2>7. Written'
    BY <1>8 DEF StrPointer, Inv, Written
  <2>8. InLoop'
    <3>1. pc \in {"next", "symbol"} /\ pc' = "copy" /\ dst_idx' = dst_idx /\ dst_len' = dst_len
      BY <1>8 DEF StrPointer, AtSymbol
    <3>2. dst_len = 0 \/ dst_idx < dst_len
      BY <3>1 DEF Inv, InLoop
    <3>3. dst_len # 0
      BY <2>1, <2>4
    <3> QED BY <2>5, <3>1, <3>2, <3>3 DEF InLoop
  <2> QED BY <2>6, <2>7, <2>8 DEF Inv
<1>9. CASE CopyByte
  <2>1. dst[src] \in Chars
    BY <1>9 DEF CopyByte, Inv, TypeOK, Written, InLoop
  <2> QED
    BY <1>9, <2>1 DEF CopyByte, AfterSymbol, Inv, TypeOK, Written, InLoop, Results, Errors
<1>10. CASE CodeLenPanics
  BY <1>10 DEF CodeLenPanics, Inv, TypeOK, Written, InLoop, Results, Errors
<1>11. CASE UNCHANGED vars
  BY <1>11 DEF vars, Inv, TypeOK, Written, InLoop
<1> QED
  BY <1>1, <1>2, <1>3, <1>4, <1>5, <1>6, <1>7, <1>8, <1>9, <1>10, <1>11 DEF Next

\* The loop's indexes and results have their types in every state of every call.
THEOREM TypeCorrect == Spec => []TypeOK
<1>1. Inv => TypeOK
  BY DEF Inv
<1> QED
  BY <1>1, InvInit, InvStep, PTL DEF Spec

\* decompress_into_with_algo returns Ok only with all of dst decompressed.
THEOREM OkIsComplete == Spec => []OkMeansAll
<1>1. Inv => OkMeansAll
  BY DEF Inv, Written, InLoop, OkMeansAll
<1> QED
  BY <1>1, InvInit, InvStep, PTL DEF Spec

\* The indexing of dst panics only for an empty dst, for every source.
THEOREM IndexInBounds == Spec => []OutOfBoundsOnlyIfEmpty
<1>1. Inv => OutOfBoundsOnlyIfEmpty
  BY DEF Inv, InLoop, OutOfBoundsOnlyIfEmpty
<1> QED
  BY <1>1, InvInit, InvStep, PTL DEF Spec

-----------------------------------------------------------------------------
(* What dst holds.  WritesExpansion compares it with a recursive definition; *)
(* here is what that definition says of each byte.                           *)

\* The bytes a symbol stands for.
Size(symbol) == IF symbol.kind = "OrigChar" THEN 1 ELSE symbol.len

\* The k-th symbol decoded stands for the bytes from at[k] up to at[k + 1].
Positions(at) ==
  LET n == Len(decoded)
  IN /\ at \in [1..(n + 1) -> Nat] /\ at[1] = 0
     /\ \A k \in 1..n : at[k + 1] = at[k] + Size(decoded[k])
     /\ \A j, k \in 1..(n + 1) : j < k => at[j] < at[k]

\* Each byte written is the literal's, or the one offset + 1 before it: whether that
\* one was there before the string or is of the string itself.
Stands(at) ==
  \A k \in 1..Len(decoded) :
    /\ decoded[k].kind = "OrigChar" =>
         (at[k] < dst_idx => dst[at[k]] = decoded[k].char)
    /\ decoded[k].kind = "StrPointer" =>
         /\ decoded[k].offset < at[k]
         /\ \A i \in at[k]..(at[k + 1] - 1) :
              i < dst_idx => dst[i] = dst[i - decoded[k].offset - 1]

\* The loop is where the symbols end, except within a string and where dst is full.
Frontier(at) ==
  LET n == Len(decoded)
  IN /\ dst_idx <= at[n + 1]
     /\ pc \notin {"copy", "Ok", "index panic"} => dst_idx = at[n + 1]
     /\ pc = "copy" => /\ n > 0 /\ decoded[n].kind = "StrPointer"
                       /\ at[n] <= dst_idx
                       /\ src = dst_idx - decoded[n].offset - 1
                       /\ end - src = at[n + 1] - dst_idx

Untouched == \A i \in dst_idx..(dst_len - 1) : dst[i] = Old

\* dst holds, byte for byte, what the symbols decoded stand for, and beyond dst_idx what
\* the caller left there.
HoldsSymbols == Untouched /\ \E at : Positions(at) /\ Stands(at) /\ Frontier(at)

\* The place where the next symbol's bytes end.
Extend(at, n, size) == [k \in 1..(n + 2) |-> IF k = n + 2 THEN at[n + 1] + size ELSE at[k]]

\* Append keeps what was there.
LEMMA AppendLast ==
  ASSUME NEW S, NEW s \in Seq(S), NEW e \in S
  PROVE  /\ Len(s) \in Nat /\ Len(Append(s, e)) = Len(s) + 1 /\ Append(s, e)[Len(s) + 1] = e
         /\ \A k \in 1..Len(s) : Append(s, e)[k] = s[k]
OBVIOUS

\* A symbol decoded goes behind those before it.
LEMMA ExtendPositions ==
  ASSUME NEW at, Positions(at), decoded \in Seq(OrigChars \cup StrPointers),
         NEW symbol \in OrigChars \cup StrPointers, decoded' = Append(decoded, symbol),
         NEW n, n = Len(decoded), NEW to, to = Extend(at, n, Size(symbol))
  PROVE  /\ n \in Nat /\ Len(decoded') = n + 1 /\ decoded'[n + 1] = symbol
         /\ \A k \in 1..n : decoded'[k] = decoded[k]
         /\ Size(symbol) \in Nat \ {0}
         /\ at \in [1..(n + 1) -> Nat]
         /\ \A k \in 1..(n + 1) : to[k] = at[k]
         /\ to[n + 2] = at[n + 1] + Size(symbol)
         /\ Positions(to)'
<1> DEFINE S == OrigChars \cup StrPointers
<1>1. n \in Nat /\ Len(decoded') = n + 1 /\ decoded'[n + 1] = symbol
      /\ \A k \in 1..n : decoded'[k] = decoded[k]
  <2>1. decoded \in Seq(S) /\ symbol \in S
    OBVIOUS
  <2> HIDE DEF S
  <2> QED BY <2>1, AppendLast
<1>2. Size(symbol) \in Nat \ {0}
  <2>1. CASE symbol \in OrigChars
    BY <2>1 DEF Size, OrigChars
  <2>2. CASE symbol \in StrPointers
    <3>1. symbol.kind = "StrPointer" /\ symbol.len \in Lengths
      BY <2>2 DEF StrPointers
    <3> QED BY <3>1, DecompressAssumption DEF Size
  <2> QED BY <2>1, <2>2
<1>3. /\ at \in [1..(n + 1) -> Nat] /\ at[1] = 0
      /\ \A k \in 1..n : at[k + 1] = at[k] + Size(decoded[k])
      /\ \A j, k \in 1..(n + 1) : j < k => at[j] < at[k]
  BY DEF Positions
<1>4. /\ to \in [1..(n + 2) -> Nat]
      /\ \A k \in 1..(n + 1) : to[k] = at[k]
      /\ to[n + 2] = at[n + 1] + Size(symbol)
  <2> DEFINE size == Size(symbol)
  <2>1. size \in Nat /\ n \in Nat /\ at[n + 1] \in Nat
        /\ to = [k \in 1..(n + 2) |-> IF k = n + 2 THEN at[n + 1] + size ELSE at[k]]
    BY <1>1, <1>2, <1>3 DEF Extend
  <2> HIDE DEF size
  <2>2. ASSUME NEW k \in 1..(n + 2), k # n + 2 PROVE at[k] \in Nat
    <3>1. k \in 1..(n + 1)
      BY <2>1, <2>2
    <3> QED BY <1>3, <3>1
  <2> QED BY <2>1, <2>2 DEF size
<1>5. \A k \in 1..(n + 1) : to[k + 1] = to[k] + Size(decoded'[k])
  <2> TAKE k \in 1..(n + 1)
  <2>1. CASE k = n + 1
    BY <1>1, <1>4, <2>1
  <2>2. CASE k \in 1..n
    BY <1>1, <1>3, <1>4, <2>2
  <2> QED BY <1>1, <2>1, <2>2
<1>6. \A j, k \in 1..(n + 2) : j < k => to[j] < to[k]
  <2> SUFFICES ASSUME NEW j \in 1..(n + 2), NEW k \in 1..(n + 2), j < k PROVE to[j] < to[k]
    OBVIOUS
  <2>1. CASE k = n + 2
    <3>1. j \in 1..(n + 1) /\ to[j] = at[j] /\ at[j] \in Nat /\ at[n + 1] \in Nat
      BY <1>1, <1>3, <1>4, <2>1
    <3>2. at[j] <= at[n + 1]
      BY <1>1, <1>3, <3>1
    <3> QED BY <1>2, <1>4, <2>1, <3>1, <3>2
  <2>2. CASE k # n + 2
    BY <1>1, <1>3, <1>4, <2>2
  <2> QED BY <2>1, <2>2
<1>7. Positions(to)'
  <2>1. Len(decoded') + 1 = n + 2
    BY <1>1
  <2> QED BY <1>1, <1>3, <1>4, <1>5, <1>6, <2>1 DEF Positions, Size
<1> QED BY <1>1, <1>2, <1>3, <1>4, <1>7

\* Nothing is decoded and nothing is written at the start.
LEMMA SymbolsInit == Init => HoldsSymbols
<1> SUFFICES ASSUME Init PROVE HoldsSymbols
  OBVIOUS
<1>1. PICK at : at = [k \in 1..1 |-> 0]
  OBVIOUS
<1>2. Len(decoded) = 0 /\ at \in [1..1 -> Nat] /\ at[1] = 0
  BY <1>1 DEF Init
<1>3. Positions(at) /\ Stands(at)
  BY <1>2 DEF Positions, Stands
<1>4. Frontier(at) /\ Untouched
  BY <1>2, DecompressAssumption DEF Frontier, Untouched, Init
<1> QED BY <1>3, <1>4 DEF HoldsSymbols

\* A step that decodes nothing and writes nothing.
LEMMA SymbolsSame ==
  ASSUME HoldsSymbols, decoded' = decoded, dst' = dst, dst_idx' = dst_idx, dst_len' = dst_len,
         pc \notin {"copy", "Ok", "index panic"}, pc' # "copy"
  PROVE  HoldsSymbols'
<1>1. PICK at : Positions(at) /\ Stands(at) /\ Frontier(at)
  BY DEF HoldsSymbols
<1>2. Positions(at)' /\ Stands(at)'
  BY <1>1 DEF Positions, Stands, Size
<1>3. Frontier(at)'
  BY <1>1 DEF Frontier, Positions
<1>4. Untouched'
  BY DEF Untouched, HoldsSymbols
<1> QED BY <1>2, <1>3, <1>4 DEF HoldsSymbols

\* A string pointer has an offset.
LEMMA SymbolTypes ==
  ASSUME Inv, NEW k \in 1..Len(decoded), decoded[k].kind = "StrPointer"
  PROVE  decoded[k].offset \in Nat
<1>1. decoded[k] \in OrigChars \cup StrPointers
  <2> DEFINE S == OrigChars \cup StrPointers
  <2>1. decoded \in Seq(S)
    BY DEF Inv, TypeOK
  <2> HIDE DEF S
  <2>2. decoded[k] \in S
    BY <2>1
  <2> QED BY <2>2 DEF S
<1>2. decoded[k] \in StrPointers
  BY <1>1 DEF OrigChars
<1>3. decoded[k].offset \in Offsets
  BY <1>2 DEF StrPointers
<1> QED BY <1>3, DecompressAssumption

\* Where the next symbol's bytes begin, and what was decoded before it.
LEMMA AtNext ==
  ASSUME Inv, AtSymbol, NEW at, Positions(at), Stands(at), Frontier(at), NEW n, n = Len(decoded)
  PROVE  /\ n \in Nat /\ dst_idx = at[n + 1] /\ dst_idx \in Nat
         /\ \A k \in 1..n : at[k] \in Nat /\ at[k + 1] \in Nat /\ at[k] < at[k + 1] /\ at[k + 1] <= dst_idx
         /\ \A k \in 1..n : decoded[k].kind = "OrigChar" => dst[at[k]] = decoded[k].char
         /\ \A k \in 1..n : decoded[k].kind = "StrPointer" =>
              /\ decoded[k].offset \in Nat /\ decoded[k].offset < at[k]
              /\ \A i \in at[k]..(at[k + 1] - 1) : dst[i] = dst[i - decoded[k].offset - 1]
<1>1. n \in Nat /\ pc \in {"next", "symbol"} /\ dst_idx \in Nat
  BY DecompressAssumption DEF AtSymbol, Inv, TypeOK
<1>2. /\ at \in [1..(n + 1) -> Nat]
      /\ \A j, k \in 1..(n + 1) : j < k => at[j] < at[k]
  BY DEF Positions
<1>3. dst_idx = at[n + 1]
  BY <1>1 DEF Frontier
<1>4. \A k \in 1..n : at[k] \in Nat /\ at[k + 1] \in Nat /\ at[k] < at[k + 1] /\ at[k + 1] <= dst_idx
  BY <1>1, <1>2, <1>3
<1>5. \A k \in 1..n : decoded[k].kind = "OrigChar" => dst[at[k]] = decoded[k].char
  BY <1>1, <1>4 DEF Stands
<1>6. \A k \in 1..n : decoded[k].kind = "StrPointer" => decoded[k].offset \in Nat
  BY <1>1, SymbolTypes
<1>7. \A k \in 1..n : decoded[k].kind = "StrPointer" =>
        /\ decoded[k].offset < at[k]
        /\ \A i \in at[k]..(at[k + 1] - 1) : dst[i] = dst[i - decoded[k].offset - 1]
  BY <1>1, <1>4 DEF Stands
<1> QED BY <1>1, <1>3, <1>4, <1>5, <1>6, <1>7

\* A literal is written where the symbols before it end.
LEMMA SymbolsLiteral ==
  ASSUME Inv, HoldsSymbols, NEW symbol \in OrigChars, OrigChar(symbol)
  PROVE  HoldsSymbols'
<1>1. PICK at : Positions(at) /\ Stands(at) /\ Frontier(at)
  BY DEF HoldsSymbols
<1>2. PICK n, to : n = Len(decoded) /\ to = Extend(at, n, Size(symbol))
  OBVIOUS
<1>3. Size(symbol) = 1 /\ symbol.kind = "OrigChar"
  BY DEF Size, OrigChars
<1>4. /\ Len(decoded') = n + 1 /\ decoded'[n + 1] = symbol
      /\ \A k \in 1..n : decoded'[k] = decoded[k]
      /\ \A k \in 1..(n + 1) : to[k] = at[k]
      /\ to[n + 2] = at[n + 1] + 1
      /\ Positions(to)'
  <2>1. decoded \in Seq(OrigChars \cup StrPointers) /\ decoded' = Append(decoded, symbol)
        /\ symbol \in OrigChars \cup StrPointers
    BY DEF OrigChar, Inv, TypeOK
  <2> QED BY <1>1, <1>2, <1>3, <2>1, ExtendPositions
<1>5. /\ n \in Nat /\ dst_idx = at[n + 1] /\ dst_idx \in Nat
      /\ \A k \in 1..n : at[k] \in Nat /\ at[k + 1] \in Nat /\ at[k] < at[k + 1] /\ at[k + 1] <= dst_idx
      /\ \A k \in 1..n : decoded[k].kind = "OrigChar" => dst[at[k]] = decoded[k].char
      /\ \A k \in 1..n : decoded[k].kind = "StrPointer" =>
           /\ decoded[k].offset \in Nat /\ decoded[k].offset < at[k]
           /\ \A i \in at[k]..(at[k + 1] - 1) : dst[i] = dst[i - decoded[k].offset - 1]
  <2>1. AtSymbol
    BY DEF OrigChar
  <2>2. n = Len(decoded)
    BY <1>2
  <2> QED BY <1>1, <2>1, <2>2, AtNext, Zenon
<1>6. ASSUME \A i \in 0..(dst_idx - 1) : dst'[i] = dst[i],
             to[n + 1] < dst_idx' => dst'[to[n + 1]] = symbol.char
      PROVE  Stands(to)'
  <2>1. ASSUME NEW k \in 1..n, decoded[k].kind = "OrigChar" PROVE dst'[to[k]] = decoded[k].char
    <3>1. k \in 1..(n + 1) /\ at[k] \in Nat /\ at[k + 1] \in Nat /\ at[k] < at[k + 1] /\ at[k + 1] <= dst_idx
      BY <1>5
    <3>2. to[k] = at[k]
      BY <1>4, <3>1
    <3>3. at[k] \in 0..(dst_idx - 1)
      BY <1>5, <3>1
    <3> QED BY <1>5, <1>6, <2>1, <3>2, <3>3
  <2>2. ASSUME NEW k \in 1..n, decoded[k].kind = "StrPointer"
        PROVE  /\ decoded[k].offset < to[k]
               /\ \A i \in to[k]..(to[k + 1] - 1) : dst'[i] = dst'[i - decoded[k].offset - 1]
    <3>1. to[k] = at[k] /\ to[k + 1] = at[k + 1] /\ at[k + 1] <= dst_idx
          /\ at[k] \in Nat /\ at[k + 1] \in Nat /\ decoded[k].offset \in Nat /\ decoded[k].offset < at[k]
      BY <1>4, <1>5, <2>2
    <3>2. \A i \in at[k]..(at[k + 1] - 1) :
            i \in 0..(dst_idx - 1) /\ i - decoded[k].offset - 1 \in 0..(dst_idx - 1)
      BY <1>5, <3>1
    <3> QED BY <1>5, <1>6, <2>2, <3>1, <3>2
  <2>3. \A k \in 1..(n + 1) : k = n + 1 \/ k \in 1..n
    BY <1>5
  <2> QED BY <1>3, <1>4, <1>6, <2>1, <2>2, <2>3 DEF Stands
<1>7. dst_len \in Nat /\ dst \in [0..(dst_len - 1) -> Chars \cup {Old}] /\ dst_idx \in 0..dst_len
  BY DecompressAssumption DEF Inv, TypeOK
<1>8. to[n + 1] = dst_idx /\ to[n + 2] = dst_idx + 1 /\ to[Len(decoded') + 1] = dst_idx + 1
  <2>1. Len(decoded') + 1 = n + 2 /\ n + 1 \in 1..(n + 1)
    BY <1>4, <1>5
  <2> QED BY <1>4, <1>5, <2>1
<1>9. CASE dst_idx < dst_len
  <2>1. /\ dst' = [dst EXCEPT ![dst_idx] = symbol.char] /\ dst_idx' = dst_idx + 1
        /\ dst_len' = dst_len /\ pc' \in {"Ok", "next"}
    BY <1>9 DEF OrigChar, AfterSymbol
  <2>2. \A i \in 0..(dst_len - 1) : dst'[i] = IF i = dst_idx THEN symbol.char ELSE dst[i]
    BY <1>5, <1>7, <2>1
  <2>3. Stands(to)'
    BY <1>5, <1>6, <1>7, <1>8, <1>9, <2>2
  <2>4. Frontier(to)'
    BY <1>5, <1>8, <2>1 DEF Frontier
  <2>5. Untouched'
    BY <1>5, <1>7, <2>1, <2>2 DEF Untouched, HoldsSymbols
  <2> QED BY <1>4, <2>3, <2>4, <2>5 DEF HoldsSymbols
<1>10. CASE ~(dst_idx < dst_len)
  <2>1. dst' = dst /\ dst_idx' = dst_idx /\ dst_len' = dst_len /\ pc' = "index panic"
    BY <1>10 DEF OrigChar
  <2>2. dst_idx \in Nat
    BY <1>7
  <2>3. ~(dst_idx < dst_idx) /\ dst_idx <= dst_idx + 1
    BY <2>2
  <2>4. to[n + 1] = dst_idx' /\ to[Len(decoded') + 1] = dst_idx' + 1
    BY <1>8, <2>1, Zenon
  <2>5. Stands(to)'
    <3>1. ~(to[n + 1] < dst_idx')
      BY <2>1, <2>3, <2>4, Zenon
    <3> QED BY <1>6, <2>1, <3>1
  <2>6. Frontier(to)'
    <3>1. dst_idx' <= to[Len(decoded') + 1]
      BY <2>1, <2>3, <2>4, Zenon
    <3> QED BY <2>1, <3>1 DEF Frontier
  <2>7. Untouched'
    BY <2>1 DEF Untouched, HoldsSymbols
  <2> QED BY <1>4, <2>5, <2>6, <2>7 DEF HoldsSymbols
<1> QED BY <1>9, <1>10

\* A string pointer sets the copying loop to where its bytes go and come from.
LEMMA SymbolsString ==
  ASSUME Inv, HoldsSymbols, NEW symbol \in StrPointers, StrPointer(symbol)
  PROVE  HoldsSymbols'
<1>1. PICK at : Positions(at) /\ Stands(at) /\ Frontier(at)
  BY DEF HoldsSymbols
<1>2. PICK n, to : n = Len(decoded) /\ to = Extend(at, n, Size(symbol))
  OBVIOUS
<1>3. /\ Size(symbol) = symbol.len /\ symbol.kind = "StrPointer"
      /\ symbol.offset \in Nat /\ symbol.len \in Nat \ {0}
  BY DecompressAssumption DEF Size, StrPointers
<1>4. /\ Len(decoded') = n + 1 /\ decoded'[n + 1] = symbol
      /\ \A k \in 1..n : decoded'[k] = decoded[k]
      /\ \A k \in 1..(n + 1) : to[k] = at[k]
      /\ to[n + 2] = at[n + 1] + symbol.len
      /\ Positions(to)'
  <2>1. decoded \in Seq(OrigChars \cup StrPointers) /\ decoded' = Append(decoded, symbol)
        /\ symbol \in OrigChars \cup StrPointers
    BY DEF StrPointer, Inv, TypeOK
  <2>2. Positions(at) /\ to = Extend(at, n, Size(symbol)) /\ n = Len(decoded)
    BY <1>1, <1>2
  <2>3. /\ Len(decoded') = n + 1 /\ decoded'[n + 1] = symbol
        /\ \A k \in 1..n : decoded'[k] = decoded[k]
        /\ \A k \in 1..(n + 1) : to[k] = at[k]
        /\ to[n + 2] = at[n + 1] + Size(symbol)
        /\ Positions(to)'
    BY <2>1, <2>2, ExtendPositions
  <2> QED BY <1>3, <2>3
<1>5. /\ n \in Nat /\ dst_idx = at[n + 1] /\ dst_idx \in Nat
      /\ \A k \in 1..n : at[k] \in Nat /\ at[k + 1] \in Nat /\ at[k] < at[k + 1] /\ at[k + 1] <= dst_idx
      /\ \A k \in 1..n : decoded[k].kind = "OrigChar" => dst[at[k]] = decoded[k].char
      /\ \A k \in 1..n : decoded[k].kind = "StrPointer" =>
           /\ decoded[k].offset \in Nat /\ decoded[k].offset < at[k]
           /\ \A i \in at[k]..(at[k + 1] - 1) : dst[i] = dst[i - decoded[k].offset - 1]
  BY <1>1, <1>2, AtNext DEF StrPointer
<1>6. /\ symbol.offset + 1 <= dst_idx /\ src' = dst_idx - symbol.offset - 1
      /\ end' = src' + symbol.len
      /\ dst' = dst /\ dst_idx' = dst_idx /\ dst_len' = dst_len /\ pc' = "copy"
  BY DEF StrPointer
<1>7. /\ to[n + 1] = dst_idx /\ to[n + 2] = dst_idx + symbol.len
      /\ to[Len(decoded')] = dst_idx /\ to[Len(decoded') + 1] = dst_idx + symbol.len
  <2>1. Len(decoded') + 1 = n + 2 /\ n + 1 \in 1..(n + 1)
    BY <1>4, <1>5
  <2> QED BY <1>4, <1>5, <2>1
<1>8. Stands(to)'
  <2>1. ASSUME NEW k \in 1..n
        PROVE  /\ decoded[k].kind = "OrigChar" => dst[to[k]] = decoded[k].char
               /\ decoded[k].kind = "StrPointer" =>
                    /\ decoded[k].offset < to[k]
                    /\ \A i \in to[k]..(to[k + 1] - 1) : dst[i] = dst[i - decoded[k].offset - 1]
    <3>1. to[k] = at[k] /\ to[k + 1] = at[k + 1]
      BY <1>4, <1>5
    <3> QED BY <1>5, <3>1
  <2>2. symbol.offset < to[n + 1] /\ \A i \in to[n + 1]..(to[n + 2] - 1) : ~(i < dst_idx)
    BY <1>3, <1>5, <1>6, <1>7
  <2>3. \A k \in 1..(n + 1) : k = n + 1 \/ k \in 1..n
    BY <1>5
  <2>4. n + 1 + 1 = n + 2
    BY <1>5
  <2>5. ASSUME NEW k \in 1..Len(decoded')
        PROVE  /\ decoded'[k].kind = "OrigChar" =>
                    (to[k] < dst_idx' => dst'[to[k]] = decoded'[k].char)
               /\ decoded'[k].kind = "StrPointer" =>
                    /\ decoded'[k].offset < to[k]
                    /\ \A i \in to[k]..(to[k + 1] - 1) :
                         i < dst_idx' => dst'[i] = dst'[i - decoded'[k].offset - 1]
    <3>1. CASE k = n + 1
      BY <1>3, <1>4, <1>6, <2>2, <2>4, <3>1
    <3>2. CASE k \in 1..n
      BY <1>4, <1>6, <2>1, <3>2
    <3> QED BY <1>4, <2>3, <3>1, <3>2
  <2> QED BY <2>5 DEF Stands
<1>9. Frontier(to)'
  <2>1. Len(decoded') > 0 /\ decoded'[Len(decoded')] = symbol
    BY <1>4, <1>5
  <2>2. end' - src' = symbol.len /\ to[Len(decoded') + 1] - dst_idx = symbol.len
        /\ dst_idx <= to[Len(decoded') + 1]
    BY <1>3, <1>5, <1>6, <1>7
  <2> QED BY <1>3, <1>5, <1>6, <1>7, <2>1, <2>2 DEF Frontier
<1>10. Untouched'
  BY <1>6 DEF Untouched, HoldsSymbols
<1> QED BY <1>4, <1>8, <1>9, <1>10 DEF HoldsSymbols

\* Each round writes the byte offset + 1 back, which may be one the same string wrote.
LEMMA SymbolsCopy ==
  ASSUME Inv, HoldsSymbols, CopyByte
  PROVE  HoldsSymbols'
<1>1. PICK at : Positions(at) /\ Stands(at) /\ Frontier(at)
  BY DEF HoldsSymbols
<1>2. PICK n, off : n = Len(decoded) /\ off = decoded[n].offset
  OBVIOUS
<1>3. /\ n \in Nat /\ n > 0 /\ decoded[n].kind = "StrPointer" /\ at[n] <= dst_idx
      /\ src = dst_idx - off - 1 /\ end - src = at[n + 1] - dst_idx /\ off \in Nat
  <2>1. pc = "copy" /\ n \in Nat
    BY <1>2 DEF CopyByte, Inv, TypeOK
  <2>2. /\ n > 0 /\ decoded[n].kind = "StrPointer" /\ at[n] <= dst_idx
        /\ src = dst_idx - off - 1 /\ end - src = at[n + 1] - dst_idx
    BY <1>1, <1>2, <2>1 DEF Frontier
  <2> QED BY <1>2, <2>1, <2>2, SymbolTypes
<1>4. /\ at \in [1..(n + 1) -> Nat]
      /\ \A j, k \in 1..(n + 1) : j < k => at[j] < at[k]
  BY <1>1, <1>2 DEF Positions
<1>5. /\ dst_idx \in Nat /\ dst_idx < dst_len /\ dst_len \in Nat /\ src \in Nat /\ end \in Nat
      /\ src < dst_idx /\ src < end /\ dst \in [0..(dst_len - 1) -> Chars \cup {Old}]
  BY DecompressAssumption DEF CopyByte, Inv, TypeOK, InLoop
<1>6. /\ dst' = [dst EXCEPT ![dst_idx] = dst[src]] /\ dst_idx' = dst_idx + 1 /\ src' = src + 1
      /\ dst_len' = dst_len /\ end' = end /\ decoded' = decoded
      /\ pc' = IF dst_idx' = dst_len \/ src' = end THEN AfterSymbol(dst_idx') ELSE "copy"
  BY DEF CopyByte
<1>7. \A i \in 0..(dst_len - 1) : dst'[i] = IF i = dst_idx THEN dst[src] ELSE dst[i]
  BY <1>5, <1>6
<1>8. Positions(at)'
  BY <1>1, <1>6 DEF Positions, Size
<1>9. ASSUME NEW k \in 1..n
      PROVE  /\ decoded[k].kind = "OrigChar" =>
                  (at[k] < dst_idx + 1 => dst'[at[k]] = decoded[k].char)
             /\ decoded[k].kind = "StrPointer" =>
                  /\ decoded[k].offset < at[k]
                  /\ \A i \in at[k]..(at[k + 1] - 1) :
                       i < dst_idx + 1 => dst'[i] = dst'[i - decoded[k].offset - 1]
  <2>1. at[k] \in Nat /\ at[k + 1] \in Nat /\ at[k] < at[k + 1]
    BY <1>3, <1>4
  <2>2. /\ decoded[k].kind = "OrigChar" => (at[k] < dst_idx => dst[at[k]] = decoded[k].char)
        /\ decoded[k].kind = "StrPointer" =>
             /\ decoded[k].offset < at[k] /\ decoded[k].offset \in Nat
             /\ \A i \in at[k]..(at[k + 1] - 1) :
                  i < dst_idx => dst[i] = dst[i - decoded[k].offset - 1]
    BY <1>1, <1>2, SymbolTypes DEF Stands
  <2>3. CASE k < n
    <3>1. at[k + 1] <= at[n] /\ at[n] \in Nat
      BY <1>3, <1>4, <2>3
    <3>2. at[k + 1] <= dst_idx
      BY <1>3, <1>5, <2>1, <3>1
    <3>3. decoded[k].kind = "OrigChar" => dst'[at[k]] = decoded[k].char
      BY <1>5, <1>7, <2>1, <2>2, <3>2
    <3>4. ASSUME decoded[k].kind = "StrPointer", NEW i \in at[k]..(at[k + 1] - 1)
          PROVE  dst'[i] = dst'[i - decoded[k].offset - 1]
      <4>1. decoded[k].offset \in Nat /\ decoded[k].offset < at[k]
        BY <2>2, <3>4
      <4>2. i \in 0..(dst_idx - 1) /\ i - decoded[k].offset - 1 \in 0..(dst_idx - 1)
        <5> DEFINE b == at[k]
                   e == at[k + 1]
                   o == decoded[k].offset
        <5>1. b \in Nat /\ e \in Nat /\ o \in Nat /\ o < b /\ e <= dst_idx /\ i \in b..(e - 1)
          BY <2>1, <3>2, <4>1
        <5> HIDE DEF b, e, o
        <5>2. i \in 0..(dst_idx - 1) /\ i - o - 1 \in 0..(dst_idx - 1)
          BY <1>5, <5>1
        <5> QED BY <5>2 DEF o
      <4>3. dst[i] = dst[i - decoded[k].offset - 1]
        BY <1>5, <2>2, <3>4, <4>2
      <4> QED BY <1>5, <1>7, <4>2, <4>3
    <3> QED BY <2>2, <3>3, <3>4
  <2>4. CASE k = n
    <3>1. decoded[k].kind = "StrPointer" /\ decoded[k].offset = off /\ off < at[k]
      BY <1>2, <1>3, <2>2, <2>4
    <3>2. ASSUME NEW i \in at[k]..(at[k + 1] - 1), i < dst_idx + 1
          PROVE  dst'[i] = dst'[i - off - 1]
      <4>1. i \in 0..dst_idx /\ i - off - 1 \in 0..(dst_idx - 1)
        BY <1>3, <1>5, <2>1, <3>1, <3>2
      <4>2. dst'[i - off - 1] = dst[i - off - 1]
        BY <1>5, <1>7, <4>1
      <4>3. CASE i = dst_idx
        BY <1>3, <1>5, <1>7, <4>2, <4>3, SMTT(30)
      <4>4. CASE i < dst_idx
        BY <1>5, <1>7, <2>2, <3>1, <4>1, <4>2, <4>4
      <4> QED BY <1>5, <4>1, <4>3, <4>4
    <3> QED BY <3>1, <3>2
  <2> QED BY <1>3, <2>3, <2>4
<1>10. Stands(at)'
  BY <1>2, <1>6, <1>9 DEF Stands
<1>11. Frontier(at)'
  <2>1. at[n + 1] \in Nat /\ at[n] \in Nat /\ Len(decoded') = n
    BY <1>2, <1>3, <1>4, <1>6
  <2> DEFINE ne == at[n + 1]
             ns == at[n]
  <2>2. ne \in Nat /\ ns \in Nat /\ ns <= dst_idx /\ end - src = ne - dst_idx
    BY <1>3, <2>1
  <2> HIDE DEF ne, ns
  <2>3. end - src' = ne - dst_idx' /\ src' = dst_idx' - off - 1 /\ ns <= dst_idx' /\ dst_idx' <= ne
    BY <1>3, <1>5, <1>6, <2>2
  <2>4. src' = end => dst_idx' = at[n + 1]
    BY <1>5, <1>6, <2>2, <2>3 DEF ne
  <2>5. pc' \notin {"copy", "Ok", "index panic"} => dst_idx' = at[n + 1]
    BY <1>6, <2>4 DEF AfterSymbol
  <2> QED BY <1>2, <1>3, <1>6, <2>1, <2>5, <2>3 DEF Frontier, ne, ns
<1>12. Untouched'
  BY <1>5, <1>6, <1>7 DEF Untouched, HoldsSymbols
<1> QED BY <1>8, <1>10, <1>11, <1>12 DEF HoldsSymbols

\* Every step keeps dst to the symbols.
LEMMA SymbolsStep == Inv /\ HoldsSymbols /\ [Next]_vars => HoldsSymbols'
<1> SUFFICES ASSUME Inv, HoldsSymbols, [Next]_vars PROVE HoldsSymbols'
  OBVIOUS
<1>1. ASSUME NEW src_len \in SrcSizes, NEW compressed_size \in SrcSizes, NEW orig_size \in DstSizes,
             CheckHeader(src_len, compressed_size, orig_size)
      PROVE  HoldsSymbols'
  BY <1>1, SymbolsSame DEF CheckHeader
<1>2. ASSUME NEW size \in BlockSizes, ReadBlock(size) PROVE HoldsSymbols'
  BY <1>2, SymbolsSame DEF ReadBlock
<1>3. CASE ReadBlockError
  BY <1>3, SymbolsSame DEF ReadBlockError
<1>4. CASE EmptyBlockPanics
  BY <1>4, SymbolsSame DEF EmptyBlockPanics
<1>5. CASE SymbolError
  BY <1>5, SymbolsSame DEF SymbolError, AtSymbol
<1>6. ASSUME NEW symbol \in OrigChars, OrigChar(symbol) PROVE HoldsSymbols'
  BY <1>6, SymbolsLiteral
<1>7. ASSUME NEW symbol \in StrPointers, StrPointerTooFar(symbol) PROVE HoldsSymbols'
  BY <1>7, SymbolsSame DEF StrPointerTooFar, AtSymbol
<1>8. ASSUME NEW symbol \in StrPointers, StrPointer(symbol) PROVE HoldsSymbols'
  BY <1>8, SymbolsString
<1>9. CASE CopyByte
  BY <1>9, SymbolsCopy
<1>10. CASE CodeLenPanics
  BY <1>10, SymbolsSame DEF CodeLenPanics
<1>11. CASE UNCHANGED vars
  BY <1>11 DEF vars, HoldsSymbols, Untouched, Positions, Stands, Frontier, Size
<1> QED
  BY <1>1, <1>2, <1>3, <1>4, <1>5, <1>6, <1>7, <1>8, <1>9, <1>10, <1>11 DEF Next

\* For every dst and whatever src holds, each byte the loop of decompress_into_with_algo
\* has written is what the symbols say: the literal, or the byte offset + 1 before it in
\* the decompressed data, also where a string overlaps itself or is cut at dst's end.
THEOREM SymbolsWritten == Spec => []HoldsSymbols
  BY InvInit, InvStep, SymbolsInit, SymbolsStep, PTL DEF Spec

-----------------------------------------------------------------------------
(* The recursive definition itself.  Each set of naturals that is not empty  *)
(* has a least element; with that, the function Expansion chooses exists and *)
(* one more symbol is one more round of it.                                  *)

\* A set of naturals has a least element.
LEMMA NatLeast ==
  ASSUME NEW T, T \subseteq Nat, T # {}
  PROVE  \E x \in T : \A y \in T : x <= y
<1> DEFINE R == OpToRel(<, Nat)
<1>1. IsWellFoundedOn(R, Nat)
  BY NatLessThanWellFounded
<1>2. \A x, y \in Nat : x < y => <<x, y>> \in R
  BY DEF OpToRel
<1> HIDE DEF R
<1>3. PICK x \in T : \A y \in T : ~(<<y, x>> \in R)
  BY <1>1, WFMin
<1>4. \A y \in T : x \in Nat /\ y \in Nat /\ ~(y < x)
  BY <1>2, <1>3
<1> QED BY <1>4

\* g holds the expansion of each prefix of s, up to n symbols.
Rounds(g, s, n) == g = [k \in 0..n |-> IF k = 0 THEN <<>> ELSE Expand(g[k - 1], s[k])]

\* There is such a function: the round after the last one there is gives a longer one.
LEMMA RoundsExist ==
  ASSUME NEW s, NEW n \in Nat
  PROVE  \E g : Rounds(g, s, n)
<1> DEFINE T == {m \in Nat : ~ \E g : Rounds(g, s, m)}
<1> SUFFICES ASSUME T # {} PROVE FALSE
  OBVIOUS
<1>1. PICK m \in T : \A k \in T : m <= k
  <2>1. T \subseteq Nat
    OBVIOUS
  <2> HIDE DEF T
  <2> QED BY <2>1, NatLeast
<1>2. CASE m = 0
  <2>1. PICK g : g = [k \in 0..0 |-> <<>>]
    OBVIOUS
  <2>2. Rounds(g, s, 0)
    BY <2>1 DEF Rounds
  <2> QED BY <1>1, <1>2, <2>2
<1>3. CASE m # 0
  <2>1. m \in Nat /\ m - 1 \in Nat /\ ~(m <= m - 1)
    BY <1>3
  <2>2. PICK g : Rounds(g, s, m - 1)
    BY <1>1, <2>1
  <2>3. PICK h : h = [k \in 0..m |-> IF k = m THEN Expand(g[m - 1], s[m]) ELSE g[k]]
    OBVIOUS
  <2>4. \A k \in 0..(m - 1) : g[k] = IF k = 0 THEN <<>> ELSE Expand(g[k - 1], s[k])
    BY <2>1, <2>2 DEF Rounds
  <2>5. \A k \in 0..m : h[k] = IF k = 0 THEN <<>> ELSE Expand(h[k - 1], s[k])
    <3> TAKE k \in 0..m
    <3>1. CASE k = m
      <4>1. h[m - 1] = g[m - 1] /\ h[m] = Expand(g[m - 1], s[m])
        BY <2>1, <2>3
      <4> QED BY <1>3, <3>1, <4>1
    <3>2. CASE k \in 1..(m - 1)
      <4>1. h[k - 1] = g[k - 1] /\ h[k] = g[k]
        BY <2>1, <2>3, <3>2
      <4>2. g[k] = Expand(g[k - 1], s[k])
        BY <2>1, <2>4, <3>2
      <4> QED BY <3>2, <4>1, <4>2
    <3>3. CASE k = 0
      BY <2>1, <2>3, <2>4, <3>3
    <3> QED BY <2>1, <3>1, <3>2, <3>3
  <2>6. h = [k \in 0..m |-> h[k]]
    BY <2>3
  <2>7. Rounds(h, s, m)
    BY <2>5, <2>6 DEF Rounds
  <2> QED BY <2>7
<1> QED BY <1>2, <1>3

\* It depends on no symbol beyond the prefix.
LEMMA RoundsAgree ==
  ASSUME NEW s, NEW t, NEW m \in Nat, NEW n \in Nat, m <= n, \A k \in 1..m : s[k] = t[k],
         NEW g, Rounds(g, s, m), NEW h, Rounds(h, t, n)
  PROVE  g[m] = h[m]
<1> DEFINE T == {k \in 0..m : g[k] # h[k]}
<1> SUFFICES ASSUME T # {} PROVE FALSE
  OBVIOUS
<1>1. PICK k \in T : \A j \in T : k <= j
  <2>1. T \subseteq Nat
    OBVIOUS
  <2> HIDE DEF T
  <2> QED BY <2>1, NatLeast
<1>2. \A j \in 0..m : g[j] = IF j = 0 THEN <<>> ELSE Expand(g[j - 1], s[j])
  BY DEF Rounds
<1>3. \A j \in 0..m : h[j] = IF j = 0 THEN <<>> ELSE Expand(h[j - 1], t[j])
  BY DEF Rounds
<1>4. k # 0
  BY <1>2, <1>3
<1>5. k \in 1..m /\ k - 1 \in 0..m /\ ~(k <= k - 1)
  BY <1>4
<1>6. g[k - 1] = h[k - 1]
  BY <1>1, <1>5
<1>7. g[k] = h[k]
  BY <1>2, <1>3, <1>4, <1>5, <1>6
<1> QED BY <1>7

\* It is the function that Expansion defines.
LEMMA ExpansionRounds ==
  ASSUME NEW s, Len(s) \in Nat
  PROVE  \E g : Rounds(g, s, Len(s)) /\ Expansion(s) = g[Len(s)]
<1> DEFINE g == CHOOSE f : Rounds(f, s, Len(s))
<1>1. Rounds(g, s, Len(s))
  BY RoundsExist
<1>2. Expansion(s) = g[Len(s)]
  BY DEF Expansion, Rounds
<1> QED BY <1>1, <1>2

\* No symbols stand for nothing.
LEMMA ExpansionEmpty == Expansion(<<>>) = <<>>
<1>1. PICK g : Rounds(g, <<>>, 0) /\ Expansion(<<>>) = g[0]
  BY ExpansionRounds
<1> QED BY <1>1 DEF Rounds

\* One more symbol is one more round.
LEMMA ExpansionAppend ==
  ASSUME NEW S, NEW s \in Seq(S), NEW e \in S
  PROVE  Expansion(Append(s, e)) = Expand(Expansion(s), e)
<1> DEFINE t == Append(s, e)
           n == Len(s)
<1>1. n \in Nat /\ Len(t) = n + 1 /\ t[n + 1] = e /\ \A k \in 1..n : s[k] = t[k]
  OBVIOUS
<1> HIDE DEF t, n
<1>2. PICK g : Rounds(g, s, n) /\ Expansion(s) = g[n]
  BY <1>1, ExpansionRounds DEF n
<1>3. PICK h : Rounds(h, t, n + 1) /\ Expansion(t) = h[n + 1]
  BY <1>1, ExpansionRounds
<1>4. g[n] = h[n]
  BY <1>1, <1>2, <1>3, RoundsAgree
<1>5. h[n + 1] = Expand(h[n], t[n + 1])
  BY <1>1, <1>3 DEF Rounds
<1> QED BY <1>1, <1>2, <1>3, <1>4, <1>5 DEF t

\* Division is unique.
LEMMA DivisionUnique ==
  ASSUME NEW m \in Nat \ {0}, NEW q \in Int, NEW p \in Int, NEW r \in 0..(m - 1), NEW s \in 0..(m - 1),
         m * q + r = m * p + s
  PROVE  r = s
<1>1. CASE q = p
  BY <1>1
<1>2. CASE q < p
  <2>1. p = q + 1 + (p - q - 1) /\ p - q - 1 \in Nat
    BY <1>2
  <2>2. m * (p - q - 1) >= 0
    BY <2>1
  <2>3. m * p = m * q + m + m * (p - q - 1)
    OBVIOUS
  <2> QED BY <2>2, <2>3
<1>3. CASE p < q
  <2>1. q - p - 1 \in Nat
    BY <1>3
  <2>2. m * (q - p - 1) >= 0
    BY <2>1
  <2>3. m * q = m * p + m + m * (q - p - 1)
    OBVIOUS
  <2> QED BY <2>2, <2>3
<1> QED BY <1>1, <1>2, <1>3

\* What division by a period gives.
LEMMA Division ==
  ASSUME NEW m \in Nat \ {0}, NEW j \in Nat
  PROVE /\ j \div m \in Int /\ j % m \in 0..(m - 1) /\ j = m * (j \div m) + (j % m)
OBVIOUS

\* One period further is the same place in it.
LEMMA ModStep ==
  ASSUME NEW m \in Nat \ {0}, NEW j \in Nat, m <= j
  PROVE  (j - m) % m = j % m
<1>1. j \div m \in Int /\ j % m \in 0..(m - 1) /\ j = m * (j \div m) + (j % m)
  BY Division
<1>2. (j - m) \div m \in Int /\ (j - m) % m \in 0..(m - 1) /\ j - m = m * ((j - m) \div m) + ((j - m) % m)
  BY Division
<1> DEFINE q == j \div m
           p == (j - m) \div m
           r == j % m
           s == (j - m) % m
<1>3. q \in Int /\ p \in Int /\ p + 1 \in Int /\ r \in 0..(m - 1) /\ s \in 0..(m - 1) /\ j = m * q + r /\ j - m = m * p + s
  BY <1>1, <1>2
<1> HIDE DEF q, p, r, s
<1>4. m * (p + 1) = m * p + m
  BY <1>3
<1>5. m * q + r = m * (p + 1) + s
  BY <1>3, <1>4
<1>6. r = s
  BY <1>3, <1>5, DivisionUnique
<1> QED BY <1>6 DEF r, s

\* A literal's expansion is one byte longer.
LEMMA ExpandLiteral ==
  ASSUME NEW out \in Seq(Chars), NEW symbol \in OrigChars
  PROVE  LET to == Expand(out, symbol)
         IN /\ to \in Seq(Chars) /\ Len(to) = Len(out) + 1 /\ to[Len(out) + 1] = symbol.char
            /\ \A i \in 1..Len(out) : to[i] = out[i]
<1>1. symbol.kind = "OrigChar" /\ symbol.char \in Chars
  BY DEF OrigChars
<1>2. Expand(out, symbol) = Append(out, symbol.char)
  BY <1>1 DEF Expand
<1> QED BY <1>1, <1>2

\* A string's expansion repeats, byte for byte, what is offset + 1 before it.
LEMMA ExpandString ==
  ASSUME NEW out \in Seq(Chars), NEW symbol \in StrPointers, symbol.offset + 1 <= Len(out)
  PROVE  LET to == Expand(out, symbol)
         IN /\ to \in Seq(Chars) /\ Len(to) = Len(out) + symbol.len
            /\ \A i \in 1..Len(out) : to[i] = out[i]
            /\ \A i \in 1..symbol.len : to[Len(out) + i] = to[Len(out) + i - (symbol.offset + 1)]
<1> DEFINE n == Len(out)
           off == symbol.offset
           len == symbol.len
           m == off + 1
           first == n - off
           to == Expand(out, symbol)
           t == [i \in 1..len |-> out[first + ((i - 1) % m)]]
<1>1. symbol.kind = "StrPointer" /\ off \in Nat /\ len \in Nat \ {0} /\ n \in Nat /\ m <= n
  <2>1. symbol.kind = "StrPointer" /\ symbol.offset \in Offsets /\ symbol.len \in Lengths
    BY DEF StrPointers
  <2>2. Len(out) \in Nat
    OBVIOUS
  <2> QED BY <2>1, <2>2, DecompressAssumption
<1>2. to = out \o t
  BY <1>1 DEF Expand
<1> HIDE DEF n, off, len, to
<1>3. m \in Nat \ {0} /\ first \in 1..n /\ first + m = n + 1
  BY <1>1
<1>4. \A i \in 1..len : (i - 1) % m \in 0..(m - 1)
  BY <1>1, <1>3, Division
<1> HIDE DEF m, first
<1>5. \A i \in 1..len : first + ((i - 1) % m) \in 1..n
  BY <1>1, <1>3, <1>4
<1>6. \A i \in 1..n : out[i] \in Chars
  BY DEF n
<1>7. \A i \in 1..len : t[i] = out[first + ((i - 1) % m)] /\ t[i] \in Chars
  BY <1>5, <1>6
<1>8. t \in Seq(Chars) /\ Len(t) = len
  <2>1. t \in [1..len -> Chars]
    BY <1>7
  <2> HIDE DEF t
  <2> QED BY <1>1, <2>1
<1>9. t = [i \in 1..len |-> t[i]]
  OBVIOUS
<1> HIDE DEF t
<1>10. /\ to \in Seq(Chars) /\ Len(to) = n + len
       /\ \A i \in 1..n : to[i] = out[i]
       /\ \A i \in 1..len : to[n + i] = t[i]
  <2>1. n = Len(out) /\ out \in Seq(Chars)
    BY DEF n
  <2>2. to \in Seq(Chars)
    BY <1>2, <1>8
  <2>3. Len(out \o t) = n + len
    BY <1>8, <2>1
  <2>4. \A i \in 1..(n + len) : (out \o t)[i] = IF i <= n THEN out[i] ELSE t[i - n]
    BY <1>8, <2>1
  <2>5. ASSUME NEW i \in 1..n PROVE to[i] = out[i]
    <3>1. i \in 1..(n + len) /\ i <= n
      BY <1>1
    <3> QED BY <1>2, <2>4, <3>1
  <2>6. ASSUME NEW i \in 1..len PROVE to[n + i] = t[i]
    <3>1. PICK j : j = n + i
      OBVIOUS
    <3>2. j \in 1..(n + len) /\ ~(j <= n) /\ j - n = i
      BY <1>1, <3>1
    <3>3. (out \o t)[j] = t[j - n]
      BY <2>4, <3>2
    <3> QED BY <1>2, <3>1, <3>2, <3>3, Zenon
  <2> QED BY <1>2, <2>2, <2>3, <2>5, <2>6
<1>11. ASSUME NEW i \in 1..len PROVE to[n + i] = to[n + i - m]
  <2>1. CASE i <= m
    <3>1. i - 1 \in 0..(m - 1)
      BY <1>1, <1>3, <2>1
    <3>2. (i - 1) % m = i - 1
      BY <1>3, <3>1
    <3>3. first + (i - 1) = n + i - m /\ n + i - m \in 1..n
      BY <1>1, <1>3, <2>1
    <3> QED BY <1>7, <1>10, <3>2, <3>3
  <2>2. CASE m < i
    <3>1. i - 1 \in Nat /\ m <= i - 1 /\ i - m \in 1..len
      BY <1>1, <1>3, <2>2
    <3>2. ((i - 1) - m) % m = (i - 1) % m
      BY <1>3, <3>1, ModStep
    <3>3. (i - m) - 1 = (i - 1) - m /\ n + i - m = n + (i - m)
      BY <1>1, <1>3
    <3>4. t[i] = t[i - m]
      BY <1>7, <3>1, <3>2, <3>3
    <3> QED BY <1>10, <3>1, <3>3, <3>4
  <2> QED BY <1>1, <1>3, <2>1, <2>2
<1> QED BY <1>10, <1>11 DEF n, off, len, m, to

\* dst_idx is where the expansion ends, except within a string and where dst is full;
\* and what a string has still to write repeats what the copying loop will read.
Follows(all) ==
  /\ all \in Seq(Chars) /\ dst_idx <= Len(all)
  /\ \A i \in 0..(dst_idx - 1) : dst[i] = all[i + 1]
  /\ pc \notin {"copy", "Ok", "index panic"} => dst_idx = Len(all)
  /\ pc = "copy" => /\ end - src = Len(all) - dst_idx
                    /\ \A i \in (dst_idx + 1)..Len(all) : all[i] = all[i - (dst_idx - src)]

HoldsExpansion == Untouched /\ Follows(Expansion(decoded))

\* Nothing is decoded at the start.
LEMMA ExpansionInit == Init => HoldsExpansion
<1> SUFFICES ASSUME Init PROVE HoldsExpansion
  OBVIOUS
<1>1. Expansion(decoded) = <<>>
  BY ExpansionEmpty DEF Init
<1>2. Follows(<<>>)
  BY DEF Follows, Init
<1>3. Untouched
  BY DecompressAssumption DEF Untouched, Init
<1> QED BY <1>1, <1>2, <1>3 DEF HoldsExpansion

\* A step that decodes nothing and writes nothing.
LEMMA ExpansionSame ==
  ASSUME HoldsExpansion, decoded' = decoded, dst' = dst, dst_idx' = dst_idx, dst_len' = dst_len,
         pc \notin {"copy", "Ok", "index panic"}, pc' # "copy"
  PROVE  HoldsExpansion'
<1>1. PICK all : all = Expansion(decoded)
  OBVIOUS
<1>2. Expansion(decoded') = all
  BY <1>1
<1>3. Follows(all)'
  BY <1>1 DEF Follows, HoldsExpansion
<1>4. Untouched'
  BY DEF Untouched, HoldsExpansion
<1> QED BY <1>2, <1>3, <1>4 DEF HoldsExpansion

\* A literal, where dst_idx is the end of what was decoded.
LEMMA ExpansionLiteral ==
  ASSUME Inv, HoldsExpansion, NEW symbol \in OrigChars, OrigChar(symbol)
  PROVE  HoldsExpansion'
<1>1. PICK all, to : all = Expansion(decoded) /\ to = Expand(all, symbol)
  OBVIOUS
<1>2. /\ all \in Seq(Chars) /\ dst_idx = Len(all) /\ \A i \in 0..(dst_idx - 1) : dst[i] = all[i + 1]
  BY <1>1 DEF HoldsExpansion, Follows, OrigChar, AtSymbol
<1>3. /\ to \in Seq(Chars) /\ Len(to) = dst_idx + 1 /\ to[dst_idx + 1] = symbol.char
      /\ \A i \in 1..dst_idx : to[i] = all[i]
  BY <1>1, <1>2, ExpandLiteral
<1>4. Expansion(decoded') = to
  <2> DEFINE S == OrigChars \cup StrPointers
  <2>1. decoded \in Seq(S) /\ symbol \in S /\ decoded' = Append(decoded, symbol)
    BY DEF OrigChar, Inv, TypeOK
  <2> HIDE DEF S
  <2> QED BY <1>1, <2>1, ExpansionAppend
<1>5. dst_len \in Nat /\ dst \in [0..(dst_len - 1) -> Chars \cup {Old}] /\ dst_idx \in 0..dst_len
  BY DecompressAssumption DEF Inv, TypeOK
<1>6. \A i \in 0..(dst_idx - 1) : dst[i] = to[i + 1]
  BY <1>2, <1>3, <1>5
<1>7. CASE dst_idx < dst_len
  <2>1. /\ dst' = [dst EXCEPT ![dst_idx] = symbol.char] /\ dst_idx' = dst_idx + 1
        /\ dst_len' = dst_len /\ pc' \in {"Ok", "next"}
    BY <1>7 DEF OrigChar, AfterSymbol
  <2>2. \A i \in 0..(dst_len - 1) : dst'[i] = IF i = dst_idx THEN symbol.char ELSE dst[i]
    BY <1>5, <2>1
  <2>3. \A i \in 0..dst_idx : dst'[i] = to[i + 1]
    BY <1>3, <1>5, <1>6, <1>7, <2>2
  <2>4. Follows(to)'
    BY <1>3, <1>5, <2>1, <2>3 DEF Follows
  <2>5. Untouched'
    BY <1>5, <2>1, <2>2 DEF Untouched, HoldsExpansion
  <2> QED BY <1>4, <2>4, <2>5 DEF HoldsExpansion
<1>8. CASE ~(dst_idx < dst_len)
  <2>1. dst' = dst /\ dst_idx' = dst_idx /\ dst_len' = dst_len /\ pc' = "index panic"
    BY <1>8 DEF OrigChar
  <2>2. dst_idx <= Len(to)
    BY <1>3, <1>5
  <2>3. Follows(to)'
    BY <1>3, <1>6, <2>1, <2>2 DEF Follows
  <2>4. Untouched'
    BY <2>1 DEF Untouched, HoldsExpansion
  <2> QED BY <1>4, <2>3, <2>4 DEF HoldsExpansion
<1> QED BY <1>7, <1>8

\* A string pointer: what follows dst_idx repeats what starts at src.
LEMMA ExpansionString ==
  ASSUME Inv, HoldsExpansion, NEW symbol \in StrPointers, StrPointer(symbol)
  PROVE  HoldsExpansion'
<1>1. PICK all, to : all = Expansion(decoded) /\ to = Expand(all, symbol)
  OBVIOUS
<1>2. /\ all \in Seq(Chars) /\ dst_idx = Len(all) /\ \A i \in 0..(dst_idx - 1) : dst[i] = all[i + 1]
  BY <1>1 DEF HoldsExpansion, Follows, StrPointer, AtSymbol
<1>3. symbol.offset \in Nat /\ symbol.len \in Nat \ {0} /\ dst_idx \in Nat
  <2>1. symbol.offset \in Offsets /\ symbol.len \in Lengths
    BY DEF StrPointers
  <2>2. Len(all) \in Nat
    BY <1>2
  <2> QED BY <1>2, <2>1, <2>2, DecompressAssumption
<1>4. /\ symbol.offset + 1 <= dst_idx /\ src' = dst_idx - symbol.offset - 1
      /\ end' = src' + symbol.len
      /\ dst' = dst /\ dst_idx' = dst_idx /\ dst_len' = dst_len /\ pc' = "copy"
  BY DEF StrPointer
<1>5. /\ to \in Seq(Chars) /\ Len(to) = dst_idx + symbol.len
      /\ \A i \in 1..dst_idx : to[i] = all[i]
      /\ \A i \in 1..symbol.len : to[dst_idx + i] = to[dst_idx + i - (symbol.offset + 1)]
  <2>1. symbol.offset + 1 <= Len(all)
    BY <1>2, <1>4
  <2> QED BY <1>1, <1>2, <2>1, ExpandString
<1>6. Expansion(decoded') = to
  <2> DEFINE S == OrigChars \cup StrPointers
  <2>1. decoded \in Seq(S) /\ symbol \in S /\ decoded' = Append(decoded, symbol)
    BY DEF StrPointer, Inv, TypeOK
  <2> HIDE DEF S
  <2> QED BY <1>1, <2>1, ExpansionAppend
<1>7. ASSUME NEW i \in 0..(dst_idx - 1) PROVE dst[i] = to[i + 1]
  <2>1. i + 1 \in 1..dst_idx
    BY <1>3
  <2> QED BY <1>2, <1>5, <2>1
<1>8. PICK period, len : period = symbol.offset + 1 /\ len = symbol.len
  OBVIOUS
<1>9. /\ period \in Nat /\ len \in Nat /\ period <= dst_idx /\ src' = dst_idx - period
      /\ end' = src' + len /\ Len(to) = dst_idx + len
      /\ \A i \in 1..len : to[dst_idx + i] = to[dst_idx + i - period]
  <2>1. symbol.offset + 1 \in Nat /\ dst_idx - symbol.offset - 1 = dst_idx - (symbol.offset + 1)
    BY <1>3
  <2> QED BY <1>3, <1>4, <1>5, <1>8, <2>1, Zenon
<1>10. /\ dst_idx - src' = period /\ end' - src' = len
       /\ Len(to) - dst_idx = len /\ dst_idx <= Len(to)
  BY <1>3, <1>9
<1>11. ASSUME NEW i \in (dst_idx + 1)..Len(to) PROVE to[i] = to[i - period]
  <2>1. PICK j : j = i - dst_idx
    OBVIOUS
  <2>2. j \in 1..len /\ dst_idx + j = i /\ dst_idx + j - period = i - period
    BY <1>3, <1>9, <2>1
  <2>3. to[dst_idx + j] = to[dst_idx + j - period]
    BY <1>9, <2>2, Zenon
  <2> QED BY <2>2, <2>3, Zenon
<1>12. Follows(to)'
  BY <1>4, <1>5, <1>7, <1>10, <1>11 DEF Follows
<1>13. Untouched'
  BY <1>4 DEF Untouched, HoldsExpansion
<1> QED BY <1>6, <1>12, <1>13 DEF HoldsExpansion

\* A round of the copying loop writes the next byte of the expansion.
LEMMA ExpansionCopy ==
  ASSUME Inv, HoldsExpansion, CopyByte
  PROVE  HoldsExpansion'
<1>1. PICK all, n : all = Expansion(decoded) /\ n = Len(all)
  OBVIOUS
<1>2. /\ all \in Seq(Chars) /\ dst_idx <= n
      /\ \A i \in 0..(dst_idx - 1) : dst[i] = all[i + 1]
      /\ end - src = n - dst_idx
      /\ \A i \in (dst_idx + 1)..n : all[i] = all[i - (dst_idx - src)]
  BY <1>1 DEF HoldsExpansion, Follows, CopyByte
<1>3. n \in Nat
  BY <1>1, <1>2
<1>4. /\ dst_idx \in Nat /\ dst_idx < dst_len /\ dst_len \in Nat /\ src \in Nat /\ end \in Nat
      /\ src < dst_idx /\ src < end /\ dst \in [0..(dst_len - 1) -> Chars \cup {Old}]
  BY DecompressAssumption DEF CopyByte, Inv, TypeOK, InLoop
<1>5. /\ dst' = [dst EXCEPT ![dst_idx] = dst[src]] /\ dst_idx' = dst_idx + 1 /\ src' = src + 1
      /\ dst_len' = dst_len /\ end' = end /\ decoded' = decoded
      /\ pc' = IF dst_idx' = dst_len \/ src' = end THEN AfterSymbol(dst_idx') ELSE "copy"
  BY DEF CopyByte
<1>6. \A i \in 0..(dst_len - 1) : dst'[i] = IF i = dst_idx THEN dst[src] ELSE dst[i]
  BY <1>4, <1>5
<1>7. dst[src] = all[dst_idx + 1]
  <2>1. dst_idx + 1 \in (dst_idx + 1)..n /\ dst_idx + 1 - (dst_idx - src) = src + 1
        /\ src \in 0..(dst_idx - 1)
    BY <1>2, <1>3, <1>4
  <2>2. dst[src] = all[src + 1]
    BY <1>2, <2>1
  <2>3. PICK j : j = dst_idx + 1
    OBVIOUS
  <2>4. j \in (dst_idx + 1)..n /\ j - (dst_idx - src) = src + 1
    BY <1>4, <2>1, <2>3
  <2>5. all[j] = all[j - (dst_idx - src)]
    BY <1>2, <2>4
  <2> QED BY <2>2, <2>3, <2>4, <2>5, Zenon
<1>8. ASSUME NEW i \in 0..dst_idx PROVE dst'[i] = all[i + 1]
  <2>1. CASE i = dst_idx
    BY <1>4, <1>6, <1>7, <2>1
  <2>2. CASE i # dst_idx
    <3>1. i \in 0..(dst_idx - 1) /\ i \in 0..(dst_len - 1)
      BY <1>4, <2>2
    <3>2. dst'[i] = dst[i]
      BY <1>6, <2>2, <3>1
    <3> QED BY <1>2, <3>1, <3>2
  <2> QED BY <2>1, <2>2
<1>9. /\ dst_idx' - src' = dst_idx - src /\ end' - src' = n - dst_idx' /\ dst_idx' <= n
      /\ (src' = end => dst_idx' = n) /\ dst_idx' - 1 = dst_idx
      /\ (dst_idx' + 1)..n \subseteq (dst_idx + 1)..n
  BY <1>2, <1>3, <1>4, <1>5
<1>10. pc' \notin {"copy", "Ok", "index panic"} => dst_idx' = n
  BY <1>5, <1>9 DEF AfterSymbol
<1>11. Follows(all)'
  BY <1>1, <1>2, <1>8, <1>9, <1>10 DEF Follows
<1>12. Untouched'
  BY <1>4, <1>5, <1>6 DEF Untouched, HoldsExpansion
<1>13. Expansion(decoded') = all
  BY <1>1, <1>5
<1> QED BY <1>11, <1>12, <1>13 DEF HoldsExpansion

\* Every step keeps dst to the expansion.
LEMMA ExpansionStep == Inv /\ HoldsExpansion /\ [Next]_vars => HoldsExpansion'
<1> SUFFICES ASSUME Inv, HoldsExpansion, [Next]_vars PROVE HoldsExpansion'
  OBVIOUS
<1>1. ASSUME NEW src_len \in SrcSizes, NEW compressed_size \in SrcSizes, NEW orig_size \in DstSizes,
             CheckHeader(src_len, compressed_size, orig_size)
      PROVE  HoldsExpansion'
  BY <1>1, ExpansionSame DEF CheckHeader
<1>2. ASSUME NEW size \in BlockSizes, ReadBlock(size) PROVE HoldsExpansion'
  BY <1>2, ExpansionSame DEF ReadBlock
<1>3. CASE ReadBlockError
  BY <1>3, ExpansionSame DEF ReadBlockError
<1>4. CASE EmptyBlockPanics
  BY <1>4, ExpansionSame DEF EmptyBlockPanics
<1>5. CASE SymbolError
  BY <1>5, ExpansionSame DEF SymbolError, AtSymbol
<1>6. ASSUME NEW symbol \in OrigChars, OrigChar(symbol) PROVE HoldsExpansion'
  BY <1>6, ExpansionLiteral
<1>7. ASSUME NEW symbol \in StrPointers, StrPointerTooFar(symbol) PROVE HoldsExpansion'
  BY <1>7, ExpansionSame DEF StrPointerTooFar, AtSymbol
<1>8. ASSUME NEW symbol \in StrPointers, StrPointer(symbol) PROVE HoldsExpansion'
  BY <1>8, ExpansionString
<1>9. CASE CopyByte
  BY <1>9, ExpansionCopy
<1>10. CASE CodeLenPanics
  BY <1>10, ExpansionSame DEF CodeLenPanics
<1>11. CASE UNCHANGED vars
  BY <1>11 DEF vars, HoldsExpansion, Untouched, Follows
<1> QED
  BY <1>1, <1>2, <1>3, <1>4, <1>5, <1>6, <1>7, <1>8, <1>9, <1>10, <1>11 DEF Next

\* The recursive reference: in every state of every call dst holds the expansion of the
\* symbols decoded so far, up to dst_idx, and beyond it what the caller left, though the
\* code copies strings byte by byte over themselves and cuts the last one at dst's end.
THEOREM ExpansionWritten == Spec => []WritesExpansion
<1>1. Inv /\ HoldsExpansion => WritesExpansion
  <2> SUFFICES ASSUME Inv, HoldsExpansion, NEW i \in DOMAIN dst
               PROVE  dst[i] = IF i < dst_idx THEN Expansion(decoded)[i + 1] ELSE Old
    BY DEF WritesExpansion
  <2>1. dst_len \in Nat /\ dst_idx \in 0..dst_len /\ i \in 0..(dst_len - 1)
    BY DecompressAssumption DEF Inv, TypeOK
  <2>2. CASE i < dst_idx
    <3>1. i \in 0..(dst_idx - 1)
      BY <2>1, <2>2
    <3>2. \A j \in 0..(dst_idx - 1) : dst[j] = Expansion(decoded)[j + 1]
      BY DEF HoldsExpansion, Follows
    <3> QED BY <2>2, <3>1, <3>2
  <2>3. CASE ~(i < dst_idx)
    BY <2>1, <2>3 DEF HoldsExpansion, Untouched
  <2> QED BY <2>2, <2>3
<1> QED BY <1>1, InvInit, InvStep, ExpansionInit, ExpansionStep, PTL DEF Spec

=============================================================================
