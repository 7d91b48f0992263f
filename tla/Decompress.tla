----------------------------- MODULE Decompress -----------------------------
(***************************************************************************)
(* decompress_into_with_algo of uefi_decompress: the checks of the header,  *)
(* the blocks and symbols that CodeIterator produces, and the loop that     *)
(* writes them to dst.                                                      *)
(*                                                                          *)
(* The contents of src are decided as they are read: a block may have any   *)
(* size, a symbol may be any literal or string, and any read may fail,      *)
(* because the bits run out or a code is malformed.  How bits become        *)
(* symbols is module HuffmanTable.                                          *)
(***************************************************************************)
EXTENDS Integers, Sequences

CONSTANTS
  Chars,       \* byte literals
  Offsets,     \* string positions
  Lengths,     \* string lengths: 3 and more
  DstSizes,    \* lengths of dst, and orig_size fields
  SrcSizes,    \* lengths of src, and compressed_size fields
  BlockSizes,  \* sizes of a block
  UsizeValues, \* number of values of a usize
  Old          \* a byte of dst as the caller left it

ASSUME DecompressAssumption ==
  /\ Offsets \subseteq Nat /\ DstSizes \subseteq Nat /\ SrcSizes \subseteq Nat
  /\ Lengths \subseteq Nat \ {0}
  /\ Old \notin Chars
  /\ UsizeValues \in Nat \ {0} /\ BlockSizes \subseteq 0..(UsizeValues - 1)

VARIABLES
  overflow_checks, \* TRUE in a debug build; fixed
  dst_len,         \* fixed
  dst, dst_idx,
  remaining_block_size,
  src, end,        \* what is left of the copying loop's range
  pc,              \* where the call is, or its result
  decoded          \* history: the symbols decoded so far

vars == <<overflow_checks, dst_len, dst, dst_idx, remaining_block_size, src, end, pc, decoded>>

Errors == {"InvalidSrcSize", "InvalidDstSize", "MalformedSrcData"}
Results == Errors \cup {"Ok", "index panic", "overflow panic"}

\* CodeSymbol.
OrigChars == [kind : {"OrigChar"}, char : Chars]
StrPointers == [kind : {"StrPointer"}, offset : Offsets, len : Lengths]

TypeOK ==
  /\ overflow_checks \in BOOLEAN /\ dst_len \in DstSizes
  /\ dst \in [0..(dst_len - 1) -> Chars \cup {Old}] /\ dst_idx \in 0..dst_len
  /\ remaining_block_size \in 0..(UsizeValues - 1)
  /\ src \in Nat /\ end \in Nat
  /\ pc \in {"start", "next", "symbol", "copy"} \cup Results
  /\ decoded \in Seq(OrigChars \cup StrPointers)

\* Where the call has written nothing, dst is as the caller left it.
Init ==
  /\ overflow_checks \in BOOLEAN /\ dst_len \in DstSizes
  /\ dst = [i \in 0..(dst_len - 1) |-> Old] /\ dst_idx = 0
  /\ remaining_block_size = 0
  /\ src = 0 /\ end = 0
  /\ pc = "start"
  /\ decoded = <<>>

-----------------------------------------------------------------------------
(* decompress_into_with_algo up to its loop.                               *)

CheckHeader(src_len, compressed_size, orig_size) ==
  /\ pc = "start"
  /\ pc' = IF src_len < 8 \/ compressed_size > src_len THEN "InvalidSrcSize"
           ELSE IF orig_size # dst_len THEN "InvalidDstSize"
           ELSE "next"
  /\ UNCHANGED <<overflow_checks, dst_len, dst, dst_idx, remaining_block_size, src, end, decoded>>

-----------------------------------------------------------------------------
(* CodeIterator::next.  It returns None only after it has returned an error, *)
(* and the loop does not call it again then: the loop never ends by itself.  *)

\* remaining_block_size -= 1, where this does not panic.
Decrement == (remaining_block_size - 1) % UsizeValues

\* The block's size, and the codes of its three sets.
ReadBlock(size) ==
  /\ pc = "next" /\ remaining_block_size = 0
  /\ remaining_block_size' = size
  /\ pc' = "symbol"
  /\ UNCHANGED <<overflow_checks, dst_len, dst, dst_idx, src, end, decoded>>

ReadBlockError ==
  /\ pc = "next" /\ remaining_block_size = 0
  /\ pc' = "MalformedSrcData"
  /\ UNCHANGED <<overflow_checks, dst_len, dst, dst_idx, remaining_block_size, src, end, decoded>>

\* A code length of more ones than a u8 counts (code_len += 1), in a debug build.
CodeLenPanics ==
  /\ pc = "next" /\ remaining_block_size = 0
  /\ overflow_checks
  /\ pc' = "overflow panic"
  /\ UNCHANGED <<overflow_checks, dst_len, dst, dst_idx, remaining_block_size, src, end, decoded>>

\* A block of no symbols, in a debug build.
EmptyBlockPanics ==
  /\ pc = "symbol" /\ remaining_block_size = 0
  /\ overflow_checks
  /\ pc' = "overflow panic"
  /\ UNCHANGED <<overflow_checks, dst_len, dst, dst_idx, remaining_block_size, src, end, decoded>>

AtSymbol ==
  \/ pc = "next" /\ remaining_block_size # 0
  \/ pc = "symbol" /\ (remaining_block_size # 0 \/ ~overflow_checks)

\* Mutant: the loop goes on after an error.
SymbolErrorIgnored ==
  /\ AtSymbol
  /\ remaining_block_size' = Decrement
  /\ pc' = "next"
  /\ UNCHANGED <<overflow_checks, dst_len, dst, dst_idx, src, end, decoded>>

\* Mutant: the end of the source ends the iterator, and with it the loop.
SymbolErrorEnds ==
  /\ AtSymbol
  /\ remaining_block_size' = Decrement
  /\ pc' = "Ok"
  /\ UNCHANGED <<overflow_checks, dst_len, dst, dst_idx, src, end, decoded>>

\* No Char&Len symbol, or no position after it.
SymbolError ==
  /\ AtSymbol
  /\ remaining_block_size' = Decrement
  /\ pc' = "MalformedSrcData"
  /\ UNCHANGED <<overflow_checks, dst_len, dst, dst_idx, src, end, decoded>>

-----------------------------------------------------------------------------
(* The loop's body.                                                        *)

\* The check after each symbol.
AfterSymbol(idx) == IF idx = dst_len THEN "Ok" ELSE "next"

OrigChar(symbol) ==
  /\ AtSymbol
  /\ remaining_block_size' = Decrement
  /\ decoded' = Append(decoded, symbol)
  /\ IF dst_idx < dst_len
     THEN /\ dst' = [dst EXCEPT ![dst_idx] = symbol.char]
          /\ dst_idx' = dst_idx + 1
          /\ pc' = AfterSymbol(dst_idx')
     ELSE pc' = "index panic" /\ UNCHANGED <<dst, dst_idx>>
  /\ UNCHANGED <<overflow_checks, dst_len, src, end>>

StrPointerTooFar(symbol) ==
  /\ AtSymbol
  /\ symbol.offset + 1 > dst_idx
  /\ remaining_block_size' = Decrement
  /\ pc' = "MalformedSrcData"
  /\ UNCHANGED <<overflow_checks, dst_len, dst, dst_idx, src, end, decoded>>

StrPointer(symbol) ==
  /\ AtSymbol
  /\ symbol.offset + 1 <= dst_idx
  /\ remaining_block_size' = Decrement
  /\ decoded' = Append(decoded, symbol)
  /\ src' = dst_idx - symbol.offset - 1
  /\ end' = src' + symbol.len
  /\ pc' = "copy"
  /\ UNCHANGED <<overflow_checks, dst_len, dst, dst_idx>>

\* Mutant: the copy goes on past the end of dst.
CopyByteUnchecked ==
  /\ pc = "copy"
  /\ IF dst_idx < dst_len
     THEN /\ dst' = [dst EXCEPT ![dst_idx] = dst[src]]
          /\ dst_idx' = dst_idx + 1
          /\ src' = src + 1
          /\ pc' = IF src' = end THEN AfterSymbol(dst_idx') ELSE "copy"
     ELSE pc' = "index panic" /\ UNCHANGED <<dst, dst_idx, src>>
  /\ UNCHANGED <<overflow_checks, dst_len, remaining_block_size, end, decoded>>

\* Mutant: the whole string at once, from what dst held before (copy_within).
CopyWithin ==
  /\ pc = "copy"
  /\ dst' = [i \in DOMAIN dst |->
               IF dst_idx <= i /\ i < dst_idx + (end - src) THEN dst[src + (i - dst_idx)] ELSE dst[i]]
  /\ dst_idx' = IF dst_idx + (end - src) < dst_len THEN dst_idx + (end - src) ELSE dst_len
  /\ src' = end
  /\ pc' = AfterSymbol(dst_idx')
  /\ UNCHANGED <<overflow_checks, dst_len, remaining_block_size, end, decoded>>

\* One round of the copying loop, which stops at the end of dst.
CopyByte ==
  /\ pc = "copy"
  /\ dst' = [dst EXCEPT ![dst_idx] = dst[src]]
  /\ dst_idx' = dst_idx + 1
  /\ src' = src + 1
  /\ pc' = IF dst_idx' = dst_len \/ src' = end THEN AfterSymbol(dst_idx') ELSE "copy"
  /\ UNCHANGED <<overflow_checks, dst_len, remaining_block_size, end, decoded>>

Next ==
  \/ \E src_len, compressed_size \in SrcSizes, orig_size \in DstSizes :
       CheckHeader(src_len, compressed_size, orig_size)
  \/ \E size \in BlockSizes : ReadBlock(size)
  \/ ReadBlockError
  \/ CodeLenPanics
  \/ EmptyBlockPanics
  \/ SymbolError
  \/ \E symbol \in OrigChars : OrigChar(symbol)
  \/ \E symbol \in StrPointers : StrPointerTooFar(symbol) \/ StrPointer(symbol)
  \/ CopyByte

Spec == Init /\ [][Next]_vars

\* One thread runs the call: it goes on as long as it can.
FairSpec == Spec /\ WF_vars(Next)

-----------------------------------------------------------------------------
(* What the symbols stand for: a string repeats the offset + 1 bytes before  *)
(* it for as long as it is.                                                  *)

Expand(out, symbol) ==
  IF symbol.kind = "OrigChar" THEN Append(out, symbol.char)
  ELSE LET period == symbol.offset + 1
           first == Len(out) - symbol.offset
       IN out \o [i \in 1..symbol.len |-> out[first + ((i - 1) % period)]]

Expansion(symbols) ==
  LET out[n \in 0..Len(symbols)] == IF n = 0 THEN <<>> ELSE Expand(out[n - 1], symbols[n])
  IN out[Len(symbols)]

\* dst holds the expansion of the symbols decoded so far, up to where the loop has
\* come, and nothing is written beyond.  A string may overlap the bytes it is
\* itself writing; the code copies byte by byte because it must read the new ones.
WritesExpansion ==
  \A i \in DOMAIN dst : dst[i] = IF i < dst_idx THEN Expansion(decoded)[i + 1] ELSE Old

\* Ok means every byte of dst was written, and none copied from where nothing had
\* been written yet: a source that ends early, or a string that starts before dst,
\* is an error.
OkMeansAll == pc = "Ok" => \A i \in 0..(dst_len - 1) : dst[i] \in Chars

\* An index of dst is out of bounds only if dst is empty: a literal that finds dst
\* full is never reached, and a string too long for dst is cut.
OutOfBoundsOnlyIfEmpty == pc = "index panic" => dst_len = 0

\* Under fairness of the one thread, the call ends: each symbol writes a byte, and an
\* error is final.
Terminates == <>(pc \in Results)

=============================================================================
