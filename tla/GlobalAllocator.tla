-------------------------- MODULE GlobalAllocator ---------------------------
(***************************************************************************)
(* BootServicesGlobalAllocator of boot_services: Rust's allocator on top of *)
(* the firmware's pool.  The pool aligns to 8 bytes.  For a layout that     *)
(* asks for more, alloc takes a larger buffer, returns an aligned pointer   *)
(* into it, and writes the buffer's own address (the tracker) behind the    *)
(* block, where dealloc finds it: nothing else records it.                  *)
(*                                                                          *)
(* Memory is an array of bytes, and the owner of a block may overwrite all  *)
(* of the block and no more.                                                *)
(***************************************************************************)
EXTENDS Integers, FiniteSets

CONSTANTS
  Word,      \* size and alignment of a pointer, and alignment of the pool: 8
  Layouts,   \* records of size and align
  IsizeMax,  \* largest size of a layout
  MemSize,   \* bound: bytes of the pool's memory
  Data       \* a byte of somebody's data

RoundUp(n, align) == ((n + align - 1) \div align) * align

ASSUME AllocatorAssumption ==
  /\ Word \in Nat \ {0} /\ MemSize \in Nat /\ Data \notin 0..(MemSize - 1)
  /\ \A l \in Layouts : l.size \in Nat \ {0} /\ l.align \in Nat \ {0}
  /\ \A l \in Layouts : RoundUp(l.size, l.align) <= IsizeMax
  /\ \A l \in Layouts : IF l.align > Word THEN l.align % Word = 0 ELSE Word % l.align = 0

VARIABLES
  pool,    \* the buffers the firmware has given out: address and size
  memory,  \* the bytes; a byte of a tracker is the address it holds
  blocks,  \* the blocks alloc has returned and dealloc has not taken
  state    \* running, or panicked in a debug build

allocatorVars == <<pool, memory, blocks, state>>

Addresses == 0..(MemSize - 1)
Bytes(at, n) == at..(at + n - 1)

AllocatorInit == pool = {} /\ memory = [a \in Addresses |-> Data] /\ blocks = {} /\ state = "running"

-----------------------------------------------------------------------------
(* The firmware's pool.                                                    *)

\* Where a buffer of n bytes can be.
Free(n) ==
  {a \in Addresses : /\ a % Word = 0 /\ a + n <= MemSize
                     /\ \A b \in pool : Bytes(a, n) \cap Bytes(b.at, b.size) = {}}

\* free_pool: an address that is not a buffer's is refused, which the caller ignores.
\* What a freed buffer held is lost.
FreePool(at) ==
  /\ pool' = {b \in pool : b.at # at}
  /\ memory' = [a \in Addresses |->
                  IF \E b \in pool' : a \in Bytes(b.at, b.size) THEN memory[a] ELSE Data]

-----------------------------------------------------------------------------
(* Layout::extend with the layout of a pointer.                            *)

Plain(l) == l.align <= Word

\* Mutant: the size is rounded down to what a pointer needs.
TrackerInBlock(l) == l.size - (l.size % Word)

TrackerOffset(l) == RoundUp(l.size, Word)

Extends(l) == RoundUp(TrackerOffset(l) + Word, l.align) <= IsizeMax

\* Mutant: no room for the alignment.
AllocSizeExtended(l) == IF Plain(l) THEN l.size ELSE TrackerOffset(l) + Word

\* What alloc asks the pool for.
AllocSize(l) == IF Plain(l) THEN l.size ELSE l.align + TrackerOffset(l) + Word

\* ptr::read of the tracker.
Tracker(block) == memory[block.ptr + TrackerOffset(block.layout)]

-----------------------------------------------------------------------------

\* Align up to 8: the buffer is the block.
AllocPlain(l, at) ==
  /\ state = "running" /\ Plain(l)
  /\ at \in Free(AllocSize(l))
  /\ pool' = pool \cup {[at |-> at, size |-> AllocSize(l)]}
  /\ blocks' = blocks \cup {[ptr |-> at, layout |-> l]}
  /\ UNCHANGED <<memory, state>>

\* More: align_offset, and the tracker.
AllocAligned(l, at) ==
  /\ state = "running" /\ ~Plain(l) /\ Extends(l)
  /\ at \in Free(AllocSize(l))
  /\ LET ptr == RoundUp(at, l.align)
     IN /\ blocks' = blocks \cup {[ptr |-> ptr, layout |-> l]}
        /\ memory' = [a \in Addresses |->
                        IF a \in Bytes(ptr + TrackerOffset(l), Word) THEN at ELSE memory[a]]
  /\ pool' = pool \cup {[at |-> at, size |-> AllocSize(l)]}
  /\ UNCHANGED state

\* null: the layout cannot be extended, or the pool has no such buffer.
AllocNull(l) ==
  /\ state = "running"
  /\ (~Plain(l) /\ ~Extends(l)) \/ Free(AllocSize(l)) = {}
  /\ UNCHANGED allocatorVars

\* The owner of a block writes it.
Write(block) ==
  /\ state = "running" /\ block \in blocks
  /\ memory' = [a \in Addresses |-> IF a \in Bytes(block.ptr, block.layout.size) THEN Data ELSE memory[a]]
  /\ UNCHANGED <<pool, blocks, state>>

DeallocPlain(block) ==
  /\ state = "running" /\ block \in blocks /\ Plain(block.layout)
  /\ FreePool(block.ptr)
  /\ blocks' = blocks \ {block}
  /\ UNCHANGED state

\* The debug assertion that the tracker leads back to the block.
TrackerAgrees(block) ==
  Tracker(block) # Data /\ block.ptr = RoundUp(Tracker(block), block.layout.align)

DeallocAligned(block) ==
  /\ state = "running" /\ block \in blocks /\ ~Plain(block.layout) /\ Extends(block.layout)
  /\ FreePool(Tracker(block))
  /\ blocks' = blocks \ {block}
  /\ state' = IF TrackerAgrees(block) THEN "running" ELSE "panicked"

AllocatorNext ==
  \/ \E l \in Layouts :
       \/ \E at \in Addresses : AllocPlain(l, at) \/ AllocAligned(l, at)
       \/ AllocNull(l)
  \/ \E block \in blocks : Write(block) \/ DeallocPlain(block) \/ DeallocAligned(block)

AllocatorSpec == AllocatorInit /\ [][AllocatorNext]_allocatorVars

-----------------------------------------------------------------------------

\* The bytes alloc relies on: the block, and its tracker.
Footprint(block) ==
  Bytes(block.ptr, block.layout.size)
    \cup (IF Plain(block.layout) THEN {} ELSE Bytes(block.ptr + TrackerOffset(block.layout), Word))

\* Every block is aligned as its layout asks, the block and its tracker lie in a buffer
\* of the pool, and neither is touched by another block or its tracker.
BlocksAreUsable ==
  \A b \in blocks :
    /\ b.ptr % b.layout.align = 0
    /\ \E buffer \in pool : Footprint(b) \subseteq Bytes(buffer.at, buffer.size)
    /\ \A c \in blocks \ {b} : Footprint(b) \cap Footprint(c) = {}

\* Whatever the owners write to their blocks, dealloc gives the pool exactly the buffer
\* that alloc took: there are as many buffers as blocks, each around its block.  An
\* error of free_pool would be ignored, and leave a buffer that nobody has.
OneBufferPerBlock ==
  /\ state = "running"
  /\ \A buffer \in pool :
       Cardinality({b \in blocks : Footprint(b) \subseteq Bytes(buffer.at, buffer.size)}) = 1
  /\ Cardinality(pool) = Cardinality(blocks)

=============================================================================
