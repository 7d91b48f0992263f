# A TLA+ model of mu_rust_helpers

mu_rust_helpers is a set of Rust crates that wrap the UEFI firmware interface:
boot services, runtime services, a mutex built on task priority levels, a
decompressor, and some small helpers. Most of it runs on one processor, in code
that event notification functions preempt, and calls a firmware whose state
changes between two calls. The modules here model the parts that keep state or
decide something across several steps; TLC checks them on small instances and
TLAPS proves the main results for all.

## 1. Inventory

| Part | Source | State it keeps | Operations | Module |
|---|---|---|---|---|
| TPL mutex, TPL guards | `tpl_mutex/src/tpl_mutex.rs`, `boot_services/src/tpl.rs` | lock flag; saved TPL in each guard | `lock`, `try_lock`, `raise_tpl_guarded`, drop of a guard | `TplMutex`, `ExclusiveLock` |
| Events | `boot_services.rs`, `event.rs`, `c_ptr.rs` | the context behind each event's pointer | `create_event`, `create_event_ex`, `close_event`, `signal_event`, `check_event`, `wait_for_event`, `set_timer`, `register_protocol_notify` | `Events` |
| Examples | `examples/` | a mutex in a context; a registration in a context | the two programs | `Events` |
| Service table pointers | `boot_services.rs`, `runtime_services.rs` | `AtomicPtr` to the firmware's table | `new`, `new_uninit`, `initialize`, the check at the head of every method | `ServiceTable` |
| Variable access | `runtime_services.rs` | the buffer and `first_attempt` of a call | `get_variable`, `get_variable_size_and_attributes`, `set_variable`, `query_variable_info` | `VariableAccess` |
| Variable name iterator | `variable_services.rs`, `runtime_services.rs` | two name buffers, `finished` | `new_from_first`, `new_from_variable`, `advance`, `get` | `VariableNames` |
| Huffman tables | `uefi_decompress/src/lib.rs` | `c_table`, `pt_table`, `left`, `right`, `c_len`, `pt_len`, `src_index` | `build_huffman_table`, the lookups; `read_pt_len`, `read_c_len`, `decode_position` | `HuffmanTable`, `CodeLengths`, `CanonicalCode` |
| Decompression loop | `uefi_decompress/src/lib.rs` | `dst`, `dst_idx`, `remaining_block_size` | `decompress_into_with_algo`, `CodeIterator::next` | `Decompress` |
| Pool buffers | `boot_services/src/boxed.rs`, `boot_services.rs` | a box's pointer and length | `new`, `from_raw`, `into_raw`, `leak`, drop, `locate_handle`, `get_memory_map` | `BootPool` |
| Image services | `boot_services.rs` | exit data in a box | `load_image`, `start_image`, `unload_image`, `exit`, `exit_boot_services` | `BootPool` |
| Protocol interfaces, configuration tables | `boot_services.rs`, `c_ptr.rs`, `protocol_handler.rs` | keys (`PtrMetadata`), references given out | install, uninstall and reinstall, with interface or marker; `handle_protocol`, `open_protocol`, `close_protocol`, `locate_protocol`; `install_configuration_table` | `Protocols` |
| Global allocator | `global_allocator.rs` | a tracker pointer behind each over-aligned block | `alloc`, `dealloc` | `GlobalAllocator` |
| Pass-through services, type declarations, performance timer, GUID and name macros | | none | one firmware call or one computation each | not modelled |

How the parts interact. Every service goes through the table pointer. A
`TplMutex` calls `raise_tpl` and `restore_tpl`; `restore_tpl` runs the
notification functions that were held off, and these may use any other part,
the same mutex included, usually through the context of their event.
`locate_handle` and `get_memory_map` allocate with `allocate_pool` and return a
`BootServicesBox`, whose drop frees the buffer; `exit_boot_services` needs the
key of the map. The iterator of variable names is one caller of the runtime
services among others. `decompress_into_with_algo` pulls symbols from
`CodeIterator`, which reads code lengths and builds its tables from them.

What is hard here: a callback may run between any two steps at a lower level
(TPL mutex, event contexts, table pointer); the firmware's state changes between
a call that tells a size and the call that uses it (variables, names, handles,
memory map); a step of several fails after others have happened (uninstall, the
second call of two, `advance`, `start_image`); ownership goes to the firmware as
a bare pointer and comes back by convention (contexts, interfaces, exit data,
trackers); buffers and tables are reused with what an earlier use left in them
(names, Huffman tables, length arrays); counters wrap (code space, block size,
unary lengths). `PROJECT.json` lists these hazards with their lines and the
properties for them.

## 2. Modules

Each module is one component: its state as variables, an action per operation or
per step where other code can come in between, mutants next to the definitions
they change. `MC*.tla` give the constants their values for TLC, and `*Proofs.tla`
hold the theorems: those of `Events` are at the end of `TplMutexProofs`, whose
invariants they carry over; those of `ServiceTable` are in `BootPoolProofs`, those of
`GlobalAllocator` in `ProtocolsProofs` and those of `VariableNames` in
`VariableAccessProofs`, which is why these modules name their specifications
`ServicesSpec`, `AllocatorSpec` and `NamesSpec`. Variables marked *history* record what the properties speak
of and guard nothing.

**TplMutex.** One processor runs a stack of activations (`frames`). A signaled
callback whose level is above the TPL is dispatched before any other step.
`try_lock` is two actions, `TryLock` (compare_exchange) and `RaiseTpl`; the
guard's drop is two, `RestoreTpl` and `Unlock`; a callback may run in between.
`LockPanics` is `lock()` on a set flag. A failing `try_lock` changes nothing. The
caller's duty not to raise to a lower level is a guard of the actions. `Spec` drops
guards in any order (Rust allows it with `mem::drop`); the history variable `scoped`
tells whether they were dropped in scope order so far, and the properties about the
TPL's value are stated under it.
A callback is not entered again while it is active: its own level is not above the
TPL it runs at. Firmware (signal, dispatch, return) is external.

**ExclusiveLock** is the abstract specification: a set of holders per mutex, one at
most, entered only when empty and left only by its member. `ImplementsLock` maps
`holders` to the tasks between their compare_exchange and their store(false).

**Events** extends `TplMutex`, whose tasks become the main program and the notify
functions of events: an event is queued by a signal, a group, a timer, a check or an
installed protocol, according to its type, and dispatched by `TplMutex`'s rule. The
context's life follows `c_ptr.rs`: a `Box` is given away by `into_ptr` and dropped by
the notification that got it, a reference lives until the main program returns.
`+= 1` through `DerefMut` is a read and a write through one guard: what was read is kept
with its mutex, as a task may hold several. The registration of
`event_when_interface_installed.rs` is two steps, with notifications in between.

**ServiceTable.** Both services' pointers and concurrent callers. `initialize` is a
load (`InitializeChecks`) and a store (`InitializeStores`). A method panics on a null
pointer or works on the table it finds, which *history* keeps (`seen`).

**VariableAccess.** One variable, rewritten at any time by a preempting
`set_variable`; `get_variable` is a loop of firmware calls, each one action.
`debug_assert!` panics in a debug build only, so the build is a variable that
`Init` chooses. Data are sequences, because the properties are about the bytes
after the data.

**VariableNames.** The two buffers of the iterator are pairs of the name they spell
and their length. The firmware lists names in a fixed order, answers NOT_FOUND or
INVALID_PARAMETER to a name that is not there, and may write over a buffer it finds
too small.

**CanonicalCode** is shared by the next two modules: what a canonical code is
(complete, start of each symbol's range), independent of how the program finds it.
**Words** has the powers of two.

**HuffmanTable.** `build_huffman_table` as the code runs it: the start of each code
length, the table fill, and the tree walk node by node (`Descend`, `SetLeaf`), for
the three sets of a block in turn, over two blocks that share the arrays. Widths are
constants. `Root`, `Child` and `Lookup` are the decoding walk; the reference is
`CanonicalCode`. `built` has the sets whose lookup is defined: a set leaves it when its
table is overwritten, and all do when a code that is not complete is built.

**CodeLengths.** The reading of a block's head and first symbol, a field per action,
from a sequence of bits with `src_index`: sizes, lengths in three bits or in unary,
the extra field, runs of zeros, the peek of a table's width before a symbol, and the
value bits of a position. The encoder at the end of the module is the reference: it
follows the prose of the source's comments (the extra field comes after the third length;
their worked example has it after the second, see below), takes a plan (the lengths of the three sets, a symbol
and a position) and chains the pieces of each array by a recursive function. A plan can be
encoded if its codes are complete or of one symbol, if its array sizes fit their fields
(a `p_bit` of 4 holds fewer than MAXNP lengths), and if every symbol used has a code.
A symbol of a complete code is read as `HuffmanTable` shows; what a table of another
code returns is left open.

**Decompress.** The output loop. What the source holds is chosen when it is read:
any block size, any symbol, or an error. `overflow_checks` tells a debug build.

**BootPool.** Boxes, the functions that allocate and fill a buffer (`locate_handle`,
`get_memory_map`: two calls; `locate_handle_buffer` and the like: one), over a pool, a
handle database and a memory map that change in between; an image that ends by `exit`
with a box of data, which may be the one `start_image` made of its own variable; and `exit_boot_services`, after which drops have no effect.

**Protocols.** Who may touch an interface: the program (`owners`: how many boxes or
mutable references it has of it), the firmware (`db`, `tables`), nobody (`freed`); how
many keys the program has of it (`keys`); and who has a reference to it (`refs`, `opened`).
An object is an address. The derived `Copy` of `PtrMetadata` does not reach the keys of a
`Box` or a mutable reference, but `metadata` makes as many as the owner likes
(`MakeKey`), they are dropped without effect (`DropKey`), and after the interface is
dropped they are keys of the next one at its address (`NewInterface`). `Unreferenced` is what the Safety
sections of `handle_protocol` and `locate_protocol` demand of callers: no second
reference while the first is in use. Two more things are left to the program: it does not
install what it only has a lookup's reference to, or make a key of it, and does not
overwrite the public `ptr_value`. Markers have no interface.

**GlobalAllocator.** The pool as an array of bytes; `alloc` places a block in a
buffer and the tracker behind it, owners overwrite their blocks, `dealloc` reads the
tracker back.

`Events` composes the mutex with its users. The other components meet only through the
firmware's interface, and each module includes the firmware's side that its
component sees.

## 3. Runs

| Run | Shows |
|---|---|
| `tpl_mutex` | one guard per mutex and every set flag owned, in whatever order guards are dropped; the abstract lock is implemented; in scope order the TPL covers every guard, and contention arises only inside the two-step windows; notifications held off are served (liveness) |
| `events` | a running notification's context is alive, if the first notification that gets a box closes its event, and a reference as long as the main program has not returned; an increment through a guard is not lost to a notification between its read and its write; the registration is missed only if it was made below the event's TPL |
| `service_table` | unless two `initialize` overlapped, all methods work on one table and `initialize` stores for one caller only |
| `variable_access` | data and attributes of one state of the variable; bytes follow the data only after a generous hint or a shrink; two calls are made at most, and suffice unless the variable grew |
| `variable_names` | ascending, complete, position kept, name within its buffer; the iteration ends (liveness) |
| `huffman_table` | decoding is canonical whatever the arrays held, complete codes are accepted, nodes of the sets are disjoint |
| `code_lengths` | what was encoded is read back to the bit whatever the arrays held; a cut source is refused; a damaged one never leads out of the arrays |
| `decompress` | `dst` is the expansion of the symbols; Ok means all; in bounds unless `dst` is empty; the call ends (liveness) |
| `boot_pool` | each box has its own buffer, the ways to leak one, located handles exact |
| `pool_map` (violation) | the memory map returned has `descriptor_size` descriptors, whatever number the firmware wrote |
| `protocols` | whatever keys there are: one owner of an interface at most, and none while it is installed; what a driver has open stays alive; the ways to strand an interface |
| `allocator` | blocks aligned, apart and inside their buffers; `dealloc` frees the buffer `alloc` took |

### What the models show of the code

`pool_map` is a defect: `PROJECT.json` quotes it under "findings".

Two more disagreements have no run of their own. The comment before `read_pt_len`
(`lib.rs:168-173`) contradicts itself: its prose, like the code (line 217), has the extra
field after the third length; its worked example, `[2,9,0,0,5,7]` as
`010 111110 10 101 1110`, has it after the second. The code would read that stream as 2, 9,
5, 0, 7, 0; encoder and `ReadsBack` follow prose and code. And the Safety section of
`handle_protocol` asks too little of its caller ("Make sure to not create multiple mutable
reference of interface."): `uninstall_protocol_interface` and
`reinstall_protocol_interface` are safe and give the interface back to its owner while
another caller's `&'static mut` is in use; in the model `refs` then has an interface
that is owned or dropped.

The passing properties carry conditions, and each is there because the code behaves
differently without it:

- `ContentionOnlyInWindows`: `lock()` panics in a notification function that runs
  between compare_exchange and `raise_tpl` (`tpl_mutex.rs:51`), when there is no guard
  yet, or inside `restore_tpl` (line 59), when the guard is already being dropped.
- `ContextAlive`: nothing ties a boxed context to one notification. A second one gets
  freed memory. `RegistrationShielded`: the example registers at its caller's TPL, so it
  relies on a caller at or above CALLBACK, or on no interface installed in between.
- `InitializeOnceIfSerial`, `OneTableSeen`: two overlapping `initialize` can both store;
  the second store wins, and a method that ran in between used the first table. (One that is
  refused returns normally in a release build of the runtime services.)
- `LongOnlyIfHintedOrShrunk`: the vector `get_variable` returns is not truncated to the
  size the firmware reports. The name buffers of the iterator only grow as well
  (`runtime_services.rs:396`), so a short name may be followed by old characters.
- `OutOfBoundsOnlyIfEmpty`: an empty `dst` with a source that yields a literal panics
  (`lib.rs:47`); with overflow checks so do a block of no symbols (637) and a unary
  length of more ones than a u8 counts (206).
- `ReadsBack`: a symbol within the last 12 bits of the source may be refused.
- `NothingElseLeaks`: the buffer of `locate_handle` and `get_memory_map` is lost when the
  second firmware call fails, and the exit data of an image always is.
- `BoxOwnsBuffer`: `into_raw` returns a pointer it has freed, and the box `start_image`
  returns with an error is made of the address of a local variable.
- `StrandedOnlyIfLost`: a refused uninstall or reinstall, a key that is dropped, a table
  that is replaced and an uninstall by other code each leave an interface that nobody can
  take back.
- `DriverReferencesLive` is about BY_DRIVER only: of other references the firmware keeps no
  record that would refuse an uninstall.

### Bounds

- TPL: three levels, a callback on each of the upper two and a mutex on each of the
  upper two, up to two guards per activation. Two nested preemptions, a
  window in each of two tasks, and guards dropped in the wrong order all occur.
- Events: as in the examples, APPLICATION and CALLBACK, one mutex, one notify function
  that counts and one that waits for a protocol. The first has a reference and a timer, a
  box, or nothing and an event that is waited for; the second has a box. Two guards per
  activation: a `TplGuard` dropped before a younger `TplMutexGuard` lowers the TPL while the
  mutex is held, and a notification function runs between a read and its write. With
  `MaxUpdates` = 1 an increment begins only if none is done, which is where one could be lost.
- ServiceTable: three callers, two tables: a race of two and a third that sees it.
- Variables: lengths 1 to 3, hints 0, 1, 2 and 4: below, at and above the size;
  the variable changes without limit. `CallsCap` only bounds the history counter,
  above the two calls the property is about.
- Names: three names whose lengths go down and up, three creations or deletions,
  one device error: enough to grow a buffer, reuse it for a shorter name, lose the
  position, and fail on the second try.
- Huffman: codes of up to five bits, tables of three and two bits: C's trees are two
  levels deep, and T's and P's one. The first block leaves a flat, a deep or a sparse
  code in the arrays; the second tries all 1245 complete codes of six symbols.
- CodeLengths: sets of 5, 10 and 6 symbols. Every complete code of T of up to 4 bits,
  every one of C and P of up to 2, all kinds of runs of zeros (none, single, short,
  split, long), the escape to unary, sets of one symbol; four plans are cut at every
  bit, changed at every bit and filled with ones from every bit on. A u8 has 8 values.
- Decompress: `dst` of 0, 1, 5 and 7 bytes, strings of 3 and 4 over distances 1 to 3,
  blocks of 0, 1 and 3: strings that overlap themselves, are cut at the end and span
  blocks. A usize has 16 values, more than a wrapped counter can use up in `dst`.
- Pool: two buffers, up to two handles and two descriptors, `MaxKey` changes of the map.
  `Slack` is 2 and a descriptor 3, so that the slack can be too little.
- Protocols: three interfaces, two handles, two protocols, a marker and a table; up to
  `MaxKeys` = 2 keys are made of an interface, beside those that installing returns: a
  second key in use, a stale one and one of a reused address all occur.
- Allocator: words of two bytes and 22 bytes of memory, layouts below, at, two and four
  times a word's alignment with sizes that are and are not multiples of it, and one too
  large to be extended: as many blocks as fit, at every placement.

CHECK_DEADLOCK is off where the modelled call ends, every caller may have panicked,
or the program has returned or left boot services. In `tpl_mutex`, `code_lengths`,
`protocols` and `allocator` it is on; `Halted` and `Returned` are the ends the code has.

### Fairness

- `TplMutex`: "Code executes to completion": calls in progress end (weak fairness),
  the youngest guard is dropped in the end, a callback returns (strong, as both are
  disabled while others preempt). Nothing is assumed about signals.
- `VariableNames`: the caller's loop goes on, as callbacks return to it, and the consumer
  goes on calling `advance`.
- `Decompress`: the one thread takes a step when it can.

The other modules assume no fairness. That `get_variable` ends needs none:
`TwoCallsSuffice` bounds its loop.

## 4. Proofs

Theorems hold for every value of the constants under the `ASSUME` of the module. What the
assumptions add to types: levels are numbers; names have distinct ranks in the firmware's order; a `Data` byte is no
address; alignments are powers of two, of which `GlobalAllocator` only uses that one of
alignment and word divides the other; the registering functions create their events with
NOTIFY_SIGNAL and without TIMER, as `event_when_interface_installed.rs:36` does. For the
decompressor the assumptions are what the values of the source's constants give: a table
has an entry for every symbol and is narrower than the longest code; the trees of T and P
together with their symbols have no more nodes than C has symbols (`2 * 31 - 2 <= 510`);
an array size of any set is below `2^9`; long runs of zeros start one above the end of the
short ones (`LongRun = ShortRun + 2^RunBits + 1`: 20 = 3 + 16 + 1); the extra field cannot
lead out of `pt_len`; a `u8` holds the longest code length. No assumption is made about
what is in the source or the arrays.

- **TplMutexProofs, claims**: `TypeCorrect`, `Exclusion`, `FlagOwnership`,
  `LockRefinement`. Mutual exclusion is not inductive: it needs that a task which has won
  the flag but not built its guard, or restored the TPL but not cleared the flag, counts
  as a holder. `ClaimInv` says that a set flag has exactly one claim (a task's step in
  progress or one guard), and each action moves, makes or ends one claim. The TPL plays no
  part in it: exclusion rests on the flag alone, and so holds for any order of drops. The
  refinement rests on the same lemma: a step that makes a claim is `Acquire` of the
  abstract lock, one that ends it is `Release`, and all others leave the holders alone.
- **levels**: `GuardsHoldOff`, `Contention`. That the TPL covers every guard is not
  inductive, because dropping a guard sets the TPL to a value saved earlier. `StackNests`
  says what the saved values are in scope order: each guard saved the level of the one
  before it, the oldest the level its activation started at, and each activation the TPL
  it preempted, so that the levels rise through guards and activations up to the TPL.
  `WindowLevels` adds that a task between compare_exchange and `raise_tpl` is not above
  the level it is about to raise to.
- **activations**: `NotReentrant`, in any order of drops. Out of order the TPL may fall
  below a live guard's level, but no saved value is below the level of the task that saved
  it (`GuardsAboveHome`), so the tasks' own levels rise along the stack (`StackRises`),
  and the one dispatched is above them all.
- **events**: `EventsTyped`, `UpdatesKept`, `ContextsAlive`, `RegistrationSafe`,
  `EventsExclude`. Each step of `Events` is a step of `TplMutex` or changes only the queue
  (`LockPart`), which carries the claims and the activations over. `UpdatesKept` needs
  `Updating`: between read and write the task holds the guard of the mutex it read, so
  that by exclusion the value is still the one it read. `ContextsAlive` needs that an
  owned context is given away exactly while its event or a notification is there, and
  `RegistrationSafe` that the main program is at the bottom of the stack at a TPL below
  everyone's.
- **BootPoolProofs, service tables**: `TableStays`, `SerialInitialize`. The invariant says that
  a caller between load and store is recorded in `met` if another store fell there, and that
  without such a record the table seen is the one there is.
- **VariableAccessProofs**: `Snapshot`, `Length`, `TwoCalls`. The invariant ties the
  buffer's length to the hint or to the size the first call told, and `calls` to
  `first_attempt`.
- **VariableAccessProofs, names**: `Ascending`, `Complete`, `ErrorsKeepPosition`,
  `BuffersHoldNames`. At each firmware call `next` spells the position, in a buffer no
  shorter than `current`'s (`CallsFromCurrent`), and both buffers hold their names; `NoneSkipped` is
  `CompleteAtEnd` for the iteration in progress: every lasting variable up to the
  position has been visited.
- **DecompressProofs**: `TypeCorrect`, `OkIsComplete`, `IndexInBounds`. The invariant says
  that everything before `dst_idx` is written, that `dst` is not full at the head of the
  loop unless it is empty, and that the copying loop reads behind `dst_idx`.
  `SymbolsWritten` says what is written: there are positions, one after the other as long
  as the symbols are, at which `dst` has each literal and, for a string, each byte equal to
  the one `offset + 1` before it; in the copying loop that needs that `src` stays
  `offset + 1` behind `dst_idx`. `ExpansionWritten` compares with the recursive reference:
  its unfolding is proved first, then that what is written is the expansion of the symbols
  so far, cut off at `dst_idx` (`HoldsExpansion`).
- **CanonicalCodeProofs**: sums over sets of symbols, quotients and powers of two; the
  codes of a complete set of lengths, in order of length and symbol, tile the code space
  without gap or overlap, so that every bit string starts with exactly one code.
- **HuffmanTableProofs**: `Types`, `CanonicalDecoding`, `TreesDisjoint`. `Types` needs what
  the loops are at and where the pointer may point (`TypeInv`), for arrays of lengths that
  need not be a code's. Decoding needs to know what a half-built tree is. A place is a
  beginning of a code (its length and its value); `TreeOf` says that there is a map `pos`
  from the nodes taken so far to different inner places, each one's parent among them, and
  that every cell of the table and of `left` and `right` holds the node of its place, the
  symbol whose code ends there, or zero. `Building` adds that `start` has the next code of
  each length and that the pointer is on the way down the code of `char`; `BuiltOk` is what
  is left of it for a finished set. The node numbers stay in range because there are fewer
  inner places than symbols: a complete code's inner places are told apart by the end of
  their left half, which is where the code of one symbol but the first starts. With that a
  set's nodes are its own, whatever was built before, and a lookup follows `pos` down to
  the symbol (`LookupIs`).
- **CodeLengthsProofs**: `Types`, `ReadBack`, `TruncationRefused`. `Types` needs where each
  field may be read (`Placed`) and holds for any bits. For the other two, `Left` is what is
  left of the encoding at each field, and `Following` says that it is what stands from
  `src_index` on, that the lengths before `idx` are those encoded, and that the sets read
  earlier are still as encoded when they are used. A field is read back because the bits of
  a number spell it (`BitsValue`), a symbol because its code is the only one the bits start
  with (`WordRead`). In a cut source a symbol may begin before the end: if the symbol
  looked up is not the one encoded, its code must go beyond the end too, or it would be a
  beginning of the other's. A refusal of a whole source can only be that of the peek before
  a symbol, as all fixed fields are there (`FieldThere`). At the end nothing is left, so
  `src_index` is the length of the encoding, which a cut source does not have.
- **BootPoolProofs**: `TypeCorrect`, `LeaksKnown`, `BoxesOwn`, `LocateExact`. A buffer has
  one owner: a box, the call that is filling it, an image, or the list of those given
  up. The invariant adds that a call past its first step has its buffer, of the size it
  asked for, and that buffers given up stay allocated.
- **ProtocolsProofs, allocator**: `BlocksUsable`, `BuffersMatch`. All bytes of a tracker hold
  the address of a buffer in the pool, that buffer has the size the layout gives, and
  rounding its address up gives the block (`Blocks`). With the arithmetic of
  `Layout::extend` and `align_offset`, block and tracker are inside the buffer and apart
  wherever the pool puts it; buffers do not overlap, so no write to another block reaches
  the tracker.
- **ProtocolsProofs, interfaces**: `NeverSharedWithFirmware`, `KeysAreSound`, `DriversAreSafe`,
  `OnlyLossesStrand`. Ownership does not follow from keys, of which there may be any number:
  it rests on the firmware's comparison of the pointer, and so on an interface being owned
  once, dropped, installed at one place or a table, and never two of these (`InstalledNotHeld`,
  `OneOwner`, `TableOnce`). A key can then give out an owner only for an interface that has
  none, and what a driver has open is installed (`OpenIsInstalled`).

Facts about recursive functions and sums are proved without the library's induction
theorems: from the well-foundedness of `<` on the naturals a set of counterexamples has a
least one (`NatLeast`, `LeastSet`), and one unfolding of the definition contradicts it.

TLC checked the inductive invariants on the instances of the runs (that of `CodeLengths` on
the sample plans), except for those that say there is a map or a sequence of positions
(`SymbolsWritten`, `TreeOf`), which it cannot enumerate.

Only model-checked: the liveness properties `HeldOffIsServed`, `IterationEnds` and
`Terminates`, as the prover has no fairness and no ENABLED, and `MapIsExact`, which does
not hold.

Two limits show in what is proved. `OwnNodesOnly` is stated for complete codes: the check
of `build_huffman_table` counts the code space modulo its size, so lengths that fill it
twice are accepted, and their tree may take nodes of other sets; the comment that the
portions of `left` and `right` are disjoint holds for complete codes. And `ReadsBack` is
about plans whose only symbols belong to their set: the field of an only symbol is as wide
as the array size, and holds others.

## 5. Not modelled

Pass-through services (pages, controllers, device paths, stall, watchdog, memory
copies, CRC, monotonic counter: one firmware call and its status), constants and
newtypes, and GUID and name macros have no state. The performance timer reads hardware
counters and divides by a frequency in floating point; there is no state to explore and
the values come from the processor. `open_protocol` with TEST_PROTOCOL leaves no
interface, so that its `unwrap` panics (`boot_services.rs:497`); the attribute is left
out of `Protocols`. The memory orderings of the atomics are taken as sequentially
consistent: the boot processor is the only one that runs this code in the uses the
crates describe. Addresses, alignment and the contents of payloads appear only where a
property is about them.

## 6. Plan

Modelled, in this order: `TplMutex`, `ServiceTable`, `VariableAccess`, `VariableNames`,
`HuffmanTable`, `Decompress`, `BootPool`, `Protocols`; then `ExclusiveLock`, `Events`,
`CodeLengths`, `GlobalAllocator`, images in `BootPool`, references and tables in
`Protocols`.

Proved: every safety and action property of every passing run, see section 4. Left to TLC
are the liveness properties. What would come next is a composition of `CodeLengths`,
`HuffmanTable` and `Decompress` into one reader of a whole stream, of which the three
modules show the parts.
