------------------------------ MODULE BootPool ------------------------------
(***************************************************************************)
(* Pool memory handed out by boot services: BootServicesBox, the two calls  *)
(* that fill a pool buffer, locate_handle and get_memory_map, and the exit  *)
(* data that images hand over in a box.                                     *)
(*                                                                          *)
(* Both ask the firmware for a size, allocate a buffer of it and ask again  *)
(* with the buffer.  In between other code may install and remove handles,  *)
(* and any allocation may change the memory map, the one for the buffer     *)
(* included.  The firmware's side is external.                              *)
(***************************************************************************)
EXTENDS Naturals, FiniteSets, Functions

CONSTANTS
  Addresses,       \* addresses of pool buffers
  Stack,           \* the address of start_image's local variable exit_data
  HandleSize,      \* size_of::<efi::Handle>
  DescriptorSize,  \* the size of a memory descriptor, as the firmware tells it
  Slack,           \* 0x400: what get_memory_map adds to the size
  MaxItems,        \* bound: handles in the database, descriptors in the map
  MaxKey           \* bound: changes of the memory map

ASSUME PoolAssumption ==
  /\ HandleSize \in Nat \ {0} /\ DescriptorSize \in Nat \ {0} /\ Slack \in Nat
  /\ MaxItems \in Nat /\ MaxKey \in Nat /\ Stack \notin Addresses

\* What a box holds: handles, memory descriptors, another list, or one value.
Kinds == {"handles", "map", "list", "value"}

VARIABLES
  pool,      \* size of each allocated buffer (firmware)
  items,     \* number of handles, and of memory descriptors (firmware)
  key,       \* the memory map's key (firmware)
  call,      \* the call in progress
  boxes,     \* BootServicesBoxes alive
  image,     \* the image the program loads: none, loaded, running, returning
  exitData,  \* the buffer with its exit data, if any
  exited,    \* exit_boot_services has succeeded
  raw,       \* pointers that into_raw returned
  reused,    \* history: a box was made of such a pointer
  forgotten, \* history: buffers of boxes given to leak
  lost       \* history: buffers given up in an error path, and exit data

history == <<raw, reused, forgotten, lost>>
imageVars == <<image, exitData, exited>>
vars == <<pool, items, key, call, boxes, imageVars, history>>

\* A box.  found is history: what the firmware held when it filled the buffer.
Box == [kind : Kinds, addr : Addresses \cup {Stack}, len : Nat, map_key : Nat, found : Nat]

BoxOf(kind, a) == [kind |-> kind, addr |-> a, len |-> 1, map_key |-> 0, found |-> 1]

Idle == [step |-> "idle", kind |-> "value", size |-> 0, addr |-> {}]

TypeOK ==
  /\ DOMAIN pool \subseteq Addresses /\ \A a \in DOMAIN pool : pool[a] \in Nat
  /\ items \in [{"handles", "map"} -> 0..MaxItems]
  /\ key \in 0..MaxKey
  /\ call \in [step : {"idle", "sized", "allocated"}, kind : Kinds, size : Nat,
               addr : SUBSET Addresses]
  /\ call.step = "allocated" <=> call.addr # {}
  /\ boxes \subseteq Box
  /\ image \in {"none", "loaded", "running", "returning"}
  /\ exitData \subseteq Addresses /\ exited \in BOOLEAN
  /\ raw \subseteq Addresses /\ reused \in BOOLEAN
  /\ forgotten \subseteq Addresses /\ lost \subseteq Addresses

Init ==
  /\ pool = [a \in {} |-> 0]
  /\ items \in [{"handles", "map"} -> 0..MaxItems]
  /\ key = 0
  /\ call = Idle
  /\ boxes = {} /\ image = "none" /\ exitData = {} /\ exited = FALSE
  /\ raw = {} /\ reused = FALSE /\ forgotten = {} /\ lost = {}

-----------------------------------------------------------------------------
(* Firmware.                                                               *)

\* Handles are installed and removed by other code.
HandlesChange ==
  /\ \E n \in 0..MaxItems : items' = [items EXCEPT !["handles"] = n]
  /\ UNCHANGED <<pool, key, call, boxes, imageVars, history>>

\* AllocatePool and FreePool may change the memory map, and with it its key.
MapChanges ==
  \/ UNCHANGED <<key, items>>
  \/ /\ key < MaxKey
     /\ key' = key + 1
     /\ \E n \in 0..MaxItems : items' = [items EXCEPT !["map"] = n]

AllocatePool(a, size) ==
  /\ a \notin DOMAIN pool
  /\ pool' = [b \in DOMAIN pool \cup {a} |-> IF b = a THEN size ELSE pool[b]]
  /\ MapChanges

\* A pointer that is no buffer's is refused; drop does not look at the status.
FreePool(a) ==
  IF a \in DOMAIN pool
  THEN pool' = Restrict(pool, DOMAIN pool \ {a}) /\ MapChanges
  ELSE UNCHANGED <<pool, items, key>>

\* Bytes the answer to a call of this kind takes.
ItemSize == [handles |-> HandleSize, map |-> DescriptorSize]
Needed(kind) == items[kind] * ItemSize[kind]

-----------------------------------------------------------------------------
(* locate_handle and get_memory_map                                        *)

\* The size that is asked for first.  The status is not looked at, except that
\* get_memory_map adds room for the descriptors its own allocation may need.
Room(kind) == IF kind = "map" /\ items["map"] > 0 THEN Slack ELSE 0

AskSize(kind) ==
  /\ call = Idle
  /\ call' = [step |-> "sized", kind |-> kind, size |-> Needed(kind) + Room(kind), addr |-> {}]
  /\ UNCHANGED <<pool, items, key, boxes, imageVars, history>>

\* Mutant: the pointer to the buffer is lost.
AllocateBufferUnkept(a) ==
  /\ call.step = "sized"
  /\ AllocatePool(a, call.size)
  /\ call' = [call EXCEPT !.step = "allocated"]
  /\ UNCHANGED <<boxes, imageVars, history>>

AllocateBuffer(a) ==
  /\ call.step = "sized"
  /\ AllocatePool(a, call.size)
  /\ call' = [call EXCEPT !.step = "allocated", !.addr = {a}]
  /\ UNCHANGED <<boxes, imageVars, history>>

AllocateBufferFails ==
  /\ call.step = "sized"
  /\ call' = Idle
  /\ UNCHANGED <<pool, items, key, boxes, imageVars, history>>

Filled(a, len, map_key) ==
  [kind |-> call.kind, addr |-> a, len |-> len, map_key |-> map_key,
   found |-> items[call.kind]]

\* The second call succeeds.
Fills(a) ==
  /\ call.step = "allocated" /\ a \in call.addr
  /\ Needed(call.kind) <= call.size
  /\ call.kind = "handles" => items["handles"] > 0
  /\ call' = Idle
  /\ UNCHANGED <<pool, items, key, imageVars, history>>

\* Mutant: the length is that of the buffer, not of what was written to it.
LocateHandleWholeBuffer(a) ==
  /\ call.kind = "handles" /\ Fills(a)
  /\ boxes' = boxes \cup {Filled(a, call.size \div HandleSize, 0)}

\* buffer_size is what the second call left in it.
LocateHandleFills(a) ==
  /\ call.kind = "handles" /\ Fills(a)
  /\ boxes' = boxes \cup {Filled(a, Needed("handles") \div HandleSize, 0)}

\* descriptor_size is given for the number of descriptors.
GetMemoryMapFills(a) ==
  /\ call.kind = "map" /\ Fills(a)
  /\ boxes' = boxes \cup {Filled(a, DescriptorSize, key)}

\* The second call fails: the buffer is too small by now, there are no handles, or
\* the firmware reports another error.
FillFails ==
  /\ call.step = "allocated"
  /\ lost' = lost \cup call.addr
  /\ call' = Idle
  /\ UNCHANGED <<pool, items, key, boxes, imageVars, raw, reused, forgotten>>

-----------------------------------------------------------------------------
(* BootServicesBox                                                         *)

\* BootServicesBox::new.  Without memory it panics, and nothing has changed.
NewBox(a) ==
  /\ AllocatePool(a, 1)
  /\ boxes' = boxes \cup {BoxOf("value", a)}
  /\ UNCHANGED <<call, imageVars, history>>

\* locate_handle_buffer: the firmware allocates the buffer and fills it in one call.
LocateHandleBuffer(a) ==
  /\ items["handles"] > 0
  /\ AllocatePool(a, Needed("handles"))
  /\ boxes' = boxes \cup {[kind |-> "handles", addr |-> a, len |-> items["handles"], map_key |-> 0,
                           found |-> items["handles"]]}
  /\ UNCHANGED <<call, imageVars, history>>

\* open_protocol_information and protocols_per_handle: likewise, a list of one entry.
OpenProtocolInformation(a) ==
  /\ AllocatePool(a, 1)
  /\ boxes' = boxes \cup {BoxOf("list", a)}
  /\ UNCHANGED <<call, imageVars, history>>

ProtocolsPerHandle(a) == OpenProtocolInformation(a)

\* Mutant: drop does not free the buffer.
DropForgets(b) ==
  /\ boxes' = boxes \ {b}
  /\ UNCHANGED <<pool, items, key, call, imageVars, history>>

\* drop, at the end of a box's scope.
Drop(b) ==
  /\ boxes' = boxes \ {b}
  /\ FreePool(b.addr)
  /\ UNCHANGED <<call, imageVars, history>>

\* Mutant: the box is dropped after all.
LeakDrops(b) ==
  /\ b.kind = "value"
  /\ boxes' = boxes \ {b}
  /\ forgotten' = forgotten \cup {b.addr}
  /\ FreePool(b.addr)
  /\ UNCHANGED <<call, imageVars, raw, reused, lost>>

\* leak, which only boxes of one value have: mem::forget keeps drop from running.
Leak(b) ==
  /\ b.kind = "value"
  /\ boxes' = boxes \ {b}
  /\ forgotten' = forgotten \cup {b.addr}
  /\ UNCHANGED <<pool, items, key, call, imageVars, raw, reused, lost>>

\* into_raw and into_raw_mut, likewise: the box is dropped when they return its pointer.
IntoRaw(b) ==
  /\ b.kind = "value"
  /\ boxes' = boxes \ {b}
  /\ FreePool(b.addr)
  /\ raw' = raw \cup {b.addr}
  /\ UNCHANGED <<call, imageVars, reused, forgotten, lost>>

\* from_raw of such a pointer: a box of memory that is free.  What a program does with
\* it is undefined, and the model stops.
FromRaw(a) ==
  /\ a \in raw
  /\ raw' = raw \ {a}
  /\ reused' = TRUE
  /\ boxes' = boxes \cup {BoxOf("value", a)}
  /\ UNCHANGED <<pool, items, key, call, imageVars, forgotten, lost>>

-----------------------------------------------------------------------------
(* Images                                                                  *)

poolVars == <<pool, items, key, call>>

LoadImage ==
  /\ image = "none"
  /\ image' = "loaded"
  /\ UNCHANGED <<poolVars, boxes, exitData, exited, history>>

UnloadImage ==
  /\ image = "loaded"
  /\ image' = "none"
  /\ UNCHANGED <<poolVars, boxes, exitData, exited, history>>

\* start_image: the image runs until it returns or calls exit.
StartImage ==
  /\ image = "loaded"
  /\ image' = "running"
  /\ UNCHANGED <<poolVars, boxes, exitData, exited, history>>

\* exit with a box of exit data: control goes to the caller of start_image, so that the
\* box is not dropped, and the firmware passes its buffer on.  The box that start_image
\* makes of its own variable has the type exit takes too, and no buffer.
Exit(b) ==
  /\ image = "running" /\ b.kind = "list"
  /\ image' = "returning"
  /\ boxes' = boxes \ {b}
  /\ exitData' = {b.addr} \ {Stack}
  /\ UNCHANGED <<poolVars, exited, history>>

\* The firmware refuses: exit returns an error and drops the box.
ExitRefused(b) == b.kind = "list" /\ Drop(b)

\* start_image returns.  On an error it makes a box of the address of its own variable
\* exit_data, which is never null, and not of what the firmware stored there; the exit
\* data, if there is any, is dropped from view in either case.
StartImageReturns(status) ==
  /\ image \in {"running", "returning"}
  /\ image' = IF status = "error" THEN "none" ELSE "loaded"
  /\ boxes' = IF status = "error" THEN boxes \cup {BoxOf("list", Stack)} ELSE boxes
  /\ lost' = lost \cup exitData
  /\ exitData' = {}
  /\ UNCHANGED <<poolVars, exited, raw, reused, forgotten>>

\* exit_boot_services succeeds with the current key only.  Boxes that are still alive
\* then call a service that is gone when they are dropped (DropLate).
ExitBootServices(b) ==
  /\ b.kind = "map" /\ b.map_key = key
  /\ exited' = TRUE
  /\ UNCHANGED <<poolVars, boxes, image, exitData, history>>

DropLate(b) ==
  /\ boxes' = boxes \ {b}
  /\ UNCHANGED <<poolVars, imageVars, history>>

-----------------------------------------------------------------------------

BoxNext ==
  \/ \E a \in Addresses : NewBox(a) \/ LocateHandleBuffer(a) \/ FromRaw(a)
  \/ \E a \in Addresses : OpenProtocolInformation(a) \/ ProtocolsPerHandle(a)
  \/ \E b \in boxes : Drop(b) \/ Leak(b) \/ IntoRaw(b)

ImageNext ==
  \/ LoadImage \/ UnloadImage \/ StartImage
  \/ \E status \in {"success", "error"} : StartImageReturns(status)
  \/ \E b \in boxes : Exit(b) \/ ExitRefused(b) \/ ExitBootServices(b)

Next ==
  \/ /\ ~exited /\ ~reused
     /\ \/ HandlesChange
        \/ \E kind \in {"handles", "map"} : AskSize(kind)
        \/ \E a \in Addresses : AllocateBuffer(a) \/ LocateHandleFills(a) \/ GetMemoryMapFills(a)
        \/ AllocateBufferFails \/ FillFails
        \/ BoxNext
        \/ ImageNext
  \/ exited /\ \E b \in boxes : DropLate(b)

Spec == Init /\ [][Next]_vars

-----------------------------------------------------------------------------

Owned == {b.addr : b \in boxes} \ {Stack}

\* Every buffer is freed in the end: it belongs to a box whose drop will free it, to
\* a call in progress or an image that returns, or to one of the cases that give it up:
\* leak, a call whose second firmware call failed, exit data.
NothingElseLeaks ==
  ~reused /\ ~exited
    => DOMAIN pool \subseteq Owned \cup call.addr \cup exitData \cup forgotten \cup lost

\* No box is left without its buffer and no buffer has two boxes: what deref reads is
\* there, and drop frees it once.  (Code that gives into_raw's pointer back to
\* from_raw has no such promise: into_raw has freed the buffer.  Nor has the box that
\* start_image returns, which is of no buffer.)
BoxOwnsBuffer ==
  ~reused => /\ Owned \cup call.addr \cup exitData \cup forgotten \subseteq DOMAIN pool
             /\ \A a, b \in boxes : a.addr = b.addr => a = b
             /\ Owned \cap (call.addr \cup exitData \cup forgotten \cup lost) = {}
             /\ call.addr \cap (exitData \cup forgotten \cup lost) = {}

\* locate_handle returns exactly the handles its second call found, within the buffer
\* sized by the first, however the database changed in between.
LocatedIsExact ==
  \A b \in boxes : b.kind = "handles" =>
    b.len = b.found /\ (~reused => b.len * HandleSize <= pool[b.addr])

\* "Returns the current memory map.": the descriptors are those of the map.
MapIsExact == \A b \in boxes : b.kind = "map" => b.len = b.found

=============================================================================
