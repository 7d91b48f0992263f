--------------------------- MODULE BootPoolProofs ---------------------------
(***************************************************************************)
(* Who owns which pool buffer, and how much of it locate_handle gives out:  *)
(* proofs for every pool, every size of a handle and every bound.           *)
(***************************************************************************)
EXTENDS BootPool, ServiceTable, TLAPS

\* The only box of no buffer is the one start_image makes of its own variable.
StackBox == \A b \in boxes : b.addr = Stack => b = BoxOf("list", Stack)

TypeInv == TypeOK /\ StackBox

\* A call in progress has one buffer, of the size it asked for.
CallBuffer ==
  /\ \A a, b \in call.addr : a = b
  /\ \A a \in call.addr : pool[a] = call.size

\* Exit data waits for start_image to return and for nothing else.
ExitDataReturns == exitData # {} => image = "returning"

\* What was given up is still allocated: no later buffer is at the same address.
LostAllocated == ~reused => lost \subseteq DOMAIN pool

\* The inductive invariant is TypeInv /\ OwnerInv.
OwnerInv ==
  /\ CallBuffer
  /\ ExitDataReturns
  /\ LostAllocated
  /\ NothingElseLeaks
  /\ BoxOwnsBuffer
  /\ LocatedIsExact

-----------------------------------------------------------------------------
(* Types                                                                   *)

\* TypeInv in the parts that actions change together.
PoolTypes ==
  /\ DOMAIN pool \subseteq Addresses /\ \A a \in DOMAIN pool : pool[a] \in Nat
  /\ items \in [{"handles", "map"} -> 0..MaxItems]
  /\ key \in 0..MaxKey

CallTypes ==
  /\ call \in [step : {"idle", "sized", "allocated"}, kind : Kinds, size : Nat,
               addr : SUBSET Addresses]
  /\ call.step = "allocated" <=> call.addr # {}

BoxTypes == boxes \subseteq Box /\ StackBox

ImageTypes ==
  /\ image \in {"none", "loaded", "running", "returning"}
  /\ exitData \subseteq Addresses /\ exited \in BOOLEAN

HistoryTypes ==
  /\ raw \subseteq Addresses /\ reused \in BOOLEAN
  /\ forgotten \subseteq Addresses /\ lost \subseteq Addresses

\* TypeInv by groups of variables.
LEMMA TypeParts ==
  /\ TypeInv => PoolTypes /\ CallTypes /\ BoxTypes /\ ImageTypes /\ HistoryTypes
  /\ PoolTypes /\ CallTypes /\ BoxTypes /\ ImageTypes /\ HistoryTypes => TypeInv
  BY DEF TypeInv, TypeOK, PoolTypes, CallTypes, BoxTypes, ImageTypes, HistoryTypes

\* The same, after a step.
LEMMA TypePartsPrime ==
  PoolTypes' /\ CallTypes' /\ BoxTypes' /\ ImageTypes' /\ HistoryTypes' => TypeInv'
  BY TypeParts, PTL

\* What a call that fills a buffer, or asks for its size, computes with.
LEMMA Sizes ==
  ASSUME TypeInv
  PROVE  /\ items["handles"] \in 0..MaxItems /\ items["map"] \in 0..MaxItems
         /\ Needed("handles") = items["handles"] * HandleSize
         /\ Needed("handles") \in Nat /\ Needed("map") \in Nat
         /\ Needed("handles") \div HandleSize = items["handles"]
<1>1. items["handles"] \in 0..MaxItems /\ items["map"] \in 0..MaxItems
  BY DEF TypeInv, TypeOK
<1>2. Needed("handles") = items["handles"] * HandleSize /\ Needed("map") = items["map"] * DescriptorSize
  BY DEF Needed, ItemSize
<1>3. HandleSize \in Nat /\ HandleSize > 0 /\ DescriptorSize \in Nat /\ MaxItems \in Nat
  BY PoolAssumption
<1>4. \A n, h \in Nat : n * h \in Nat /\ (h > 0 => (n * h) \div h = n)
  OBVIOUS
<1> QED BY <1>1, <1>2, <1>3, <1>4

\* A change of the map keeps its types.
LEMMA MapTypes ==
  ASSUME TypeInv, MapChanges
  PROVE  items' \in [{"handles", "map"} -> 0..MaxItems] /\ key' \in 0..MaxKey
  BY PoolAssumption DEF MapChanges, TypeInv, TypeOK

\* AllocatePool and FreePool, as the rest of the proof uses them.
LEMMA Allocates ==
  ASSUME TypeInv, NEW a \in Addresses, NEW size \in Nat, AllocatePool(a, size)
  PROVE  /\ a \notin DOMAIN pool /\ DOMAIN pool' = DOMAIN pool \cup {a} /\ pool'[a] = size
         /\ \A b \in DOMAIN pool : pool'[b] = pool[b]
         /\ PoolTypes'
<1>1. /\ a \notin DOMAIN pool /\ DOMAIN pool' = DOMAIN pool \cup {a} /\ pool'[a] = size
      /\ \A b \in DOMAIN pool : pool'[b] = pool[b]
  BY DEF AllocatePool
<1>2. items' \in [{"handles", "map"} -> 0..MaxItems] /\ key' \in 0..MaxKey
  BY MapTypes DEF AllocatePool
<1>3. DOMAIN pool \subseteq Addresses /\ \A b \in DOMAIN pool : pool[b] \in Nat
  BY DEF TypeInv, TypeOK
<1> QED BY <1>1, <1>2, <1>3 DEF PoolTypes

\* FreePool: the buffer is gone and the others are as they were.
LEMMA Frees ==
  ASSUME TypeInv, NEW a \in Addresses \cup {Stack}, FreePool(a)
  PROVE  /\ DOMAIN pool' = DOMAIN pool \ {a}
         /\ \A b \in DOMAIN pool' : pool'[b] = pool[b]
         /\ PoolTypes'
<1>1. DOMAIN pool' = DOMAIN pool \ {a} /\ \A b \in DOMAIN pool' : pool'[b] = pool[b]
  BY DEF FreePool, Restrict
<1>2. items' \in [{"handles", "map"} -> 0..MaxItems] /\ key' \in 0..MaxKey
  BY MapTypes DEF FreePool, TypeInv, TypeOK
<1>3. DOMAIN pool \subseteq Addresses /\ \A b \in DOMAIN pool : pool[b] \in Nat
  BY DEF TypeInv, TypeOK
<1> QED BY <1>1, <1>2, <1>3 DEF PoolTypes

\* A new box has its type.
LEMMA BoxOfTypes ==
  ASSUME NEW kind \in Kinds, NEW a \in Addresses
  PROVE  BoxOf(kind, a) \in Box /\ BoxOf(kind, a).addr = a /\ BoxOf(kind, a).kind = kind
  BY DEF BoxOf, Box

\* A box of an address is a box, and not the one of start_image's variable.
LEMMA AddBoxTypes ==
  ASSUME BoxTypes, NEW b \in Box, b.addr \in Addresses, boxes' = boxes \cup {b}
  PROVE  BoxTypes'
  BY PoolAssumption DEF BoxTypes, StackBox

\* A box taken away leaves the others their types.
LEMMA DropBoxTypes ==
  ASSUME BoxTypes, NEW b, boxes' = boxes \ {b}
  PROVE  BoxTypes'
  BY DEF BoxTypes, StackBox

\* Only boxes of a list can be of no buffer.
LEMMA BoxAddress ==
  ASSUME TypeInv, NEW b \in boxes
  PROVE  /\ b \in Box /\ b.addr \in Addresses \cup {Stack}
         /\ b.kind # "list" => b.addr \in Addresses
<1>1. b \in Box /\ b.addr \in Addresses \cup {Stack}
  BY DEF TypeInv, TypeOK, Box
<1>2. b.addr = Stack => b.kind = "list"
  BY DEF TypeInv, StackBox, BoxOf
<1> QED BY <1>1, <1>2

\* The program starts well typed.
LEMMA TypeInit == Init => TypeInv
<1> SUFFICES ASSUME Init PROVE TypeInv
  OBVIOUS
<1>1. PoolTypes
  BY PoolAssumption DEF Init, PoolTypes
<1>2. CallTypes
  BY DEF Init, CallTypes, Idle, Kinds
<1>3. BoxTypes /\ ImageTypes /\ HistoryTypes
  BY DEF Init, BoxTypes, StackBox, ImageTypes, HistoryTypes
<1> QED BY <1>1, <1>2, <1>3, TypeParts

\* The call in progress ends, or leaves the calls as they are.
LEMMA IdleTypes == call' = Idle => CallTypes'
  BY DEF CallTypes, Idle, Kinds

\* locate_handle and get_memory_map keep the types.
LEMMA TypeCalls ==
  ASSUME TypeInv,
         \/ HandlesChange
         \/ \E kind \in {"handles", "map"} : AskSize(kind)
         \/ \E a \in Addresses : AllocateBuffer(a) \/ LocateHandleFills(a) \/ GetMemoryMapFills(a)
         \/ AllocateBufferFails \/ FillFails
  PROVE  TypeInv'
<1>0. PoolTypes /\ CallTypes /\ BoxTypes /\ ImageTypes /\ HistoryTypes
  BY TypeParts
<1>1. CASE HandlesChange
  <2>1. PoolTypes'
    BY <1>0, <1>1 DEF HandlesChange, PoolTypes
  <2>2. CallTypes' /\ BoxTypes' /\ ImageTypes' /\ HistoryTypes'
    BY <1>0, <1>1 DEF HandlesChange, CallTypes, BoxTypes, StackBox, ImageTypes, HistoryTypes,
                      imageVars, history
  <2> QED BY <2>1, <2>2, TypePartsPrime
<1>2. ASSUME NEW kind \in {"handles", "map"}, AskSize(kind) PROVE TypeInv'
  <2>1. Needed(kind) \in Nat /\ Room(kind) \in Nat
    BY Sizes, PoolAssumption DEF Room
  <2>2. Needed(kind) + Room(kind) \in Nat
    BY <2>1
  <2>3. CallTypes'
    BY <1>2, <2>2 DEF AskSize, CallTypes, Kinds
  <2>4. PoolTypes' /\ BoxTypes' /\ ImageTypes' /\ HistoryTypes'
    BY <1>0, <1>2 DEF AskSize, PoolTypes, BoxTypes, StackBox, ImageTypes, HistoryTypes,
                      imageVars, history
  <2> QED BY <2>3, <2>4, TypePartsPrime
<1>3. ASSUME NEW a \in Addresses, AllocateBuffer(a) PROVE TypeInv'
  <2>1. PoolTypes'
    BY <1>0, <1>3, Allocates DEF AllocateBuffer, CallTypes
  <2>2. CallTypes'
    BY <1>0, <1>3 DEF AllocateBuffer, CallTypes
  <2>3. BoxTypes' /\ ImageTypes' /\ HistoryTypes'
    BY <1>0, <1>3 DEF AllocateBuffer, BoxTypes, StackBox, ImageTypes, HistoryTypes, imageVars, history
  <2> QED BY <2>1, <2>2, <2>3, TypePartsPrime
<1>4. ASSUME NEW a \in Addresses, Fills(a), NEW b \in Box, b.addr = a, boxes' = boxes \cup {b}
      PROVE  TypeInv'
  <2>1. CallTypes'
    BY <1>4, IdleTypes DEF Fills
  <2>2. BoxTypes'
    BY <1>0, <1>4, AddBoxTypes
  <2>3. PoolTypes' /\ ImageTypes' /\ HistoryTypes'
    BY <1>0, <1>4 DEF Fills, PoolTypes, ImageTypes, HistoryTypes, imageVars, history
  <2> QED BY <2>1, <2>2, <2>3, TypePartsPrime
<1>5. ASSUME NEW a \in Addresses, LocateHandleFills(a) PROVE TypeInv'
  <2> DEFINE b == Filled(a, Needed("handles") \div HandleSize, 0)
  <2>1. b \in Box /\ b.addr = a
    BY <1>5, Sizes DEF LocateHandleFills, Filled, Box, Kinds
  <2> QED BY <1>4, <1>5, <2>1 DEF LocateHandleFills
<1>6. ASSUME NEW a \in Addresses, GetMemoryMapFills(a) PROVE TypeInv'
  <2> DEFINE b == Filled(a, DescriptorSize, key)
  <2>1. b \in Box /\ b.addr = a
    <3>1. key \in Nat /\ DescriptorSize \in Nat /\ items["map"] \in Nat
      BY <1>0, Sizes, PoolAssumption DEF PoolTypes
    <3> QED BY <1>6, <3>1 DEF GetMemoryMapFills, Filled, Box, Kinds
  <2> QED BY <1>4, <1>6, <2>1 DEF GetMemoryMapFills
<1>7. CASE AllocateBufferFails
  <2>1. CallTypes'
    BY <1>7, IdleTypes DEF AllocateBufferFails
  <2>2. PoolTypes' /\ BoxTypes' /\ ImageTypes' /\ HistoryTypes'
    BY <1>0, <1>7 DEF AllocateBufferFails, PoolTypes, BoxTypes, StackBox, ImageTypes, HistoryTypes,
                      imageVars, history
  <2> QED BY <2>1, <2>2, TypePartsPrime
<1>8. CASE FillFails
  <2>1. CallTypes'
    BY <1>8, IdleTypes DEF FillFails
  <2>2. HistoryTypes'
    BY <1>0, <1>8 DEF FillFails, HistoryTypes, CallTypes
  <2>3. PoolTypes' /\ BoxTypes' /\ ImageTypes'
    BY <1>0, <1>8 DEF FillFails, PoolTypes, BoxTypes, StackBox, ImageTypes, imageVars
  <2> QED BY <2>1, <2>2, <2>3, TypePartsPrime
<1> QED BY <1>1, <1>2, <1>3, <1>5, <1>6, <1>7, <1>8

\* A buffer is allocated and a box of it made.
LEMMA TypeNewBox ==
  ASSUME TypeInv, NEW a \in Addresses, NEW size \in Nat, AllocatePool(a, size),
         NEW b \in Box, b.addr = a, boxes' = boxes \cup {b}, UNCHANGED <<call, imageVars, history>>
  PROVE  TypeInv'
<1>0. PoolTypes /\ CallTypes /\ BoxTypes /\ ImageTypes /\ HistoryTypes
  BY TypeParts
<1>1. PoolTypes'
  BY Allocates
<1>2. BoxTypes'
  BY <1>0, AddBoxTypes
<1>3. CallTypes' /\ ImageTypes' /\ HistoryTypes'
  BY <1>0 DEF CallTypes, ImageTypes, HistoryTypes, imageVars, history
<1> QED BY <1>1, <1>2, <1>3, TypePartsPrime

\* So do the operations on boxes,
LEMMA TypeBoxes == TypeInv /\ BoxNext => TypeInv'
<1> SUFFICES ASSUME TypeInv, BoxNext PROVE TypeInv'
  OBVIOUS
<1>0. PoolTypes /\ CallTypes /\ BoxTypes /\ ImageTypes /\ HistoryTypes
  BY TypeParts
<1>1. ASSUME NEW a \in Addresses, NewBox(a) PROVE TypeInv'
  <2>1. BoxOf("value", a) \in Box /\ BoxOf("value", a).addr = a
    BY BoxOfTypes DEF Kinds
  <2> QED BY <1>1, <2>1, TypeNewBox DEF NewBox
<1>2. ASSUME NEW a \in Addresses, LocateHandleBuffer(a) PROVE TypeInv'
  <2> DEFINE b == [kind |-> "handles", addr |-> a, len |-> items["handles"], map_key |-> 0,
                   found |-> items["handles"]]
  <2>1. b \in Box /\ b.addr = a /\ Needed("handles") \in Nat
    BY Sizes DEF Box, Kinds
  <2>2. AllocatePool(a, Needed("handles")) /\ boxes' = boxes \cup {b}
        /\ UNCHANGED <<call, imageVars, history>>
    BY <1>2 DEF LocateHandleBuffer
  <2> HIDE DEF b
  <2> QED BY <2>1, <2>2, TypeNewBox
<1>3. ASSUME NEW a \in Addresses, OpenProtocolInformation(a) PROVE TypeInv'
  <2>1. BoxOf("list", a) \in Box /\ BoxOf("list", a).addr = a
    BY BoxOfTypes DEF Kinds
  <2> QED BY <1>3, <2>1, TypeNewBox DEF OpenProtocolInformation
<1>4. ASSUME NEW a \in Addresses, FromRaw(a) PROVE TypeInv'
  <2>1. BoxOf("value", a) \in Box /\ BoxOf("value", a).addr = a
    BY BoxOfTypes DEF Kinds
  <2>2. BoxTypes'
    BY <1>0, <1>4, <2>1, AddBoxTypes DEF FromRaw
  <2>3. HistoryTypes'
    BY <1>0, <1>4 DEF FromRaw, HistoryTypes
  <2>4. PoolTypes' /\ CallTypes' /\ ImageTypes'
    BY <1>0, <1>4 DEF FromRaw, PoolTypes, CallTypes, ImageTypes, imageVars
  <2> QED BY <2>2, <2>3, <2>4, TypePartsPrime
<1>5. ASSUME NEW b \in boxes, Drop(b) PROVE TypeInv'
  <2>1. PoolTypes'
    BY <1>5, BoxAddress, Frees DEF Drop
  <2>2. BoxTypes'
    BY <1>0, <1>5, DropBoxTypes DEF Drop
  <2>3. CallTypes' /\ ImageTypes' /\ HistoryTypes'
    BY <1>0, <1>5 DEF Drop, CallTypes, ImageTypes, HistoryTypes, imageVars, history
  <2> QED BY <2>1, <2>2, <2>3, TypePartsPrime
<1>6. ASSUME NEW b \in boxes, Leak(b) PROVE TypeInv'
  <2>1. b.addr \in Addresses
    BY <1>6, BoxAddress DEF Leak
  <2>2. BoxTypes'
    BY <1>0, <1>6, DropBoxTypes DEF Leak
  <2>3. HistoryTypes'
    BY <1>0, <1>6, <2>1 DEF Leak, HistoryTypes
  <2>4. PoolTypes' /\ CallTypes' /\ ImageTypes'
    BY <1>0, <1>6 DEF Leak, PoolTypes, CallTypes, ImageTypes, imageVars
  <2> QED BY <2>2, <2>3, <2>4, TypePartsPrime
<1>7. ASSUME NEW b \in boxes, IntoRaw(b) PROVE TypeInv'
  <2>1. b.addr \in Addresses
    BY <1>7, BoxAddress DEF IntoRaw
  <2>2. PoolTypes'
    BY <1>7, <2>1, Frees DEF IntoRaw
  <2>3. BoxTypes'
    BY <1>0, <1>7, DropBoxTypes DEF IntoRaw
  <2>4. HistoryTypes'
    BY <1>0, <1>7, <2>1 DEF IntoRaw, HistoryTypes
  <2>5. CallTypes' /\ ImageTypes'
    BY <1>0, <1>7 DEF IntoRaw, CallTypes, ImageTypes, imageVars
  <2> QED BY <2>2, <2>3, <2>4, <2>5, TypePartsPrime
<1> QED BY <1>1, <1>2, <1>3, <1>4, <1>5, <1>6, <1>7 DEF BoxNext, ProtocolsPerHandle

\* and the image services,
LEMMA TypeImages == TypeInv /\ ImageNext => TypeInv'
<1> SUFFICES ASSUME TypeInv, ImageNext PROVE TypeInv'
  OBVIOUS
<1>0. PoolTypes /\ CallTypes /\ BoxTypes /\ ImageTypes /\ HistoryTypes
  BY TypeParts
<1>1. CASE LoadImage \/ UnloadImage \/ StartImage
  <2>1. UNCHANGED <<poolVars, boxes, exitData, exited, history>> /\ image' \in {"none", "loaded", "running"}
    BY <1>1 DEF LoadImage, UnloadImage, StartImage
  <2>2. PoolTypes' /\ CallTypes' /\ BoxTypes' /\ ImageTypes' /\ HistoryTypes'
    BY <1>0, <2>1 DEF poolVars, PoolTypes, CallTypes, BoxTypes, StackBox, ImageTypes,
                      HistoryTypes, history
  <2> QED BY <2>2, TypePartsPrime
<1>2. ASSUME NEW status \in {"success", "error"}, StartImageReturns(status) PROVE TypeInv'
  <2>1. BoxTypes'
    <3>1. BoxOf("list", Stack) \in Box
      BY DEF BoxOf, Box, Kinds
    <3> QED BY <1>0, <1>2, <3>1 DEF StartImageReturns, BoxTypes, StackBox
  <2>2. PoolTypes' /\ CallTypes' /\ ImageTypes' /\ HistoryTypes'
    BY <1>0, <1>2 DEF StartImageReturns, poolVars, PoolTypes, CallTypes, ImageTypes, HistoryTypes
  <2> QED BY <2>1, <2>2, TypePartsPrime
<1>3. ASSUME NEW b \in boxes, Exit(b) PROVE TypeInv'
  <2>1. {b.addr} \ {Stack} \subseteq Addresses
    BY <1>0 DEF BoxTypes, Box
  <2>2. BoxTypes'
    BY <1>0, <1>3, DropBoxTypes DEF Exit
  <2>3. PoolTypes' /\ CallTypes' /\ ImageTypes' /\ HistoryTypes'
    BY <1>0, <1>3, <2>1 DEF Exit, poolVars, PoolTypes, CallTypes, ImageTypes, HistoryTypes, history
  <2> QED BY <2>2, <2>3, TypePartsPrime
<1>4. ASSUME NEW b \in boxes, ExitRefused(b) PROVE TypeInv'
  BY <1>4, TypeBoxes DEF ExitRefused, BoxNext
<1>5. ASSUME NEW b \in boxes, ExitBootServices(b) PROVE TypeInv'
  <2>1. PoolTypes' /\ CallTypes' /\ BoxTypes' /\ ImageTypes' /\ HistoryTypes'
    BY <1>0, <1>5 DEF ExitBootServices, poolVars, PoolTypes, CallTypes, BoxTypes, StackBox,
                      ImageTypes, HistoryTypes, history
  <2> QED BY <2>1, TypePartsPrime
<1> QED BY <1>1, <1>2, <1>3, <1>4, <1>5 DEF ImageNext

\* and thus every step.
LEMMA TypeStep == TypeInv /\ [Next]_vars => TypeInv'
<1> SUFFICES ASSUME TypeInv, [Next]_vars PROVE TypeInv'
  OBVIOUS
<1>0. PoolTypes /\ CallTypes /\ BoxTypes /\ ImageTypes /\ HistoryTypes
  BY TypeParts
<1>1. ASSUME NEW b \in boxes, DropLate(b) PROVE TypeInv'
  <2>1. BoxTypes'
    BY <1>0, <1>1, DropBoxTypes DEF DropLate
  <2>2. PoolTypes' /\ CallTypes' /\ ImageTypes' /\ HistoryTypes'
    BY <1>0, <1>1 DEF DropLate, poolVars, PoolTypes, CallTypes, ImageTypes, HistoryTypes,
                      imageVars, history
  <2> QED BY <2>1, <2>2, TypePartsPrime
<1>2. CASE UNCHANGED vars
  <2>1. PoolTypes' /\ CallTypes' /\ BoxTypes' /\ ImageTypes' /\ HistoryTypes'
    BY <1>0, <1>2 DEF vars, PoolTypes, CallTypes, BoxTypes, StackBox, ImageTypes, HistoryTypes,
                      imageVars, history
  <2> QED BY <2>1, TypePartsPrime
<1> QED BY <1>1, <1>2, TypeCalls, TypeBoxes, TypeImages DEF Next

\* Every call, box and buffer keeps its type: leak and into_raw never hand out the
\* address of start_image's variable, and the sizes they compute with are sizes.
THEOREM TypeCorrect == Spec => []TypeOK
<1>1. Spec => []TypeInv
  BY TypeInit, TypeStep, PTL DEF Spec
<1>2. TypeInv => TypeOK
  BY DEF TypeInv
<1> QED BY <1>1, <1>2, PTL

-----------------------------------------------------------------------------
(* Ownership                                                               *)

\* No buffer is there at the start.
LEMMA OwnerInit == Init => OwnerInv
<1> SUFFICES ASSUME Init PROVE OwnerInv
  OBVIOUS
<1>1. DOMAIN pool = {} /\ call.addr = {} /\ boxes = {} /\ exitData = {} /\ lost = {} /\ forgotten = {}
  BY DEF Init, Idle
<1>2. Owned = {}
  BY <1>1 DEF Owned
<1> QED BY <1>1, <1>2 DEF OwnerInv, CallBuffer, ExitDataReturns, LostAllocated, NothingElseLeaks,
                          BoxOwnsBuffer, LocatedIsExact

\* A new box owns its buffer besides what was owned; a box that is gone owns nothing.
LEMMA OwnedGrows ==
  ASSUME NEW b, b.addr # Stack, boxes' = boxes \cup {b}
  PROVE  Owned' = Owned \cup {b.addr}
  BY DEF Owned

\* A box taken away leaves the others their addresses.
LEMMA OwnedShrinks ==
  ASSUME NEW b \in boxes, boxes' = boxes \ {b}, \A c, d \in boxes : c.addr = d.addr => c = d
  PROVE  Owned' = Owned \ {b.addr} /\ (b.addr # Stack => b.addr \in Owned)
  BY DEF Owned

\* What the invariant says before a step that can change the pool.
LEMMA Owners ==
  ASSUME TypeInv, OwnerInv, ~reused
  PROVE  /\ Owned \subseteq DOMAIN pool /\ call.addr \subseteq DOMAIN pool
         /\ exitData \subseteq DOMAIN pool /\ forgotten \subseteq DOMAIN pool
         /\ lost \subseteq DOMAIN pool /\ DOMAIN pool \subseteq Addresses /\ Stack \notin Addresses
         /\ \A c, d \in boxes : c.addr = d.addr => c = d
         /\ Owned \cap (call.addr \cup exitData \cup forgotten \cup lost) = {}
         /\ call.addr \cap (exitData \cup forgotten \cup lost) = {}
         /\ \A b \in boxes : b.kind = "handles" =>
              /\ b.addr \in Owned /\ b.len = b.found /\ b.len * HandleSize <= pool[b.addr]
<1>1. \A b \in boxes : b.kind = "handles" => b.addr \in Owned
  BY PoolAssumption DEF TypeInv, StackBox, BoxOf, Owned
<1> QED BY <1>1, PoolAssumption
        DEF OwnerInv, BoxOwnsBuffer, LocatedIsExact, LostAllocated, TypeInv, TypeOK

\* BootServicesBox::new and the calls for which the firmware allocates.
LEMMA OwnerNewBox ==
  ASSUME TypeInv, OwnerInv, ~reused, NEW a \in Addresses, NEW size \in Nat, AllocatePool(a, size),
         NEW b \in Box, b.addr = a, boxes' = boxes \cup {b}, UNCHANGED <<call, imageVars, history>>,
         b.kind = "handles" => b.len = b.found /\ b.len * HandleSize <= size
  PROVE  OwnerInv'
<1>1. /\ a \notin DOMAIN pool /\ DOMAIN pool' = DOMAIN pool \cup {a} /\ pool'[a] = size
      /\ \A c \in DOMAIN pool : pool'[c] = pool[c]
  BY Allocates
<1>2. UNCHANGED <<call, image, exitData, exited, reused, forgotten, lost>>
  BY DEF imageVars, history
<1>3. Owned' = Owned \cup {a}
  BY OwnedGrows, PoolAssumption
<1>4. CallBuffer' /\ ExitDataReturns' /\ LostAllocated'
  BY <1>1, <1>2, Owners DEF OwnerInv, CallBuffer, ExitDataReturns, LostAllocated
<1>5. NothingElseLeaks'
  BY <1>1, <1>2, <1>3 DEF OwnerInv, NothingElseLeaks
<1>6. BoxOwnsBuffer'
  <2>1. \A c \in boxes : c.addr # a
    BY <1>1, Owners, PoolAssumption DEF Owned
  <2> QED BY <1>1, <1>2, <1>3, <2>1, Owners DEF BoxOwnsBuffer
<1>7. LocatedIsExact'
  BY <1>1, <1>2, Owners DEF LocatedIsExact
<1> QED BY <1>4, <1>5, <1>6, <1>7 DEF OwnerInv

\* drop, also at the end of into_raw and of a refused exit: the buffer goes with the box.
LEMMA OwnerFree ==
  ASSUME TypeInv, OwnerInv, ~reused, NEW b \in boxes, boxes' = boxes \ {b}, FreePool(b.addr),
         UNCHANGED <<call, imageVars, reused, forgotten, lost>>
  PROVE  OwnerInv'
<1>1. DOMAIN pool' = DOMAIN pool \ {b.addr} /\ \A c \in DOMAIN pool' : pool'[c] = pool[c]
  BY BoxAddress, Frees
<1>2. UNCHANGED <<call, image, exitData, exited, reused, forgotten, lost>>
  BY DEF imageVars
<1>3. Owned' = Owned \ {b.addr} /\ (b.addr # Stack => b.addr \in Owned)
  BY OwnedShrinks, Owners
<1>4. b.addr \notin call.addr \cup exitData \cup forgotten \cup lost
  BY <1>3, Owners
<1>5. CallBuffer' /\ ExitDataReturns' /\ LostAllocated'
  BY <1>1, <1>2, <1>4, Owners DEF OwnerInv, CallBuffer, ExitDataReturns, LostAllocated
<1>6. NothingElseLeaks'
  BY <1>1, <1>2, <1>3, <1>4 DEF OwnerInv, NothingElseLeaks
<1>7. BoxOwnsBuffer'
  BY <1>1, <1>2, <1>3, <1>4, Owners DEF BoxOwnsBuffer
<1>8. LocatedIsExact'
  BY <1>1, <1>2, Owners DEF LocatedIsExact
<1> QED BY <1>5, <1>6, <1>7, <1>8 DEF OwnerInv

\* locate_handle and get_memory_map make a box of the buffer they filled.
LEMMA OwnerFills ==
  ASSUME TypeInv, OwnerInv, ~reused, NEW a \in Addresses, Fills(a),
         NEW b \in Box, b.addr = a, boxes' = boxes \cup {b},
         b.kind = "handles" => b.len = b.found /\ b.len * HandleSize <= call.size
  PROVE  OwnerInv'
<1>1. a \in call.addr /\ call.addr = {a} /\ pool[a] = call.size
  BY DEF Fills, OwnerInv, CallBuffer
<1>2. call'.addr = {} /\ UNCHANGED <<pool, image, exitData, exited, reused, forgotten, lost>>
  BY DEF Fills, imageVars, history, Idle
<1>3. Owned' = Owned \cup {a}
  BY OwnedGrows, PoolAssumption
<1>4. CallBuffer' /\ ExitDataReturns' /\ LostAllocated'
  BY <1>2, Owners DEF OwnerInv, CallBuffer, ExitDataReturns, LostAllocated
<1>5. NothingElseLeaks'
  BY <1>1, <1>2, <1>3 DEF OwnerInv, NothingElseLeaks
<1>6. BoxOwnsBuffer'
  <2>1. \A c \in boxes : c.addr # a
    BY <1>1, Owners, PoolAssumption DEF Owned
  <2> QED BY <1>1, <1>2, <1>3, <2>1, Owners DEF BoxOwnsBuffer
<1>7. LocatedIsExact'
  BY <1>1, <1>2, Owners DEF LocatedIsExact
<1> QED BY <1>4, <1>5, <1>6, <1>7 DEF OwnerInv

\* leak and exit: the box is forgotten and its buffer stays.
LEMMA OwnerForget ==
  ASSUME TypeInv, OwnerInv, ~reused, NEW b \in boxes, b.addr \in Addresses, boxes' = boxes \ {b},
         UNCHANGED <<pool, call, exited, reused, lost>>,
         \/ forgotten' = forgotten \cup {b.addr} /\ UNCHANGED <<image, exitData>>
         \/ exitData = {} /\ exitData' = {b.addr} /\ image' = "returning" /\ UNCHANGED forgotten
  PROVE  OwnerInv'
<1>1. Owned' = Owned \ {b.addr} /\ b.addr \in Owned
  BY OwnedShrinks, Owners
<1>2. b.addr \in DOMAIN pool /\ b.addr \notin call.addr \cup lost
  BY <1>1, Owners
<1>3. exitData' \cup forgotten' = exitData \cup forgotten \cup {b.addr}
  OBVIOUS
<1>4. CallBuffer' /\ ExitDataReturns' /\ LostAllocated'
  BY DEF OwnerInv, CallBuffer, ExitDataReturns, LostAllocated
<1>5. NothingElseLeaks'
  BY <1>1, <1>3 DEF OwnerInv, NothingElseLeaks
<1>6. BoxOwnsBuffer'
  BY <1>1, <1>2, <1>3, Owners DEF BoxOwnsBuffer
<1>7. LocatedIsExact'
  BY DEF OwnerInv, LocatedIsExact
<1> QED BY <1>4, <1>5, <1>6, <1>7 DEF OwnerInv

\* Steps that neither allocate nor free, nor make or drop a box.
LEMMA OwnerSame ==
  ASSUME OwnerInv, UNCHANGED <<pool, boxes, exitData, reused, forgotten, lost>>,
         call' = call \/ (call.addr = {} /\ call'.addr = {}),
         exited => exited', exitData # {} => image' = image
  PROVE  OwnerInv'
<1>1. Owned' = Owned /\ call'.addr = call.addr
  BY DEF Owned
<1>2. CallBuffer'
  BY DEF OwnerInv, CallBuffer
<1>3. ExitDataReturns' /\ LostAllocated'
  BY DEF OwnerInv, ExitDataReturns, LostAllocated
<1>4. NothingElseLeaks' /\ BoxOwnsBuffer'
  BY <1>1 DEF OwnerInv, NothingElseLeaks, BoxOwnsBuffer
<1>5. LocatedIsExact'
  BY DEF OwnerInv, LocatedIsExact
<1> QED BY <1>2, <1>3, <1>4, <1>5 DEF OwnerInv

\* locate_handle and get_memory_map keep each buffer with one owner.
LEMMA OwnerCalls ==
  ASSUME TypeInv, OwnerInv, ~reused,
         \/ HandlesChange
         \/ \E kind \in {"handles", "map"} : AskSize(kind)
         \/ \E a \in Addresses : AllocateBuffer(a) \/ LocateHandleFills(a) \/ GetMemoryMapFills(a)
         \/ AllocateBufferFails \/ FillFails
  PROVE  OwnerInv'
<1>0. CallTypes
  BY TypeParts
<1>1. CASE HandlesChange
  BY <1>1, OwnerSame DEF HandlesChange, imageVars, history
<1>2. ASSUME NEW kind \in {"handles", "map"}, AskSize(kind) PROVE OwnerInv'
  <2>1. call.addr = {} /\ call'.addr = {}
    BY <1>2 DEF AskSize, Idle
  <2> QED BY <1>2, <2>1, OwnerSame DEF AskSize, imageVars, history
<1>3. ASSUME NEW a \in Addresses, AllocateBuffer(a) PROVE OwnerInv'
  <2>1. call.addr = {} /\ call'.addr = {a} /\ call'.size = call.size /\ call.size \in Nat
    BY <1>0, <1>3 DEF AllocateBuffer, CallTypes
  <2>2. /\ a \notin DOMAIN pool /\ DOMAIN pool' = DOMAIN pool \cup {a} /\ pool'[a] = call.size
        /\ \A c \in DOMAIN pool : pool'[c] = pool[c]
    BY <1>3, <2>1, Allocates DEF AllocateBuffer
  <2>3. UNCHANGED <<boxes, image, exitData, exited, reused, forgotten, lost>> /\ Owned' = Owned
    BY <1>3 DEF AllocateBuffer, imageVars, history, Owned
  <2>4. CallBuffer' /\ ExitDataReturns' /\ LostAllocated'
    BY <2>1, <2>2, <2>3, Owners DEF OwnerInv, CallBuffer, ExitDataReturns, LostAllocated
  <2>5. NothingElseLeaks'
    BY <2>1, <2>2, <2>3 DEF OwnerInv, NothingElseLeaks
  <2>6. BoxOwnsBuffer'
    BY <2>1, <2>2, <2>3, Owners DEF BoxOwnsBuffer
  <2>7. LocatedIsExact'
    BY <2>2, <2>3, Owners DEF LocatedIsExact
  <2> QED BY <2>4, <2>5, <2>6, <2>7 DEF OwnerInv
<1>4. ASSUME NEW a \in Addresses, LocateHandleFills(a) PROVE OwnerInv'
  <2> DEFINE b == Filled(a, Needed("handles") \div HandleSize, 0)
  <2>1. b \in Box /\ b.addr = a /\ b.len = items["handles"] /\ b.found = items["handles"]
    BY <1>4, Sizes DEF LocateHandleFills, Filled, Box, Kinds
  <2>2. items["handles"] * HandleSize <= call.size
    BY <1>4, Sizes DEF LocateHandleFills, Fills
  <2>3. Fills(a) /\ boxes' = boxes \cup {b}
    BY <1>4 DEF LocateHandleFills
  <2> HIDE DEF b
  <2> QED BY <2>1, <2>2, <2>3, OwnerFills
<1>5. ASSUME NEW a \in Addresses, GetMemoryMapFills(a) PROVE OwnerInv'
  <2> DEFINE b == Filled(a, DescriptorSize, key)
  <2>1. b \in Box /\ b.addr = a /\ b.kind = "map"
    <3>1. key \in Nat /\ DescriptorSize \in Nat /\ items["map"] \in Nat
      BY Sizes, TypeParts, PoolAssumption DEF PoolTypes
    <3> QED BY <1>5, <3>1 DEF GetMemoryMapFills, Filled, Box, Kinds
  <2>2. Fills(a) /\ boxes' = boxes \cup {b}
    BY <1>5 DEF GetMemoryMapFills
  <2> HIDE DEF b
  <2> QED BY <2>1, <2>2, OwnerFills
<1>6. CASE AllocateBufferFails
  <2>1. call.addr = {} /\ call'.addr = {}
    BY <1>0, <1>6 DEF AllocateBufferFails, CallTypes, Idle
  <2> QED BY <1>6, <2>1, OwnerSame DEF AllocateBufferFails, imageVars, history
<1>7. CASE FillFails
  <2>1. call'.addr = {} /\ lost' = lost \cup call.addr
        /\ UNCHANGED <<pool, boxes, image, exitData, exited, reused, forgotten>> /\ Owned' = Owned
    BY <1>7 DEF FillFails, Idle, imageVars, Owned
  <2>2. CallBuffer' /\ ExitDataReturns' /\ LostAllocated'
    BY <2>1, Owners DEF OwnerInv, CallBuffer, ExitDataReturns, LostAllocated
  <2>3. NothingElseLeaks'
    BY <2>1 DEF OwnerInv, NothingElseLeaks
  <2>4. BoxOwnsBuffer'
    BY <2>1, Owners DEF BoxOwnsBuffer
  <2>5. LocatedIsExact'
    BY <2>1 DEF OwnerInv, LocatedIsExact
  <2> QED BY <2>2, <2>3, <2>4, <2>5 DEF OwnerInv
<1> QED BY <1>1, <1>2, <1>3, <1>4, <1>5, <1>6, <1>7

\* So do the operations on boxes,
LEMMA OwnerBoxes ==
  ASSUME TypeInv, OwnerInv, ~reused, BoxNext
  PROVE  OwnerInv'
<1>1. ASSUME NEW a \in Addresses, NewBox(a) PROVE OwnerInv'
  <2>1. BoxOf("value", a) \in Box /\ BoxOf("value", a).addr = a /\ BoxOf("value", a).kind = "value"
    BY BoxOfTypes DEF Kinds
  <2> QED BY <1>1, <2>1, OwnerNewBox DEF NewBox
<1>2. ASSUME NEW a \in Addresses, LocateHandleBuffer(a) PROVE OwnerInv'
  <2> DEFINE b == [kind |-> "handles", addr |-> a, len |-> items["handles"], map_key |-> 0,
                   found |-> items["handles"]]
  <2>1. /\ b \in Box /\ b.addr = a /\ Needed("handles") \in Nat
        /\ b.len = b.found /\ b.len = items["handles"]
    BY Sizes DEF Box, Kinds
  <2>2. AllocatePool(a, Needed("handles")) /\ boxes' = boxes \cup {b}
        /\ UNCHANGED <<call, imageVars, history>>
    BY <1>2 DEF LocateHandleBuffer
  <2> HIDE DEF b
  <2>3. b.len * HandleSize = Needed("handles")
    BY <2>1, Sizes
  <2>4. b.len * HandleSize <= Needed("handles")
    BY <2>1, <2>3
  <2> QED BY <2>1, <2>2, <2>4, OwnerNewBox
<1>3. ASSUME NEW a \in Addresses, OpenProtocolInformation(a) PROVE OwnerInv'
  <2>1. BoxOf("list", a) \in Box /\ BoxOf("list", a).addr = a /\ BoxOf("list", a).kind = "list"
    BY BoxOfTypes DEF Kinds
  <2> QED BY <1>3, <2>1, OwnerNewBox DEF OpenProtocolInformation
<1>4. ASSUME NEW a \in Addresses, FromRaw(a) PROVE OwnerInv'
  <2>1. /\ reused' /\ boxes' = boxes \cup {BoxOf("value", a)} /\ BoxOf("value", a).kind = "value"
        /\ UNCHANGED <<pool, call, image, exitData, lost>>
    BY <1>4 DEF FromRaw, imageVars, BoxOf
  <2> QED BY <2>1 DEF OwnerInv, CallBuffer, ExitDataReturns, LostAllocated, NothingElseLeaks,
                      BoxOwnsBuffer, LocatedIsExact
<1>5. ASSUME NEW b \in boxes, Drop(b) PROVE OwnerInv'
  BY <1>5, OwnerFree DEF Drop, history
<1>6. ASSUME NEW b \in boxes, Leak(b) PROVE OwnerInv'
  <2>1. b.addr \in Addresses
    BY <1>6, BoxAddress DEF Leak
  <2> QED BY <1>6, <2>1, OwnerForget DEF Leak, imageVars
<1>7. ASSUME NEW b \in boxes, IntoRaw(b) PROVE OwnerInv'
  BY <1>7, OwnerFree DEF IntoRaw
<1> QED BY <1>1, <1>2, <1>3, <1>4, <1>5, <1>6, <1>7 DEF BoxNext, ProtocolsPerHandle

\* and the image services,
LEMMA OwnerImages ==
  ASSUME TypeInv, OwnerInv, ~reused, ImageNext
  PROVE  OwnerInv'
<1>1. CASE LoadImage \/ UnloadImage \/ StartImage
  <2>1. exitData = {} /\ UNCHANGED <<poolVars, boxes, exitData, exited, history>>
    BY <1>1 DEF LoadImage, UnloadImage, StartImage, OwnerInv, ExitDataReturns
  <2> QED BY <2>1, OwnerSame DEF poolVars, history
<1>2. ASSUME NEW status \in {"success", "error"}, StartImageReturns(status) PROVE OwnerInv'
  <2>1. /\ lost' = lost \cup exitData /\ exitData' = {}
        /\ UNCHANGED <<pool, call, exited, reused, forgotten>>
        /\ boxes' = boxes \/ boxes' = boxes \cup {BoxOf("list", Stack)}
    BY <1>2 DEF StartImageReturns, poolVars
  <2>2. BoxOf("list", Stack).addr = Stack /\ BoxOf("list", Stack).kind = "list"
    BY DEF BoxOf
  <2>3. Owned' = Owned
    BY <2>1, <2>2 DEF Owned
  <2>4. CallBuffer' /\ ExitDataReturns' /\ LostAllocated'
    BY <2>1, Owners DEF OwnerInv, CallBuffer, ExitDataReturns, LostAllocated
  <2>5. NothingElseLeaks'
    BY <2>1, <2>3 DEF OwnerInv, NothingElseLeaks
  <2>6. BoxOwnsBuffer'
    <3>1. \A c, d \in boxes' : c.addr = d.addr => c = d
      BY <2>1, <2>2, Owners DEF TypeInv, StackBox
    <3> QED BY <2>1, <2>3, <3>1, Owners DEF BoxOwnsBuffer
  <2>7. LocatedIsExact'
    BY <2>1, <2>2 DEF OwnerInv, LocatedIsExact
  <2> QED BY <2>4, <2>5, <2>6, <2>7 DEF OwnerInv
<1>3. ASSUME NEW b \in boxes, Exit(b) PROVE OwnerInv'
  <2>1. exitData = {} /\ exitData' = {b.addr} \ {Stack} /\ boxes' = boxes \ {b} /\ image' = "returning"
        /\ UNCHANGED <<pool, call, exited, reused, forgotten, lost>>
    BY <1>3 DEF Exit, OwnerInv, ExitDataReturns, poolVars, history
  <2>2. CASE b.addr # Stack
    <3>1. b.addr \in Addresses
      BY <2>2 DEF TypeInv, TypeOK, Box
    <3>2. exitData' = {b.addr}
      BY <2>1, <2>2
    <3> QED BY <2>1, <3>1, <3>2, OwnerForget
  <2>3. CASE b.addr = Stack
    <3>1. exitData' = exitData /\ Owned' = Owned
      BY <2>1, <2>3 DEF Owned
    <3>2. CallBuffer' /\ ExitDataReturns' /\ LostAllocated' /\ NothingElseLeaks'
      BY <2>1, <3>1 DEF OwnerInv, CallBuffer, ExitDataReturns, LostAllocated, NothingElseLeaks
    <3>3. BoxOwnsBuffer' /\ LocatedIsExact'
      BY <2>1, <3>1 DEF OwnerInv, BoxOwnsBuffer, LocatedIsExact
    <3> QED BY <3>2, <3>3 DEF OwnerInv
  <2> QED BY <2>2, <2>3
<1>4. ASSUME NEW b \in boxes, ExitRefused(b) PROVE OwnerInv'
  BY <1>4, OwnerFree DEF ExitRefused, Drop, history
<1>5. ASSUME NEW b \in boxes, ExitBootServices(b) PROVE OwnerInv'
  BY <1>5, OwnerSame DEF ExitBootServices, poolVars, history
<1> QED BY <1>1, <1>2, <1>3, <1>4, <1>5 DEF ImageNext

\* and thus every step.
LEMMA OwnerStep == TypeInv /\ OwnerInv /\ [Next]_vars => OwnerInv'
<1> SUFFICES ASSUME TypeInv, OwnerInv, [Next]_vars PROVE OwnerInv'
  OBVIOUS
<1>1. ASSUME exited, NEW b \in boxes, DropLate(b) PROVE OwnerInv'
  <2>1. boxes' = boxes \ {b}
        /\ UNCHANGED <<pool, call, image, exitData, exited, reused, forgotten, lost>>
    BY <1>1 DEF DropLate, poolVars, imageVars, history
  <2>2. Owned' \subseteq Owned
    BY <2>1 DEF Owned
  <2>3. CallBuffer' /\ ExitDataReturns' /\ LostAllocated' /\ NothingElseLeaks'
    BY <1>1, <2>1 DEF OwnerInv, CallBuffer, ExitDataReturns, LostAllocated, NothingElseLeaks
  <2>4. BoxOwnsBuffer'
    BY <2>1, <2>2 DEF OwnerInv, BoxOwnsBuffer
  <2>5. LocatedIsExact'
    BY <2>1 DEF OwnerInv, LocatedIsExact
  <2> QED BY <2>3, <2>4, <2>5 DEF OwnerInv
<1>2. CASE UNCHANGED vars
  BY <1>2, OwnerSame DEF vars, imageVars, history
<1> QED BY <1>1, <1>2, OwnerCalls, OwnerBoxes, OwnerImages DEF Next

\* The inductive invariant holds throughout.
LEMMA OwnerInvariant == Spec => [](TypeInv /\ OwnerInv)
  BY TypeInit, TypeStep, OwnerInit, OwnerStep, PTL DEF Spec

\* Whatever the order of calls, failures, drops and image exits, every buffer has
\* somebody to free it, or was given up by leak, an error path or an exit.
THEOREM LeaksKnown == Spec => []NothingElseLeaks
<1>1. OwnerInv => NothingElseLeaks
  BY DEF OwnerInv
<1> QED BY <1>1, OwnerInvariant, PTL

\* Until a pointer of into_raw is used again, every box has its buffer to itself: drop
\* frees it once, and nothing else frees it before.
THEOREM BoxesOwn == Spec => []BoxOwnsBuffer
<1>1. OwnerInv => BoxOwnsBuffer
  BY DEF OwnerInv
<1> QED BY <1>1, OwnerInvariant, PTL

\* The length of the slice locate_handle returns is the number of handles its second
\* call stored, and lies within the buffer that was sized before.
THEOREM LocateExact == Spec => []LocatedIsExact
<1>1. OwnerInv => LocatedIsExact
  BY DEF OwnerInv
<1> QED BY <1>1, OwnerInvariant, PTL

-----------------------------------------------------------------------------
(* What initialize guarantees in spite of its unprotected check, for any    *)
(* number of callers and tables.                                            *)

\* An initialize still in progress on a service whose table is published had
\* another one fall between its load and its store.
LateStoreIsMet ==
  \A c \in Callers : pc[c] = "checked" /\ ptr[on[c]] # Null => <<c, on[c]>> \in met

\* A service that was initialized has a table.
Published == \A c \in Callers, s \in Services : <<c, s>> \in inits => ptr[s] # Null

\* The table that was seen is still the one of the service, unless it was replaced in
\* such a gap.
SeenIsCurrent ==
  \A s \in Services, t \in Tables :
    <<s, t>> \in seen => ptr[s] = t \/ (ptr[s] # Null /\ \E e \in Callers : <<e, s>> \in met)

\* The inductive invariant.
TableInv ==
  ServicesTypeOK /\ Published /\ LateStoreIsMet /\ SeenIsCurrent /\ InitializeOnceIfSerial

\* No table and no call at the start.
LEMMA TableInit == ServicesInit => TableInv
<1> SUFFICES ASSUME ServicesInit PROVE TableInv
  OBVIOUS
<1>1. \A c \in Callers : pc[c] # "checked"
  BY DEF ServicesInit
<1>2. arg \in [Callers -> Tables \cup {Null}] /\ on \in [Callers -> Services]
      /\ pc \in [Callers -> {"idle", "checked", "panicked"}]
  BY DEF ServicesInit, Services
<1>3. ServicesTypeOK
  BY <1>1, <1>2 DEF ServicesInit, ServicesTypeOK
<1>4. Published /\ LateStoreIsMet /\ SeenIsCurrent /\ InitializeOnceIfSerial
  BY <1>1 DEF ServicesInit, Published, LateStoreIsMet, SeenIsCurrent, InitializeOnceIfSerial
<1> QED BY <1>3, <1>4 DEF TableInv

\* The store of initialize: whoever is still in progress is recorded as met.
LEMMA TableStores ==
  ASSUME TableInv, NEW c \in Callers, InitializeStores(c)
  PROVE  TableInv'
<1> DEFINE s == on[c]
<1> USE NullAssumption DEF TableInv, ServicesTypeOK
<1>1. s \in Services /\ arg[c] \in Tables
  BY DEF InitializeStores
<1>2. /\ ptr' \in [Services -> Tables \cup {Null}]
      /\ ptr'[s] # Null
      /\ \A r \in Services : r # s => ptr'[r] = ptr[r]
  BY <1>1 DEF InitializeStores
<1>3. pc' = [pc EXCEPT ![c] = "idle"] /\ UNCHANGED <<debug_assertions, arg, on, seen>>
  BY DEF InitializeStores
<1>4. \A d \in Callers, r \in Services :
        <<d, r>> \in inits' <=> <<d, r>> \in inits \/ (d = c /\ r = s)
  BY DEF InitializeStores
<1>5. \A d \in Callers, r \in Services :
        <<d, r>> \in met' <=>
          <<d, r>> \in met \/ (d # c /\ r = s /\ pc[d] = "checked" /\ on[d] = s)
  BY DEF InitializeStores
<1>6. inits' \subseteq Callers \X Services /\ met' \subseteq Callers \X Services
  BY <1>1 DEF InitializeStores
<1>7. ServicesTypeOK'
  BY <1>2, <1>3, <1>6
<1>8. Published'
  BY <1>2, <1>4 DEF Published
<1>9. LateStoreIsMet'
  <2> SUFFICES ASSUME NEW d \in Callers, pc'[d] = "checked", ptr'[on'[d]] # Null
               PROVE  <<d, on'[d]>> \in met'
    BY DEF LateStoreIsMet
  <2>1. d # c /\ pc[d] = "checked" /\ on'[d] = on[d] /\ on[d] \in Services
    BY <1>3
  <2>2. CASE on[d] = s
    BY <1>5, <2>1, <2>2
  <2>3. CASE on[d] # s
    BY <1>2, <1>5, <2>1, <2>3 DEF LateStoreIsMet
  <2> QED BY <2>2, <2>3
<1>10. InitializeOnceIfSerial'
  <2> SUFFICES ASSUME NEW r \in Services, NEW d \in Callers, NEW e \in Callers,
                      <<d, r>> \in inits', <<e, r>> \in inits', d # e
               PROVE  \E f \in Callers : <<f, r>> \in met'
    BY DEF InitializeOnceIfSerial
  <2>1. CASE <<d, r>> \in inits /\ <<e, r>> \in inits
    BY <1>5, <2>1 DEF InitializeOnceIfSerial
  <2>2. CASE r = s /\ (<<d, r>> \in inits \/ <<e, r>> \in inits)
    <3>1. ptr[s] # Null
      BY <2>2 DEF Published
    <3>2. <<c, s>> \in met
      BY <3>1 DEF InitializeStores, LateStoreIsMet
    <3> QED BY <1>1, <1>5, <2>2, <3>2
  <2> QED BY <1>4, <2>1, <2>2
<1>11. SeenIsCurrent'
  <2> SUFFICES ASSUME NEW r \in Services, NEW t \in Tables, <<r, t>> \in seen, ptr'[r] # t
               PROVE  ptr'[r] # Null /\ \E e \in Callers : <<e, r>> \in met'
    BY <1>3 DEF SeenIsCurrent
  <2>1. CASE r = s
    <3>1. ptr[s] # Null
      BY <2>1 DEF SeenIsCurrent
    <3>2. <<c, s>> \in met
      BY <3>1 DEF InitializeStores, LateStoreIsMet
    <3> QED BY <1>1, <1>2, <1>5, <2>1, <3>2
  <2>2. CASE r # s
    <3>1. ptr[r] # Null /\ \E e \in Callers : <<e, r>> \in met
      BY <1>2, <2>2 DEF SeenIsCurrent
    <3> QED BY <1>2, <1>5, <2>2, <3>1
  <2> QED BY <2>1, <2>2
<1> QED BY <1>7, <1>8, <1>9, <1>10, <1>11

\* Every step keeps the invariant.
LEMMA TableStep == TableInv /\ [ServicesNext]_servicesVars => TableInv'
<1> SUFFICES ASSUME TableInv, [ServicesNext]_servicesVars PROVE TableInv'
  OBVIOUS
<1> USE DEF TableInv, ServicesTypeOK, Published, LateStoreIsMet, SeenIsCurrent, InitializeOnceIfSerial
<1>1. ASSUME NEW c \in Callers, NEW s \in Services, NEW table \in Tables,
             InitializeChecks(c, s, table)
      PROVE  TableInv'
  <2>1. /\ pc' = [pc EXCEPT ![c] = "checked"] /\ arg' = [arg EXCEPT ![c] = table]
        /\ on' = [on EXCEPT ![c] = s] /\ ptr[s] = Null
        /\ UNCHANGED <<debug_assertions, ptr, inits, met, seen>>
    BY <1>1 DEF InitializeChecks
  <2>2. ServicesTypeOK'
    BY <2>1
  <2>3. LateStoreIsMet'
    BY <2>1
  <2>4. Published' /\ SeenIsCurrent' /\ InitializeOnceIfSerial'
    BY <2>1
  <2> QED BY <2>2, <2>3, <2>4
<1>2. ASSUME NEW c \in Callers, NEW s \in Services, InitializeRefuses(c, s) \/ CallPanics(c, s)
      PROVE  TableInv'
  <2>1. /\ pc' \in [Callers -> {"idle", "checked", "panicked"}]
        /\ \A d \in Callers : pc'[d] = "checked" => pc[d] = "checked"
    BY <1>2 DEF InitializeRefuses, CallPanics
  <2>2. UNCHANGED <<debug_assertions, ptr, arg, on, inits, met, seen>>
    BY <1>2 DEF InitializeRefuses, CallPanics
  <2>3. ServicesTypeOK'
    BY <2>1, <2>2
  <2>4. LateStoreIsMet'
    BY <2>1, <2>2
  <2>5. Published' /\ SeenIsCurrent' /\ InitializeOnceIfSerial'
    BY <2>2
  <2> QED BY <2>3, <2>4, <2>5
<1>3. ASSUME NEW c \in Callers, NEW s \in Services, CallReads(c, s) PROVE TableInv'
  <2>1. ptr[s] \in Tables
    BY <1>3 DEF CallReads
  <2>2. seen' \subseteq Services \X Tables
    BY <1>3, <2>1 DEF CallReads
  <2>3. \A r \in Services, t \in Tables :
          <<r, t>> \in seen' => <<r, t>> \in seen \/ (r = s /\ t = ptr[s])
    BY <1>3 DEF CallReads
  <2>4. UNCHANGED <<debug_assertions, ptr, pc, arg, on, inits, met>>
    BY <1>3 DEF CallReads
  <2>5. SeenIsCurrent'
    BY <2>3, <2>4
  <2> QED BY <2>2, <2>4, <2>5
<1>4. CASE UNCHANGED servicesVars
  BY <1>4 DEF servicesVars
<1> QED BY <1>1, <1>2, <1>3, <1>4, TableStores DEF ServicesNext

\* The methods of a service never see two tables unless an initialize fell between the
\* load and the store of another.
THEOREM TableStays == ServicesSpec => []OneTableSeen
<1>1. ServicesSpec => []TableInv
  BY TableInit, TableStep, PTL DEF ServicesSpec
<1>2. TableInv => OneTableSeen
  BY DEF TableInv, SeenIsCurrent, OneTableSeen
<1> QED BY <1>1, <1>2, PTL

\* The initialize of two callers stores a table only if one of them fell between the
\* load and the store of another.
THEOREM SerialInitialize == ServicesSpec => []InitializeOnceIfSerial
<1>1. ServicesSpec => []TableInv
  BY TableInit, TableStep, PTL DEF ServicesSpec
<1>2. TableInv => InitializeOnceIfSerial
  BY DEF TableInv
<1> QED BY <1>1, <1>2, PTL

=============================================================================
