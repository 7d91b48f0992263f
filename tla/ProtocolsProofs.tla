-------------------------- MODULE ProtocolsProofs ---------------------------
(***************************************************************************)
(* Ownership of protocol interfaces, for any number of handles, protocols,  *)
(* interfaces and keys.  No part of the invariant is inductive alone: an    *)
(* uninstall gives the interface back safely, whichever key it came with,   *)
(* only because what is installed is at one place (OneOwner) and not in the *)
(* program's hands (InstalledNotHeld), and an install puts it at one place  *)
(* only because nothing the program owns is installed.                      *)
(***************************************************************************)
EXTENDS Protocols, GlobalAllocator, FiniteSetTheorems, TLAPS

\* An interface is a table under one identifier only: replacing the table gives it up.
TableOnce ==
  \A g, d \in Tables : tables[g] = tables[d] /\ tables[g] # None => g = d

\* The firmware keeps an interface installed while a driver has it open.
OpenIsInstalled ==
  \A at \in Places : opened[at] # None => opened[at] = db[at]

Inv ==
  /\ TypeOK /\ InstalledNotHeld /\ OneOwner /\ TableOnce /\ OpenIsInstalled
  /\ StrandedOnlyIfLost

\* The program starts in the invariant: it owns all interfaces, none is installed.
LEMMA InvInit == Init => Inv
<1> SUFFICES ASSUME Init PROVE Inv
    OBVIOUS
<1>1. TypeOK /\ Owned = Objects
  BY ProtocolsAssumption DEF Init, TypeOK, Owned
<1> QED
  BY <1>1, ProtocolsAssumption
  DEF Init, Inv, InstalledNotHeld, OneOwner, TableOnce, OpenIsInstalled, StrandedOnlyIfLost

\* Handing an interface over, by into_mut_ptr or by dropping it, leaves it without owner.
LEMMA GiveUp ==
  ASSUME owners \in [Objects -> Nat], \A x \in Objects : owners[x] <= 1,
         NEW o \in Owned, owners' = [owners EXCEPT ![o] = @ - 1]
  PROVE  /\ owners' \in [Objects -> Nat] /\ Owned' = Owned \ {o} /\ o \in Objects
         /\ \A x \in Objects : owners'[x] <= 1
<1>1. o \in Objects /\ owners[o] = 1
  BY DEF Owned
<1>2. \A x \in Objects : owners'[x] = IF x = o THEN 0 ELSE owners[x]
  BY <1>1
<1>3. owners' \in [Objects -> Nat]
  BY <1>1
<1> QED BY <1>1, <1>2, <1>3 DEF Owned

\* Rebuilding one that has no owner, by into_original_ptr, gives it one.
LEMMA TakeBack ==
  ASSUME owners \in [Objects -> Nat], \A x \in Objects : owners[x] <= 1,
         NEW o \in Objects, o \notin Owned, owners' = [owners EXCEPT ![o] = @ + 1]
  PROVE  /\ owners' \in [Objects -> Nat] /\ Owned' = Owned \cup {o}
         /\ \A x \in Objects : owners'[x] <= 1
<1>1. owners[o] = 0
  BY DEF Owned
<1>2. \A x \in Objects : owners'[x] = IF x = o THEN 1 ELSE owners[x]
  BY <1>1
<1>3. owners' \in [Objects -> Nat]
  BY <1>1
<1> QED BY <1>1, <1>2, <1>3 DEF Owned

\* A key more or less of one interface changes nothing for the others.
LEMMA KeyMade ==
  ASSUME keys \in [Objects -> Nat], NEW o \in Objects, keys' = [keys EXCEPT ![o] = @ + 1]
  PROVE  /\ keys' \in [Objects -> Nat] /\ keys'[o] > 0
         /\ \A x \in Objects : keys[x] > 0 => keys'[x] > 0
  OBVIOUS

\* The same for a key that a call consumes or the program drops.
LEMMA KeyUsed ==
  ASSUME keys \in [Objects -> Nat], NEW o \in Objects, keys[o] > 0,
         keys' = [keys EXCEPT ![o] = @ - 1]
  PROVE  /\ keys' \in [Objects -> Nat]
         /\ \A x \in Objects : x # o /\ keys[x] > 0 => keys'[x] > 0
  OBVIOUS

\* Each call, accepted or refused, and what other code does, keeps the invariant.
LEMMA InvStep == Inv /\ [Next]_vars => Inv'
<1> SUFFICES ASSUME Inv, [Next]_vars PROVE Inv'
    OBVIOUS
<1>a. /\ owners \in [Objects -> Nat] /\ keys \in [Objects -> Nat]
      /\ \A x \in Objects : owners[x] <= 1
  BY DEF Inv, TypeOK, OneOwner
<1>b. owners' = owners => Owned' = Owned
  BY DEF Owned
<1> USE ProtocolsAssumption
        DEF Inv, TypeOK, InstalledNotHeld, OneOwner, TableOnce, OpenIsInstalled,
            StrandedOnlyIfLost
<1>1. ASSUME NEW h \in Handles, NEW p \in Guids, NEW o \in Objects, Install(h, p, o)
      PROVE  Inv'
  <2>1. /\ <<h, p>> \in Places /\ <<h, p>>[2] \notin Markers /\ o \in Owned
        /\ db[<<h, p>>] = None
        /\ db' \in [Places -> Objects \cup {Null, None}]
        /\ \A at \in Places : db'[at] = IF at = <<h, p>> THEN o ELSE db[at]
    BY <1>1 DEF Install, Places
  <2>2. /\ owners' \in [Objects -> Nat] /\ Owned' = Owned \ {o}
        /\ \A x \in Objects : owners'[x] <= 1
    BY <1>1, <1>a, <2>1, GiveUp DEF Install
  <2>3. /\ keys' \in [Objects -> Nat] /\ keys'[o] > 0
        /\ \A x \in Objects : keys[x] > 0 => keys'[x] > 0
    BY <1>1, <1>a, KeyMade DEF Install
  <2>4. /\ freed' = freed /\ refs' = refs /\ opened' = opened /\ tables' = tables
        /\ lost' = lost \ {o}
    BY <1>1 DEF Install, lookupVars
  <2>5. TypeOK'
    BY <2>1, <2>2, <2>3, <2>4
  <2>6. InstalledNotHeld' /\ TableOnce' /\ OpenIsInstalled'
    BY <2>1, <2>2, <2>4
  <2>7. OneOwner'
    BY <2>1, <2>2, <2>4
  <2>8. StrandedOnlyIfLost'
    <3> SUFFICES ASSUME NEW x \in Objects
                 PROVE  \/ x \in (Owned \cup freed \cup lost)'
                        \/ \E g \in Tables : tables'[g] = x
                        \/ keys'[x] > 0 /\ \E at \in Places : db'[at] = x
      OBVIOUS
    <3>1. CASE x = o
      BY <2>1, <2>3, <3>1
    <3>2. CASE x # o
      BY <2>1, <2>2, <2>3, <2>4, <3>2
    <3> QED BY <3>1, <3>2
  <2> QED BY <2>5, <2>6, <2>7, <2>8
<1>2. ASSUME NEW h \in Handles, NEW p \in Guids, NEW o \in Objects, Uninstall(h, p, o)
      PROVE  Inv'
  <2>1. /\ <<h, p>> \in Places /\ db[<<h, p>>] = o /\ opened[<<h, p>>] = None
        /\ db' \in [Places -> Objects \cup {Null, None}]
        /\ \A at \in Places : db'[at] = IF at = <<h, p>> THEN None ELSE db[at]
    BY <1>2 DEF Uninstall, Places
  <2>2. o \notin Owned /\ o \notin freed
    BY <2>1
  <2>3. /\ owners' \in [Objects -> Nat] /\ Owned' = Owned \cup {o}
        /\ \A x \in Objects : owners'[x] <= 1
    BY <1>2, <1>a, <2>2, TakeBack DEF Uninstall
  <2>4. /\ keys' \in [Objects -> Nat]
        /\ \A x \in Objects : x # o /\ keys[x] > 0 => keys'[x] > 0
    BY <1>2, <1>a, KeyUsed DEF Uninstall
  <2>5. /\ freed' = freed /\ refs' = refs /\ opened' = opened /\ tables' = tables
        /\ lost' = lost \ {o}
    BY <1>2 DEF Uninstall, lookupVars
  <2>6. TypeOK'
    BY <2>1, <2>3, <2>4, <2>5
  <2>7. InstalledNotHeld'
    <3>1. (\A at \in Places : at # <<h, p>> => db[at] # o) /\ \A g \in Tables : tables[g] # o
      BY <2>1
    <3>2. None \notin Owned \cup freed \cup {o}
      BY DEF Owned
    <3> QED BY <2>1, <2>3, <2>5, <3>1, <3>2
  <2>8. OneOwner' /\ TableOnce' /\ OpenIsInstalled'
    BY <2>1, <2>2, <2>3, <2>5
  <2>9. StrandedOnlyIfLost'
    <3> SUFFICES ASSUME NEW x \in Objects, x # o
                 PROVE  \/ x \in (Owned \cup freed \cup lost)'
                        \/ \E g \in Tables : tables'[g] = x
                        \/ keys'[x] > 0 /\ \E at \in Places : db'[at] = x
      BY <2>3
    <3> QED BY <2>1, <2>3, <2>4, <2>5
  <2> QED BY <2>6, <2>7, <2>8, <2>9
<1>3. ASSUME NEW o \in Objects, MakeKey(o) PROVE Inv'
  <2>1. keys' \in [Objects -> Nat] /\ \A x \in Objects : keys[x] > 0 => keys'[x] > 0
    BY <1>3, <1>a, KeyMade DEF MakeKey
  <2> QED BY <1>3, <1>b, <2>1 DEF MakeKey, lookupVars
<1>4. ASSUME NEW o \in Objects, keys[o] > 0, keys' = [keys EXCEPT ![o] = @ - 1],
             lost' = lost \cup {o}, UNCHANGED <<db, owners, freed, refs, opened, tables>>
      PROVE  Inv'
  <2>1. /\ keys' \in [Objects -> Nat]
        /\ \A x \in Objects : x # o /\ keys[x] > 0 => keys'[x] > 0
    BY <1>4, <1>a, KeyUsed
  <2> QED BY <1>4, <1>b, <2>1
<1>5. ASSUME NEW o \in Objects, DropInterface(o) PROVE Inv'
  <2>1. /\ owners' \in [Objects -> Nat] /\ Owned' = Owned \ {o}
        /\ \A x \in Objects : owners'[x] <= 1
    BY <1>5, <1>a, GiveUp DEF DropInterface
  <2>2. o \in Owned
    BY <1>5 DEF DropInterface
  <2> QED BY <1>5, <2>1, <2>2 DEF DropInterface, lookupVars
<1>6. ASSUME NEW o \in Objects, NewInterface(o) PROVE Inv'
  <2>1. o \in freed /\ o \notin Owned
    BY <1>6 DEF NewInterface
  <2>2. /\ owners' \in [Objects -> Nat] /\ Owned' = Owned \cup {o}
        /\ \A x \in Objects : owners'[x] <= 1
    BY <1>6, <1>a, <2>1, TakeBack DEF NewInterface
  <2> QED BY <1>6, <2>1, <2>2 DEF NewInterface, lookupVars
<1>7. ASSUME NEW o \in Objects, InstallRefused(o) PROVE Inv'
  <2>1. /\ owners' \in [Objects -> Nat] /\ Owned' = Owned \ {o}
        /\ \A x \in Objects : owners'[x] <= 1
    BY <1>7, <1>a, GiveUp DEF InstallRefused
  <2> QED BY <1>7, <2>1 DEF InstallRefused, lookupVars
<1>8. ASSUME NEW h \in Handles, NEW p \in Markers, InstallMarker(h, p) PROVE Inv'
  <2>1. /\ <<h, p>> \in Places /\ <<h, p>>[2] \in Markers /\ db[<<h, p>>] = None
        /\ \A at \in Places : db'[at] = IF at = <<h, p>> THEN Null ELSE db[at]
    BY <1>8 DEF InstallMarker, Places
  <2>2. opened' = opened /\ opened[<<h, p>>] = None
    BY <1>8, <2>1 DEF InstallMarker, lookupVars
  <2>3. /\ owners' = owners /\ Owned' = Owned /\ freed' = freed /\ keys' = keys /\ refs' = refs
        /\ tables' = tables /\ lost' = lost
    BY <1>8, <1>b DEF InstallMarker, lookupVars
  <2>4. TypeOK'
    BY <1>8, <2>1, <2>2, <2>3 DEF InstallMarker
  <2>5. InstalledNotHeld' /\ TableOnce' /\ OpenIsInstalled'
    BY <2>1, <2>2, <2>3 DEF Owned
  <2>6. OneOwner'
    BY <2>1, <2>3
  <2>7. StrandedOnlyIfLost'
    BY <2>1, <2>3
  <2> QED BY <2>4, <2>5, <2>6, <2>7
<1>9. ASSUME NEW at \in Places, db' = [db EXCEPT ![at] = None], opened[at] = None,
             lost' = lost \cup ({db[at]} \ {Null}), db[at] # None,
             UNCHANGED <<owners, freed, keys, refs, opened, tables>>
      PROVE  Inv'
  <2>1. \A too \in Places : db'[too] = IF too = at THEN None ELSE db[too]
    BY <1>9
  <2>2. TypeOK'
    BY <1>9, <2>1
  <2>3. InstalledNotHeld' /\ TableOnce' /\ OpenIsInstalled'
    BY <1>9, <1>b, <2>1 DEF Owned
  <2>4. OneOwner'
    BY <1>9, <1>b, <2>1
  <2>5. StrandedOnlyIfLost'
    BY <1>9, <1>b, <2>1
  <2> QED BY <2>2, <2>3, <2>4, <2>5
<1>10. ASSUME NEW h \in Handles, NEW p \in Markers, UninstallMarker(h, p) PROVE Inv'
  <2>1. /\ <<h, p>> \in Places /\ db[<<h, p>>] = Null /\ opened[<<h, p>>] = None
        /\ lost' = lost \cup ({db[<<h, p>>]} \ {Null})
    BY <1>10 DEF UninstallMarker, Places
  <2> QED BY <1>9, <1>10, <2>1 DEF UninstallMarker, lookupVars
<1>11. ASSUME NEW h \in Handles, NEW p \in Guids \cup Markers, ForeignUninstall(h, p) PROVE Inv'
  BY <1>9, <1>11 DEF ForeignUninstall, Places, lookupVars
<1>12. ASSUME NEW h \in Handles, NEW p \in Guids, NEW old \in Objects, NEW new \in Objects,
             Reinstall(h, p, old, new)
      PROVE  Inv'
  <2>1. /\ <<h, p>> \in Places /\ <<h, p>>[2] \notin Markers /\ old # new /\ new \in Owned
        /\ db[<<h, p>>] = old /\ opened[<<h, p>>] = None
        /\ db' \in [Places -> Objects \cup {Null, None}]
        /\ \A at \in Places : db'[at] = IF at = <<h, p>> THEN new ELSE db[at]
    BY <1>12 DEF Reinstall, Places
  <2>2. old \notin Owned /\ old \notin freed
    BY <2>1
  <2>3. /\ owners' \in [Objects -> Nat] /\ Owned' = (Owned \cup {old}) \ {new}
        /\ \A x \in Objects : owners'[x] <= 1
    <3>1. owners[old] = 0 /\ owners[new] = 1
      BY <1>a, <2>1, <2>2 DEF Owned
    <3>2. /\ owners' \in [Objects -> Nat]
          /\ \A x \in Objects : owners'[x] = IF x = old THEN 1 ELSE IF x = new THEN 0 ELSE owners[x]
      BY <1>12, <1>a, <2>1, <3>1 DEF Reinstall
    <3> QED BY <1>a, <2>1, <3>1, <3>2 DEF Owned
  <2>4. /\ keys' \in [Objects -> Nat] /\ keys'[new] > 0
        /\ \A x \in Objects : x # old /\ keys[x] > 0 => keys'[x] > 0
    BY <1>12, <1>a, <2>1 DEF Reinstall
  <2>5. /\ freed' = freed /\ refs' = refs /\ opened' = opened /\ tables' = tables
        /\ lost' = lost \ {old, new}
    BY <1>12 DEF Reinstall, lookupVars
  <2>6. TypeOK'
    BY <2>1, <2>3, <2>4, <2>5
  <2>7. InstalledNotHeld' /\ TableOnce' /\ OpenIsInstalled'
    BY <2>1, <2>3, <2>5
  <2>8. OneOwner'
    BY <2>1, <2>2, <2>3, <2>5
  <2>9. StrandedOnlyIfLost'
    <3> SUFFICES ASSUME NEW x \in Objects
                 PROVE  \/ x \in (Owned \cup freed \cup lost)'
                        \/ \E g \in Tables : tables'[g] = x
                        \/ keys'[x] > 0 /\ \E at \in Places : db'[at] = x
      OBVIOUS
    <3>1. CASE x = old
      BY <2>1, <2>3, <3>1
    <3>2. CASE x = new
      BY <2>1, <2>4, <3>2
    <3>3. CASE x # old /\ x # new
      BY <2>1, <2>3, <2>4, <2>5, <3>3
    <3> QED BY <3>1, <3>2, <3>3
  <2> QED BY <2>6, <2>7, <2>8, <2>9
<1>13. ASSUME NEW old \in Objects, NEW new \in Objects, ReinstallRefused(old, new) PROVE Inv'
  <2>1. /\ owners' \in [Objects -> Nat] /\ Owned' = Owned \ {new}
        /\ \A x \in Objects : owners'[x] <= 1
    BY <1>13, <1>a, GiveUp DEF ReinstallRefused
  <2>2. /\ keys' \in [Objects -> Nat]
        /\ \A x \in Objects : x # old /\ keys[x] > 0 => keys'[x] > 0
    BY <1>13, <1>a, KeyUsed DEF ReinstallRefused
  <2> QED BY <1>13, <2>1, <2>2 DEF ReinstallRefused, lookupVars
<1>14. ASSUME NEW h \in Handles, NEW p \in Guids, HandleProtocol(h, p) PROVE Inv'
  BY <1>14, <1>b DEF HandleProtocol, Places
<1>15. ASSUME NEW o \in Objects, EndReference(o) PROVE Inv'
  BY <1>15, <1>b DEF EndReference
<1>16. ASSUME NEW h \in Handles, NEW p \in Guids, OpenProtocol(h, p) PROVE Inv'
  <2>1. /\ <<h, p>> \in Places /\ db[<<h, p>>] \in Objects
        /\ opened' \in [Places -> Objects \cup {None}]
        /\ \A at \in Places : opened'[at] = IF at = <<h, p>> THEN db[at] ELSE opened[at]
    BY <1>16 DEF OpenProtocol, Places
  <2>2. OpenIsInstalled'
    BY <1>16, <2>1 DEF OpenProtocol
  <2> QED BY <1>16, <1>b, <2>1, <2>2 DEF OpenProtocol
<1>17. ASSUME NEW h \in Handles, NEW p \in Guids, CloseProtocol(h, p) PROVE Inv'
  <2>1. /\ opened' \in [Places -> Objects \cup {None}]
        /\ \A at \in Places : opened'[at] = IF at = <<h, p>> THEN None ELSE opened[at]
    BY <1>17 DEF CloseProtocol, Places
  <2>2. OpenIsInstalled'
    BY <1>17, <2>1 DEF CloseProtocol
  <2> QED BY <1>17, <1>b, <2>1, <2>2 DEF CloseProtocol
<1>18. ASSUME NEW g \in Tables, NEW o \in Objects, InstallTable(g, o) PROVE Inv'
  <2>1. /\ owners' \in [Objects -> Nat] /\ Owned' = Owned \ {o} /\ o \in Owned
        /\ \A x \in Objects : owners'[x] <= 1
    BY <1>18, <1>a, GiveUp DEF InstallTable
  <2>2. \A d \in Tables : tables'[d] = IF d = g THEN o ELSE tables[d]
    BY <1>18 DEF InstallTable
  <2>3. TypeOK' /\ InstalledNotHeld' /\ OneOwner' /\ TableOnce' /\ OpenIsInstalled'
    BY <1>18, <2>1, <2>2 DEF InstallTable
  <2>4. StrandedOnlyIfLost'
    BY <1>18, <2>1, <2>2 DEF InstallTable
  <2> QED BY <2>3, <2>4
<1>19. ASSUME NEW g \in Tables, RemoveTable(g) PROVE Inv'
  <2>1. \A d \in Tables : tables'[d] = IF d = g THEN None ELSE tables[d]
    BY <1>19 DEF RemoveTable
  <2>2. TypeOK' /\ TableOnce' /\ OpenIsInstalled'
    BY <1>19, <2>1 DEF RemoveTable
  <2>3. InstalledNotHeld'
    BY <1>19, <1>b, <2>1 DEF RemoveTable, Owned
  <2>4. OneOwner'
    BY <1>19, <1>b, <2>1 DEF RemoveTable
  <2>5. StrandedOnlyIfLost'
    BY <1>19, <1>b, <2>1 DEF RemoveTable
  <2> QED BY <2>2, <2>3, <2>4, <2>5
<1>20. CASE UNCHANGED vars
  BY <1>20, <1>b DEF vars
<1>21. ASSUME NEW o \in Objects, DropKey(o) \/ UninstallRefused(o) PROVE Inv'
  BY <1>4, <1>21 DEF DropKey, UninstallRefused, lookupVars
<1> QED
  BY <1>1, <1>2, <1>3, <1>5, <1>6, <1>7, <1>8, <1>10, <1>11, <1>12, <1>13, <1>14,
     <1>15, <1>16, <1>17, <1>18, <1>19, <1>20, <1>21
  DEF Next, LocateProtocol

\* The firmware never uses an interface that the program owns or has dropped.
THEOREM NeverSharedWithFirmware == Spec => []InstalledNotHeld
<1>1. Inv => InstalledNotHeld
  BY DEF Inv
<1> QED
  BY <1>1, InvInit, InvStep, PTL DEF Spec

\* Rebuilding the interface from a key, in uninstall_ and reinstall_protocol_interface,
\* never makes a second owner or one of freed memory, however many keys of it, or of an
\* earlier interface at its address, the program made and kept.
THEOREM KeysAreSound == Spec => []OneOwner
<1>1. Inv => OneOwner
  BY DEF Inv
<1> QED
  BY <1>1, InvInit, InvStep, PTL DEF Spec

\* What a driver has open is never in the program's hands, dropped, or open twice.
THEOREM DriversAreSafe == Spec => []DriverReferencesLive
<1>1. Inv => DriverReferencesLive
  BY ProtocolsAssumption
  DEF Inv, TypeOK, OpenIsInstalled, InstalledNotHeld, OneOwner, DriverReferencesLive, Owned
<1> QED
  BY <1>1, InvInit, InvStep, PTL DEF Spec

\* Only a refused call, a dropped key, a replaced table or another's uninstall can cost
\* the program an interface.
THEOREM OnlyLossesStrand == Spec => []StrandedOnlyIfLost
<1>1. Inv => StrandedOnlyIfLost
  BY DEF Inv
<1> QED
  BY <1>1, InvInit, InvStep, PTL DEF Spec

-----------------------------------------------------------------------------
(* Blocks of the global allocator keep to themselves and find their buffers *)
(* again.                                                                   *)

\* The address of the buffer alloc took for a block, as dealloc finds it.
BufferAt(b) == IF Plain(b.layout) THEN b.ptr ELSE Tracker(b)
BufferOf(b) == [at |-> BufferAt(b), size |-> AllocSize(b.layout)]

\* Firmware: buffers are aligned, in the pool's memory and apart.
BufferType(b) ==
  /\ b.at \in Addresses /\ b.size \in Nat \ {0}
  /\ b.at % Word = 0 /\ b.at + b.size <= MemSize

Buffers ==
  /\ \A b \in pool : BufferType(b) /\ b = [at |-> b.at, size |-> b.size]
  /\ \A b, c \in pool : b # c => Bytes(b.at, b.size) \cap Bytes(c.at, c.size) = {}

\* A block of layout l whose buffer is at at.
Placed(ptr, l, at) == ptr = IF Plain(l) THEN at ELSE RoundUp(at, l.align)

BlockType(b) == b.ptr \in Nat /\ b.layout \in Layouts

\* All bytes of a tracker hold the buffer's address.
Tracked(b) ==
  ~Plain(b.layout) =>
    \A a \in Bytes(b.ptr + TrackerOffset(b.layout), Word) : memory[a] = BufferAt(b)

Blocks ==
  /\ \A b \in blocks : /\ BlockType(b) /\ b = [ptr |-> b.ptr, layout |-> b.layout]
                       /\ Tracked(b)
                       /\ BufferOf(b) \in pool
                       /\ Placed(b.ptr, b.layout, BufferAt(b))
  /\ \A b, c \in blocks : BufferAt(b) = BufferAt(c) => b = c
  /\ \A d \in pool : \E b \in blocks : d = BufferOf(b)

AllocInv ==
  /\ memory \in [Addresses -> Addresses \cup {Data}]
  /\ state = "running"
  /\ Buffers
  /\ Blocks
  /\ IsFiniteSet(pool) /\ IsFiniteSet(blocks) /\ Cardinality(pool) = Cardinality(blocks)

-----------------------------------------------------------------------------
(* Arithmetic of Layout::extend and align_offset                           *)

\* Quotient and remainder.
LEMMA DivMod ==
  ASSUME NEW n \in Nat, NEW a \in Nat \ {0}
  PROVE  n \div a \in Nat /\ n % a \in 0..(a - 1) /\ n = a * (n \div a) + (n % a)
  OBVIOUS

\* A multiple leaves no remainder.
LEMMA MultipleMod ==
  ASSUME NEW k \in Nat, NEW a \in Nat \ {0}
  PROVE  (a * k) % a = 0 /\ (k * a) % a = 0
  OBVIOUS

\* Rounding up gives a multiple, less than one step further.
LEMMA RoundUpBounds ==
  ASSUME NEW n \in Nat, NEW a \in Nat \ {0}
  PROVE  /\ RoundUp(n, a) \in Nat /\ RoundUp(n, a) % a = 0
         /\ n <= RoundUp(n, a) /\ RoundUp(n, a) <= n + a - 1
<1> DEFINE m == n + a - 1
           q == m \div a
<1>1. m \in Nat
  OBVIOUS
<1>2. q \in Nat /\ m % a \in 0..(a - 1) /\ m = a * q + (m % a)
  BY <1>1, DivMod
<1> HIDE DEF q
<1>3. RoundUp(n, a) = q * a /\ q * a = a * q /\ a * q \in Nat
  BY <1>2 DEF RoundUp, q
<1>4. (q * a) % a = 0
  BY <1>2, MultipleMod
<1>5. a * q = m - (m % a) /\ a * q >= n /\ a * q <= n + a - 1
  BY <1>1, <1>2
<1> QED BY <1>3, <1>4, <1>5

\* What is aligned to a multiple of an alignment has the alignment too.
LEMMA AlignedToMultiple ==
  ASSUME NEW n \in Nat, NEW w \in Nat \ {0}, NEW a \in Nat \ {0}, n % w = 0, w % a = 0
  PROVE  n % a = 0
<1> DEFINE k == n \div w
           j == w \div a
<1>1. k \in Nat /\ n = w * k
  BY DivMod
<1>2. j \in Nat /\ w = a * j
  BY DivMod
<1> HIDE DEF k, j
<1>3. n = a * (j * k) /\ j * k \in Nat
  BY <1>1, <1>2
<1> QED BY <1>3, MultipleMod

\* The tracker lies behind the block, and what alloc asks for has room for both.
LEMMA LayoutSizes ==
  ASSUME NEW l \in Layouts
  PROVE  /\ l.size \in Nat \ {0} /\ l.align \in Nat \ {0} /\ Word \in Nat \ {0}
         /\ TrackerOffset(l) \in Nat /\ l.size <= TrackerOffset(l)
         /\ AllocSize(l) \in Nat \ {0}
<1>1. l.size \in Nat \ {0} /\ l.align \in Nat \ {0} /\ Word \in Nat \ {0}
  BY AllocatorAssumption
<1>2. TrackerOffset(l) \in Nat /\ l.size <= TrackerOffset(l)
  BY <1>1, RoundUpBounds DEF TrackerOffset
<1>3. AllocSize(l) \in Nat \ {0}
  BY <1>1, <1>2 DEF AllocSize
<1> QED BY <1>1, <1>2, <1>3

\* Wherever the pool puts the buffer, block and tracker are inside it and apart.
LEMMA PlacedInBuffer ==
  ASSUME NEW l \in Layouts, NEW at \in Nat, NEW ptr, Placed(ptr, l, at)
  PROVE  /\ ptr \in Nat /\ ptr \in Bytes(ptr, l.size)
         /\ Bytes(ptr, l.size) \subseteq Bytes(at, AllocSize(l))
         /\ ~Plain(l) => /\ Bytes(ptr + TrackerOffset(l), Word) \subseteq Bytes(at, AllocSize(l))
                         /\ ptr + TrackerOffset(l) \in Bytes(ptr + TrackerOffset(l), Word)
                         /\ Bytes(ptr, l.size) \cap Bytes(ptr + TrackerOffset(l), Word) = {}
<1>1. /\ l.size \in Nat \ {0} /\ l.align \in Nat \ {0} /\ Word \in Nat \ {0}
      /\ TrackerOffset(l) \in Nat /\ l.size <= TrackerOffset(l)
  BY LayoutSizes
<1>2. CASE Plain(l)
  BY <1>1, <1>2 DEF Placed, AllocSize, Bytes
<1>3. CASE ~Plain(l)
  <2>1. ptr = RoundUp(at, l.align)
    BY <1>3 DEF Placed
  <2>2. ptr \in Nat /\ at <= ptr /\ ptr <= at + l.align - 1
    BY <1>1, <2>1, RoundUpBounds
  <2>3. AllocSize(l) = l.align + TrackerOffset(l) + Word
    BY <1>3 DEF AllocSize
  <2> QED BY <1>1, <2>2, <2>3 DEF Bytes
<1> QED BY <1>2, <1>3

\* Each block and its tracker are in the block's own buffer.
LEMMA BlockInBuffer ==
  ASSUME AllocInv, NEW b \in blocks
  PROVE  /\ b.layout \in Layouts /\ b.ptr \in Nat /\ BufferAt(b) \in Nat
         /\ BufferOf(b) \in pool /\ BufferOf(b).at = BufferAt(b)
         /\ BufferOf(b).size = AllocSize(b.layout)
         /\ Placed(b.ptr, b.layout, BufferAt(b))
         /\ Footprint(b) \subseteq Bytes(BufferOf(b).at, BufferOf(b).size)
         /\ b.ptr \in Footprint(b)
<1>1. /\ b.layout \in Layouts /\ b.ptr \in Nat /\ BufferOf(b) \in pool
      /\ Placed(b.ptr, b.layout, BufferAt(b))
  BY DEF AllocInv, Blocks, BlockType
<1>2. BufferOf(b).at = BufferAt(b) /\ BufferOf(b).size = AllocSize(b.layout)
  BY DEF BufferOf
<1>3. BufferAt(b) \in Nat
  BY <1>1, <1>2, AllocatorAssumption DEF AllocInv, Buffers, BufferType, Addresses
<1> QED BY <1>1, <1>2, <1>3, PlacedInBuffer DEF Footprint

\* The buffers of two blocks are two, with no byte in common.
LEMMA BlocksApart ==
  ASSUME AllocInv, NEW b \in blocks, NEW c \in blocks, b # c
  PROVE  /\ BufferOf(b) # BufferOf(c) /\ BufferAt(b) # BufferAt(c)
         /\ Bytes(BufferOf(b).at, BufferOf(b).size) \cap Bytes(BufferOf(c).at, BufferOf(c).size) = {}
<1>1. BufferAt(b) # BufferAt(c)
  BY DEF AllocInv, Blocks
<1>2. BufferOf(b) # BufferOf(c)
  BY <1>1, BlockInBuffer
<1> QED BY <1>1, <1>2, BlockInBuffer DEF AllocInv, Buffers

\* The invariant gives both properties.
LEMMA InvUsable == AllocInv => BlocksAreUsable
<1> SUFFICES ASSUME AllocInv, NEW b \in blocks
             PROVE  /\ b.ptr % b.layout.align = 0
                    /\ \E buffer \in pool : Footprint(b) \subseteq Bytes(buffer.at, buffer.size)
                    /\ \A c \in blocks \ {b} : Footprint(b) \cap Footprint(c) = {}
  BY DEF BlocksAreUsable
<1>1. b.ptr % b.layout.align = 0
  <2> DEFINE at == BufferAt(b)
             l == b.layout
  <2>1. /\ l \in Layouts /\ at \in Nat /\ at % Word = 0 /\ Placed(b.ptr, l, at)
        /\ l.align \in Nat \ {0} /\ Word \in Nat \ {0}
    BY BlockInBuffer, LayoutSizes DEF AllocInv, Buffers, BufferType
  <2> HIDE DEF at, l
  <2>2. CASE Plain(l)
    <3>1. Word % l.align = 0
      BY <2>1, <2>2, AllocatorAssumption DEF Plain
    <3>2. at % l.align = 0
      BY <2>1, <3>1, AlignedToMultiple
    <3> QED BY <2>1, <2>2, <3>2 DEF Placed, l
  <2>3. CASE ~Plain(l)
    <3>1. RoundUp(at, l.align) % l.align = 0
      BY <2>1, RoundUpBounds
    <3> QED BY <2>1, <2>3, <3>1 DEF Placed, l
  <2> QED BY <2>2, <2>3
<1>2. \E buffer \in pool : Footprint(b) \subseteq Bytes(buffer.at, buffer.size)
  BY BlockInBuffer
<1>3. \A c \in blocks \ {b} : Footprint(b) \cap Footprint(c) = {}
  BY BlockInBuffer, BlocksApart
<1> QED BY <1>1, <1>2, <1>3

\* The second: a footprint lies in its own buffer and in no other.
LEMMA InvOneBuffer == AllocInv => OneBufferPerBlock
<1> SUFFICES ASSUME AllocInv PROVE OneBufferPerBlock
  OBVIOUS
<1>1. ASSUME NEW d \in pool
      PROVE  Cardinality({b \in blocks : Footprint(b) \subseteq Bytes(d.at, d.size)}) = 1
  <2>1. PICK b \in blocks : d = BufferOf(b)
    BY DEF AllocInv, Blocks
  <2>2. ASSUME NEW c \in blocks, Footprint(c) \subseteq Bytes(d.at, d.size) PROVE c = b
    BY <2>1, <2>2, BlockInBuffer, BlocksApart
  <2>3. {c \in blocks : Footprint(c) \subseteq Bytes(d.at, d.size)} = {b}
    BY <2>1, <2>2, BlockInBuffer
  <2> QED BY <2>3, FS_Singleton
<1> QED BY <1>1 DEF OneBufferPerBlock, AllocInv

-----------------------------------------------------------------------------
(* The invariant is inductive                                              *)

\* A step that leaves a block's tracker alone leaves it its buffer.
LEMMA TrackerKept ==
  ASSUME AllocInv, NEW b \in blocks,
         ~Plain(b.layout) => \A a \in Bytes(b.ptr + TrackerOffset(b.layout), Word) : memory'[a] = memory[a]
  PROVE  BufferAt(b)' = BufferAt(b) /\ BufferOf(b)' = BufferOf(b) /\ Tracked(b)'
<1>1. b.layout \in Layouts /\ b.ptr \in Nat /\ Tracked(b) /\ BufferAt(b) \in Nat /\ Placed(b.ptr, b.layout, BufferAt(b))
  BY BlockInBuffer DEF AllocInv, Blocks
<1>2. ~Plain(b.layout) => b.ptr + TrackerOffset(b.layout) \in Bytes(b.ptr + TrackerOffset(b.layout), Word)
  BY <1>1, PlacedInBuffer
<1>3. BufferAt(b)' = BufferAt(b)
  BY <1>2 DEF BufferAt, Tracker
<1>4. BufferOf(b)' = BufferOf(b)
  BY <1>3 DEF BufferOf
<1>5. Tracked(b)'
  BY <1>1, <1>3 DEF Tracked
<1> QED BY <1>3, <1>4, <1>5

\* So does one that only changes bytes of another buffer, or of no buffer.
LEMMA OthersKept ==
  ASSUME AllocInv, NEW b \in blocks,
         \A a \in Bytes(BufferOf(b).at, BufferOf(b).size) : memory'[a] = memory[a]
  PROVE  BufferAt(b)' = BufferAt(b) /\ BufferOf(b)' = BufferOf(b) /\ Tracked(b)'
<1>1. Footprint(b) \subseteq Bytes(BufferOf(b).at, BufferOf(b).size)
  BY BlockInBuffer
<1>2. ~Plain(b.layout) => \A a \in Bytes(b.ptr + TrackerOffset(b.layout), Word) : memory'[a] = memory[a]
  BY <1>1 DEF Footprint
<1> QED BY <1>2, TrackerKept

\* No block and no buffer at the start.
LEMMA AllocInit == AllocatorInit => AllocInv
<1> SUFFICES ASSUME AllocatorInit PROVE AllocInv
  OBVIOUS
<1>1. Buffers /\ Blocks
  BY DEF AllocatorInit, Buffers, Blocks
<1>2. IsFiniteSet(pool) /\ IsFiniteSet(blocks) /\ Cardinality(pool) = Cardinality(blocks)
  BY FS_EmptySet DEF AllocatorInit
<1>3. memory \in [Addresses -> Addresses \cup {Data}] /\ state = "running"
  BY DEF AllocatorInit
<1> QED BY <1>1, <1>2, <1>3 DEF AllocInv

\* Blocks and buffers grow together,
LEMMA AddBoth ==
  ASSUME NEW S, NEW T, IsFiniteSet(S), IsFiniteSet(T), Cardinality(S) = Cardinality(T)
  PROVE  \A x, y : x \notin S /\ y \notin T =>
           /\ IsFiniteSet(S \cup {x}) /\ IsFiniteSet(T \cup {y})
           /\ Cardinality(S \cup {x}) = Cardinality(T \cup {y})
  BY FS_AddElement

\* and shrink together.
LEMMA RemoveBoth ==
  ASSUME NEW S, NEW T, NEW x \in S, NEW y \in T,
         IsFiniteSet(S), IsFiniteSet(T), Cardinality(S) = Cardinality(T)
  PROVE  /\ IsFiniteSet(S \ {x}) /\ IsFiniteSet(T \ {y})
         /\ Cardinality(S \ {x}) = Cardinality(T \ {y})
  BY FS_RemoveElement, SMTT(30)

\* Buffers lie in the pool's memory.
LEMMA BufferInMemory ==
  ASSUME AllocInv, NEW d \in pool
  PROVE  Bytes(d.at, d.size) \subseteq Addresses
  BY AllocatorAssumption DEF AllocInv, Buffers, BufferType, Bytes, Addresses

\* alloc: a new block in a new buffer.
LEMMA AllocStep ==
  ASSUME AllocInv, NEW l \in Layouts, NEW at \in Free(AllocSize(l)), NEW ptr, Placed(ptr, l, at),
         pool' = pool \cup {[at |-> at, size |-> AllocSize(l)]},
         blocks' = blocks \cup {[ptr |-> ptr, layout |-> l]},
         memory' \in [Addresses -> Addresses \cup {Data}], state' = "running",
         \A a \in Addresses : a \notin Bytes(at, AllocSize(l)) => memory'[a] = memory[a],
         ~Plain(l) => \A a \in Bytes(ptr + TrackerOffset(l), Word) : memory'[a] = at
  PROVE  AllocInv'
<1> DEFINE nd == [at |-> at, size |-> AllocSize(l)]
           nb == [ptr |-> ptr, layout |-> l]
<1>1. /\ at \in Addresses /\ at % Word = 0 /\ at + AllocSize(l) <= MemSize
      /\ \A d \in pool : Bytes(at, AllocSize(l)) \cap Bytes(d.at, d.size) = {}
  BY DEF Free
<1>2. at \in Nat /\ AllocSize(l) \in Nat \ {0} /\ ptr \in Nat /\ MemSize \in Nat
  BY <1>1, LayoutSizes, PlacedInBuffer, AllocatorAssumption DEF Addresses
<1>3. \A d \in pool : d.at # at /\ d.at \in Nat /\ d.size \in Nat \ {0} /\ d.at + d.size <= MemSize
  BY <1>1, <1>2 DEF AllocInv, Buffers, BufferType, Bytes, Addresses
<1>4. Buffers'
  <2>1. BufferType(nd) /\ nd = [at |-> nd.at, size |-> nd.size]
    BY <1>1, <1>2 DEF BufferType
  <2>2. \A d \in pool : Bytes(nd.at, nd.size) \cap Bytes(d.at, d.size) = {}
    BY <1>1
  <2> HIDE DEF nd
  <2>3. pool' = pool \cup {nd}
    BY DEF nd
  <2> QED BY <2>1, <2>2, <2>3 DEF AllocInv, Buffers, BufferType
<1>5. BufferAt(nb)' = at /\ BufferOf(nb)' = nd /\ Tracked(nb)'
  <2>1. nb.ptr = ptr /\ nb.layout = l
    OBVIOUS
  <2> HIDE DEF nb
  <2>2. BufferAt(nb)' = at
    BY <1>2, <2>1, PlacedInBuffer DEF BufferAt, Tracker, Placed
  <2> QED BY <2>1, <2>2 DEF BufferOf, Tracked
<1>6. ASSUME NEW b \in blocks
      PROVE  /\ BufferAt(b)' = BufferAt(b) /\ BufferOf(b)' = BufferOf(b) /\ Tracked(b)'
             /\ BufferAt(b) # at
  <2>1. BufferOf(b) \in pool /\ BufferOf(b).at = BufferAt(b)
    BY BlockInBuffer
  <2>2. Bytes(BufferOf(b).at, BufferOf(b).size) \subseteq Addresses
    BY <2>1, BufferInMemory
  <2>3. \A a \in Bytes(BufferOf(b).at, BufferOf(b).size) : memory'[a] = memory[a]
    BY <1>1, <2>1, <2>2
  <2> QED BY <1>3, <2>1, <2>3, OthersKept
<1>7. nb \notin blocks
  BY <1>5, <1>6
<1>8. nd \notin pool
  BY <1>3
<1>9. Blocks'
  <2>1. BlockType(nb) /\ nb = [ptr |-> nb.ptr, layout |-> nb.layout] /\ Placed(nb.ptr, nb.layout, at)
    BY <1>2 DEF BlockType
  <2> HIDE DEF nb, nd
  <2>2. blocks' = blocks \cup {nb} /\ pool' = pool \cup {nd}
    BY DEF nb, nd
  <2>3. ASSUME NEW b \in blocks'
        PROVE  /\ BlockType(b) /\ b = [ptr |-> b.ptr, layout |-> b.layout] /\ Tracked(b)'
               /\ BufferOf(b)' \in pool' /\ Placed(b.ptr, b.layout, BufferAt(b)')
    <3>1. CASE b = nb
      BY <1>5, <2>1, <2>2, <3>1
    <3>2. CASE b \in blocks
      BY <1>6, <2>2, <3>2 DEF AllocInv, Blocks
    <3> QED BY <2>2, <3>1, <3>2
  <2>4. ASSUME NEW b \in blocks', NEW c \in blocks', BufferAt(b)' = BufferAt(c)' PROVE b = c
    BY <1>5, <1>6, <2>2, <2>4 DEF AllocInv, Blocks
  <2>5. ASSUME NEW d \in pool' PROVE \E b \in blocks' : d = BufferOf(b)'
    <3>1. CASE d = nd
      BY <1>5, <2>2, <3>1
    <3>2. CASE d \in pool
      <4>1. PICK b \in blocks : d = BufferOf(b)
        BY <3>2 DEF AllocInv, Blocks
      <4> QED BY <1>6, <2>2, <4>1
    <3> QED BY <2>2, <3>1, <3>2
  <2> QED BY <2>3, <2>4, <2>5 DEF Blocks, BlockType, Placed
<1>10. PICK d, b : d = nd /\ b = nb
  OBVIOUS
<1>11. IsFiniteSet(pool') /\ IsFiniteSet(blocks') /\ Cardinality(pool') = Cardinality(blocks')
  <2> HIDE DEF nb, nd
  <2>1. /\ IsFiniteSet(pool) /\ IsFiniteSet(blocks) /\ Cardinality(pool) = Cardinality(blocks)
        /\ d \notin pool /\ b \notin blocks
    BY <1>7, <1>8, <1>10 DEF AllocInv
  <2>2. \A x, y : x \notin pool /\ y \notin blocks =>
          /\ IsFiniteSet(pool \cup {x}) /\ IsFiniteSet(blocks \cup {y})
          /\ Cardinality(pool \cup {x}) = Cardinality(blocks \cup {y})
    BY <2>1, AddBoth
  <2>3. /\ IsFiniteSet(pool \cup {d}) /\ IsFiniteSet(blocks \cup {b})
        /\ Cardinality(pool \cup {d}) = Cardinality(blocks \cup {b})
    BY <2>1, <2>2
  <2> QED BY <1>10, <2>3 DEF nb, nd
<1> QED BY <1>4, <1>9, <1>11 DEF AllocInv

\* dealloc: the block's buffer goes back, and every other block keeps its own.
LEMMA FreeStep ==
  ASSUME AllocInv, NEW b \in blocks, FreePool(BufferAt(b)), blocks' = blocks \ {b},
         state' = "running"
  PROVE  AllocInv'
<1> DEFINE bd == BufferOf(b)
<1>1. bd \in pool /\ bd.at = BufferAt(b)
  BY BlockInBuffer
<1> HIDE DEF bd
<1>2. pool' = pool \ {bd}
  <2>1. pool' = {d \in pool : d.at # bd.at}
    BY <1>1 DEF FreePool
  <2>2. ASSUME NEW d \in pool, d.at = bd.at PROVE d = bd
    <3>1. PICK c \in blocks : d = BufferOf(c)
      BY DEF AllocInv, Blocks
    <3>2. BufferAt(c) = BufferAt(b)
      BY <1>1, <2>2, <3>1, BlockInBuffer
    <3> QED BY <3>1, <3>2, BlocksApart DEF bd
  <2> QED BY <2>1, <2>2
<1>3. memory' = [a \in Addresses |->
                   IF \E d \in pool' : a \in Bytes(d.at, d.size) THEN memory[a] ELSE Data]
  BY DEF FreePool
<1>4. memory' \in [Addresses -> Addresses \cup {Data}]
  BY <1>3 DEF AllocInv
<1>5. ASSUME NEW c \in blocks'
      PROVE  /\ BufferAt(c)' = BufferAt(c) /\ BufferOf(c)' = BufferOf(c) /\ Tracked(c)'
             /\ c \in blocks /\ BufferOf(c) \in pool'
  <2>1. c \in blocks /\ c # b
    OBVIOUS
  <2>2. BufferOf(c) \in pool'
    BY <1>2, <2>1, BlockInBuffer, BlocksApart DEF bd
  <2>3. Bytes(BufferOf(c).at, BufferOf(c).size) \subseteq Addresses
    BY <2>1, BlockInBuffer, BufferInMemory
  <2>4. \A a \in Bytes(BufferOf(c).at, BufferOf(c).size) : memory'[a] = memory[a]
    BY <1>3, <2>2, <2>3
  <2> QED BY <2>1, <2>2, <2>4, OthersKept
<1>6. Buffers'
  BY <1>2 DEF AllocInv, Buffers, BufferType
<1>7. Blocks'
  <2>1. ASSUME NEW c \in blocks'
        PROVE  /\ BlockType(c) /\ c = [ptr |-> c.ptr, layout |-> c.layout] /\ Tracked(c)'
               /\ BufferOf(c)' \in pool' /\ Placed(c.ptr, c.layout, BufferAt(c)')
    BY <1>5 DEF AllocInv, Blocks
  <2>2. ASSUME NEW c \in blocks', NEW e \in blocks', BufferAt(c)' = BufferAt(e)' PROVE c = e
    BY <1>5, <2>2 DEF AllocInv, Blocks
  <2>3. ASSUME NEW d \in pool' PROVE \E c \in blocks' : d = BufferOf(c)'
    <3>1. PICK c \in blocks : d = BufferOf(c)
      BY <1>2 DEF AllocInv, Blocks
    <3>2. c \in blocks'
      BY <1>2, <3>1 DEF bd
    <3> QED BY <1>5, <3>1, <3>2
  <2> QED BY <2>1, <2>2, <2>3 DEF Blocks, BlockType, Placed
<1>8. IsFiniteSet(pool') /\ IsFiniteSet(blocks') /\ Cardinality(pool') = Cardinality(blocks')
  BY <1>1, <1>2, RemoveBoth DEF AllocInv
<1> QED BY <1>4, <1>6, <1>7, <1>8 DEF AllocInv

\* The owner writes its block: no tracker is touched, neither its own nor another's.
LEMMA WriteStep ==
  ASSUME AllocInv, NEW b \in blocks, Write(b)
  PROVE  AllocInv'
<1>1. memory' = [a \in Addresses |-> IF a \in Bytes(b.ptr, b.layout.size) THEN Data ELSE memory[a]]
  BY DEF Write
<1>2. pool' = pool /\ blocks' = blocks /\ state' = state
  BY DEF Write
<1>3. ASSUME NEW c \in blocks
      PROVE  BufferAt(c)' = BufferAt(c) /\ BufferOf(c)' = BufferOf(c) /\ Tracked(c)'
  <2>1. Bytes(BufferOf(c).at, BufferOf(c).size) \subseteq Addresses
    BY BlockInBuffer, BufferInMemory
  <2>2. CASE c = b
    <3>1. ~Plain(b.layout) => /\ Bytes(b.ptr + TrackerOffset(b.layout), Word) \subseteq Addresses
                              /\ Bytes(b.ptr, b.layout.size) \cap Bytes(b.ptr + TrackerOffset(b.layout), Word) = {}
      BY <2>1, <2>2, BlockInBuffer, PlacedInBuffer
    <3> QED BY <1>1, <2>2, <3>1, TrackerKept
  <2>3. CASE c # b
    <3>1. Bytes(b.ptr, b.layout.size) \subseteq Bytes(BufferOf(b).at, BufferOf(b).size)
      BY BlockInBuffer DEF Footprint
    <3>2. \A a \in Bytes(BufferOf(c).at, BufferOf(c).size) : memory'[a] = memory[a]
      BY <1>1, <2>1, <2>3, <3>1, BlocksApart
    <3> QED BY <3>2, OthersKept
  <2> QED BY <2>2, <2>3
<1>4. memory' \in [Addresses -> Addresses \cup {Data}]
  BY <1>1 DEF AllocInv
<1>5. Buffers'
  BY <1>2 DEF AllocInv, Buffers, BufferType
<1>6. Blocks'
  <2>1. ASSUME NEW c \in blocks
        PROVE  /\ BlockType(c) /\ c = [ptr |-> c.ptr, layout |-> c.layout] /\ Tracked(c)'
               /\ BufferOf(c)' \in pool /\ Placed(c.ptr, c.layout, BufferAt(c)')
    BY <1>3 DEF AllocInv, Blocks
  <2>2. ASSUME NEW c \in blocks, NEW e \in blocks, BufferAt(c)' = BufferAt(e)' PROVE c = e
    BY <1>3, <2>2 DEF AllocInv, Blocks
  <2>3. ASSUME NEW d \in pool PROVE \E c \in blocks : d = BufferOf(c)'
    <3>1. PICK c \in blocks : d = BufferOf(c)
      BY DEF AllocInv, Blocks
    <3> QED BY <1>3, <3>1
  <2> QED BY <1>2, <2>1, <2>2, <2>3 DEF Blocks, BlockType, Placed
<1> QED BY <1>2, <1>4, <1>5, <1>6 DEF AllocInv

\* A null alloc changes nothing.
LEMMA StutterStep == AllocInv /\ UNCHANGED allocatorVars => AllocInv'
  BY DEF AllocInv, Buffers, BufferType, Blocks, BlockType, Tracked, BufferOf, BufferAt, Tracker,
         Placed, allocatorVars

\* Every step keeps the invariant.
LEMMA AllocNext == AllocInv /\ [AllocatorNext]_allocatorVars => AllocInv'
<1> SUFFICES ASSUME AllocInv, [AllocatorNext]_allocatorVars PROVE AllocInv'
  OBVIOUS
<1>1. ASSUME NEW l \in Layouts, NEW at \in Addresses, AllocPlain(l, at) PROVE AllocInv'
  <2>1. at \in Free(AllocSize(l)) /\ Placed(at, l, at) /\ Plain(l)
    BY <1>1 DEF AllocPlain, Placed
  <2>2. /\ pool' = pool \cup {[at |-> at, size |-> AllocSize(l)]}
        /\ blocks' = blocks \cup {[ptr |-> at, layout |-> l]}
        /\ memory' = memory /\ state' = "running"
    BY <1>1 DEF AllocPlain
  <2>3. memory' \in [Addresses -> Addresses \cup {Data}]
    BY <2>2 DEF AllocInv
  <2> QED BY <2>1, <2>2, <2>3, AllocStep
<1>2. ASSUME NEW l \in Layouts, NEW at \in Addresses, AllocAligned(l, at) PROVE AllocInv'
  <2> DEFINE ptr == RoundUp(at, l.align)
             tracker == Bytes(ptr + TrackerOffset(l), Word)
  <2>1. at \in Free(AllocSize(l)) /\ Placed(ptr, l, at) /\ ~Plain(l)
    BY <1>2 DEF AllocAligned, Placed
  <2>2. /\ pool' = pool \cup {[at |-> at, size |-> AllocSize(l)]}
        /\ blocks' = blocks \cup {[ptr |-> ptr, layout |-> l]}
        /\ memory' = [a \in Addresses |-> IF a \in tracker THEN at ELSE memory[a]]
        /\ state' = "running"
    BY <1>2 DEF AllocAligned
  <2>3. at \in Nat /\ at + AllocSize(l) <= MemSize /\ MemSize \in Nat /\ AllocSize(l) \in Nat \ {0}
    BY <2>1, AllocatorAssumption, LayoutSizes DEF Free, Addresses
  <2>4. Bytes(at, AllocSize(l)) \subseteq Addresses
    BY <2>3 DEF Bytes, Addresses
  <2> HIDE DEF ptr
  <2>5. tracker \subseteq Bytes(at, AllocSize(l))
    BY <2>1, <2>3, PlacedInBuffer
  <2> HIDE DEF tracker
  <2>6. memory' \in [Addresses -> Addresses \cup {Data}]
    BY <2>2 DEF AllocInv
  <2>7. \A a \in Addresses : a \notin Bytes(at, AllocSize(l)) => memory'[a] = memory[a]
    BY <2>2, <2>5
  <2>8. \A a \in tracker : memory'[a] = at
    BY <2>2, <2>4, <2>5
  <2> QED BY <2>1, <2>2, <2>6, <2>7, <2>8, AllocStep DEF tracker
<1>3. ASSUME NEW l \in Layouts, AllocNull(l) PROVE AllocInv'
  BY <1>3, StutterStep DEF AllocNull
<1>4. ASSUME NEW b \in blocks, Write(b) PROVE AllocInv'
  BY <1>4, WriteStep
<1>5. ASSUME NEW b \in blocks, DeallocPlain(b) PROVE AllocInv'
  BY <1>5, FreeStep DEF DeallocPlain, BufferAt
<1>6. ASSUME NEW b \in blocks, DeallocAligned(b) PROVE AllocInv'
  <2>1. Tracker(b) = BufferAt(b) /\ ~Plain(b.layout)
    BY <1>6 DEF DeallocAligned, BufferAt
  <2>2. /\ BufferOf(b) \in pool /\ BufferOf(b).at = BufferAt(b)
        /\ Placed(b.ptr, b.layout, BufferAt(b))
    BY BlockInBuffer
  <2>3. BufferAt(b) \in Addresses
    BY <2>2 DEF AllocInv, Buffers, BufferType
  <2>4. TrackerAgrees(b)
    BY <2>1, <2>2, <2>3, AllocatorAssumption DEF TrackerAgrees, Placed, Addresses
  <2> QED BY <1>6, <2>1, <2>4, FreeStep DEF DeallocAligned
<1>7. CASE UNCHANGED allocatorVars
  BY <1>7, StutterStep
<1> QED BY <1>1, <1>2, <1>3, <1>4, <1>5, <1>6, <1>7 DEF AllocatorNext

\* The inductive invariant holds throughout.
LEMMA AllocInvariant == AllocatorSpec => []AllocInv
  BY AllocInit, AllocNext, PTL DEF AllocatorSpec

-----------------------------------------------------------------------------

\* Every block BootServicesGlobalAllocator::alloc returns is aligned as its layout asks and
\* lies, with its tracker, in a buffer of the pool that no other block reaches, for every
\* pointer size, memory and set of layouts.
THEOREM BlocksUsable == AllocatorSpec => []BlocksAreUsable
  BY AllocInvariant, InvUsable, PTL

\* dealloc finds the buffer alloc took, whatever the blocks' owners wrote: its debug
\* assertion never fails, and buffers and blocks stay one to one.
THEOREM BuffersMatch == AllocatorSpec => []OneBufferPerBlock
  BY AllocInvariant, InvOneBuffer, PTL

=============================================================================
