----------------------------- MODULE Protocols ------------------------------
(***************************************************************************)
(* Who owns a protocol interface: install_, uninstall_ and                  *)
(* reinstall_protocol_interface, the keys (PtrMetadata) they work with, and *)
(* the references that handle_, open_ and locate_protocol give out.         *)
(*                                                                          *)
(* install consumes the interface (a Box or a mutable reference), leaves    *)
(* its pointer with the firmware and returns a key; uninstall consumes a    *)
(* key and rebuilds the interface from it.  A key is only an address: the   *)
(* owner makes as many as it likes with CPtr::metadata, they outlive the    *)
(* interface, and a new interface may get the address.  Nothing happens     *)
(* when a key is dropped, and keys and interfaces are consumed whether or   *)
(* not the firmware agrees.                                                 *)
(*                                                                          *)
(* A reference from a lookup is 'static and records nothing; only an open   *)
(* BY_DRIVER is known to the firmware.  Callers keep to the lookups' Safety *)
(* sections: they ask for no second reference while the first is in use.    *)
(* They do not install a reference, or make a key of it, and do not         *)
(* overwrite a key's ptr_value.  A configuration table is installed without *)
(* a key.  The handle database and the tables are the firmware's.           *)
(***************************************************************************)
EXTENDS Naturals

CONSTANTS
  Handles,    \* efi::Handles
  Guids,      \* protocols that have an interface
  Markers,    \* protocols that have none: Protocol<Interface = ()>
  Tables,     \* identifiers of configuration tables
  Objects,    \* addresses of interfaces of the program
  Null,       \* the interface of a marker
  None,       \* not installed
  MaxKeys     \* keys of an interface, from which on the program makes no more

ASSUME ProtocolsAssumption ==
  /\ Null \notin Objects /\ None \notin Objects /\ Null # None
  /\ Guids \cap Markers = {}
  /\ MaxKeys \in Nat

Places == Handles \X (Guids \cup Markers)

VARIABLES
  db,      \* interface installed at each place (firmware)
  owners,  \* number of Boxes or mutable references by which the program owns each interface
  freed,   \* interfaces dropped, and their addresses not used again
  keys,    \* number of keys the program has of each interface
  refs,    \* interfaces with a plain reference in use
  opened,  \* interface a BY_DRIVER open of each place gave a reference to
  tables,  \* configuration tables
  lost     \* history: interfaces given up since they were last installed or given back

vars == <<db, owners, freed, keys, refs, opened, tables, lost>>

\* What no change of an installation touches.
lookupVars == <<refs, opened, tables>>

Owned == {o \in Objects : owners[o] > 0}

\* Protocol's type parameter tells markers from the others: the asserts and unwraps of
\* the lookups rely on it.
TypeOK ==
  /\ db \in [Places -> Objects \cup {Null, None}]
  /\ \A at \in Places : db[at] # None => (db[at] = Null <=> at[2] \in Markers)
  /\ owners \in [Objects -> Nat] /\ freed \subseteq Objects
  /\ keys \in [Objects -> Nat] /\ refs \subseteq Objects
  /\ opened \in [Places -> Objects \cup {None}]
  /\ tables \in [Tables -> Objects \cup {None}]
  /\ lost \subseteq Objects

Init ==
  /\ db = [at \in Places |-> None]
  /\ owners = [o \in Objects |-> 1] /\ freed = {}
  /\ keys = [o \in Objects |-> 0]
  /\ refs = {} /\ opened = [at \in Places |-> None]
  /\ tables = [g \in Tables |-> None]
  /\ lost = {}

-----------------------------------------------------------------------------
(* Keys, and the program's own interfaces                                   *)

\* CPtr::metadata, a safe call on a borrowed interface.
MakeKey(o) ==
  /\ o \in Owned /\ keys[o] < MaxKeys
  /\ keys' = [keys EXCEPT ![o] = @ + 1]
  /\ UNCHANGED <<db, owners, freed, lookupVars, lost>>

\* let (handle, _) = install_protocol_interface(..): PtrMetadata has no Drop.
DropKey(o) ==
  /\ keys[o] > 0
  /\ keys' = [keys EXCEPT ![o] = @ - 1]
  /\ lost' = lost \cup {o}
  /\ UNCHANGED <<db, owners, freed, lookupVars>>

\* The program drops an interface it owns.
DropInterface(o) ==
  /\ o \in Owned
  /\ owners' = [owners EXCEPT ![o] = @ - 1]
  /\ freed' = freed \cup {o}
  /\ UNCHANGED <<db, keys, lookupVars, lost>>

\* The allocator gives a new interface the address of one that was dropped: keys of the
\* old one are keys of the new one.
NewInterface(o) ==
  /\ o \in freed
  /\ owners' = [owners EXCEPT ![o] = @ + 1]
  /\ freed' = freed \ {o}
  /\ UNCHANGED <<db, keys, lookupVars, lost>>

-----------------------------------------------------------------------------
(* Installing                                                               *)

\* Mutant: as_mut_ptr in place of into_mut_ptr, and the interface is dropped on return.
InstallDropsInterface(h, p, o) ==
  /\ o \in Owned
  /\ db[<<h, p>>] = None
  /\ db' = [db EXCEPT ![<<h, p>>] = o]
  /\ owners' = [owners EXCEPT ![o] = @ - 1]
  /\ freed' = freed \cup {o}
  /\ keys' = [keys EXCEPT ![o] = @ + 1]
  /\ lost' = lost \ {o}
  /\ UNCHANGED lookupVars

\* install_protocol_interface: into_mut_ptr forgets the interface.
Install(h, p, o) ==
  /\ o \in Owned
  /\ db[<<h, p>>] = None
  /\ db' = [db EXCEPT ![<<h, p>>] = o]
  /\ owners' = [owners EXCEPT ![o] = @ - 1]
  /\ keys' = [keys EXCEPT ![o] = @ + 1]
  /\ lost' = lost \ {o}
  /\ UNCHANGED <<freed, lookupVars>>

\* The handle has the protocol, or there are no resources: the error is returned
\* without the key.  A refused configuration table is gone in the same way.
InstallRefused(o) ==
  /\ o \in Owned
  /\ owners' = [owners EXCEPT ![o] = @ - 1]
  /\ lost' = lost \cup {o}
  /\ UNCHANGED <<db, freed, keys, lookupVars>>

InstallMarker(h, p) ==
  /\ db[<<h, p>>] = None
  /\ db' = [db EXCEPT ![<<h, p>>] = Null]
  /\ UNCHANGED <<owners, freed, keys, lookupVars, lost>>

\* Mutant: the interface stays behind in the key that was consumed.
UninstallLosesInterface(h, p, o) ==
  /\ keys[o] > 0
  /\ db[<<h, p>>] = o /\ opened[<<h, p>>] = None
  /\ db' = [db EXCEPT ![<<h, p>>] = None]
  /\ keys' = [keys EXCEPT ![o] = @ - 1]
  /\ lost' = lost \ {o}
  /\ UNCHANGED <<owners, freed, lookupVars>>

\* uninstall_protocol_interface: into_original_ptr gives the interface back.  The
\* firmware agrees only if no driver has it open.
Uninstall(h, p, o) ==
  /\ keys[o] > 0
  /\ db[<<h, p>>] = o /\ opened[<<h, p>>] = None
  /\ db' = [db EXCEPT ![<<h, p>>] = None]
  /\ keys' = [keys EXCEPT ![o] = @ - 1]
  /\ owners' = [owners EXCEPT ![o] = @ + 1]
  /\ lost' = lost \ {o}
  /\ UNCHANGED <<freed, lookupVars>>

\* Mutant: the interface is given back without looking at the status.
UninstallReturnsAnyway(o) ==
  /\ keys[o] > 0
  /\ keys' = [keys EXCEPT ![o] = @ - 1]
  /\ owners' = [owners EXCEPT ![o] = @ + 1]
  /\ UNCHANGED <<db, freed, lookupVars, lost>>

\* The interface is in use, or is not at this handle and protocol, or is not installed
\* at all: the key is gone.
UninstallRefused(o) ==
  /\ keys[o] > 0
  /\ keys' = [keys EXCEPT ![o] = @ - 1]
  /\ lost' = lost \cup {o}
  /\ UNCHANGED <<db, owners, freed, lookupVars>>

UninstallMarker(h, p) ==
  /\ db[<<h, p>>] = Null
  /\ db' = [db EXCEPT ![<<h, p>>] = None]
  /\ UNCHANGED <<owners, freed, keys, lookupVars, lost>>

\* reinstall_protocol_interface.
Reinstall(h, p, old, new) ==
  /\ keys[old] > 0 /\ new \in Owned /\ old # new
  /\ db[<<h, p>>] = old /\ opened[<<h, p>>] = None
  /\ db' = [db EXCEPT ![<<h, p>>] = new]
  /\ keys' = [keys EXCEPT ![old] = @ - 1, ![new] = @ + 1]
  /\ owners' = [owners EXCEPT ![old] = @ + 1, ![new] = @ - 1]
  /\ lost' = lost \ {old, new}
  /\ UNCHANGED <<freed, lookupVars>>

\* Mutant: the old interface is given back without looking at the status.
ReinstallReturnsAnyway(old, new) ==
  /\ keys[old] > 0 /\ new \in Owned
  /\ keys' = [keys EXCEPT ![old] = @ - 1]
  /\ owners' = [owners EXCEPT ![new] = @ - 1, ![old] = @ + 1]
  /\ lost' = lost \cup {new}
  /\ UNCHANGED <<db, freed, lookupVars>>

\* Both the old key and the new interface are gone.
ReinstallRefused(old, new) ==
  /\ keys[old] > 0 /\ new \in Owned
  /\ keys' = [keys EXCEPT ![old] = @ - 1]
  /\ owners' = [owners EXCEPT ![new] = @ - 1]
  /\ lost' = lost \cup {old, new}
  /\ UNCHANGED <<db, freed, lookupVars>>

\* Other code may uninstall what it finds with the pointer it finds: no key gives that
\* interface back.
ForeignUninstall(h, p) ==
  /\ db[<<h, p>>] # None /\ opened[<<h, p>>] = None
  /\ db' = [db EXCEPT ![<<h, p>>] = None]
  /\ lost' = lost \cup ({db[<<h, p>>]} \ {Null})
  /\ UNCHANGED <<owners, freed, keys, lookupVars>>

-----------------------------------------------------------------------------
(* References.  The marker variants only look whether a marker is there.    *)

\* The caller's part of the lookups' Safety sections.
Unreferenced(o) == o \notin refs /\ \A at \in Places : opened[at] # o

\* handle_protocol: a reference to what is installed.
HandleProtocol(h, p) ==
  /\ db[<<h, p>>] \in Objects /\ Unreferenced(db[<<h, p>>])
  /\ refs' = refs \cup {db[<<h, p>>]}
  /\ UNCHANGED <<db, owners, freed, keys, opened, tables, lost>>

\* locate_protocol: the same from the first handle the firmware finds.
LocateProtocol(p) == \E h \in Handles : HandleProtocol(h, p)

\* The last use of such a reference.
EndReference(o) ==
  /\ o \in refs
  /\ refs' = refs \ {o}
  /\ UNCHANGED <<db, owners, freed, keys, opened, tables, lost>>

\* open_protocol with the attribute BY_DRIVER, refused if a driver has it open.  With
\* the other attributes it is handle_protocol.
OpenProtocol(h, p) ==
  /\ db[<<h, p>>] \in Objects /\ opened[<<h, p>>] = None
  /\ db[<<h, p>>] \notin refs
  /\ opened' = [opened EXCEPT ![<<h, p>>] = db[<<h, p>>]]
  /\ UNCHANGED <<db, owners, freed, keys, refs, tables, lost>>

\* close_protocol.
CloseProtocol(h, p) ==
  /\ opened[<<h, p>>] # None
  /\ opened' = [opened EXCEPT ![<<h, p>>] = None]
  /\ UNCHANGED <<db, owners, freed, keys, refs, tables, lost>>

-----------------------------------------------------------------------------
(* Configuration tables                                                     *)

\* install_configuration_table: adds or replaces a table.  The pointer of the table that
\* was there is returned to nobody.
InstallTable(g, o) ==
  /\ o \in Owned
  /\ tables' = [tables EXCEPT ![g] = o]
  /\ owners' = [owners EXCEPT ![o] = @ - 1]
  /\ lost' = lost \cup ({tables[g]} \ {None})
  /\ UNCHANGED <<db, freed, keys, refs, opened>>

\* The same with None, whose pointer is null: the table is removed.
RemoveTable(g) ==
  /\ tables[g] # None
  /\ tables' = [tables EXCEPT ![g] = None]
  /\ lost' = lost \cup {tables[g]}
  /\ UNCHANGED <<db, owners, freed, keys, refs, opened>>

-----------------------------------------------------------------------------

Next ==
  \/ \E o \in Objects : MakeKey(o) \/ DropKey(o) \/ DropInterface(o) \/ NewInterface(o)
  \/ \E h \in Handles, p \in Guids, o \in Objects : Install(h, p, o) \/ Uninstall(h, p, o)
  \/ \E o \in Objects : InstallRefused(o) \/ UninstallRefused(o) \/ EndReference(o)
  \/ \E h \in Handles, p \in Markers : InstallMarker(h, p) \/ UninstallMarker(h, p)
  \/ \E h \in Handles, p \in Guids, old, new \in Objects : Reinstall(h, p, old, new)
  \/ \E old, new \in Objects : ReinstallRefused(old, new)
  \/ \E h \in Handles, p \in Guids \cup Markers : ForeignUninstall(h, p)
  \/ \E p \in Guids : LocateProtocol(p) \/ \E h \in Handles : HandleProtocol(h, p)
  \/ \E h \in Handles, p \in Guids : OpenProtocol(h, p) \/ CloseProtocol(h, p)
  \/ \E g \in Tables : RemoveTable(g) \/ \E o \in Objects : InstallTable(g, o)

Spec == Init /\ [][Next]_vars

-----------------------------------------------------------------------------

\* The firmware never has the pointer of an interface or table that the program owns,
\* and may change or drop, or has dropped; whatever was refused, undone by others or
\* tried with a stale key or at the wrong handle before.
InstalledNotHeld ==
  /\ \A at \in Places : db[at] \notin Owned \cup freed
  /\ \A g \in Tables : tables[g] \notin Owned \cup freed

\* However many keys the program made of an interface, and whichever it tries,
\* uninstall_ and reinstall_protocol_interface never give out a second owner or one of
\* freed memory, and no interface comes to be at two places or also a table.
OneOwner ==
  /\ \A o \in Objects : owners[o] <= 1
  /\ Owned \cap freed = {}
  /\ \A at, too \in Places : db[at] = db[too] /\ db[at] \in Objects => at = too
  /\ \A at \in Places, g \in Tables : db[at] = tables[g] => db[at] = None

\* Until close_protocol, the interface of an open_protocol BY_DRIVER is neither in the
\* program's hands nor dropped, and no second driver has a reference to it.
DriverReferencesLive ==
  /\ \A at \in Places : opened[at] \notin Owned \cup freed
  /\ \A at, too \in Places : opened[at] = opened[too] /\ opened[at] # None => at = too

\* An interface that is neither owned, nor dropped, nor a table, nor installed with a key
\* to take it back was given up since it was last installed: a call was refused, a key
\* was dropped, the table was replaced or other code uninstalled it.
StrandedOnlyIfLost ==
  \A o \in Objects :
    \/ o \in Owned \cup freed \cup lost
    \/ \E g \in Tables : tables[g] = o
    \/ keys[o] > 0 /\ \E at \in Places : db[at] = o

=============================================================================
