---------------------------- MODULE ServiceTable ----------------------------
(***************************************************************************)
(* StandardBootServices and StandardRuntimeServices hold the address of the *)
(* firmware's service table in an AtomicPtr.  Both are shared as statics    *)
(* (they are Sync), so their methods may be called concurrently.            *)
(*                                                                          *)
(* initialize is a check followed by a store, not a compare_exchange: other *)
(* callers' steps may fall between the two.                                 *)
(***************************************************************************)
CONSTANTS
  Callers,  \* threads, or activations of the boot processor
  Tables,   \* addresses of efi::BootServices and efi::RuntimeServices tables
  Null      \* the null pointer

ASSUME NullAssumption == Null \notin Tables

Services == {"boot", "runtime"}

VARIABLES
  debug_assertions,  \* TRUE in a debug build; fixed
  ptr,               \* efi_boot_services and efi_runtime_services
  pc,                \* where each caller is
  arg,               \* the table a caller passes to initialize
  on,                \* the service a caller's initialize works on
  inits,             \* history: <<caller, service>> of initialize calls that stored
  met,               \* history: <<caller, service>> of calls another initialize fell into
  seen               \* history: <<service, table>> of the tables that methods worked on

servicesVars == <<debug_assertions, ptr, pc, arg, on, inits, met, seen>>

ServicesTypeOK ==
  /\ debug_assertions \in BOOLEAN
  /\ ptr \in [Services -> Tables \cup {Null}]
  /\ pc \in [Callers -> {"idle", "checked", "panicked"}]
  /\ arg \in [Callers -> Tables \cup {Null}]
  /\ \A c \in Callers : pc[c] = "checked" => arg[c] \in Tables
  /\ on \in [Callers -> Services]
  /\ inits \subseteq Callers \X Services
  /\ met \subseteq Callers \X Services
  /\ seen \subseteq Services \X Tables

\* new(&table) or new_uninit() for each service.
ServicesInit ==
  /\ debug_assertions \in BOOLEAN
  /\ ptr \in [Services -> Tables \cup {Null}]
  /\ pc = [c \in Callers |-> "idle"]
  /\ arg = [c \in Callers |-> Null]
  /\ on = [c \in Callers |-> "boot"]
  /\ inits = {}
  /\ met = {}
  /\ seen = {}

-----------------------------------------------------------------------------

\* Mutant: the load is not looked at.
InitializeChecksNothing(c, s, table) ==
  /\ pc[c] = "idle"
  /\ pc' = [pc EXCEPT ![c] = "checked"]
  /\ arg' = [arg EXCEPT ![c] = table]
  /\ on' = [on EXCEPT ![c] = s]
  /\ UNCHANGED <<debug_assertions, ptr, inits, met, seen>>

\* initialize, first half: the load finds null.
InitializeChecks(c, s, table) ==
  /\ pc[c] = "idle"
  /\ ptr[s] = Null
  /\ pc' = [pc EXCEPT ![c] = "checked"]
  /\ arg' = [arg EXCEPT ![c] = table]
  /\ on' = [on EXCEPT ![c] = s]
  /\ UNCHANGED <<debug_assertions, ptr, inits, met, seen>>

\* initialize, second half: the store, whatever the pointer is by now.
InitializeStores(c) ==
  /\ pc[c] = "checked"
  /\ ptr' = [ptr EXCEPT ![on[c]] = arg[c]]
  /\ pc' = [pc EXCEPT ![c] = "idle"]
  /\ inits' = inits \cup {<<c, on[c]>>}
  /\ met' = met \cup {<<d, on[c]>> : d \in {d \in Callers \ {c} :
                                             pc[d] = "checked" /\ on[d] = on[c]}}
  /\ UNCHANGED <<debug_assertions, arg, on, seen>>

\* Mutant: initialize replaces a table that is already there.
InitializeReplaces(c, s) ==
  \E table \in Tables :
    /\ pc[c] = "idle"
    /\ ptr[s] # Null
    /\ ptr' = [ptr EXCEPT ![s] = table]
    /\ inits' = inits \cup {<<c, s>>}
    /\ UNCHANGED <<debug_assertions, pc, arg, on, met, seen>>

\* initialize when the load finds a table: boot services panic; runtime services
\* fail a debug_assert, which a release build leaves out.
InitializeRefuses(c, s) ==
  /\ pc[c] = "idle"
  /\ ptr[s] # Null
  /\ pc' = IF s = "boot" \/ debug_assertions THEN [pc EXCEPT ![c] = "panicked"] ELSE pc
  /\ UNCHANGED <<debug_assertions, ptr, arg, on, inits, met, seen>>

\* Every other method starts with efi_boot_services() or efi_runtime_services(),
\* which panics on a null pointer.
CallPanics(c, s) ==
  /\ pc[c] = "idle"
  /\ ptr[s] = Null
  /\ pc' = [pc EXCEPT ![c] = "panicked"]
  /\ UNCHANGED <<debug_assertions, ptr, arg, on, inits, met, seen>>

\* Otherwise the method calls a function of the table it finds.  One that makes two
\* firmware calls looks twice.
CallReads(c, s) ==
  /\ pc[c] = "idle"
  /\ ptr[s] # Null
  /\ seen' = seen \cup {<<s, ptr[s]>>}
  /\ UNCHANGED <<debug_assertions, ptr, pc, arg, on, inits, met>>

ServicesNext ==
  \E c \in Callers :
    \/ InitializeStores(c)
    \/ \E s \in Services :
         \/ InitializeRefuses(c, s)
         \/ CallPanics(c, s) \/ CallReads(c, s)
         \/ \E table \in Tables : InitializeChecks(c, s, table)

ServicesSpec == ServicesInit /\ [][ServicesNext]_servicesVars

-----------------------------------------------------------------------------

\* The methods of a service all work on one table, the one it was created or first
\* initialized with, however often initialize is tried again: two tables are seen only
\* if an initialize stored between another's load and store.
OneTableSeen ==
  \A s \in Services : \A t, u \in Tables :
    <<s, t>> \in seen /\ <<s, u>> \in seen /\ t # u => \E e \in Callers : <<e, s>> \in met

\* The panic documented for a second initialize ("This function will panic if
\* already initialize.") protects the table: the initialize of two callers stores, the
\* later replacing the table of the other, only if one of them stored between another's
\* load and store.
InitializeOnceIfSerial ==
  \A s \in Services : \A c, d \in Callers :
    <<c, s>> \in inits /\ <<d, s>> \in inits /\ c # d => \E e \in Callers : <<e, s>> \in met

=============================================================================
