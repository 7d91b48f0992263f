------------------------------- MODULE Events -------------------------------
(***************************************************************************)
(* Events: their creation, the context each notification is given, and the  *)
(* two programs of examples/, on top of TplMutex, whose tasks they are.     *)
(*                                                                          *)
(* create_event turns the context into a pointer and forgets it; each       *)
(* notification turns the pointer back into the context type, by value.  A  *)
(* Box is therefore dropped when the first notification returns, while a    *)
(* reference lives as long as what the main program keeps behind it.  The   *)
(* firmware's event services are external: modelled from how they are used. *)
(***************************************************************************)
EXTENDS TplMutex

CONSTANTS
  Registrars,  \* callbacks whose event goes to register_protocol_notify only
  KindsOf,     \* context type and EventType each callback may be written with
  MaxUpdates,  \* bound: updates of the data of all mutexes
  Unread       \* stands for "no value read"

Shapes == {"unit", "ref", "box", "manually_drop"}
EventTypes == {"TIMER", "RUNTIME", "NOTIFY_WAIT", "NOTIFY_SIGNAL"}
TimerTypes == {"Cancel", "Periodic", "Relative"}

\* What `+= 1` is in the middle of: the guard's mutex and the value read.
Reading == [mutex : Mutexes, value : Nat]

\* EventType's BitOr: the flags of both.
BitOr(a, b) == a \cup b

ASSUME EventsAssumption ==
  /\ Registrars \subseteq Callbacks
  /\ KindsOf \in [Callbacks -> SUBSET [context : Shapes, types : SUBSET EventTypes]]
  /\ MaxUpdates \in Nat
  /\ Unread \notin Reading
  /\ \A c \in Registrars : \A k \in KindsOf[c] :
       "NOTIFY_SIGNAL" \in k.types /\ "TIMER" \notin k.types

VARIABLES
  kind,      \* context type of each notify function, and type of its event
  event,     \* each callback's event: "none", or open, alone or in a group
  signaled,  \* events in the signaled state that NOTIFY_SIGNAL did not queue
  timer,     \* timer setting of each event
  ctx,       \* each context: held by the program, given away, freed, freed twice
  reg,       \* progress of the registration: none, registered, written
  ended,     \* the main program has returned and dropped what it kept
  value,     \* the data of each mutex
  read,      \* what a task has read in the middle of `+= 1`
  updates,   \* history: completed updates of each mutex
  oneShot,   \* history: such callbacks closed their event before they returned
  regTpl,    \* history: TPL at the registration
  misread,   \* history: callbacks that read an unwritten registration
  miswrite   \* history: registrations written into freed memory

evVars == <<kind, event, signaled, timer, ctx, reg, ended>>
dataVars == <<value, read, updates>>
histVars == <<oneShot, regTpl, misread, miswrite>>
allVars == <<vars, evVars, dataVars, histVars>>

TypeOKEvents ==
  /\ TypeOK
  /\ \A c \in Callbacks : kind[c] \in KindsOf[c]
  /\ event \in [Callbacks -> {"none", "alone", "grouped"}]
  /\ signaled \subseteq Callbacks
  /\ timer \in [Callbacks -> TimerTypes]
  /\ ctx \in [Callbacks -> {"held", "given", "freed", "freed twice"}]
  /\ reg \in [Callbacks -> {"none", "registered", "written"}]
  /\ ended \in BOOLEAN
  /\ value \in [Mutexes -> Nat] /\ updates \in [Mutexes -> Nat]
  /\ read \in [Tasks -> Reading \cup {Unread}]
  /\ oneShot \in BOOLEAN
  /\ regTpl \in [Callbacks -> Levels]
  /\ misread \subseteq Callbacks /\ miswrite \subseteq Callbacks

InitEvents ==
  /\ Init
  /\ kind \in {k \in [Callbacks -> UNION {KindsOf[c] : c \in Callbacks}] :
                \A c \in Callbacks : k[c] \in KindsOf[c]}
  /\ event = [c \in Callbacks |-> "none"]
  /\ signaled = {}
  /\ timer = [c \in Callbacks |-> "Cancel"]
  /\ ctx = [c \in Callbacks |-> "held"]
  /\ reg = [c \in Callbacks |-> "none"]
  /\ ended = FALSE
  /\ value = [m \in Mutexes |-> 0]
  /\ read = [t \in Tasks |-> Unread]
  /\ updates = [m \in Mutexes |-> 0]
  /\ oneShot = TRUE
  /\ regTpl = [c \in Callbacks |-> Home[Main]]
  /\ misread = {} /\ miswrite = {}

-----------------------------------------------------------------------------

\* A context that is dropped with the last value of its type: CPtr for Box, and for
\* Option of a Box.  References and ManuallyDrop drop nothing; () is a null pointer.
Owned(c) == kind[c].context = "box"

Open == {c \in Callbacks : event[c] # "none"}

\* Mutant: register and write are two statements, with a guard's drop in between.
IdleBetween(t) == Executes(t, "ready") /\ read[t] = Unread /\ (t = Main => ~ended)

\* Between two calls, outside `+= 1` and outside the registration expression.
Idle(t) ==
  /\ Executes(t, "ready")
  /\ read[t] = Unread
  /\ t = Main => ~ended /\ \A c \in Callbacks : reg[c] # "registered"

\* The firmware signals the events cs: NOTIFY_SIGNAL queues the notification.
Fire(cs) ==
  /\ pending' = pending \cup {c \in cs : "NOTIFY_SIGNAL" \in kind[c].types}
  /\ signaled' = signaled \cup {c \in cs : "NOTIFY_SIGNAL" \notin kind[c].types}

\* An event of a group is signaled with all events of the group.
Together(c) == IF event[c] = "grouped" THEN {d \in Open : event[d] = "grouped"} ELSE {c}

-----------------------------------------------------------------------------
(* Creating and closing events.                                            *)

\* Mutant: as_ptr instead of into_ptr, so that the context is dropped on return.
IntoPtrDrops(c) == [ctx EXCEPT ![c] = IF Owned(c) THEN "freed" ELSE @]

\* What is left of c's context when into_ptr has consumed it.
IntoPtr(c) == [ctx EXCEPT ![c] = IF Owned(c) THEN "given" ELSE @]

\* The unchecked halves: an event, or the firmware's error.
Created(c, group) == {event, [event EXCEPT ![c] = group]}

\* create_event and create_event_ex (grouped).  A refused call has consumed the context
\* all the same.  A context that is owned is used up.
CreateEvent(c, group) ==
  /\ Idle(Main)
  /\ event[c] = "none"
  /\ c \in Registrars => group = "alone"
  /\ Owned(c) => ctx[c] = "held"
  /\ ctx' = IntoPtr(c)
  /\ event' \in Created(c, group)
  /\ UNCHANGED <<vars, kind, signaled, timer, reg, ended, dataVars, histVars>>

\* close_event, also from the notify function itself.  Nothing gives the context back.
CloseEvent(t, c) ==
  /\ Idle(t)
  /\ c \in Open
  /\ event' = [event EXCEPT ![c] = "none"]
  /\ pending' = pending \ {c}
  /\ signaled' = signaled \ {c}
  /\ timer' = [timer EXCEPT ![c] = "Cancel"]
  /\ UNCHANGED <<tpl, frames, lock, guards, op, scoped, kind, ctx, reg, ended, dataVars, histVars>>

-----------------------------------------------------------------------------
(* Signaling.                                                              *)

firedVars == <<tpl, frames, lock, guards, op, scoped, kind, event, ctx, reg, ended>>

\* signal_event.  The handle of a registrar's event is not given to anyone.
SignalEvent(t, c) ==
  /\ Idle(t)
  /\ c \in Open \ Registrars
  /\ Fire(Together(c))
  /\ UNCHANGED <<firedVars, timer, dataVars, histVars>>

\* set_timer, for an event of type TIMER (an error and no change otherwise).
SetTimer(t, c, type) ==
  /\ Idle(t)
  /\ c \in Open /\ "TIMER" \in kind[c].types
  /\ timer' = [timer EXCEPT ![c] = type]
  /\ UNCHANGED <<vars, kind, event, signaled, ctx, reg, ended, dataVars, histVars>>

\* The time of a timer event has come.  Only a periodic timer stays set.
TimerTick(c) ==
  /\ ~Panicked
  /\ timer[c] # "Cancel"
  /\ Fire(Together(c))
  /\ timer' = [timer EXCEPT ![c] = IF @ = "Periodic" THEN @ ELSE "Cancel"]
  /\ UNCHANGED <<firedVars, dataVars, histVars>>

\* check_event: a signaled event is cleared; otherwise NOTIFY_WAIT queues its notification
\* and the answer is NOT_READY.  wait_for_event repeats it for each event in turn.
CheckEvent(t, c) ==
  /\ Idle(t)
  /\ c \in Open /\ "NOTIFY_SIGNAL" \notin kind[c].types
  /\ signaled' = signaled \ {c}
  /\ pending' = IF c \notin signaled /\ "NOTIFY_WAIT" \in kind[c].types
                THEN pending \cup {c} ELSE pending
  /\ UNCHANGED <<firedVars, timer, dataVars, histVars>>

\* An interface is installed for which c's event is registered.
ProtocolInstalled(c) ==
  /\ ~Panicked
  /\ c \in Open /\ reg[c] # "none"
  /\ Fire({c})
  /\ UNCHANGED <<firedVars, timer, dataVars, histVars>>

-----------------------------------------------------------------------------
(* Notifications.                                                          *)

\* The notification function gets its context and, in a registrar, prints what the
\* Box holds.
Notify(c) ==
  /\ Dispatch(c)
  /\ misread' = IF c \in Registrars /\ reg[c] # "written" THEN misread \cup {c} ELSE misread
  /\ UNCHANGED <<evVars, dataVars, oneShot, regTpl, miswrite>>

\* It returns: its parameter is dropped.
NotifyReturns(c) ==
  /\ Return(c)
  /\ read[c] = Unread
  /\ ctx' = [ctx EXCEPT ![c] = IF ~Owned(c) THEN @ ELSE IF @ = "given" THEN "freed" ELSE "freed twice"]
  /\ oneShot' = (oneShot /\ (Owned(c) => c \notin Open))
  /\ UNCHANGED <<kind, event, signaled, timer, reg, ended, dataVars, regTpl, misread, miswrite>>

-----------------------------------------------------------------------------
(* The programs of examples/: a mutex shared through a context, and a       *)
(* registration written into a context that is already given away.         *)

\* lock, try_lock (also Debug for TplMutex), raise_tpl_guarded and the guards' drops.
LockStep(t) ==
  /\ Idle(t) \/ Executes(t, "won") \/ Executes(t, "restored")
  /\ Acquire(t) \/ Unlock(t) \/ \E i \in 1..MaxGuards : RestoreTpl(t, i)
  /\ UNCHANGED <<evVars, dataVars, histVars>>

\* Deref and DerefMut need a live guard.
Holds(t, m) == \E i \in DOMAIN guards[t] : guards[t][i].mutex = m

\* `*guard += 1`, first half: the value is read through Deref.
ReadValue(t, m) ==
  /\ Idle(t)
  /\ Holds(t, m)
  /\ updates[m] < MaxUpdates
  /\ read' = [read EXCEPT ![t] = [mutex |-> m, value |-> value[m]]]
  /\ UNCHANGED <<vars, evVars, value, updates, histVars>>

\* Second half: the sum is written through the same guard's DerefMut.
WriteValue(t, m) ==
  /\ Executes(t, "ready")
  /\ Holds(t, m)
  /\ read[t] # Unread /\ read[t].mutex = m
  /\ value' = [value EXCEPT ![m] = read[t].value + 1]
  /\ updates' = [updates EXCEPT ![m] = @ + 1]
  /\ read' = [read EXCEPT ![t] = Unread]
  /\ UNCHANGED <<vars, evVars, histVars>>

\* register_protocol_notify succeeds; its result is written in the next step.  An error
\* is unwrapped: the program panics and nothing more is of interest.
RegisterProtocolNotify(c) ==
  /\ Idle(Main)
  /\ c \in Open \cap Registrars
  /\ reg[c] = "none"
  /\ reg' = [reg EXCEPT ![c] = "registered"]
  /\ regTpl' = [regTpl EXCEPT ![c] = tpl]
  /\ UNCHANGED <<vars, kind, event, signaled, timer, ctx, ended, dataVars,
                 oneShot, misread, miswrite>>

\* registration_ptr.write: through the pointer kept from before create_event.
WriteRegistration(c) ==
  /\ Executes(Main, "ready")
  /\ reg[c] = "registered"
  /\ reg' = [reg EXCEPT ![c] = "written"]
  /\ miswrite' = IF ctx[c] \in {"freed", "freed twice"} THEN miswrite \cup {c} ELSE miswrite
  /\ UNCHANGED <<vars, kind, event, signaled, timer, ctx, ended, dataVars,
                 oneShot, regTpl, misread>>

\* The main program returns; what it keeps, the target of every reference included, is
\* dropped.  The events stay.
MainReturns ==
  /\ Idle(Main)
  /\ guards[Main] = <<>>
  /\ ended' = TRUE
  /\ ctx' = [c \in Callbacks |-> IF kind[c].context = "ref" \/ (Owned(c) /\ ctx[c] = "held")
                                 THEN "freed" ELSE ctx[c]]
  /\ UNCHANGED <<vars, kind, event, signaled, timer, reg, dataVars, histVars>>

-----------------------------------------------------------------------------

EventNext ==
  \/ \E c \in Callbacks : Notify(c) \/ NotifyReturns(c) \/ TimerTick(c) \/ ProtocolInstalled(c)
  \/ \E c \in Callbacks, g \in {"alone", "grouped"} : CreateEvent(c, g)
  \/ \E t \in Tasks, c \in Callbacks : CloseEvent(t, c) \/ SignalEvent(t, c) \/ CheckEvent(t, c)
  \/ \E t \in Tasks, c \in Callbacks, type \in TimerTypes : SetTimer(t, c, type)
  \/ \E t \in Tasks : LockStep(t)
  \/ \E t \in Tasks, m \in Mutexes : ReadValue(t, m) \/ WriteValue(t, m)
  \/ \E c \in Callbacks : RegisterProtocolNotify(c) \/ WriteRegistration(c)
  \/ MainReturns

EventSpec == InitEvents /\ [][EventNext]_allVars

-----------------------------------------------------------------------------
(* Properties                                                              *)

\* The context a running notification was given is alive: a Box if every notification
\* that is given one closes its event before it returns, a reference as long as the main
\* program has not returned.  Close, signals of a group, timers and preemption included.
ContextAlive ==
  \A c \in Active \ {Main} :
    /\ Owned(c) /\ oneShot => ctx[c] = "given"
    /\ kind[c].context = "ref" /\ ~ended => ctx[c] = "held"

\* Data behind a guard: each `+= 1` through Deref and DerefMut takes effect once, whoever
\* preempts it between its read and its write, also when a guard dropped out of order has
\* lowered the TPL under the mutex.
NoLostUpdate == \A m \in Mutexes : value[m] = updates[m]

\* The registration is written into freed memory, or printed before it is written, only
\* if the program registered below the event's notify TPL: at or above it no
\* notification comes between register_protocol_notify and the write.
RegistrationShielded ==
  \A c \in misread \cup miswrite : regTpl[c] < Home[c]

=============================================================================
