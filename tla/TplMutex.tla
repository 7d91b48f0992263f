------------------------------ MODULE TplMutex ------------------------------
(***************************************************************************)
(* TplMutex, TplMutexGuard and TplGuard on a single processor whose tasks   *)
(* are preempted by task priority level (TPL).                              *)
(*                                                                          *)
(* The boot processor runs one activation at a time.  The main program runs *)
(* at the lowest level; an event notification function (a callback) runs on *)
(* top of whatever it interrupted, as soon as its notify TPL exceeds the    *)
(* current TPL, and must return before the interrupted code goes on.  The   *)
(* firmware's RaiseTPL, RestoreTPL and event dispatch are external: they    *)
(* are modelled from how the code calls them.                               *)
(*                                                                          *)
(* try_lock and drop are not atomic: the lock flag and the TPL are changed  *)
(* in two steps, and a callback may run between the two.                    *)
(***************************************************************************)
EXTENDS Naturals, SequencesExt

CONSTANTS
  Main,       \* the program that runs when no notification is being served
  Callbacks,  \* event notification functions
  Mutexes,    \* TplMutex instances
  NoMutex,    \* stands for "no mutex": the guard is a TplGuard
  Levels,     \* task priority levels
  Home,       \* level a task starts at (notify TPL of a callback)
  LockLevel,  \* tpl_lock_level of a mutex
  MaxGuards   \* bound: guards one activation keeps alive at a time

Tasks == Callbacks \cup {Main}

ASSUME TplAssumption ==
  /\ Levels \subseteq Nat
  /\ Home \in [Tasks -> Levels]
  /\ LockLevel \in [Mutexes -> Levels]
  /\ Main \notin Callbacks
  /\ NoMutex \notin Mutexes
  /\ MaxGuards \in Nat

VARIABLES
  tpl,      \* the processor's current TPL (firmware)
  frames,   \* activations, innermost last, each with the TPL it interrupted
  pending,  \* callbacks whose event is signaled and not yet served
  lock,     \* TplMutex::lock, the AtomicBool of each mutex
  guards,   \* guards alive in each activation, oldest first
  op,       \* what each activation is in the middle of
  scoped    \* history: guards were dropped in scope order so far, the youngest first

vars == <<tpl, frames, pending, lock, guards, op, scoped>>

Frame == [task : Tasks, resume : Levels]

\* A TplMutexGuard, or a TplGuard when mutex = NoMutex.  release_tpl is the
\* field of the same name (TplGuard: retore_tpl); level is the TPL it raised to.
Guard == [mutex : Mutexes \cup {NoMutex}, level : Levels, release_tpl : Levels]

\* ready: between calls; won: compare_exchange succeeded, raise_tpl not called
\* yet; restored: drop called restore_tpl, the flag is not cleared yet.
Steps == {"ready", "won", "restored", "panicked"}
Op == [step : Steps, mutex : Mutexes \cup {NoMutex}]
Ready == [step |-> "ready", mutex |-> NoMutex]

TypeOK ==
  /\ tpl \in Levels
  /\ frames \in Seq(Frame)
  /\ frames # <<>>
  /\ pending \subseteq Callbacks
  /\ lock \in [Mutexes -> BOOLEAN]
  /\ guards \in [Tasks -> Seq(Guard)]
  /\ op \in [Tasks -> Op]
  /\ \A t \in Tasks : op[t].step \in {"won", "restored"} => op[t].mutex \in Mutexes
  /\ scoped \in BOOLEAN

-----------------------------------------------------------------------------

Running == Last(frames).task

Active == {frames[i].task : i \in DOMAIN frames}

Panicked == \E t \in Tasks : op[t].step = "panicked"

\* Notifications the firmware serves before any code at the current TPL goes on.
Deliverable == {c \in pending : Home[c] > tpl}

\* Task t executes: it is innermost and no notification is due.
Executes(t, step) ==
  /\ ~Panicked
  /\ t = Running
  /\ Deliverable = {}
  /\ op[t].step = step

Init ==
  /\ tpl = Home[Main]
  /\ frames = <<[task |-> Main, resume |-> Home[Main]]>>
  /\ pending = {}
  /\ lock = [m \in Mutexes |-> FALSE]
  /\ guards = [t \in Tasks |-> <<>>]
  /\ op = [t \in Tasks |-> Ready]
  /\ scoped = TRUE

-----------------------------------------------------------------------------
(* Firmware: events and their notification functions.                      *)

\* The event of callback c is signaled: by a timer tick, a device, or code.
Signal(c) ==
  /\ ~Panicked
  /\ c \notin pending
  /\ pending' = pending \cup {c}
  /\ UNCHANGED <<tpl, frames, lock, guards, op, scoped>>

\* The firmware calls a due notification function of the highest level.
Dispatch(c) ==
  /\ ~Panicked
  /\ c \in Deliverable
  /\ \A d \in Deliverable : Home[d] <= Home[c]
  /\ pending' = pending \ {c}
  /\ frames' = Append(frames, [task |-> c, resume |-> tpl])
  /\ tpl' = Home[c]
  /\ UNCHANGED <<lock, guards, op, scoped>>

\* A notification function returns; its guards went out of scope before.
Return(c) ==
  /\ Executes(c, "ready")
  /\ c # Main
  /\ guards[c] = <<>>
  /\ tpl' = Last(frames).resume
  /\ frames' = Front(frames)
  /\ UNCHANGED <<pending, lock, guards, op, scoped>>

-----------------------------------------------------------------------------
(* TplMutex.  The caller's obligation towards RaiseTPL, never to ask for a  *)
(* level below the current one, is the guard LockLevel[m] >= tpl.           *)

Calls(t) == Executes(t, "ready") /\ Len(guards[t]) < MaxGuards

\* Mutant: the flag is stored without looking at its previous value.
TryLockUnconditional(t, m) ==
  /\ Calls(t)
  /\ LockLevel[m] >= tpl
  /\ lock' = [lock EXCEPT ![m] = TRUE]
  /\ op' = [op EXCEPT ![t] = [step |-> "won", mutex |-> m]]
  /\ UNCHANGED <<tpl, frames, pending, guards, scoped>>

\* try_lock, first half: compare_exchange(false, true) succeeds.  When the
\* flag is set try_lock returns Err and changes nothing (a stuttering step).
TryLock(t, m) ==
  /\ Calls(t)
  /\ LockLevel[m] >= tpl
  /\ ~lock[m]
  /\ lock' = [lock EXCEPT ![m] = TRUE]
  /\ op' = [op EXCEPT ![t] = [step |-> "won", mutex |-> m]]
  /\ UNCHANGED <<tpl, frames, pending, guards, scoped>>

\* Mutant: the guard is built without raising the TPL.
RaiseTplSkipped(t) ==
  /\ Executes(t, "won")
  /\ LET m == op[t].mutex IN
       guards' = [guards EXCEPT ![t] = Append(@,
         [mutex |-> m, level |-> LockLevel[m], release_tpl |-> tpl])]
  /\ op' = [op EXCEPT ![t] = Ready]
  /\ UNCHANGED <<tpl, frames, pending, lock, scoped>>

\* try_lock, second half: raise_tpl, whose result is kept in the guard.
RaiseTpl(t) ==
  /\ Executes(t, "won")
  /\ LET m == op[t].mutex IN
       /\ tpl' = LockLevel[m]
       /\ guards' = [guards EXCEPT ![t] = Append(@,
            [mutex |-> m, level |-> LockLevel[m], release_tpl |-> tpl])]
  /\ op' = [op EXCEPT ![t] = Ready]
  /\ UNCHANGED <<frames, pending, lock, scoped>>

\* lock() on a set flag: the unwrap of try_lock's error panics.
LockPanics(t, m) ==
  /\ Calls(t)
  /\ LockLevel[m] >= tpl
  /\ lock[m]
  /\ op' = [op EXCEPT ![t] = [step |-> "panicked", mutex |-> m]]
  /\ UNCHANGED <<tpl, frames, pending, lock, guards, scoped>>

\* BootServices::raise_tpl_guarded.
RaiseTplGuarded(t, l) ==
  /\ Calls(t)
  /\ l >= tpl
  /\ tpl' = l
  /\ guards' = [guards EXCEPT ![t] = Append(@,
       [mutex |-> NoMutex, level |-> l, release_tpl |-> tpl])]
  /\ UNCHANGED <<frames, pending, lock, op, scoped>>

\* Mutant: drop never calls restore_tpl.
RestoreTplForgotten(t, i) ==
  /\ Executes(t, "ready")
  /\ i \in DOMAIN guards[t]
  /\ op' = IF guards[t][i].mutex = NoMutex THEN op
           ELSE [op EXCEPT ![t] = [step |-> "restored", mutex |-> guards[t][i].mutex]]
  /\ guards' = [guards EXCEPT ![t] = RemoveAt(@, i)]
  /\ scoped' = (scoped /\ i = Len(guards[t]))
  /\ UNCHANGED <<tpl, frames, pending, lock>>

\* drop of the i-th guard, first half: restore_tpl(release_tpl).  Callbacks
\* that were held off run before it returns.  A TplGuard is then gone.
RestoreTpl(t, i) ==
  /\ Executes(t, "ready")
  /\ i \in DOMAIN guards[t]
  /\ LET g == guards[t][i] IN
       /\ tpl' = g.release_tpl
       /\ op' = IF g.mutex = NoMutex THEN op
                ELSE [op EXCEPT ![t] = [step |-> "restored", mutex |-> g.mutex]]
  /\ guards' = [guards EXCEPT ![t] = RemoveAt(@, i)]
  /\ scoped' = (scoped /\ i = Len(guards[t]))
  /\ UNCHANGED <<frames, pending, lock>>

\* Mutant: drop leaves the flag set.
UnlockForgotten(t) ==
  /\ Executes(t, "restored")
  /\ op' = [op EXCEPT ![t] = Ready]
  /\ UNCHANGED <<tpl, frames, pending, lock, guards, scoped>>

\* drop of a TplMutexGuard, second half: lock.store(false).
Unlock(t) ==
  /\ Executes(t, "restored")
  /\ lock' = [lock EXCEPT ![op[t].mutex] = FALSE]
  /\ op' = [op EXCEPT ![t] = Ready]
  /\ UNCHANGED <<tpl, frames, pending, guards, scoped>>

\* After a panic the processor stays in the panic handler.
Halted == Panicked /\ UNCHANGED vars

-----------------------------------------------------------------------------

Firmware == \E c \in Callbacks : Signal(c) \/ Dispatch(c) \/ Return(c)

Acquire(t) ==
  \/ \E m \in Mutexes : TryLock(t, m) \/ LockPanics(t, m)
  \/ \E l \in Levels : RaiseTplGuarded(t, l)
  \/ RaiseTpl(t)

\* Guards may be dropped in any order (mem::drop takes any of them).
Next ==
  \/ Firmware
  \/ \E t \in Tasks : Acquire(t) \/ Unlock(t) \/ \E i \in 1..MaxGuards : RestoreTpl(t, i)
  \/ Halted

Spec == Init /\ [][Next]_vars

\* Code runs to completion (tpl.rs: "Code executes to completion and returns"):
\* calls in progress end, the outermost guard is dropped, callbacks return.
DropYoungest(t) == RestoreTpl(t, Len(guards[t]))
DropLast(t) == Len(guards[t]) = 1 /\ DropYoungest(t)

Fairness ==
  /\ \A c \in Callbacks : WF_vars(Dispatch(c)) /\ SF_vars(Return(c))
  /\ \A t \in Tasks : WF_vars(RaiseTpl(t)) /\ WF_vars(Unlock(t))
  /\ \A t \in Tasks : WF_vars(DropYoungest(t)) /\ SF_vars(DropLast(t))

FairSpec == Spec /\ Fairness

-----------------------------------------------------------------------------
(* Properties                                                              *)

\* Task t is between winning the flag of m and clearing it.
Claims(t, m) ==
  \/ op[t].step \in {"won", "restored"} /\ op[t].mutex = m
  \/ \E i \in DOMAIN guards[t] : guards[t][i].mutex = m

\* Deref and DerefMut of TplMutexGuard rely on the guard being the only way to
\* the data: no two live guards, of one task or of two, are on the same mutex.
MutualExclusion ==
  \A t, u \in Tasks : \A i \in DOMAIN guards[t], j \in DOMAIN guards[u] :
    guards[t][i].mutex = guards[u][j].mutex /\ guards[t][i].mutex \in Mutexes
      => t = u /\ i = j

\* The flag of a mutex is set exactly while one activation is between its
\* compare_exchange and its store(false): it is never cleared under a holder
\* and never left set with nobody to clear it.
FlagOwned ==
  /\ \A m \in Mutexes : lock[m] <=> \E t \in Tasks : Claims(t, m)
  /\ \A m \in Mutexes : \A t, u \in Tasks : Claims(t, m) /\ Claims(u, m) => t = u

\* With guards dropped in scope order, the TPL is never below the level of a
\* live guard: no callback at or below tpl_lock_level starts while it is held.
TplCoversGuards ==
  scoped => \A t \in Tasks : \A i \in DOMAIN guards[t] : guards[t][i].level <= tpl

\* With guards dropped in scope order, a task entitled to lock m (its TPL is not
\* above tpl_lock_level) finds the flag set only if it holds m itself or if it
\* interrupted another task inside try_lock or inside the guard's drop.
ContentionOnlyInWindows ==
  \A m \in Mutexes :
    scoped /\ lock[m] /\ op[Running].step = "ready" /\ LockLevel[m] >= tpl /\ Deliverable = {}
      => \/ \E i \in DOMAIN guards[Running] : guards[Running][i].mutex = m
         \/ \E u \in Active : op[u].step \in {"won", "restored"} /\ op[u].mutex = m

\* TplMutex implements the exclusive lock of its documentation: a task holds m from
\* its compare_exchange to its store(false), windows included, in any drop order.
Lock == INSTANCE ExclusiveLock
          WITH holders <- [m \in Mutexes |-> {t \in Tasks : Claims(t, m)}]
ImplementsLock == Lock!Spec

\* With guards dropped in scope order, a signaled notification held off by a guard is
\* served after it is dropped, unless the processor panics or a higher notification
\* is served.
HeldOffIsServed ==
  \A c \in Callbacks :
    c \in pending ~> \/ c \notin pending
                     \/ Panicked
                     \/ ~scoped
                     \/ \E d \in Active : Home[d] > Home[c]

=============================================================================
