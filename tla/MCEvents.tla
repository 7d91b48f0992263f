------------------------------ MODULE MCEvents ------------------------------
(* As in the examples: the main program at APPLICATION, a mutex and two       *)
(* notification functions at CALLBACK, one of which waits for a protocol.     *)
(* With two guards a TplGuard can be dropped before a younger TplMutexGuard:  *)
(* the TPL falls while the mutex is held, and a notification function runs    *)
(* between the read and the write of an increment.                            *)
EXTENDS Events

CONSTANTS main, counter, registrar, state

MCCallbacks == {counter, registrar}
MCMutexes == {state}
MCLevels == {1, 2}
MCHome == [t \in {main, counter, registrar} |-> IF t = main THEN 1 ELSE 2]
MCLockLevel == [m \in {state} |-> 2]
Counting == [context |-> "ref", types |-> BitOr({"TIMER"}, {"NOTIFY_SIGNAL"})]
Boxed == [context |-> "box", types |-> {"NOTIFY_SIGNAL"}]
Waiting == [context |-> "unit", types |-> {"NOTIFY_WAIT"}]
MCKindsOf == [c \in {counter, registrar} |->
                IF c = counter THEN {Counting, Boxed, Waiting} ELSE {Boxed}]

=============================================================================
