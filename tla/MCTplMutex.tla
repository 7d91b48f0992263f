----------------------------- MODULE MCTplMutex -----------------------------
(* Three levels (APPLICATION, CALLBACK, NOTIFY), one notification function   *)
(* at each of the upper two, and one mutex at each of the upper two.         *)
EXTENDS TplMutex

CONSTANTS main, timer, device, state, queue

MCCallbacks == {timer, device}
MCMutexes == {state, queue}
MCLevels == {1, 2, 3}
MCHome == [t \in {main, timer, device} |->
             IF t = main THEN 1 ELSE IF t = timer THEN 2 ELSE 3]
MCLockLevel == [m \in {state, queue} |-> IF m = state THEN 2 ELSE 3]

=============================================================================
