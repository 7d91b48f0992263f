---------------------------- MODULE ExclusiveLock ----------------------------
(***************************************************************************)
(* What a TplMutex promises: a mutex has at most one holder, a task becomes *)
(* its holder only when it has none, and only the holder gives it up.  How  *)
(* the flag, the TPL and the guards bring this about is not said here.      *)
(***************************************************************************)
CONSTANTS Tasks, Mutexes

VARIABLE holders  \* the tasks that hold each mutex

Init == holders = [m \in Mutexes |-> {}]

Acquire(t, m) ==
  /\ holders[m] = {}
  /\ holders' = [holders EXCEPT ![m] = {t}]

Release(t, m) ==
  /\ holders[m] = {t}
  /\ holders' = [holders EXCEPT ![m] = {}]

Next == \E t \in Tasks, m \in Mutexes : Acquire(t, m) \/ Release(t, m)

Spec == Init /\ [][Next]_holders

=============================================================================
