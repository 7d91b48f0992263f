--------------------------- MODULE TplMutexProofs ---------------------------
(***************************************************************************)
(* TplMutex is type correct and excludes, in every drop order, and with     *)
(* guards dropped in scope order it holds callbacks off: proofs for every   *)
(* set of tasks, mutexes and levels and every bound on the guards.  At the   *)
(* end, Events on top of it: what the mutex promises carries over, and keeps *)
(* contexts, updates behind a guard and the protocol registration safe, for  *)
(* every set of callbacks and kinds of events.                               *)
(***************************************************************************)
EXTENDS Events, TLAPS

\* The activation at the bottom of the stack is the main program's, so that a
\* callback's return leaves an activation to go on with.
MainAtBottom == frames[1].task = Main

TypeInv == TypeOK /\ MainAtBottom

\* Task t is inside try_lock or drop with the flag of m set.
InWindow(t, m) == op[t].step \in {"won", "restored"} /\ op[t].mutex = m

\* One claim at most on each mutex: by a window of one task, or by one guard.
WindowsDiffer ==
  \A m \in Mutexes : \A t, u \in Tasks : InWindow(t, m) /\ InWindow(u, m) => t = u

WindowExcludesGuards ==
  \A m \in Mutexes : \A t, u \in Tasks :
    InWindow(t, m) => \A i \in DOMAIN guards[u] : guards[u][i].mutex # m

\* Every claim has its flag set, and every set flag has its claim.
ClaimSetsFlag == \A m \in Mutexes : \A t \in Tasks : Claims(t, m) => lock[m]

FlagHasClaim == \A m \in Mutexes : lock[m] => \E t \in Tasks : Claims(t, m)

-----------------------------------------------------------------------------

\* What dropping the i-th of the live guards leaves: the others, in order.
LEMMA RemoveAtProperties ==
  ASSUME NEW S, NEW s \in Seq(S), NEW i \in 1..Len(s)
  PROVE  /\ RemoveAt(s, i) \in Seq(S)
         /\ Len(RemoveAt(s, i)) = Len(s) - 1
         /\ \A j \in 1..(Len(s) - 1) :
              RemoveAt(s, i)[j] = IF j < i THEN s[j] ELSE s[j + 1]
<1> DEFINE a == SubSeq(s, 1, i - 1)
           b == SubSeq(s, i + 1, Len(s))
<1>1. a \in Seq(S) /\ Len(a) = i - 1 /\ \A j \in 1..(i - 1) : a[j] = s[j]
  OBVIOUS
<1>2. b \in Seq(S) /\ Len(b) = Len(s) - i /\ \A j \in 1..(Len(s) - i) : b[j] = s[i + j]
  OBVIOUS
<1>3. RemoveAt(s, i) = a \o b
  BY DEF RemoveAt
<1> HIDE DEF a, b
<1>4. a \o b \in Seq(S)
  BY <1>1, <1>2
<1>6. Len(a \o b) = Len(s) - 1
  BY <1>1, <1>2
<1>5. \A j \in 1..(Len(s) - 1) : (a \o b)[j] = IF j < i THEN s[j] ELSE s[j + 1]
  BY <1>1, <1>2
<1> QED BY <1>3, <1>4, <1>5, <1>6

\* Where the j-th guard left was before the i-th was dropped, and the reverse.
Before(i, j) == IF j < i THEN j ELSE j + 1
After(i, j) == IF j < i THEN j ELSE j - 1

\* A dropped guard shifts the younger ones by one place.
LEMMA RemoveAtMoves ==
  ASSUME NEW S, NEW s \in Seq(S), NEW i \in 1..Len(s)
  PROVE  /\ \A j \in DOMAIN RemoveAt(s, i) :
              /\ Before(i, j) \in DOMAIN s
              /\ Before(i, j) # i
              /\ RemoveAt(s, i)[j] = s[Before(i, j)]
         /\ \A j \in DOMAIN s : j # i =>
              /\ After(i, j) \in DOMAIN RemoveAt(s, i)
              /\ RemoveAt(s, i)[After(i, j)] = s[j]
         /\ \A j, k \in DOMAIN RemoveAt(s, i) : Before(i, j) = Before(i, k) => j = k
<1> DEFINE r == RemoveAt(s, i)
<1>1. /\ r \in Seq(S) /\ Len(r) = Len(s) - 1
      /\ \A j \in 1..(Len(s) - 1) : r[j] = IF j < i THEN s[j] ELSE s[j + 1]
  BY RemoveAtProperties
<1> HIDE DEF r
<1>2. DOMAIN s = 1..Len(s) /\ DOMAIN r = 1..(Len(s) - 1) /\ Len(s) \in Nat
  BY <1>1
<1>3. \A j \in 1..(Len(s) - 1) : Before(i, j) \in 1..Len(s) /\ Before(i, j) # i
  BY <1>2 DEF Before
<1>4. \A j \in 1..(Len(s) - 1) : r[j] = s[Before(i, j)]
  BY <1>1 DEF Before
<1>5. \A j \in 1..Len(s) : j # i => After(i, j) \in 1..(Len(s) - 1) /\ Before(i, After(i, j)) = j
  BY <1>2 DEF Before, After
<1>6. \A j, k \in 1..(Len(s) - 1) : Before(i, j) = Before(i, k) => j = k
  BY <1>2 DEF Before
<1>7. \A j \in 1..Len(s) : j # i => r[After(i, j)] = s[j]
  BY <1>4, <1>5
<1> QED BY <1>2, <1>3, <1>4, <1>5, <1>6, <1>7 DEF r

\* What a callback's return leaves of the stack of activations.
LEMMA FrontProperties ==
  ASSUME NEW S, NEW s \in Seq(S), Len(s) > 1
  PROVE  Front(s) \in Seq(S) /\ Front(s) # <<>> /\ Front(s)[1] = s[1]
<1>1. Front(s) \in Seq(S)
  BY DEF Front
<1>2. Len(Front(s)) = Len(s) - 1 /\ \A j \in 1..(Len(s) - 1) : Front(s)[j] = s[j]
  BY DEF Front
<1>3. Len(s) \in Nat /\ 1 \in 1..(Len(s) - 1)
  OBVIOUS
<1> QED BY <1>1, <1>2, <1>3

-----------------------------------------------------------------------------

\* The system starts well typed,
LEMMA TypeInit == Init => TypeInv
<1> SUFFICES ASSUME Init PROVE TypeInv
  OBVIOUS
<1> USE TplAssumption DEF Init
<1>1. frames \in Seq(Frame) /\ frames # <<>> /\ frames[1].task = Main
  BY DEF Frame, Tasks
<1>2. Ready \in Op /\ Ready.step = "ready"
  BY DEF Ready, Op, Steps
<1>3. op \in [Tasks -> Op] /\ \A t \in Tasks : op[t].step = "ready"
  BY <1>2
<1>4. guards \in [Tasks -> Seq(Guard)]
  OBVIOUS
<1>5. tpl \in Levels /\ pending \subseteq Callbacks /\ lock \in [Mutexes -> BOOLEAN]
  BY DEF Tasks
<1> QED BY <1>1, <1>3, <1>4, <1>5 DEF TypeInv, TypeOK, MainAtBottom

\* Every step keeps the types, and keeps the main program at the bottom.
LEMMA TypeStep == TypeInv /\ [Next]_vars => TypeInv'
<1> SUFFICES ASSUME TypeInv, [Next]_vars PROVE TypeInv'
  OBVIOUS
<1> USE TplAssumption DEF TypeInv, TypeOK, MainAtBottom
<1>0. Ready \in Op /\ Ready.step = "ready"
  BY DEF Ready, Op, Steps
<1>1. ASSUME NEW c \in Callbacks, Signal(c) PROVE TypeInv'
  BY <1>1 DEF Signal
<1>2. ASSUME NEW c \in Callbacks, Dispatch(c) PROVE TypeInv'
  <2>1. [task |-> c, resume |-> tpl] \in Frame /\ Home[c] \in Levels
    BY DEF Frame, Tasks
  <2> DEFINE f == [task |-> c, resume |-> tpl]
  <2> HIDE DEF f
  <2>2. Len(frames) \in Nat /\ Len(frames) >= 1
    OBVIOUS
  <2>3. Append(frames, f) \in Seq(Frame) /\ Len(Append(frames, f)) = Len(frames) + 1
    BY <2>1 DEF f
  <2>4. Append(frames, f) # <<>> /\ Append(frames, f)[1] = frames[1]
    BY <2>1, <2>2, <2>3
  <2> QED BY <1>2, <2>1, <2>3, <2>4 DEF Dispatch, f
<1>3. ASSUME NEW c \in Callbacks, Return(c) PROVE TypeInv'
  <2>1. c = Last(frames).task /\ c # Main
    BY <1>3 DEF Return, Executes, Running
  <2>2. Len(frames) \in Nat /\ Len(frames) > 1
    BY <2>1 DEF Last
  <2>3. Front(frames) \in Seq(Frame) /\ Front(frames) # <<>> /\ Front(frames)[1] = frames[1]
    <3>1. frames \in Seq(Frame) /\ Len(frames) > 1
      BY <2>2
    <3> QED BY ONLY <3>1, FrontProperties
  <2>4. Last(frames).resume \in Levels
    <3>1. frames[Len(frames)] \in Frame
      BY <2>2
    <3> QED BY <3>1 DEF Last, Frame
  <2> QED BY <1>3, <2>3, <2>4 DEF Return
<1>4. ASSUME NEW t \in Tasks, NEW m \in Mutexes, TryLock(t, m) PROVE TypeInv'
  <2>1. [step |-> "won", mutex |-> m] \in Op
    BY DEF Op, Steps
  <2> QED BY <1>4, <2>1 DEF TryLock
<1>5. ASSUME NEW t \in Tasks, NEW m \in Mutexes, LockPanics(t, m) PROVE TypeInv'
  <2>1. [step |-> "panicked", mutex |-> m] \in Op
    BY DEF Op, Steps
  <2> QED BY <1>5, <2>1 DEF LockPanics
<1>6. ASSUME NEW t \in Tasks, NEW l \in Levels, RaiseTplGuarded(t, l) PROVE TypeInv'
  <2>1. [mutex |-> NoMutex, level |-> l, release_tpl |-> tpl] \in Guard
    BY DEF Guard
  <2> QED BY <1>6, <2>1 DEF RaiseTplGuarded
<1>7. ASSUME NEW t \in Tasks, RaiseTpl(t) PROVE TypeInv'
  <2> DEFINE m == op[t].mutex
             g == [mutex |-> m, level |-> LockLevel[m], release_tpl |-> tpl]
  <2>1. m \in Mutexes
    BY <1>7 DEF RaiseTpl, Executes
  <2>2. LockLevel[m] \in Levels /\ g \in Guard
    BY <2>1 DEF Guard
  <2>3. op' \in [Tasks -> Op] /\ \A u \in Tasks : op'[u] = op[u] \/ op'[u].step = "ready"
    BY <1>7, <1>0 DEF RaiseTpl
  <2>4. guards' \in [Tasks -> Seq(Guard)]
    BY <1>7, <2>2 DEF RaiseTpl
  <2> QED BY <1>7, <2>2, <2>3, <2>4 DEF RaiseTpl
<1>8. ASSUME NEW t \in Tasks, NEW i \in 1..MaxGuards, RestoreTpl(t, i) PROVE TypeInv'
  <2> DEFINE g == guards[t][i]
  <2>1. guards[t] \in Seq(Guard) /\ i \in 1..Len(guards[t]) /\ g \in Guard
    BY <1>8 DEF RestoreTpl
  <2>2. RemoveAt(guards[t], i) \in Seq(Guard)
    BY <2>1, RemoveAtProperties
  <2>3. g.release_tpl \in Levels /\ g.mutex \in Mutexes \cup {NoMutex}
    BY <2>1 DEF Guard
  <2>4. [step |-> "restored", mutex |-> g.mutex] \in Op
    BY <2>3 DEF Op, Steps
  <2>5. op' \in [Tasks -> Op]
        /\ \A u \in Tasks : op'[u] = op[u] \/ op'[u].mutex \in Mutexes
    <3>1. CASE g.mutex = NoMutex
      BY <1>8, <3>1 DEF RestoreTpl
    <3>2. CASE g.mutex # NoMutex
      BY <1>8, <3>2, <2>3, <2>4 DEF RestoreTpl
    <3> QED BY <3>1, <3>2
  <2>6. guards' \in [Tasks -> Seq(Guard)]
    BY <1>8, <2>2 DEF RestoreTpl
  <2> QED BY <1>8, <2>3, <2>5, <2>6 DEF RestoreTpl
<1>9. ASSUME NEW t \in Tasks, Unlock(t) PROVE TypeInv'
  BY <1>9, <1>0 DEF Unlock, Executes
<1>10. CASE UNCHANGED vars
  BY <1>10 DEF vars
<1> QED BY <1>1, <1>2, <1>3, <1>4, <1>5, <1>6, <1>7, <1>8, <1>9, <1>10
    DEF Next, Firmware, Acquire, Halted

\* The state of TplMutex, its guards and the firmware keep their types: in
\* particular a callback's return always finds an activation to resume, and
\* raise_tpl and the store(false) of drop always know their mutex.
THEOREM TypeCorrect == Spec => []TypeOK
<1>1. Spec => []TypeInv
  BY TypeInit, TypeStep, PTL DEF Spec
<1>2. TypeInv => TypeOK
  BY DEF TypeInv
<1> QED BY <1>1, <1>2, PTL

-----------------------------------------------------------------------------
(* Exclusion                                                               *)

\* The inductive invariant is TypeInv /\ ClaimInv.  MutualExclusion alone is not
\* inductive: a guard comes from a window, and a window from a clear flag.
ClaimInv ==
  /\ MutualExclusion
  /\ WindowsDiffer
  /\ WindowExcludesGuards
  /\ ClaimSetsFlag
  /\ FlagHasClaim

\* and without a claim.
LEMMA ClaimInit == Init => ClaimInv
<1> SUFFICES ASSUME Init PROVE ClaimInv
  OBVIOUS
<1>1. \A t \in Tasks : guards[t] = <<>> /\ op[t].step = "ready"
  BY DEF Init, Ready
<1>2. \A m \in Mutexes : ~lock[m]
  BY DEF Init
<1>3. \A t \in Tasks : \A i \in DOMAIN guards[t] : FALSE
  BY <1>1
<1> QED BY <1>1, <1>2, <1>3
    DEF ClaimInv, MutualExclusion, WindowsDiffer, WindowExcludesGuards, ClaimSetsFlag,
        FlagHasClaim, InWindow, Claims

\* Two tasks never claim the same mutex.
LEMMA OneClaim ==
  ClaimInv => \A m \in Mutexes : \A t, u \in Tasks : Claims(t, m) /\ Claims(u, m) => t = u
<1>1. \A m \in Mutexes, t \in Tasks :
        Claims(t, m) <=> InWindow(t, m) \/ \E i \in DOMAIN guards[t] : guards[t][i].mutex = m
  BY DEF Claims, InWindow
<1> QED BY <1>1 DEF ClaimInv, MutualExclusion, WindowsDiffer, WindowExcludesGuards

\* The step neither makes nor ends a claim.
SameClaims == \A u \in Tasks, n \in Mutexes : Claims(u, n)' <=> Claims(u, n)

\* Steps of the firmware, and a panic, leave every claim and flag as it is.
LEMMA ClaimUnchanged ==
  ASSUME ClaimInv, UNCHANGED <<lock, guards>>,
         \A t \in Tasks, m \in Mutexes : InWindow(t, m)' <=> InWindow(t, m)
  PROVE  ClaimInv' /\ SameClaims
<1>1. \A t \in Tasks, m \in Mutexes : Claims(t, m)' <=> Claims(t, m)
  BY DEF Claims, InWindow
<1>2. ClaimInv'
  BY <1>1 DEF ClaimInv, MutualExclusion, WindowsDiffer, WindowExcludesGuards, ClaimSetsFlag,
              FlagHasClaim
<1> QED BY <1>1, <1>2 DEF SameClaims

\* try_lock's compare_exchange: a flag found clear has no claim on its mutex.
LEMMA ClaimTryLock ==
  ASSUME TypeInv, ClaimInv, NEW t \in Tasks, NEW m \in Mutexes, TryLock(t, m)
  PROVE  /\ ClaimInv'
         /\ \A u \in Tasks : ~Claims(u, m)
         /\ \A u \in Tasks, n \in Mutexes : Claims(u, n)' <=> Claims(u, n) \/ (u = t /\ n = m)
<1> USE DEF TypeInv, TypeOK
<1>1. \A u \in Tasks : ~Claims(u, m)
  BY DEF TryLock, ClaimInv, ClaimSetsFlag
<1>2. \A u \in Tasks, n \in Mutexes :
        InWindow(u, n)' <=> InWindow(u, n) \/ (u = t /\ n = m)
  BY DEF TryLock, Calls, Executes, InWindow
<1>3. \A u \in Tasks : ~InWindow(u, m) /\ \A i \in DOMAIN guards[u] : guards[u][i].mutex # m
  BY <1>1 DEF Claims, InWindow
<1>4. guards' = guards /\ \A n \in Mutexes : lock'[n] <=> lock[n] \/ n = m
  BY DEF TryLock
<1>5. \A u \in Tasks, n \in Mutexes : Claims(u, n)' <=> Claims(u, n) \/ (u = t /\ n = m)
  BY <1>2, <1>4 DEF Claims, InWindow
<1>6. MutualExclusion'
  BY <1>4 DEF ClaimInv, MutualExclusion
<1>7. WindowsDiffer'
  BY <1>2, <1>3 DEF ClaimInv, WindowsDiffer
<1>8. WindowExcludesGuards'
  BY <1>2, <1>3, <1>4 DEF ClaimInv, WindowExcludesGuards
<1>9. ClaimSetsFlag' /\ FlagHasClaim'
  BY <1>4, <1>5 DEF ClaimInv, ClaimSetsFlag, FlagHasClaim
<1> QED BY <1>1, <1>5, <1>6, <1>7, <1>8, <1>9 DEF ClaimInv

\* raise_tpl_guarded: the new guard is on no mutex.
LEMMA ClaimRaiseTplGuarded ==
  ASSUME TypeInv, ClaimInv, NEW t \in Tasks, NEW l \in Levels, RaiseTplGuarded(t, l)
  PROVE  ClaimInv' /\ SameClaims
<1> USE TplAssumption DEF TypeInv, TypeOK
<1> DEFINE g == [mutex |-> NoMutex, level |-> l, release_tpl |-> tpl]
<1>1. guards' = [guards EXCEPT ![t] = Append(@, g)] /\ g.mutex = NoMutex
      /\ op' = op /\ lock' = lock
  BY DEF RaiseTplGuarded
<1> HIDE DEF g
<1>2. \A u \in Tasks : \A i \in DOMAIN guards'[u] :
        guards'[u][i].mutex \in Mutexes
          => i \in DOMAIN guards[u] /\ guards'[u][i] = guards[u][i]
  BY <1>1
<1>3. \A u \in Tasks : \A i \in DOMAIN guards[u] :
        i \in DOMAIN guards'[u] /\ guards'[u][i] = guards[u][i]
  BY <1>1
<1>4. \A u \in Tasks, n \in Mutexes : InWindow(u, n)' <=> InWindow(u, n)
  BY <1>1 DEF InWindow
<1>5. \A u \in Tasks, n \in Mutexes : Claims(u, n)' <=> Claims(u, n)
  BY <1>1, <1>2, <1>3 DEF Claims
<1>6. MutualExclusion'
  BY <1>2 DEF ClaimInv, MutualExclusion
<1>7. WindowsDiffer' /\ WindowExcludesGuards'
  BY <1>2, <1>4 DEF ClaimInv, WindowsDiffer, WindowExcludesGuards
<1>8. ClaimSetsFlag' /\ FlagHasClaim'
  BY <1>1, <1>5 DEF ClaimInv, ClaimSetsFlag, FlagHasClaim
<1> QED BY <1>5, <1>6, <1>7, <1>8 DEF ClaimInv, SameClaims

\* try_lock's raise_tpl: the window's claim becomes the new guard's.
LEMMA ClaimRaiseTpl ==
  ASSUME TypeInv, ClaimInv, NEW t \in Tasks, RaiseTpl(t)
  PROVE  ClaimInv' /\ SameClaims
<1> USE TplAssumption DEF TypeInv, TypeOK
<1> DEFINE m == op[t].mutex
           g == [mutex |-> m, level |-> LockLevel[m], release_tpl |-> tpl]
           k == Len(guards[t]) + 1
<1>1. m \in Mutexes /\ InWindow(t, m)
  BY DEF RaiseTpl, Executes, InWindow
<1>2. guards' = [guards EXCEPT ![t] = Append(@, g)] /\ g.mutex = m /\ lock' = lock
  BY DEF RaiseTpl
<1>3. \A u \in Tasks, n \in Mutexes : InWindow(u, n)' <=> InWindow(u, n) /\ u # t
  BY DEF RaiseTpl, InWindow, Ready
<1>4. \A n \in Mutexes : InWindow(t, n) => n = m
  BY DEF InWindow
<1> HIDE DEF g, m
<1>5. \A u \in Tasks : \A i \in DOMAIN guards[u] : guards[u][i].mutex # m
  BY <1>1 DEF ClaimInv, WindowExcludesGuards
<1>6. \A u \in Tasks : \A i \in DOMAIN guards'[u] :
        \/ u = t /\ i = k /\ guards'[u][i].mutex = m
        \/ i \in DOMAIN guards[u] /\ guards'[u][i] = guards[u][i]
  BY <1>2
<1>7. \A u \in Tasks : \A i \in DOMAIN guards[u] :
        i \in DOMAIN guards'[u] /\ guards'[u][i] = guards[u][i]
  BY <1>2
<1>8. k \in DOMAIN guards'[t] /\ guards'[t][k].mutex = m
  BY <1>2
<1> HIDE DEF k
<1>9. \A u \in Tasks, n \in Mutexes : Claims(u, n)' <=> Claims(u, n)
  <2> SUFFICES ASSUME NEW u \in Tasks, NEW n \in Mutexes PROVE Claims(u, n)' <=> Claims(u, n)
    OBVIOUS
  <2>1. Claims(u, n) <=> InWindow(u, n) \/ \E i \in DOMAIN guards[u] : guards[u][i].mutex = n
    BY DEF Claims, InWindow
  <2>2. Claims(u, n)' <=> InWindow(u, n)' \/ \E i \in DOMAIN guards'[u] : guards'[u][i].mutex = n
    BY DEF Claims, InWindow
  <2> QED BY <1>1, <1>3, <1>4, <1>6, <1>7, <1>8, <2>1, <2>2, SMTT(30)
<1>10. MutualExclusion'
  <2> HIDE DEF TypeInv, TypeOK
  <2> SUFFICES ASSUME NEW u \in Tasks, NEW v \in Tasks,
                      NEW i \in DOMAIN guards'[u], NEW j \in DOMAIN guards'[v],
                      guards'[u][i].mutex = guards'[v][j].mutex, guards'[u][i].mutex \in Mutexes
               PROVE  u = v /\ i = j
    BY DEF MutualExclusion
  <2>1. CASE i \in DOMAIN guards[u] /\ guards'[u][i] = guards[u][i]
    <3>1. j \in DOMAIN guards[v] /\ guards'[v][j] = guards[v][j]
      BY <1>5, <1>6, <2>1
    <3> QED BY <2>1, <3>1 DEF ClaimInv, MutualExclusion
  <2>2. CASE u = t /\ i = k /\ guards'[u][i].mutex = m
    BY <1>5, <1>6, <2>2
  <2> QED BY <1>6, <2>1, <2>2
<1>11. WindowsDiffer'
  BY <1>3 DEF ClaimInv, WindowsDiffer
<1>12. WindowExcludesGuards'
  <2> SUFFICES ASSUME NEW n \in Mutexes, NEW u \in Tasks, NEW v \in Tasks, InWindow(u, n)',
                      NEW i \in DOMAIN guards'[v], guards'[v][i].mutex = n
               PROVE  FALSE
    BY DEF WindowExcludesGuards
  <2>1. InWindow(u, n) /\ u # t
    BY <1>3
  <2>2. CASE i \in DOMAIN guards[v] /\ guards'[v][i] = guards[v][i]
    BY <2>1, <2>2 DEF ClaimInv, WindowExcludesGuards
  <2>3. CASE n = m
    BY <1>1, <2>1, <2>3 DEF ClaimInv, WindowsDiffer
  <2> QED BY <1>6, <2>2, <2>3
<1>13. ClaimSetsFlag' /\ FlagHasClaim'
  BY <1>2, <1>9 DEF ClaimInv, ClaimSetsFlag, FlagHasClaim
<1> QED BY <1>9, <1>10, <1>11, <1>12, <1>13 DEF ClaimInv, SameClaims

\* drop's restore_tpl: the claim of the dropped guard becomes the window's.
LEMMA ClaimRestoreTpl ==
  ASSUME TypeInv, ClaimInv, NEW t \in Tasks, NEW i \in 1..MaxGuards, RestoreTpl(t, i)
  PROVE  ClaimInv' /\ SameClaims
<1> USE TplAssumption DEF TypeInv, TypeOK
<1> DEFINE m == guards[t][i].mutex
<1>1. guards[t] \in Seq(Guard) /\ i \in 1..Len(guards[t]) /\ op[t].step = "ready"
  BY DEF RestoreTpl, Executes
<1>2. m \in Mutexes \cup {NoMutex}
  <2>1. guards[t][i] \in Guard
    BY <1>1
  <2> QED BY <2>1 DEF Guard
<1>3. guards' = [guards EXCEPT ![t] = RemoveAt(@, i)] /\ lock' = lock
  BY DEF RestoreTpl
<1>4. \A u \in Tasks, n \in Mutexes :
        InWindow(u, n)' <=> InWindow(u, n) \/ (u = t /\ n = m)
  BY <1>1, <1>2 DEF RestoreTpl, InWindow
<1>5. \A n \in Mutexes : ~InWindow(t, n)
  BY <1>1 DEF InWindow
<1>6. \A u \in Tasks : u # t => guards'[u] = guards[u]
  BY <1>3
<1>7. guards'[t] = RemoveAt(guards[t], i) /\ i \in DOMAIN guards[t]
  BY <1>1, <1>3
<1>8. \A j \in DOMAIN guards'[t] :
        /\ Before(i, j) \in DOMAIN guards[t] /\ Before(i, j) # i
        /\ guards'[t][j] = guards[t][Before(i, j)]
  BY <1>1, <1>7, RemoveAtMoves
<1>9. \A j \in DOMAIN guards[t] :
        j # i => After(i, j) \in DOMAIN guards'[t] /\ guards'[t][After(i, j)] = guards[t][j]
  BY <1>1, <1>7, RemoveAtMoves
<1>10. \A j, k \in DOMAIN guards'[t] : Before(i, j) = Before(i, k) => j = k
  BY <1>1, <1>7, RemoveAtMoves
<1>11. \A n \in Mutexes : n = m =>
         /\ \A u \in Tasks : ~InWindow(u, n)
         /\ \A u \in Tasks : \A j \in DOMAIN guards'[u] : guards'[u][j].mutex # n
  <2> SUFFICES ASSUME m \in Mutexes
               PROVE  /\ \A u \in Tasks : ~InWindow(u, m)
                      /\ \A u \in Tasks : \A j \in DOMAIN guards'[u] : guards'[u][j].mutex # m
    OBVIOUS
  <2>1. \A u \in Tasks : ~InWindow(u, m)
    BY <1>1 DEF ClaimInv, WindowExcludesGuards
  <2>2. \A j \in DOMAIN guards'[t] : guards'[t][j].mutex # m
    BY <1>1, <1>7, <1>8 DEF ClaimInv, MutualExclusion
  <2>3. \A u \in Tasks : u # t => \A j \in DOMAIN guards'[u] : guards'[u][j].mutex # m
    BY <1>1, <1>6, <1>7 DEF ClaimInv, MutualExclusion
  <2> QED BY <2>1, <2>2, <2>3
<1> HIDE DEF m
<1>12. \A u \in Tasks, n \in Mutexes : Claims(u, n)' <=> Claims(u, n)
  <2> SUFFICES ASSUME NEW u \in Tasks, NEW n \in Mutexes PROVE Claims(u, n)' <=> Claims(u, n)
    OBVIOUS
  <2>1. Claims(u, n) <=> InWindow(u, n) \/ \E j \in DOMAIN guards[u] : guards[u][j].mutex = n
    BY DEF Claims, InWindow
  <2>2. Claims(u, n)' <=> InWindow(u, n)' \/ \E j \in DOMAIN guards'[u] : guards'[u][j].mutex = n
    BY DEF Claims, InWindow
  <2>3. CASE u # t
    BY <1>4, <1>6, <2>1, <2>2, <2>3
  <2>4. CASE u = t
    <3>1. guards[t][i].mutex = m /\ i \in DOMAIN guards[t]
      BY <1>1, <1>7 DEF m
    <3> QED BY <1>4, <1>5, <1>8, <1>9, <2>1, <2>2, <2>4, <3>1
  <2> QED BY <2>3, <2>4
<1>13. MutualExclusion'
  <2> DEFINE was(u, j) == IF u = t THEN Before(i, j) ELSE j
  <2>1. \A u \in Tasks : \A j \in DOMAIN guards'[u] :
          was(u, j) \in DOMAIN guards[u] /\ guards'[u][j] = guards[u][was(u, j)]
    BY <1>6, <1>8
  <2>2. \A u \in Tasks : \A j, k \in DOMAIN guards'[u] : was(u, j) = was(u, k) => j = k
    BY <1>10
  <2> HIDE DEF was
  <2> SUFFICES ASSUME NEW u \in Tasks, NEW v \in Tasks,
                      NEW j \in DOMAIN guards'[u], NEW k \in DOMAIN guards'[v],
                      guards'[u][j].mutex = guards'[v][k].mutex,
                      guards'[u][j].mutex \in Mutexes
               PROVE  u = v /\ j = k
    BY DEF MutualExclusion
  <2>3. u = v /\ was(u, j) = was(v, k)
    BY <2>1 DEF ClaimInv, MutualExclusion
  <2> QED BY <2>2, <2>3
<1>14. WindowsDiffer'
  BY <1>4, <1>11 DEF ClaimInv, WindowsDiffer
<1>15. WindowExcludesGuards'
  <2> SUFFICES ASSUME NEW n \in Mutexes, NEW u \in Tasks, NEW v \in Tasks, InWindow(u, n)',
                      NEW j \in DOMAIN guards'[v], guards'[v][j].mutex = n
               PROVE  FALSE
    BY DEF WindowExcludesGuards
  <2>1. InWindow(u, n) /\ n # m
    BY <1>4, <1>11
  <2>2. PICK k \in DOMAIN guards[v] : guards'[v][j] = guards[v][k]
    BY <1>6, <1>8
  <2> QED BY <2>1, <2>2 DEF ClaimInv, WindowExcludesGuards
<1>16. ClaimSetsFlag' /\ FlagHasClaim'
  BY <1>3, <1>12 DEF ClaimInv, ClaimSetsFlag, FlagHasClaim
<1> QED BY <1>12, <1>13, <1>14, <1>15, <1>16 DEF ClaimInv, SameClaims

\* drop's store(false): the window that ends was the only claim on its mutex.
LEMMA ClaimUnlock ==
  ASSUME TypeInv, ClaimInv, NEW t \in Tasks, Unlock(t)
  PROVE  /\ ClaimInv'
         /\ op[t].mutex \in Mutexes /\ Claims(t, op[t].mutex)
         /\ \A u \in Tasks, n \in Mutexes : Claims(u, n)' <=> Claims(u, n) /\ n # op[t].mutex
<1> USE DEF TypeInv, TypeOK
<1> DEFINE m == op[t].mutex
<1>1. m \in Mutexes /\ InWindow(t, m)
  BY DEF Unlock, Executes, InWindow
<1>2. \A u \in Tasks, n \in Mutexes : InWindow(u, n)' <=> InWindow(u, n) /\ u # t
  BY DEF Unlock, InWindow, Ready
<1>3. \A n \in Mutexes : InWindow(t, n) => n = m
  BY DEF InWindow
<1>4. guards' = guards /\ \A n \in Mutexes : lock'[n] <=> lock[n] /\ n # m
  BY DEF Unlock
<1> HIDE DEF m
<1>5. \A u \in Tasks, n \in Mutexes : Claims(u, n)' <=> Claims(u, n) /\ n # m
  <2> SUFFICES ASSUME NEW u \in Tasks, NEW n \in Mutexes
               PROVE  Claims(u, n)' <=> Claims(u, n) /\ n # m
    OBVIOUS
  <2> DEFINE G == \E i \in DOMAIN guards[u] : guards[u][i].mutex = n
  <2>1. Claims(u, n) <=> InWindow(u, n) \/ G
    BY DEF Claims, InWindow
  <2>2. Claims(u, n)' <=> InWindow(u, n)' \/ G
    BY <1>4 DEF Claims, InWindow
  <2>3. n = m => ~G /\ (InWindow(u, n) => u = t)
    BY <1>1 DEF ClaimInv, WindowExcludesGuards, WindowsDiffer
  <2> HIDE DEF G
  <2> QED BY <1>1, <1>2, <1>3, <2>1, <2>2, <2>3
<1>6. MutualExclusion'
  BY <1>4 DEF ClaimInv, MutualExclusion
<1>7. WindowsDiffer' /\ WindowExcludesGuards'
  BY <1>2, <1>4 DEF ClaimInv, WindowsDiffer, WindowExcludesGuards
<1>8. ClaimSetsFlag' /\ FlagHasClaim'
  BY <1>4, <1>5 DEF ClaimInv, ClaimSetsFlag, FlagHasClaim
<1>9. Claims(t, m)
  BY <1>1 DEF Claims, InWindow
<1> QED BY <1>1, <1>5, <1>6, <1>7, <1>8, <1>9 DEF ClaimInv, m

\* The holders of the abstract lock.
Holders == [m \in Mutexes |-> {t \in Tasks : Claims(t, m)}]

\* A step that makes or ends no claim is a stuttering step of the lock.
LEMMA SameHolders == SameClaims => Holders' = Holders
  BY DEF SameClaims, Holders

\* Every step keeps ClaimInv and is a step of the abstract lock, or stutters there.
LEMMA ClaimStep ==
  TypeInv /\ ClaimInv /\ [Next]_vars => ClaimInv' /\ [Lock!Next]_Holders
<1> SUFFICES ASSUME TypeInv, ClaimInv, [Next]_vars PROVE ClaimInv' /\ [Lock!Next]_Holders
  OBVIOUS
<1>1. ASSUME NEW c \in Callbacks, Signal(c) \/ Dispatch(c) \/ Return(c)
      PROVE  ClaimInv' /\ SameClaims
  <2>1. UNCHANGED <<lock, guards, op>>
    BY <1>1 DEF Signal, Dispatch, Return
  <2> QED BY <2>1, ClaimUnchanged DEF InWindow
<1>2. ASSUME NEW t \in Tasks, NEW m \in Mutexes, LockPanics(t, m)
      PROVE  ClaimInv' /\ SameClaims
  <2>1. UNCHANGED <<lock, guards>>
    BY <1>2 DEF LockPanics
  <2>2. \A u \in Tasks, n \in Mutexes : InWindow(u, n)' <=> InWindow(u, n)
    BY <1>2 DEF LockPanics, Calls, Executes, InWindow, TypeInv, TypeOK
  <2> QED BY <2>1, <2>2, ClaimUnchanged
<1>3. CASE UNCHANGED vars
  <2>1. ClaimInv' /\ SameClaims
    BY <1>3, ClaimUnchanged DEF vars, InWindow
  <2> QED BY <2>1, SameHolders
<1>4. ASSUME NEW t \in Tasks, NEW m \in Mutexes, TryLock(t, m)
      PROVE  ClaimInv' /\ Lock!Next
  <2>1. ClaimInv' /\ \A u \in Tasks : ~Claims(u, m)
    BY <1>4, ClaimTryLock
  <2>2. \A u \in Tasks, n \in Mutexes : Claims(u, n)' <=> Claims(u, n) \/ (u = t /\ n = m)
    BY <1>4, ClaimTryLock
  <2>3. Holders[m] = {} /\ Holders' = [Holders EXCEPT ![m] = {t}]
    BY <2>1, <2>2 DEF Holders
  <2> QED BY <2>1, <2>3 DEF Lock!Next, Lock!Acquire, Holders
<1>5. ASSUME NEW t \in Tasks, Unlock(t) PROVE ClaimInv' /\ Lock!Next
  <2> DEFINE m == op[t].mutex
  <2>1. ClaimInv' /\ m \in Mutexes /\ Claims(t, m)
    BY <1>5, ClaimUnlock
  <2>2. \A u \in Tasks, n \in Mutexes : Claims(u, n)' <=> Claims(u, n) /\ n # m
    BY <1>5, ClaimUnlock
  <2>3. \A u \in Tasks : Claims(u, m) => u = t
    BY <2>1, OneClaim
  <2> HIDE DEF m
  <2>4. Holders[m] = {t} /\ Holders' = [Holders EXCEPT ![m] = {}]
    BY <2>1, <2>2, <2>3 DEF Holders
  <2> QED BY <2>1, <2>4 DEF Lock!Next, Lock!Release, Holders
<1>6. ASSUME NEW t \in Tasks,
             \/ RaiseTpl(t)
             \/ \E l \in Levels : RaiseTplGuarded(t, l)
             \/ \E i \in 1..MaxGuards : RestoreTpl(t, i)
      PROVE  ClaimInv' /\ SameClaims
  BY <1>6, ClaimRaiseTpl, ClaimRaiseTplGuarded, ClaimRestoreTpl
<1> QED BY <1>1, <1>2, <1>3, <1>4, <1>5, <1>6, SameHolders
    DEF Next, Firmware, Acquire, Halted

\* Types and claims hold throughout.
LEMMA InductiveInvariant == Spec => [](TypeInv /\ ClaimInv)
<1>1. Init => TypeInv /\ ClaimInv
  BY TypeInit, ClaimInit
<1>2. TypeInv /\ ClaimInv /\ [Next]_vars => (TypeInv /\ ClaimInv)'
  BY TypeStep, ClaimStep
<1> QED BY <1>1, <1>2, PTL DEF Spec

\* TplMutex implements the exclusive lock: whatever preempts whom inside try_lock and
\* drop, a mutex goes from no holder to one and back, released only by its holder.
THEOREM LockRefinement == Spec => ImplementsLock
<1>1. Init => Lock!Init
  BY DEF Init, Lock!Init, Claims, Ready
<1>2. TypeInv /\ ClaimInv /\ [Next]_vars => [Lock!Next]_Holders
  BY ClaimStep
<1> QED BY <1>1, <1>2, InductiveInvariant, PTL DEF Spec, ImplementsLock, Lock!Spec, Holders

\* At any time at most one live TplMutexGuard gives access to the data of a
\* mutex, whatever the callbacks, the levels and the order of the drops.
THEOREM Exclusion == Spec => []MutualExclusion
<1>1. ClaimInv => MutualExclusion
  BY DEF ClaimInv
<1> QED BY <1>1, InductiveInvariant, PTL

\* The AtomicBool of a mutex is set exactly while one task is between its
\* compare_exchange and its store(false).
THEOREM FlagOwnership == Spec => []FlagOwned
<1>1. ClaimInv => FlagOwned
  BY OneClaim DEF ClaimInv, ClaimSetsFlag, FlagHasClaim, FlagOwned
<1> QED BY <1>1, InductiveInvariant, PTL

-----------------------------------------------------------------------------
(* Levels.  Guards dropped in scope order nest: each releases to the level   *)
(* of the one before it, the first to its task's own.                       *)

\* The level code runs at with the guards gs, in a task of level l.
TopOf(gs, l) == IF gs = <<>> THEN l ELSE gs[Len(gs)].level

Nests(gs, l) ==
  \A i \in DOMAIN gs :
    /\ l <= gs[i].release_tpl /\ gs[i].release_tpl <= gs[i].level
    /\ gs[i].release_tpl = IF i = 1 THEN l ELSE gs[i - 1].level
    /\ \A j \in DOMAIN gs : j < i => gs[j].level <= gs[i].release_tpl

Top(t) == TopOf(guards[t], Home[t])

\* A task that is not on the stack has no guard and is in no call.
InactiveTasks == \A t \in Tasks : t \notin Active => guards[t] = <<>> /\ op[t].step = "ready"

\* A guard of a mutex has raised the TPL to the mutex's level.
GuardLevels ==
  \A t \in Tasks : \A i \in DOMAIN guards[t] :
    guards[t][i].mutex \in Mutexes => guards[t][i].level = LockLevel[guards[t][i].mutex]

\* Each activation interrupted one that ran below its level, and gives the TPL back.
StackNests ==
  /\ \A t \in Tasks : Nests(guards[t], Home[t])
  /\ \A i, j \in DOMAIN frames : i < j => Top(frames[i].task) < Home[frames[j].task]
  /\ \A i \in DOMAIN frames : i > 1 => frames[i].resume = Top(frames[i - 1].task)
  /\ tpl = Top(frames[Len(frames)].task)

\* raise_tpl will not be asked for a level below the one its task runs at.
WindowLevels ==
  \A t \in Tasks : op[t].step = "won" => Top(t) <= LockLevel[op[t].mutex]

LevelInv == InactiveTasks /\ GuardLevels /\ (scoped => StackNests /\ WindowLevels)

\* Levels are numbers.
LEMMA LevelsOrdered == \A l \in Levels : l \in Nat /\ l <= l
  BY TplAssumption

\* The TPL of nested guards is at or above every one's level.
LEMMA NestsBounds ==
  ASSUME NEW gs \in Seq(Guard), NEW l \in Levels, Nests(gs, l)
  PROVE  /\ TopOf(gs, l) \in Levels /\ l <= TopOf(gs, l)
         /\ \A i \in DOMAIN gs : gs[i].level <= TopOf(gs, l)
<1>1. Len(gs) \in Nat /\ DOMAIN gs = 1..Len(gs)
  OBVIOUS
<1>2. \A i \in DOMAIN gs : gs[i].level \in Levels /\ gs[i].release_tpl \in Levels
  <2>1. \A i \in DOMAIN gs : gs[i] \in Guard
    OBVIOUS
  <2> QED BY <2>1 DEF Guard
<1>3. \A i \in DOMAIN gs : gs[i].level \in Nat /\ gs[i].release_tpl \in Nat
  BY <1>2, LevelsOrdered
<1>4. l \in Nat /\ l <= l
  BY LevelsOrdered
<1>5. CASE gs = <<>>
  <2>1. \A i \in DOMAIN gs : FALSE
    BY <1>5
  <2> QED BY <2>1, <1>4, <1>5 DEF TopOf
<1>6. CASE gs # <<>>
  <2>1. Len(gs) \in DOMAIN gs /\ TopOf(gs, l) = gs[Len(gs)].level
    BY <1>1, <1>6 DEF TopOf
  <2>2. l <= gs[Len(gs)].release_tpl /\ gs[Len(gs)].release_tpl <= gs[Len(gs)].level
    BY <2>1 DEF Nests
  <2>3. l <= TopOf(gs, l)
    BY <1>3, <1>4, <2>1, <2>2
  <2>4. ASSUME NEW i \in DOMAIN gs PROVE gs[i].level <= TopOf(gs, l)
    <3>1. CASE i = Len(gs)
      BY <3>1, <2>1, <1>3
    <3>2. CASE i # Len(gs)
      <4>1. i < Len(gs)
        BY <3>2, <1>1
      <4>2. gs[i].level <= gs[Len(gs)].release_tpl
        BY <4>1, <2>1 DEF Nests
      <4> QED BY <4>2, <2>1, <2>2, <1>3
    <3> QED BY <3>1, <3>2
  <2> QED BY <1>2, <2>1, <2>3, <2>4
<1> QED BY <1>5, <1>6

\* raise_tpl: the new guard nests in those there are.
LEMMA AppendNests ==
  ASSUME NEW gs \in Seq(Guard), NEW l \in Levels, Nests(gs, l), NEW g \in Guard,
         g.release_tpl = TopOf(gs, l), g.release_tpl <= g.level
  PROVE  Nests(Append(gs, g), l) /\ TopOf(Append(gs, g), l) = g.level
<1> USE TplAssumption
<1> DEFINE a == Append(gs, g)
           n == Len(gs)
<1>1. n \in Nat /\ DOMAIN gs = 1..n /\ DOMAIN a = 1..(n + 1) /\ Len(a) = n + 1 /\ a # <<>>
  OBVIOUS
<1>2. a[n + 1] = g /\ \A i \in 1..n : a[i] = gs[i]
  OBVIOUS
<1>3. \A i \in 1..n : gs[i].level <= TopOf(gs, l)
  BY <1>1, NestsBounds
<1>4. l <= g.release_tpl
  BY NestsBounds
<1>5. g.release_tpl = IF n + 1 = 1 THEN l ELSE gs[n].level
  BY <1>1 DEF TopOf
<1> HIDE DEF a, n
<1>6. ASSUME NEW i \in DOMAIN a
      PROVE  /\ l <= a[i].release_tpl /\ a[i].release_tpl <= a[i].level
             /\ a[i].release_tpl = IF i = 1 THEN l ELSE a[i - 1].level
             /\ \A j \in DOMAIN a : j < i => a[j].level <= a[i].release_tpl
  <2>1. CASE i = n + 1
    <3>1. i # 1 => i - 1 \in 1..n /\ a[i - 1] = gs[n]
      BY <2>1, <1>1, <1>2
    <3>2. \A j \in DOMAIN a : j < i => j \in 1..n /\ a[j] = gs[j]
      BY <2>1, <1>1, <1>2
    <3> QED BY <2>1, <3>1, <3>2, <1>1, <1>2, <1>3, <1>4, <1>5
  <2>2. CASE i \in 1..n
    <3>1. a[i] = gs[i] /\ (i # 1 => i - 1 \in 1..n /\ a[i - 1] = gs[i - 1])
      BY <2>2, <1>1, <1>2
    <3>2. \A j \in DOMAIN a : j < i => j \in 1..n /\ a[j] = gs[j]
      BY <2>2, <1>1, <1>2
    <3> QED BY <2>2, <3>1, <3>2, <1>1 DEF Nests
  <2> QED BY <2>1, <2>2, <1>1
<1>7. Nests(a, l)
  BY <1>6 DEF Nests
<1>8. TopOf(a, l) = g.level
  BY <1>1, <1>2 DEF TopOf
<1> QED BY <1>7, <1>8 DEF a

\* restore_tpl of the youngest guard: the TPL is that of the guards left.
LEMMA DropNests ==
  ASSUME NEW gs \in Seq(Guard), NEW l \in Levels, Nests(gs, l), gs # <<>>
  PROVE  /\ Nests(RemoveAt(gs, Len(gs)), l)
         /\ TopOf(RemoveAt(gs, Len(gs)), l) = gs[Len(gs)].release_tpl
<1> DEFINE n == Len(gs)
           r == RemoveAt(gs, n)
<1>1. n \in Nat /\ n >= 1 /\ DOMAIN gs = 1..n /\ n \in 1..Len(gs)
  OBVIOUS
<1>2. /\ r \in Seq(Guard) /\ Len(r) = n - 1
      /\ \A j \in 1..(n - 1) : r[j] = IF j < n THEN gs[j] ELSE gs[j + 1]
  BY <1>1, RemoveAtProperties
<1> HIDE DEF n, r
<1>3. DOMAIN r = 1..(n - 1) /\ \A j \in 1..(n - 1) : r[j] = gs[j]
  BY <1>1, <1>2
<1>4. Nests(r, l)
  <2>1. ASSUME NEW i \in DOMAIN r
        PROVE  /\ l <= r[i].release_tpl /\ r[i].release_tpl <= r[i].level
               /\ r[i].release_tpl = IF i = 1 THEN l ELSE r[i - 1].level
               /\ \A j \in DOMAIN r : j < i => r[j].level <= r[i].release_tpl
    <3>1. i \in DOMAIN gs /\ r[i] = gs[i] /\ (i # 1 => r[i - 1] = gs[i - 1])
      BY <1>1, <1>3
    <3>2. \A j \in DOMAIN r : j \in DOMAIN gs /\ r[j] = gs[j]
      BY <1>1, <1>3
    <3> QED BY <3>1, <3>2 DEF Nests
  <2> QED BY <2>1 DEF Nests
<1>5. TopOf(r, l) = gs[n].release_tpl
  <2>1. n \in DOMAIN gs /\ gs[n].release_tpl = IF n = 1 THEN l ELSE gs[n - 1].level
    BY <1>1 DEF Nests
  <2>2. CASE n = 1
    <3>1. r = <<>>
      BY <2>2, <1>2
    <3> QED BY <2>1, <2>2, <3>1 DEF TopOf
  <2>3. CASE n # 1
    <3>1. r # <<>> /\ Len(r) = n - 1 /\ r[n - 1] = gs[n - 1]
      BY <2>3, <1>1, <1>2, <1>3
    <3> QED BY <2>1, <2>3, <3>1 DEF TopOf
  <2> QED BY <2>2, <2>3
<1> QED BY <1>4, <1>5 DEF n, r

-----------------------------------------------------------------------------

\* On a nested stack the running task is none of those below it.
LEMMA BelowRunning ==
  ASSUME TypeInv, StackNests
  PROVE  /\ Len(frames) \in DOMAIN frames /\ Running = frames[Len(frames)].task
         /\ Running \in Tasks /\ \A t \in Tasks : Top(t) \in Levels /\ Home[t] <= Top(t)
         /\ \A i \in DOMAIN frames : frames[i].task \in Tasks
         /\ \A i \in DOMAIN frames : i < Len(frames) => frames[i].task # Running
         /\ tpl = Top(Running)
<1> USE TplAssumption DEF TypeInv, TypeOK
<1>1. Len(frames) \in Nat /\ DOMAIN frames = 1..Len(frames) /\ Len(frames) >= 1
  OBVIOUS
<1>2. \A i \in DOMAIN frames : frames[i].task \in Tasks
  <2>1. \A i \in DOMAIN frames : frames[i] \in Frame
    OBVIOUS
  <2> QED BY <2>1 DEF Frame
<1>3. Len(frames) \in DOMAIN frames /\ Running = frames[Len(frames)].task
  BY <1>1 DEF Running, Last
<1>4. ASSUME NEW t \in Tasks PROVE Top(t) \in Levels /\ Home[t] <= Top(t)
  <2>1. guards[t] \in Seq(Guard) /\ Home[t] \in Levels /\ Nests(guards[t], Home[t])
    BY DEF StackNests
  <2> HIDE DEF TypeInv, TypeOK
  <2> QED BY <2>1, NestsBounds DEF Top
<1>5. ASSUME NEW i \in DOMAIN frames, i < Len(frames) PROVE frames[i].task # Running
  <2>1. Top(frames[i].task) < Home[Running] /\ Home[frames[i].task] <= Top(frames[i].task)
    BY <1>2, <1>3, <1>4, <1>5 DEF StackNests
  <2>2. Home[Running] \in Nat /\ Top(frames[i].task) \in Nat
    BY <1>2, <1>3, <1>4, LevelsOrdered
  <2>3. Home[frames[i].task] \in Nat
    BY <1>2, LevelsOrdered
  <2> QED BY <2>1, <2>2, <2>3
<1>6. tpl = Top(Running)
  BY <1>3 DEF StackNests
<1> QED BY <1>2, <1>3, <1>4, <1>5, <1>6

\* The running task changes its own guards and the TPL with them.
LEMMA OwnGuards ==
  ASSUME TypeInv, StackNests, NEW t \in Tasks, t = Running, UNCHANGED frames,
         NEW gs, guards' = [guards EXCEPT ![t] = gs], Nests(gs, Home[t]),
         tpl' = TopOf(gs, Home[t])
  PROVE  StackNests'
<1>1. guards \in [Tasks -> Seq(Guard)]
  BY DEF TypeInv, TypeOK
<1>2. guards'[t] = gs /\ \A u \in Tasks : u # t => guards'[u] = guards[u]
  BY <1>1
<1>3. Top(t)' = TopOf(gs, Home[t]) /\ \A u \in Tasks : u # t => Top(u)' = Top(u)
  BY <1>2 DEF Top
<1>4. \A u \in Tasks : Nests(guards'[u], Home[u])
  BY <1>2 DEF StackNests
<1>5. Len(frames) \in Nat /\ DOMAIN frames = 1..Len(frames)
  BY DEF TypeInv, TypeOK
<1>6. \A i, j \in DOMAIN frames : i < j => Top(frames[i].task)' < Home[frames[j].task]
  BY <1>3, <1>5, BelowRunning DEF StackNests
<1>7. \A i \in DOMAIN frames : i > 1 => frames[i].resume = Top(frames[i - 1].task)'
  <2> SUFFICES ASSUME NEW i \in DOMAIN frames, i > 1
               PROVE  frames[i].resume = Top(frames[i - 1].task)'
    OBVIOUS
  <2>1. i - 1 \in DOMAIN frames /\ i - 1 < Len(frames)
    BY <1>5
  <2>2. frames[i - 1].task \in Tasks /\ frames[i - 1].task # t
    BY <2>1, BelowRunning
  <2> QED BY <2>2, <1>3 DEF StackNests
<1>8. tpl' = Top(frames[Len(frames)].task)'
  BY <1>3, BelowRunning
<1> QED BY <1>4, <1>6, <1>7, <1>8 DEF StackNests, Top

\* Dispatch: the callback's level is above the TPL, and so above all on the stack.
LEMMA DispatchNests ==
  ASSUME TypeInv, LevelInv, StackNests, NEW c \in Callbacks, Dispatch(c)
  PROVE  StackNests'
<1> USE TplAssumption
<1> DEFINE n == Len(frames)
<1>1. n \in Nat /\ n >= 1 /\ DOMAIN frames = 1..n /\ c \in Tasks /\ frames \in Seq(Frame)
  BY DEF TypeInv, TypeOK, Tasks
<1>2. /\ frames' = Append(frames, [task |-> c, resume |-> tpl]) /\ tpl' = Home[c]
      /\ Home[c] > tpl /\ guards' = guards
  BY DEF Dispatch, Deliverable
<1>3. /\ Len(frames') = n + 1 /\ DOMAIN frames' = 1..(n + 1)
      /\ frames'[n + 1] = [task |-> c, resume |-> tpl]
      /\ \A i \in 1..n : frames'[i] = frames[i]
  BY <1>1, <1>2
<1> HIDE DEF n
<1>4. \A i \in 1..n : frames[i].task \in Tasks /\ Top(frames[i].task) \in Nat /\ Home[frames[i].task] \in Nat
  BY <1>1, BelowRunning
<1>5. tpl \in Nat /\ Home[c] \in Nat /\ tpl = Top(frames[n].task)
  BY <1>1 DEF TypeInv, TypeOK, StackNests, n
<1>6. \A i \in 1..n : Top(frames[i].task) <= tpl
  <2> SUFFICES ASSUME NEW i \in 1..n PROVE Top(frames[i].task) <= tpl
    OBVIOUS
  <2>1. CASE i = n
    BY <2>1, <1>5
  <2>2. CASE i < n
    <3>1. n \in 1..n /\ Top(frames[i].task) < Home[frames[n].task]
      BY <2>2, <1>1 DEF StackNests
    <3>2. Home[frames[n].task] <= Top(frames[n].task)
      BY <3>1, <1>4, BelowRunning
    <3> QED BY <3>1, <3>2, <1>4, <1>5
  <2> QED BY <2>1, <2>2, <1>1
<1>7. guards[c] = <<>> /\ Top(c) = Home[c]
  <2>1. ASSUME c \in Active PROVE FALSE
    <3>1. PICK i \in 1..n : frames[i].task = c
      BY <2>1, <1>1 DEF Active
    <3>2. Home[c] <= Top(frames[i].task)
      BY <3>1, <1>1, BelowRunning
    <3> QED BY <3>1, <3>2, <1>2, <1>4, <1>5, <1>6
  <2>2. guards[c] = <<>>
    BY <2>1, <1>1 DEF LevelInv, InactiveTasks
  <2> QED BY <2>2 DEF Top, TopOf
<1>8. \A t \in Tasks : Top(t)' = Top(t) /\ Nests(guards'[t], Home[t])
  BY <1>2 DEF Top, StackNests
<1>9. \A i \in 1..n : Top(frames[i].task)' = Top(frames[i].task)
  BY <1>2, <1>3 DEF Top
<1>10. ASSUME NEW i \in DOMAIN frames', NEW j \in DOMAIN frames', i < j
       PROVE  Top(frames[i].task)' < Home[frames'[j].task]
  <2>1. i \in 1..n
    BY <1>1, <1>3, <1>10
  <2>2. CASE j \in 1..n
    <3>1. Top(frames[i].task) < Home[frames[j].task]
      BY <2>1, <2>2, <1>1, <1>10 DEF StackNests
    <3> QED BY <3>1, <2>1, <2>2, <1>3, <1>9
  <2>3. CASE j = n + 1
    <3>1. frames'[j].task = c
      BY <2>3, <1>3
    <3>2. Top(frames[i].task) < Home[c]
      BY <2>1, <1>2, <1>4, <1>5, <1>6
    <3> QED BY <2>1, <3>1, <3>2, <1>9
  <2> QED BY <2>2, <2>3, <1>1, <1>3
<1>11. ASSUME NEW i \in DOMAIN frames', i > 1
       PROVE  frames'[i].resume = Top(frames[i - 1].task)'
  <2>1. i - 1 \in 1..n /\ Top(frames[i - 1].task)' = Top(frames[i - 1].task)
    BY <1>1, <1>3, <1>9, <1>11
  <2>2. CASE i \in 1..n
    <3>1. frames[i].resume = Top(frames[i - 1].task)
      BY <2>2, <1>1, <1>11 DEF StackNests
    <3> QED BY <2>1, <2>2, <3>1, <1>3
  <2>3. CASE i = n + 1
    <3>1. i - 1 = n /\ frames'[i].resume = tpl
      BY <2>3, <1>1, <1>3
    <3> QED BY <2>1, <3>1, <1>5
  <2> QED BY <2>2, <2>3, <1>1, <1>3
<1>12. tpl' = Top(frames[Len(frames)].task)'
  <2>1. frames'[Len(frames')].task = c
    BY <1>3
  <2> QED BY <2>1, <1>2, <1>7 DEF Top
<1>13. \A t \in Tasks : Nests(guards'[t], Home[t])
  BY <1>8
<1> HIDE DEF Top
<1> QED BY <1>10, <1>11, <1>12, <1>13 DEF StackNests

\* Return: the interrupted code goes on at the level it ran at.
LEMMA ReturnNests ==
  ASSUME TypeInv, StackNests, NEW c \in Callbacks, Return(c)
  PROVE  StackNests'
<1> DEFINE n == Len(frames)
<1>1. n \in Nat /\ n >= 1 /\ DOMAIN frames = 1..n /\ frames \in Seq(Frame)
  BY DEF TypeInv, TypeOK
<1>2. n > 1
  <2>1. frames[n].task = c /\ c # Main /\ frames[1].task = Main
    BY DEF Return, Executes, Running, Last, TypeInv, MainAtBottom
  <2> QED BY <2>1, <1>1
<1>3. frames' = Front(frames) /\ tpl' = frames[n].resume /\ guards' = guards
  BY DEF Return, Last
<1>4. /\ Len(frames') = n - 1 /\ DOMAIN frames' = 1..(n - 1)
      /\ \A i \in 1..(n - 1) : frames'[i] = frames[i]
  BY <1>1, <1>2, <1>3 DEF Front
<1> HIDE DEF n
<1>5. \A t \in Tasks : Top(t)' = Top(t) /\ Nests(guards'[t], Home[t])
  BY <1>3 DEF Top, StackNests
<1>6. \A i \in 1..n : frames[i].task \in Tasks
  BY <1>1, BelowRunning
<1>7. \A i \in 1..(n - 1) : i \in 1..n /\ Top(frames[i].task)' = Top(frames[i].task)
  BY <1>1, <1>3, <1>4 DEF Top
<1>8. \A i, j \in DOMAIN frames' : i < j => Top(frames[i].task)' < Home[frames'[j].task]
  BY <1>1, <1>4, <1>7 DEF StackNests
<1>9. \A i \in DOMAIN frames' : i > 1 => frames'[i].resume = Top(frames[i - 1].task)'
  <2> SUFFICES ASSUME NEW i \in 1..(n - 1), i > 1
               PROVE  frames'[i].resume = Top(frames[i - 1].task)'
    BY <1>4
  <2>1. i - 1 \in 1..(n - 1) /\ i \in 1..n
    BY <1>1
  <2> QED BY <2>1, <1>1, <1>4, <1>7 DEF StackNests
<1>10. tpl' = Top(frames[Len(frames)].task)'
  <2>1. n \in 1..n /\ n - 1 \in 1..(n - 1) /\ Len(frames') = n - 1
    BY <1>1, <1>2, <1>4
  <2>2. frames[n].resume = Top(frames[n - 1].task)
    BY <2>1, <1>1, <1>2 DEF StackNests
  <2> QED BY <2>1, <2>2, <1>3, <1>7 
<1> QED BY <1>5, <1>8, <1>9, <1>10 DEF StackNests

-----------------------------------------------------------------------------

\* What a call of the running task leaves to the tasks that wait for it.
OnlyTask(t) == \A u \in Tasks : u # t => guards'[u] = guards[u] /\ op'[u] = op[u]

\* A step of the running task gives nothing to a task that is not active.
LEMMA OwnInactive ==
  ASSUME TypeInv, InactiveTasks, NEW t \in Tasks, t = Running, UNCHANGED frames, OnlyTask(t)
  PROVE  InactiveTasks'
<1>1. t \in Active
  <2>1. Len(frames) \in DOMAIN frames
    BY DEF TypeInv, TypeOK
  <2> QED BY <2>1 DEF Running, Last, Active
<1>2. Active' = Active
  BY DEF Active
<1> QED BY <1>1, <1>2 DEF InactiveTasks, OnlyTask

\* Only the task that steps can open a window.
LEMMA OwnWindows ==
  ASSUME WindowLevels, NEW t \in Tasks, OnlyTask(t),
         op'[t].step = "won" => Top(t)' <= LockLevel[op'[t].mutex]
  PROVE  WindowLevels'
<1>1. \A u \in Tasks : u # t => Top(u)' = Top(u) /\ op'[u] = op[u]
  BY DEF OnlyTask, Top
<1> QED BY <1>1 DEF WindowLevels

\* Steps that leave the guards and the stack alone.
LEMMA SameNests ==
  ASSUME StackNests, UNCHANGED <<tpl, frames, guards>>
  PROVE  StackNests'
<1>1. \A t : Top(t)' = Top(t)
  BY DEF Top
<1>2. \A i \in DOMAIN frames : Top(frames[i].task)' = Top(frames[i].task)
  BY DEF Top
<1>3. Top(frames[Len(frames)].task)' = Top(frames[Len(frames)].task)
  BY DEF Top
<1>4. \A i : Top(frames[i - 1].task)' = Top(frames[i - 1].task)
  BY DEF Top
<1> QED BY <1>1, <1>2, <1>3, <1>4 DEF StackNests

\* No guard at the start.
LEMMA LevelInit == Init => LevelInv
<1> SUFFICES ASSUME Init PROVE LevelInv
  OBVIOUS
<1>1. \A t \in Tasks : guards[t] = <<>> /\ op[t].step = "ready" /\ DOMAIN guards[t] = {}
  BY DEF Init, Ready
<1>2. \A t \in Tasks : Top(t) = Home[t]
  BY <1>1 DEF Top, TopOf
<1>3. DOMAIN frames = {1} /\ Len(frames) = 1 /\ frames[1].task = Main /\ Main \in Tasks
  BY DEF Init, Tasks
<1>4. \A t \in Tasks : Nests(guards[t], Home[t])
  BY <1>1 DEF Nests
<1>5. tpl = Top(frames[Len(frames)].task)
  BY <1>2, <1>3 DEF Init
<1>6. StackNests
  BY <1>3, <1>4, <1>5 DEF StackNests
<1> QED BY <1>1, <1>6 DEF LevelInv, InactiveTasks, GuardLevels, WindowLevels

\* The signaling of an event, and a halted processor.
LEMMA LevelPending ==
  ASSUME LevelInv, UNCHANGED <<tpl, frames, guards, op, scoped>>
  PROVE  LevelInv'
<1>1. InactiveTasks' /\ GuardLevels'
  BY DEF LevelInv, InactiveTasks, GuardLevels, Active
<1>2. ASSUME scoped PROVE StackNests' /\ WindowLevels'
  <2>1. StackNests /\ WindowLevels
    BY <1>2 DEF LevelInv
  <2>2. StackNests'
    BY <2>1, SameNests
  <2>3. WindowLevels'
    BY <2>1 DEF WindowLevels, Top
  <2> QED BY <2>2, <2>3
<1> QED BY <1>1, <1>2 DEF LevelInv

\* The calls that change the flag of a mutex but not the TPL.
LEMMA LevelSameGuards ==
  ASSUME TypeInv, LevelInv, NEW t \in Tasks, t = Running, OnlyTask(t),
         UNCHANGED <<tpl, frames, guards, scoped>>,
         op'[t].step = "won" => tpl <= LockLevel[op'[t].mutex]
  PROVE  LevelInv'
<1>1. InactiveTasks'
  BY OwnInactive DEF LevelInv
<1>2. GuardLevels'
  BY DEF LevelInv, GuardLevels
<1>3. ASSUME scoped PROVE StackNests' /\ WindowLevels'
  <2>1. StackNests /\ WindowLevels
    BY <1>3 DEF LevelInv
  <2>2. Top(t)' = tpl
    BY <2>1, BelowRunning DEF Top
  <2> QED BY <2>1, <2>2, SameNests, OwnWindows
<1> QED BY <1>1, <1>2, <1>3 DEF LevelInv

\* raise_tpl, of a mutex or of raise_tpl_guarded: the guard g is appended.
LEMMA LevelRaise ==
  ASSUME TypeInv, LevelInv, NEW t \in Tasks, t = Running, NEW g \in Guard,
         UNCHANGED <<frames, scoped>>, tpl' = g.level, g.release_tpl = tpl,
         guards' = [guards EXCEPT ![t] = Append(@, g)],
         \A u \in Tasks : u # t => op'[u] = op[u], op'[t].step = "ready",
         g.mutex \in Mutexes => g.level = LockLevel[g.mutex],
         scoped => tpl <= g.level
  PROVE  LevelInv'
<1>1. guards \in [Tasks -> Seq(Guard)] /\ guards[t] \in Seq(Guard) /\ Home[t] \in Levels
  BY TplAssumption DEF TypeInv, TypeOK
<1>2. OnlyTask(t)
  BY <1>1 DEF OnlyTask
<1>3. InactiveTasks'
  BY <1>2, OwnInactive DEF LevelInv
<1>4. GuardLevels'
  <2>1. \A u \in Tasks : \A i \in DOMAIN guards'[u] :
          guards'[u][i] = g \/ (i \in DOMAIN guards[u] /\ guards'[u][i] = guards[u][i])
    BY <1>1
  <2> QED BY <2>1 DEF LevelInv, GuardLevels
<1>5. ASSUME scoped PROVE StackNests' /\ WindowLevels'
  <2>1. StackNests /\ WindowLevels /\ tpl = Top(t) /\ Nests(guards[t], Home[t])
    BY <1>5, BelowRunning DEF LevelInv, StackNests
  <2>2. g.release_tpl = TopOf(guards[t], Home[t]) /\ g.release_tpl <= g.level
    BY <1>5, <2>1 DEF Top
  <2>3. Nests(Append(guards[t], g), Home[t]) /\ TopOf(Append(guards[t], g), Home[t]) = g.level
    BY <1>1, <2>1, <2>2, AppendNests
  <2> DEFINE gs == Append(guards[t], g)
  <2>4. guards' = [guards EXCEPT ![t] = gs] /\ tpl' = TopOf(gs, Home[t])
    BY <2>3
  <2> HIDE DEF gs
  <2>5. StackNests'
    BY <2>1, <2>3, <2>4, OwnGuards DEF gs
  <2> QED BY <2>1, <2>5, <1>2, OwnWindows
<1> QED BY <1>3, <1>4, <1>5 DEF LevelInv

\* restore_tpl in any order; only the youngest guard's keeps the nesting.
LEMMA LevelRestoreTpl ==
  ASSUME TypeInv, LevelInv, NEW t \in Tasks, NEW i \in 1..MaxGuards, RestoreTpl(t, i)
  PROVE  LevelInv'
<1> DEFINE gs == guards[t]
<1>1. guards \in [Tasks -> Seq(Guard)] /\ gs \in Seq(Guard) /\ Home[t] \in Levels /\ op \in [Tasks -> Op]
  BY TplAssumption DEF TypeInv, TypeOK
<1>2. /\ t = Running /\ op[t].step = "ready" /\ i \in DOMAIN gs
      /\ guards' = [guards EXCEPT ![t] = RemoveAt(gs, i)] /\ tpl' = gs[i].release_tpl
      /\ UNCHANGED frames /\ (scoped' => scoped /\ i = Len(gs))
  BY DEF RestoreTpl, Executes
<1>3. op'[t].step # "won" /\ \A u \in Tasks : u # t => op'[u] = op[u]
  BY <1>1, <1>2 DEF RestoreTpl
<1>4. i \in 1..Len(gs)
  BY <1>1, <1>2
<1> HIDE DEF gs
<1>5. OnlyTask(t)
  BY <1>1, <1>2, <1>3 DEF OnlyTask
<1>6. InactiveTasks'
  BY <1>2, <1>5, OwnInactive DEF LevelInv
<1>7. GuardLevels'
  <2>1. \A j \in DOMAIN RemoveAt(gs, i) :
          Before(i, j) \in DOMAIN gs /\ RemoveAt(gs, i)[j] = gs[Before(i, j)]
    BY <1>1, <1>4, RemoveAtMoves
  <2>2. guards'[t] = RemoveAt(gs, i) /\ \A u \in Tasks : u # t => guards'[u] = guards[u]
    BY <1>1, <1>2
  <2> QED BY <2>1, <2>2 DEF LevelInv, GuardLevels, gs
<1>8. ASSUME scoped' PROVE StackNests' /\ WindowLevels'
  <2>1. StackNests /\ WindowLevels /\ Nests(gs, Home[t]) /\ i = Len(gs) /\ gs # <<>>
    BY <1>1, <1>2, <1>4, <1>8 DEF LevelInv, StackNests, gs
  <2>2. Nests(RemoveAt(gs, i), Home[t]) /\ TopOf(RemoveAt(gs, i), Home[t]) = gs[i].release_tpl
    BY <1>1, <2>1, DropNests
  <2>3. StackNests'
    BY <1>2, <2>1, <2>2, OwnGuards
  <2> QED BY <2>1, <2>3, <1>3, <1>5, OwnWindows
<1> QED BY <1>6, <1>7, <1>8 DEF LevelInv

\* A dispatched callback starts above the TPL it preempts.
LEMMA LevelDispatch ==
  ASSUME TypeInv, LevelInv, NEW c \in Callbacks, Dispatch(c)
  PROVE  LevelInv'
<1>1. Active \subseteq Active'
  <2>1. frames' = Append(frames, [task |-> c, resume |-> tpl]) /\ frames \in Seq(Frame)
    BY DEF Dispatch, TypeInv, TypeOK
  <2>2. \A i \in DOMAIN frames : i \in DOMAIN frames' /\ frames'[i] = frames[i]
    BY <2>1
  <2> QED BY <2>2 DEF Active
<1>2. InactiveTasks' /\ GuardLevels'
  BY <1>1 DEF Dispatch, LevelInv, InactiveTasks, GuardLevels
<1>3. ASSUME scoped' PROVE StackNests' /\ WindowLevels'
  <2>1. StackNests /\ WindowLevels
    BY <1>3 DEF LevelInv, Dispatch
  <2>2. StackNests'
    BY <2>1, DispatchNests
  <2>3. WindowLevels'
    BY <2>1 DEF Dispatch, WindowLevels, Top
  <2> QED BY <2>2, <2>3
<1> QED BY <1>2, <1>3 DEF LevelInv

\* A return puts back the TPL it was dispatched at.
LEMMA LevelReturn ==
  ASSUME TypeInv, LevelInv, NEW c \in Callbacks, Return(c)
  PROVE  LevelInv'
<1>1. Active \subseteq Active' \cup {c}
  <2> DEFINE n == Len(frames)
  <2>1. n \in Nat /\ n >= 1 /\ DOMAIN frames = 1..n /\ frames' = Front(frames)
        /\ frames \in Seq(Frame)
    BY DEF Return, TypeInv, TypeOK
  <2>2. frames[n].task = c
    BY DEF Return, Executes, Running, Last
  <2>3. \A i \in 1..(n - 1) : i \in DOMAIN frames' /\ frames'[i] = frames[i]
    BY <2>1 DEF Front
  <2> HIDE DEF n
  <2>4. \A i \in 1..n : i = n \/ i \in 1..(n - 1)
    BY <2>1
  <2> QED BY <2>1, <2>2, <2>3, <2>4 DEF Active
<1>2. guards[c] = <<>> /\ op[c].step = "ready" /\ UNCHANGED <<guards, op, scoped>>
  BY DEF Return, Executes
<1>3. InactiveTasks' /\ GuardLevels'
  BY <1>1, <1>2 DEF LevelInv, InactiveTasks, GuardLevels
<1>4. ASSUME scoped' PROVE StackNests' /\ WindowLevels'
  <2>1. StackNests /\ WindowLevels
    BY <1>2, <1>4 DEF LevelInv
  <2>2. StackNests'
    BY <2>1, ReturnNests
  <2>3. WindowLevels'
    BY <1>2, <2>1 DEF WindowLevels, Top
  <2> QED BY <2>2, <2>3
<1> QED BY <1>3, <1>4 DEF LevelInv

\* Every step keeps the levels.
LEMMA LevelStep == TypeInv /\ LevelInv /\ [Next]_vars => LevelInv'
<1> SUFFICES ASSUME TypeInv, LevelInv, [Next]_vars PROVE LevelInv'
  OBVIOUS
<1>0. op \in [Tasks -> Op] /\ guards \in [Tasks -> Seq(Guard)] /\ tpl \in Levels
  BY DEF TypeInv, TypeOK
<1>1. ASSUME NEW c \in Callbacks, Signal(c) PROVE LevelInv'
  BY <1>1, LevelPending DEF Signal
<1>2. ASSUME NEW c \in Callbacks, Dispatch(c) PROVE LevelInv'
  BY <1>2, LevelDispatch
<1>3. ASSUME NEW c \in Callbacks, Return(c) PROVE LevelInv'
  BY <1>3, LevelReturn
<1>4. ASSUME NEW t \in Tasks, NEW m \in Mutexes, TryLock(t, m) PROVE LevelInv'
  <2>1. t = Running /\ UNCHANGED <<tpl, frames, guards, scoped>> /\ OnlyTask(t)
    BY <1>0, <1>4 DEF TryLock, Calls, Executes, OnlyTask
  <2>2. op'[t].mutex = m /\ LockLevel[m] >= tpl
    BY <1>0, <1>4 DEF TryLock
  <2>3. tpl <= LockLevel[op'[t].mutex]
    BY <1>0, <2>2, TplAssumption
  <2> QED BY <2>1, <2>3, LevelSameGuards
<1>5. ASSUME NEW t \in Tasks, NEW m \in Mutexes, LockPanics(t, m) PROVE LevelInv'
  <2>1. t = Running /\ UNCHANGED <<tpl, frames, guards, scoped>> /\ OnlyTask(t)
    BY <1>0, <1>5 DEF LockPanics, Calls, Executes, OnlyTask
  <2>2. op'[t].step # "won"
    BY <1>0, <1>5 DEF LockPanics
  <2> QED BY <2>1, <2>2, LevelSameGuards
<1>6. ASSUME NEW t \in Tasks, NEW l \in Levels, RaiseTplGuarded(t, l) PROVE LevelInv'
  <2> DEFINE g == [mutex |-> NoMutex, level |-> l, release_tpl |-> tpl]
  <2>1. g \in Guard /\ g.level = l /\ g.release_tpl = tpl /\ g.mutex \notin Mutexes
    BY <1>0, TplAssumption DEF Guard
  <2>2. tpl <= l
    BY <1>0, <1>6, TplAssumption DEF RaiseTplGuarded
  <2>3. /\ t = Running /\ UNCHANGED <<frames, scoped, op>> /\ tpl' = g.level
        /\ guards' = [guards EXCEPT ![t] = Append(@, g)] /\ op'[t].step = "ready"
    BY <1>6 DEF RaiseTplGuarded, Calls, Executes
  <2> HIDE DEF g
  <2> QED BY <2>1, <2>2, <2>3, LevelRaise
<1>7. ASSUME NEW t \in Tasks, RaiseTpl(t) PROVE LevelInv'
  <2> DEFINE m == op[t].mutex
             g == [mutex |-> m, level |-> LockLevel[m], release_tpl |-> tpl]
  <2>1. m \in Mutexes /\ op[t].step = "won" /\ t = Running
    BY <1>7 DEF RaiseTpl, Executes, TypeInv, TypeOK
  <2>2. g \in Guard /\ g.level = LockLevel[m] /\ g.release_tpl = tpl /\ g.mutex = m
    BY <1>0, <2>1, TplAssumption DEF Guard
  <2>3. /\ UNCHANGED <<frames, scoped>> /\ tpl' = g.level
        /\ guards' = [guards EXCEPT ![t] = Append(@, g)]
        /\ op'[t].step = "ready" /\ \A u \in Tasks : u # t => op'[u] = op[u]
    BY <1>0, <1>7 DEF RaiseTpl, Ready
  <2>4. ASSUME scoped PROVE tpl <= LockLevel[m]
    <3>1. StackNests /\ WindowLevels
      BY <2>4 DEF LevelInv
    <3>2. tpl = Top(t)
      BY <2>1, <3>1, BelowRunning
    <3> QED BY <2>1, <3>1, <3>2 DEF WindowLevels
  <2> HIDE DEF g, m
  <2> QED BY <2>1, <2>2, <2>3, <2>4, LevelRaise
<1>8. ASSUME NEW t \in Tasks, NEW i \in 1..MaxGuards, RestoreTpl(t, i) PROVE LevelInv'
  BY <1>8, LevelRestoreTpl
<1>9. ASSUME NEW t \in Tasks, Unlock(t) PROVE LevelInv'
  <2>1. t = Running /\ UNCHANGED <<tpl, frames, guards, scoped>> /\ OnlyTask(t)
    BY <1>0, <1>9 DEF Unlock, Executes, OnlyTask
  <2>2. op'[t].step # "won"
    BY <1>0, <1>9 DEF Unlock, Ready
  <2> QED BY <2>1, <2>2, LevelSameGuards
<1>10. CASE UNCHANGED vars
  BY <1>10, LevelPending DEF vars
<1> QED BY <1>1, <1>2, <1>3, <1>4, <1>5, <1>6, <1>7, <1>8, <1>9, <1>10
    DEF Next, Firmware, Acquire, Halted

-----------------------------------------------------------------------------

\* All that runs below the running task runs below its level, guards included.
LEMMA LevelCovers ==
  ASSUME TypeInv, LevelInv, scoped
  PROVE  /\ TplCoversGuards
         /\ \A t \in Tasks : t # Running =>
              \A i \in DOMAIN guards[t] : guards[t][i].level < tpl
<1> USE TplAssumption
<1>1. StackNests /\ tpl = Top(Running) /\ Running \in Tasks
  BY BelowRunning DEF LevelInv
<1>2. \A t \in Tasks : Top(t) \in Nat /\ Home[t] \in Nat /\ Home[t] <= Top(t)
  BY <1>1, BelowRunning
<1>3. ASSUME NEW t \in Tasks, NEW i \in DOMAIN guards[t]
      PROVE  guards[t][i].level \in Nat /\ guards[t][i].level <= Top(t)
  <2>1. guards[t] \in Seq(Guard) /\ Home[t] \in Levels /\ Nests(guards[t], Home[t])
    BY <1>1 DEF TypeInv, TypeOK, StackNests
  <2>2. guards[t][i] \in Guard
    BY <2>1
  <2> QED BY <2>1, <2>2, NestsBounds DEF Guard, Top
<1>4. ASSUME NEW t \in Tasks, t # Running, NEW i \in DOMAIN guards[t]
      PROVE  guards[t][i].level < tpl
  <2>1. guards[t] # <<>>
    BY <1>4
  <2>2. PICK j \in DOMAIN frames : frames[j].task = t
    BY <2>1 DEF LevelInv, InactiveTasks, Active
  <2>3. j < Len(frames) /\ Len(frames) \in DOMAIN frames /\ Running = frames[Len(frames)].task
    <3>1. frames \in Seq(Frame)
      BY DEF TypeInv, TypeOK
    <3>2. Len(frames) \in DOMAIN frames /\ Running = frames[Len(frames)].task
      BY <1>1, BelowRunning
    <3> QED BY <1>4, <2>2, <3>1, <3>2
  <2>4. Top(t) < Home[Running]
    BY <1>1, <2>2, <2>3 DEF StackNests
  <2> QED BY <1>1, <1>2, <1>3, <2>4
<1>5. \A t \in Tasks : \A i \in DOMAIN guards[t] : guards[t][i].level <= tpl
  <2> SUFFICES ASSUME NEW t \in Tasks, NEW i \in DOMAIN guards[t]
               PROVE  guards[t][i].level <= tpl
    OBVIOUS
  <2>1. CASE t = Running
    BY <1>1, <1>3, <2>1
  <2>2. CASE t # Running
    BY <1>1, <1>2, <1>3, <1>4, <2>2
  <2> QED BY <2>1, <2>2
<1> QED BY <1>4, <1>5 DEF TplCoversGuards

\* The levels hold throughout.
LEMMA LevelInvariant == Spec => [](TypeInv /\ LevelInv)
  BY TypeInit, TypeStep, LevelInit, LevelStep, PTL DEF Spec

\* While guards are dropped in scope order, the TPL covers every live guard: no
\* callback at or below its level runs while it lives, whatever interrupts what.
THEOREM GuardsHoldOff == Spec => []TplCoversGuards
<1>1. TypeInv /\ LevelInv => TplCoversGuards
  BY LevelCovers DEF TplCoversGuards
<1> QED BY <1>1, LevelInvariant, PTL

\* While guards are dropped in scope order, a task entitled to lock a mutex finds
\* it taken only by itself or by a task it interrupted inside try_lock or drop.
THEOREM Contention == Spec => []ContentionOnlyInWindows
<1>1. TypeInv /\ ClaimInv /\ LevelInv => ContentionOnlyInWindows
  <2> SUFFICES ASSUME TypeInv, ClaimInv, LevelInv, NEW m \in Mutexes, scoped, lock[m],
                      LockLevel[m] >= tpl
               PROVE  \/ \E i \in DOMAIN guards[Running] : guards[Running][i].mutex = m
                      \/ \E u \in Active : op[u].step \in {"won", "restored"} /\ op[u].mutex = m
    BY DEF ContentionOnlyInWindows
  <2>1. PICK u \in Tasks : Claims(u, m)
    BY DEF ClaimInv, FlagHasClaim
  <2>2. CASE op[u].step \in {"won", "restored"} /\ op[u].mutex = m
    <3>1. u \in Active
      BY <2>2 DEF LevelInv, InactiveTasks
    <3> QED BY <2>2, <3>1
  <2>3. ASSUME NEW i \in DOMAIN guards[u], guards[u][i].mutex = m
        PROVE  \E k \in DOMAIN guards[Running] : guards[Running][k].mutex = m
    <3>1. guards[u][i].level = LockLevel[m]
      BY <2>3 DEF LevelInv, GuardLevels
    <3>2. ASSUME u # Running PROVE FALSE
      <4>1. guards[u][i].level < tpl
        BY <3>2, LevelCovers
      <4>2. LockLevel[m] \in Nat /\ tpl \in Nat
        BY TplAssumption DEF TypeInv, TypeOK
      <4> QED BY <3>1, <4>1, <4>2
    <3> QED BY <2>3, <3>2
  <2> QED BY <2>1, <2>2, <2>3 DEF Claims
<1>2. Spec => [](TypeInv /\ ClaimInv)
  BY InductiveInvariant
<1> QED BY <1>1, <1>2, LevelInvariant, PTL

-----------------------------------------------------------------------------
(* Activations.  Even when guards are dropped out of order, no task runs     *)
(* below its own level, so that no notification function is entered again   *)
(* before it has returned.                                                  *)

\* No guard of a task, and no call it is in, will set the TPL below its level.
GuardsAboveHome ==
  \A t \in Tasks :
    /\ \A i \in DOMAIN guards[t] : Home[t] <= guards[t][i].release_tpl
    /\ op[t].step = "won" => Home[t] <= LockLevel[op[t].mutex]

StackRises ==
  /\ \A i, j \in DOMAIN frames : i < j => Home[frames[i].task] < Home[frames[j].task]
  /\ \A i \in DOMAIN frames : i > 1 =>
       /\ Home[frames[i - 1].task] <= frames[i].resume
       /\ frames[i].resume < Home[frames[i].task]
  /\ Home[frames[Len(frames)].task] <= tpl

HomeInv == GuardsAboveHome /\ StackRises

\* No task has two activations on the stack.
NoReentry == \A i, j \in DOMAIN frames : frames[i].task = frames[j].task => i = j

\* What the stack of activations is made of.
LEMMA FrameTypes ==
  ASSUME TypeInv
  PROVE  /\ Len(frames) \in Nat /\ Len(frames) >= 1 /\ DOMAIN frames = 1..Len(frames)
         /\ Running = frames[Len(frames)].task /\ Running \in Tasks
         /\ \A i \in DOMAIN frames : /\ frames[i].task \in Tasks /\ frames[i].resume \in Nat
                                     /\ Home[frames[i].task] \in Nat
         /\ tpl \in Nat /\ \A t \in Tasks : Home[t] \in Nat
<1>1. Len(frames) \in Nat /\ Len(frames) >= 1 /\ DOMAIN frames = 1..Len(frames)
  BY DEF TypeInv, TypeOK
<1>2. \A i \in DOMAIN frames : frames[i] \in Frame
  BY DEF TypeInv, TypeOK
<1>3. \A t \in Tasks : Home[t] \in Nat
  BY TplAssumption
<1>4. \A i \in DOMAIN frames : frames[i].task \in Tasks /\ frames[i].resume \in Nat
  BY <1>2, TplAssumption DEF Frame
<1>5. Running = frames[Len(frames)].task
  BY DEF Running, Last
<1>6. tpl \in Nat
  BY TplAssumption DEF TypeInv, TypeOK
<1> QED BY <1>1, <1>3, <1>4, <1>5, <1>6

\* The main program starts at its level.
LEMMA HomeInit == Init => HomeInv
<1> SUFFICES ASSUME Init PROVE HomeInv
  OBVIOUS
<1>1. \A t \in Tasks : DOMAIN guards[t] = {} /\ op[t].step = "ready"
  BY DEF Init, Ready
<1>2. DOMAIN frames = {1} /\ Len(frames) = 1 /\ frames[1].task = Main /\ tpl = Home[Main]
  BY DEF Init
<1>3. Home[Main] <= Home[Main]
  <2>1. Home[Main] \in Levels
    BY TplAssumption DEF Tasks
  <2> QED BY <2>1, LevelsOrdered
<1> QED BY <1>1, <1>2, <1>3 DEF HomeInv, GuardsAboveHome, StackRises

\* A signal leaves TPL and stack alone.
LEMMA HomePending ==
  ASSUME HomeInv, UNCHANGED <<tpl, frames, guards, op>>
  PROVE  HomeInv'
  BY DEF HomeInv, GuardsAboveHome, StackRises

\* A call of the running task sets the TPL to no less than the task's level.
LEMMA HomeCall ==
  ASSUME TypeInv, HomeInv, NEW t \in Tasks, t = Running, UNCHANGED frames, OnlyTask(t),
         Home[t] <= tpl',
         \A i \in DOMAIN guards'[t] : Home[t] <= guards'[t][i].release_tpl,
         op'[t].step = "won" => Home[t] <= LockLevel[op'[t].mutex]
  PROVE  HomeInv'
<1>1. GuardsAboveHome'
  BY DEF HomeInv, GuardsAboveHome, OnlyTask
<1>2. StackRises'
  BY FrameTypes DEF HomeInv, StackRises
<1> QED BY <1>1, <1>2 DEF HomeInv

\* A dispatched callback is above all that it preempts.
LEMMA HomeDispatch ==
  ASSUME TypeInv, HomeInv, NEW c \in Callbacks, Dispatch(c)
  PROVE  HomeInv'
<1> DEFINE n == Len(frames)
<1>1. /\ n \in Nat /\ n >= 1 /\ DOMAIN frames = 1..n /\ frames \in Seq(Frame) /\ tpl \in Nat
      /\ \A i \in 1..n : Home[frames[i].task] \in Nat
      /\ c \in Tasks /\ Home[c] \in Nat
  BY FrameTypes DEF TypeInv, TypeOK, Tasks
<1>2. /\ frames' = Append(frames, [task |-> c, resume |-> tpl]) /\ tpl' = Home[c]
      /\ tpl < Home[c] /\ UNCHANGED <<guards, op>>
  BY <1>1 DEF Dispatch, Deliverable
<1>3. /\ Len(frames') = n + 1 /\ DOMAIN frames' = 1..(n + 1)
      /\ frames'[n + 1] = [task |-> c, resume |-> tpl]
      /\ \A i \in 1..n : frames'[i] = frames[i]
  BY <1>1, <1>2
<1>4. Home[frames[n].task] <= tpl
  BY DEF HomeInv, StackRises
<1> HIDE DEF n
<1>5. \A i \in 1..n : Home[frames[i].task] < Home[c]
  <2> SUFFICES ASSUME NEW i \in 1..n PROVE Home[frames[i].task] < Home[c]
    OBVIOUS
  <2>1. n \in 1..n /\ (i = n \/ i < n)
    BY <1>1
  <2>2. i < n => Home[frames[i].task] < Home[frames[n].task]
    BY <1>1, <2>1 DEF HomeInv, StackRises
  <2> QED BY <1>1, <1>2, <1>4, <2>1, <2>2
<1>6. ASSUME NEW i \in DOMAIN frames', NEW j \in DOMAIN frames', i < j
      PROVE  Home[frames'[i].task] < Home[frames'[j].task]
  <2>1. i \in 1..n /\ (j \in 1..n \/ j = n + 1)
    BY <1>1, <1>3, <1>6
  <2>2. CASE j \in 1..n
    BY <1>1, <1>3, <1>6, <2>1, <2>2 DEF HomeInv, StackRises
  <2>3. CASE j = n + 1
    BY <1>3, <1>5, <2>1, <2>3
  <2> QED BY <2>1, <2>2, <2>3
<1>7. ASSUME NEW i \in DOMAIN frames', i > 1
      PROVE  Home[frames'[i - 1].task] <= frames'[i].resume /\ frames'[i].resume < Home[frames'[i].task]
  <2>1. i - 1 \in 1..n /\ (i \in 1..n \/ i = n + 1)
    BY <1>1, <1>3, <1>7
  <2>2. CASE i \in 1..n
    BY <1>1, <1>3, <1>7, <2>1, <2>2 DEF HomeInv, StackRises
  <2>3. CASE i = n + 1
    <3>1. frames'[i - 1] = frames[n] /\ frames'[i].task = c /\ frames'[i].resume = tpl
      BY <1>1, <1>3, <2>1, <2>3
    <3> QED BY <1>2, <1>4, <3>1
  <2> QED BY <2>1, <2>2, <2>3
<1>8. Home[frames'[Len(frames')].task] <= tpl'
  BY <1>1, <1>2, <1>3
<1>9. StackRises'
  BY <1>6, <1>7, <1>8 DEF StackRises
<1> QED BY <1>2, <1>9 DEF HomeInv, GuardsAboveHome

\* A return goes back to what was below.
LEMMA HomeReturn ==
  ASSUME TypeInv, HomeInv, NEW c \in Callbacks, Return(c)
  PROVE  HomeInv'
<1> DEFINE n == Len(frames)
<1>1. n \in Nat /\ n >= 1 /\ DOMAIN frames = 1..n /\ frames \in Seq(Frame)
  BY FrameTypes DEF TypeInv, TypeOK
<1>2. n > 1
  <2>1. frames[n].task = c /\ c # Main /\ frames[1].task = Main
    BY DEF Return, Executes, Running, Last, TypeInv, MainAtBottom
  <2> QED BY <2>1, <1>1
<1>3. frames' = Front(frames) /\ tpl' = frames[n].resume /\ UNCHANGED <<guards, op>>
  BY DEF Return, Last
<1>4. /\ Len(frames') = n - 1 /\ DOMAIN frames' = 1..(n - 1)
      /\ \A i \in 1..(n - 1) : frames'[i] = frames[i]
  BY <1>1, <1>2, <1>3 DEF Front
<1> HIDE DEF n
<1>5. \A i, j \in DOMAIN frames' : i < j => Home[frames'[i].task] < Home[frames'[j].task]
  BY <1>1, <1>4 DEF HomeInv, StackRises
<1>6. ASSUME NEW i \in DOMAIN frames', i > 1
      PROVE  Home[frames'[i - 1].task] <= frames'[i].resume /\ frames'[i].resume < Home[frames'[i].task]
  <2>1. i \in 1..n /\ i - 1 \in 1..(n - 1) /\ i \in 1..(n - 1)
    BY <1>1, <1>4, <1>6
  <2> QED BY <1>1, <1>4, <1>6, <2>1 DEF HomeInv, StackRises
<1>7. Home[frames'[Len(frames')].task] <= tpl'
  <2>1. n \in 1..n /\ n - 1 \in 1..(n - 1)
    BY <1>1, <1>2
  <2> QED BY <1>1, <1>2, <1>3, <1>4, <2>1 DEF HomeInv, StackRises
<1>8. StackRises'
  BY <1>5, <1>6, <1>7 DEF StackRises
<1> QED BY <1>3, <1>8 DEF HomeInv, GuardsAboveHome

\* Every step keeps the stack rising.
LEMMA HomeStep == TypeInv /\ HomeInv /\ [Next]_vars => HomeInv'
<1> SUFFICES ASSUME TypeInv, HomeInv, [Next]_vars PROVE HomeInv'
  OBVIOUS
<1>0. /\ op \in [Tasks -> Op] /\ guards \in [Tasks -> Seq(Guard)] /\ tpl \in Nat
      /\ \A t \in Tasks : Home[t] \in Nat
      /\ \A m \in Mutexes : LockLevel[m] \in Nat
      /\ \A l \in Levels : l \in Nat
  BY FrameTypes, TplAssumption DEF TypeInv, TypeOK
<1>own. ASSUME NEW t \in Tasks, t = Running
       PROVE  Home[t] <= tpl /\ \A i \in DOMAIN guards[t] : Home[t] <= guards[t][i].release_tpl
  BY <1>own, FrameTypes DEF HomeInv, StackRises, GuardsAboveHome
<1>1. ASSUME NEW c \in Callbacks, Signal(c) PROVE HomeInv'
  BY <1>1, HomePending DEF Signal
<1>2. ASSUME NEW c \in Callbacks, Dispatch(c) PROVE HomeInv'
  BY <1>2, HomeDispatch
<1>3. ASSUME NEW c \in Callbacks, Return(c) PROVE HomeInv'
  BY <1>3, HomeReturn
<1>4. ASSUME NEW t \in Tasks, NEW m \in Mutexes, TryLock(t, m) PROVE HomeInv'
  <2>1. t = Running /\ UNCHANGED <<tpl, frames, guards>> /\ OnlyTask(t)
        /\ op'[t].mutex = m /\ LockLevel[m] >= tpl
    BY <1>0, <1>4 DEF TryLock, Calls, Executes, OnlyTask
  <2>2. Home[t] <= LockLevel[m]
    BY <1>0, <1>own, <2>1
  <2> QED BY <1>own, <2>1, <2>2, HomeCall
<1>5. ASSUME NEW t \in Tasks, NEW m \in Mutexes, LockPanics(t, m) PROVE HomeInv'
  <2>1. t = Running /\ UNCHANGED <<tpl, frames, guards>> /\ OnlyTask(t) /\ op'[t].step # "won"
    BY <1>0, <1>5 DEF LockPanics, Calls, Executes, OnlyTask
  <2> QED BY <1>own, <2>1, HomeCall
<1>6. ASSUME NEW t \in Tasks, NEW g \in Guard, t = Running, UNCHANGED frames, tpl' = g.level,
             g.release_tpl = tpl, guards' = [guards EXCEPT ![t] = Append(@, g)],
             \A u \in Tasks : u # t => op'[u] = op[u], op'[t].step = "ready", Home[t] <= g.level
      PROVE  HomeInv'
  <2>1. OnlyTask(t)
    BY <1>0, <1>6 DEF OnlyTask
  <2>2. \A i \in DOMAIN guards'[t] :
          guards'[t][i] = g \/ (i \in DOMAIN guards[t] /\ guards'[t][i] = guards[t][i])
    BY <1>0, <1>6
  <2>3. \A i \in DOMAIN guards'[t] : Home[t] <= guards'[t][i].release_tpl
    BY <1>own, <1>6, <2>2
  <2> QED BY <1>6, <2>1, <2>3, HomeCall
<1>7. ASSUME NEW t \in Tasks, NEW l \in Levels, RaiseTplGuarded(t, l) PROVE HomeInv'
  <2> DEFINE g == [mutex |-> NoMutex, level |-> l, release_tpl |-> tpl]
  <2>1. g \in Guard /\ g.level = l /\ g.release_tpl = tpl
    BY DEF Guard, TypeInv, TypeOK
  <2>2. /\ t = Running /\ UNCHANGED <<frames, op>> /\ tpl' = g.level /\ l >= tpl
        /\ guards' = [guards EXCEPT ![t] = Append(@, g)] /\ op'[t].step = "ready"
    BY <1>7 DEF RaiseTplGuarded, Calls, Executes
  <2>3. Home[t] <= l
    BY <1>0, <1>own, <2>2
  <2> HIDE DEF g
  <2> QED BY <1>6, <2>1, <2>2, <2>3
<1>8. ASSUME NEW t \in Tasks, RaiseTpl(t) PROVE HomeInv'
  <2> DEFINE m == op[t].mutex
             g == [mutex |-> m, level |-> LockLevel[m], release_tpl |-> tpl]
  <2>1. m \in Mutexes /\ op[t].step = "won" /\ t = Running
    BY <1>8 DEF RaiseTpl, Executes, TypeInv, TypeOK
  <2>2. g \in Guard /\ g.level = LockLevel[m] /\ g.release_tpl = tpl
    BY <2>1, TplAssumption DEF Guard, TypeInv, TypeOK
  <2>3. /\ UNCHANGED frames /\ tpl' = g.level
        /\ guards' = [guards EXCEPT ![t] = Append(@, g)]
        /\ op'[t].step = "ready" /\ \A u \in Tasks : u # t => op'[u] = op[u]
    BY <1>0, <1>8 DEF RaiseTpl, Ready
  <2>4. Home[t] <= LockLevel[m]
    BY <2>1 DEF HomeInv, GuardsAboveHome
  <2> HIDE DEF g, m
  <2> QED BY <1>6, <2>1, <2>2, <2>3, <2>4
<1>9. ASSUME NEW t \in Tasks, NEW i \in 1..MaxGuards, RestoreTpl(t, i) PROVE HomeInv'
  <2> DEFINE gs == guards[t]
  <2>1. /\ t = Running /\ op[t].step = "ready" /\ i \in DOMAIN gs /\ gs \in Seq(Guard)
        /\ guards' = [guards EXCEPT ![t] = RemoveAt(gs, i)] /\ tpl' = gs[i].release_tpl
        /\ UNCHANGED frames
    BY <1>0, <1>9 DEF RestoreTpl, Executes
  <2>2. op'[t].step # "won" /\ \A u \in Tasks : u # t => op'[u] = op[u]
    BY <1>0, <1>9, <2>1 DEF RestoreTpl
  <2>3. i \in 1..Len(gs)
    BY <2>1
  <2>4. Home[t] <= tpl'
    BY <1>own, <2>1
  <2> HIDE DEF gs
  <2>5. \A j \in DOMAIN RemoveAt(gs, i) :
          Before(i, j) \in DOMAIN gs /\ RemoveAt(gs, i)[j] = gs[Before(i, j)]
    BY <2>1, <2>3, RemoveAtMoves
  <2>6. guards'[t] = RemoveAt(gs, i) /\ OnlyTask(t)
    BY <1>0, <2>1, <2>2 DEF OnlyTask
  <2>7. \A j \in DOMAIN guards'[t] : Home[t] <= guards'[t][j].release_tpl
    BY <1>own, <2>1, <2>5, <2>6 DEF gs
  <2> QED BY <2>1, <2>2, <2>4, <2>6, <2>7, HomeCall
<1>10. ASSUME NEW t \in Tasks, Unlock(t) PROVE HomeInv'
  <2>1. t = Running /\ UNCHANGED <<tpl, frames, guards>> /\ OnlyTask(t) /\ op'[t].step # "won"
    BY <1>0, <1>10 DEF Unlock, Executes, OnlyTask, Ready
  <2> QED BY <1>own, <2>1, HomeCall
<1>11. CASE UNCHANGED vars
  BY <1>11, HomePending DEF vars
<1> QED BY <1>1, <1>2, <1>3, <1>4, <1>5, <1>7, <1>8, <1>9, <1>10, <1>11
    DEF Next, Firmware, Acquire, Halted

\* No two activations of one task: what a notification function has read, locked or
\* been given is never changed by a second run of it in the middle of the first.
LEMMA OneActivation == TypeInv /\ HomeInv => NoReentry
<1> SUFFICES ASSUME TypeInv, HomeInv, NEW i \in DOMAIN frames, NEW j \in DOMAIN frames,
                    frames[i].task = frames[j].task
             PROVE  i = j
  BY DEF NoReentry
<1>1. i \in Nat /\ j \in Nat /\ Home[frames[i].task] \in Nat
  BY FrameTypes
<1>2. i < j => Home[frames[i].task] < Home[frames[j].task]
  BY DEF HomeInv, StackRises
<1>3. j < i => Home[frames[j].task] < Home[frames[i].task]
  BY DEF HomeInv, StackRises
<1> QED BY <1>1, <1>2, <1>3

\* A notification function is not entered again before it has returned, in whatever
\* order it drops its guards: no TPL it restores is below its own notify TPL.
THEOREM NotReentrant == Spec => []NoReentry
<1>1. Spec => [](TypeInv /\ HomeInv)
  BY TypeInit, TypeStep, HomeInit, HomeStep, PTL DEF Spec
<1> QED BY <1>1, OneActivation, PTL

-----------------------------------------------------------------------------
(* Events                                                                  *)

\* An update in progress holds its guard, is in no other call, and has read what the
\* data still is.
Updating ==
  \A t \in Tasks : read[t] # Unread =>
    /\ op[t].step = "ready"
    /\ Holds(t, read[t].mutex)
    /\ read[t].value = value[read[t].mutex]

DataInv == NoLostUpdate /\ Updating

\* Only open events are queued and timed, and a registrar's is neither in a group nor timed.
QueueInv ==
  /\ pending \subseteq Open
  /\ \A c \in Callbacks : timer[c] # "Cancel" => c \in Open /\ "TIMER" \in kind[c].types
  /\ \A c \in Registrars : event[c] # "grouped"

\* An owned context has been given away, once, while its event or a notification is there.
OwnedGiven ==
  \A c \in Callbacks : Owned(c) /\ oneShot /\ c \in Open \cup Active => ctx[c] = "given"

ReferencesHeld ==
  \A c \in Callbacks : kind[c].context = "ref" /\ ~ended => ctx[c] = "held"

ContextInv == OwnedGiven /\ ReferencesHeld

\* The TPL the main program goes on at when all notifications have returned.
MainTpl == IF Len(frames) = 1 THEN tpl ELSE frames[2].resume

Freed(c) == ctx[c] \in {"freed", "freed twice"}

\* Nothing comes of a registrar's event before it is registered.
Unregistered ==
  \A c \in Callbacks :
    /\ reg[c] # "none" => c \in Registrars
    /\ reg[c] = "none" => c \notin misread \cup miswrite
    /\ c \in Registrars /\ reg[c] = "none" => c \notin pending \cup Active /\ (~ended => ~Freed(c))

\* Between the registration and the write the main program makes no other call.
Registering ==
  \A c \in Callbacks : reg[c] = "registered" =>
    /\ ~ended /\ op[Main].step = "ready" /\ regTpl[c] = MainTpl
    /\ c \in Active \/ Freed(c) => regTpl[c] < Home[c]

RegInv == Unregistered /\ Registering /\ RegistrationShielded

\* What the proofs of TplMutex provide; the other part of the inductive invariant.
LockInv == TypeInv /\ ClaimInv /\ HomeInv

-----------------------------------------------------------------------------
(* The mutexes and the stack                                               *)

\* Events add to TplMutex only when callbacks are queued, and when they are not.
PendingStep ==
  UNCHANGED <<tpl, frames, lock, guards, op, scoped>> /\ pending' \subseteq Callbacks

\* A group signals open events only.
LEMMA TogetherOpen ==
  ASSUME NEW c \in Open
  PROVE  Together(c) \subseteq Open /\ \A d \in Together(c) : d = c \/ event[d] = "grouped"
  BY DEF Together

\* Every step of Events is one of TplMutex, or only changes what is queued.
LEMMA LockPart ==
  ASSUME TypeOKEvents, QueueInv, [EventNext]_allVars
  PROVE  [Next]_vars \/ PendingStep
<1>0. pending \subseteq Callbacks /\ Open \subseteq Callbacks
  BY DEF TypeOKEvents, TypeOK, Open
<1>1. ASSUME NEW c \in Callbacks, Notify(c) \/ NotifyReturns(c) PROVE Next
  BY <1>1 DEF Notify, NotifyReturns, Next, Firmware
<1>2. ASSUME NEW t \in Tasks, LockStep(t) PROVE Next
  BY <1>2 DEF LockStep, Next
<1>3. ASSUME NEW c \in Callbacks, TimerTick(c) PROVE PendingStep
  <2>1. Together(c) \subseteq Callbacks
    BY <1>0, <1>3, TogetherOpen DEF TimerTick, QueueInv
  <2> QED BY <1>0, <1>3, <2>1 DEF TimerTick, Fire, firedVars, PendingStep
<1>4. ASSUME NEW c \in Callbacks, ProtocolInstalled(c) PROVE PendingStep
  BY <1>0, <1>4 DEF ProtocolInstalled, Fire, firedVars, PendingStep
<1>5. ASSUME NEW t \in Tasks, NEW c \in Callbacks, CloseEvent(t, c) \/ CheckEvent(t, c)
      PROVE  PendingStep
  BY <1>0, <1>5 DEF CloseEvent, CheckEvent, firedVars, PendingStep
<1>6. ASSUME NEW t \in Tasks, NEW c \in Callbacks, SignalEvent(t, c) PROVE PendingStep
  <2>1. Together(c) \subseteq Callbacks
    BY <1>0, <1>6, TogetherOpen DEF SignalEvent
  <2> QED BY <1>0, <1>6, <2>1 DEF SignalEvent, Fire, firedVars, PendingStep
<1>7. ASSUME NEW c \in Callbacks, NEW g \in {"alone", "grouped"}, CreateEvent(c, g) PROVE UNCHANGED vars
  BY <1>7 DEF CreateEvent
<1>8. ASSUME NEW t \in Tasks, NEW c \in Callbacks, NEW type \in TimerTypes, SetTimer(t, c, type)
      PROVE  UNCHANGED vars
  BY <1>8 DEF SetTimer
<1>9. ASSUME NEW t \in Tasks, NEW m \in Mutexes, ReadValue(t, m) \/ WriteValue(t, m)
      PROVE  UNCHANGED vars
  BY <1>9 DEF ReadValue, WriteValue
<1>10. ASSUME NEW c \in Callbacks, RegisterProtocolNotify(c) \/ WriteRegistration(c)
       PROVE  UNCHANGED vars
  BY <1>10 DEF RegisterProtocolNotify, WriteRegistration
<1>11. ASSUME MainReturns \/ UNCHANGED allVars PROVE UNCHANGED vars
  BY <1>11 DEF MainReturns, allVars
<1> QED BY <1>1, <1>2, <1>3, <1>4, <1>5, <1>6, <1>7, <1>8, <1>9, <1>10, <1>11 DEF EventNext

\* So the mutex's invariants carry over.
LEMMA LockInvStep == LockInv /\ TypeOKEvents /\ QueueInv /\ [EventNext]_allVars => LockInv'
<1> SUFFICES ASSUME LockInv, TypeOKEvents, QueueInv, [EventNext]_allVars PROVE LockInv'
  OBVIOUS
<1>1. CASE [Next]_vars
  BY <1>1, TypeStep, ClaimStep, HomeStep DEF LockInv
<1>2. CASE PendingStep
  <2>1. TypeInv'
    BY <1>2 DEF PendingStep, LockInv, TypeInv, TypeOK, MainAtBottom
  <2>2. ClaimInv'
    BY <1>2, ClaimUnchanged DEF PendingStep, LockInv, InWindow
  <2>3. HomeInv'
    BY <1>2, HomePending DEF PendingStep, LockInv
  <2> QED BY <2>1, <2>2, <2>3 DEF LockInv
<1> QED BY <1>1, <1>2, LockPart

-----------------------------------------------------------------------------
(* Updates behind a guard                                                  *)

\* Every step keeps the data to the updates made, and an update in progress to its guard.
LEMMA DataStep ==
  LockInv /\ TypeOKEvents /\ DataInv /\ [EventNext]_allVars
    => /\ DataInv'
       /\ value' \in [Mutexes -> Nat] /\ updates' \in [Mutexes -> Nat]
       /\ read' \in [Tasks -> Reading \cup {Unread}]
<1> DEFINE DataTypes ==
             /\ value \in [Mutexes -> Nat] /\ updates \in [Mutexes -> Nat]
             /\ read \in [Tasks -> Reading \cup {Unread}]
<1> SUFFICES ASSUME LockInv, TypeOKEvents, DataInv, [EventNext]_allVars
             PROVE  DataInv' /\ DataTypes'
  OBVIOUS
<1>0. /\ DataTypes /\ op \in [Tasks -> Op] /\ guards \in [Tasks -> Seq(Guard)]
      /\ Unread \notin Reading
  BY EventsAssumption DEF TypeOKEvents, TypeOK
<1>1. \A t \in Tasks : read[t] # Unread => read[t].mutex \in Mutexes /\ read[t].value \in Nat
  BY <1>0 DEF Reading
<1>2. ASSUME UNCHANGED <<dataVars, guards, op>> PROVE DataInv' /\ DataTypes'
  BY <1>0, <1>2 DEF dataVars, DataInv, NoLostUpdate, Updating, Holds
<1>3. ASSUME NEW t \in Tasks, LockStep(t) PROVE DataInv' /\ DataTypes'
  <2>1. read[t] = Unread
    BY <1>3 DEF LockStep, Idle, Executes, DataInv, Updating
  <2>2. \A u \in Tasks : u # t => guards'[u] = guards[u] /\ op'[u] = op[u]
    BY <1>0, <1>3 DEF LockStep, Acquire, TryLock, LockPanics, RaiseTplGuarded, RaiseTpl, Unlock,
                      RestoreTpl
  <2>3. UNCHANGED <<value, read, updates>>
    BY <1>3 DEF LockStep, dataVars
  <2>4. Updating'
    BY <2>1, <2>2, <2>3 DEF DataInv, Updating, Holds
  <2> QED BY <1>0, <2>3, <2>4 DEF DataInv, NoLostUpdate
<1>4. ASSUME NEW t \in Tasks, NEW m \in Mutexes, ReadValue(t, m) PROVE DataInv' /\ DataTypes'
  <2> DEFINE r == [mutex |-> m, value |-> value[m]]
  <2>1. r \in Reading /\ r.mutex = m /\ r.value = value[m]
    BY <1>0 DEF Reading
  <2>2. read' = [read EXCEPT ![t] = r] /\ UNCHANGED <<value, updates, guards, op>>
    BY <1>4 DEF ReadValue, vars
  <2>3. op[t].step = "ready" /\ Holds(t, m)
    BY <1>4 DEF ReadValue, Idle, Executes
  <2> HIDE DEF r
  <2>4. Updating'
    BY <1>0, <2>1, <2>2, <2>3 DEF DataInv, Updating, Holds
  <2> QED BY <1>0, <2>1, <2>2, <2>4 DEF DataInv, NoLostUpdate
<1>5. ASSUME NEW t \in Tasks, NEW m \in Mutexes, WriteValue(t, m) PROVE DataInv' /\ DataTypes'
  <2>1. /\ read[t] # Unread /\ read[t].mutex = m /\ Holds(t, m)
        /\ read[t].value = value[m] /\ value[m] = updates[m]
    BY <1>5 DEF WriteValue, DataInv, Updating, NoLostUpdate
  <2>2. /\ value' = [value EXCEPT ![m] = read[t].value + 1]
        /\ updates' = [updates EXCEPT ![m] = @ + 1]
        /\ read' = [read EXCEPT ![t] = Unread] /\ UNCHANGED <<guards, op>>
    BY <1>5 DEF WriteValue, vars
  <2>3. value[m] + 1 \in Nat
    BY <1>0, <2>1
  <2>4. DataTypes' /\ NoLostUpdate'
    BY <1>0, <2>1, <2>2, <2>3 DEF DataInv, NoLostUpdate
  <2>5. ASSUME NEW u \in Tasks, u # t, read[u] # Unread PROVE read[u].mutex # m
    BY <1>1, <2>1, <2>5 DEF DataInv, Updating, Holds, LockInv, ClaimInv, MutualExclusion
  <2>6. Updating'
    BY <1>0, <1>1, <2>2, <2>5 DEF DataInv, Updating, Holds
  <2> QED BY <2>4, <2>6 DEF DataInv
<1>6. ASSUME NEW c \in Callbacks, Notify(c) \/ NotifyReturns(c) \/ TimerTick(c) \/ ProtocolInstalled(c)
      PROVE  UNCHANGED <<dataVars, guards, op>>
  BY <1>6 DEF Notify, NotifyReturns, TimerTick, ProtocolInstalled, Dispatch, Return, firedVars
<1>7. ASSUME NEW t \in Tasks, NEW c \in Callbacks,
             CloseEvent(t, c) \/ SignalEvent(t, c) \/ CheckEvent(t, c)
      PROVE  UNCHANGED <<dataVars, guards, op>>
  BY <1>7 DEF CloseEvent, SignalEvent, CheckEvent, firedVars
<1>8. ASSUME \/ \E c \in Callbacks, g \in {"alone", "grouped"} : CreateEvent(c, g)
             \/ \E t \in Tasks, c \in Callbacks, type \in TimerTypes : SetTimer(t, c, type)
             \/ \E c \in Callbacks : RegisterProtocolNotify(c) \/ WriteRegistration(c)
             \/ MainReturns \/ UNCHANGED allVars
      PROVE  UNCHANGED <<dataVars, guards, op>>
  BY <1>8 DEF CreateEvent, SetTimer, RegisterProtocolNotify, WriteRegistration, MainReturns,
              allVars, vars
<1> QED BY <1>2, <1>3, <1>4, <1>5, <1>6, <1>7, <1>8 DEF EventNext

-----------------------------------------------------------------------------
(* The stack, as events see it                                             *)

\* The main program is at the bottom, its TPL below everyone's.
LEMMA MainBelow ==
  ASSUME LockInv
  PROVE  MainTpl \in Nat /\ MainTpl <= tpl /\ tpl \in Nat /\ (Running = Main <=> Len(frames) = 1)
<1> DEFINE n == Len(frames)
<1>1. /\ n \in Nat /\ n >= 1 /\ DOMAIN frames = 1..n /\ Running = frames[n].task /\ tpl \in Nat
      /\ frames[1].task = Main
      /\ \A i \in DOMAIN frames : frames[i].resume \in Nat /\ Home[frames[i].task] \in Nat
  BY FrameTypes DEF LockInv, TypeInv, MainAtBottom
<1>2. \A i, j \in DOMAIN frames : frames[i].task = frames[j].task => i = j
  BY OneActivation DEF LockInv, NoReentry
<1> HIDE DEF n
<1>3. Running = Main <=> n = 1
  <2>1. n \in DOMAIN frames /\ 1 \in DOMAIN frames
    BY <1>1
  <2> QED BY <1>1, <1>2, <2>1
<1>4. CASE n = 1
  BY <1>1, <1>3, <1>4 DEF MainTpl, n
<1>5. CASE n # 1
  <2>1. 2 \in DOMAIN frames /\ n \in DOMAIN frames /\ (2 = n \/ 2 < n)
    BY <1>1, <1>5
  <2>2. frames[2].resume < Home[frames[2].task]
    BY <2>1 DEF LockInv, HomeInv, StackRises
  <2>3. 2 < n => Home[frames[2].task] < Home[frames[n].task]
    BY <2>1 DEF LockInv, HomeInv, StackRises
  <2>4. Home[frames[n].task] <= tpl
    BY DEF LockInv, HomeInv, StackRises, n
  <2>5. MainTpl = frames[2].resume
    BY <1>5 DEF MainTpl, n
  <2> QED BY <1>1, <1>3, <2>1, <2>2, <2>3, <2>4, <2>5 DEF n
<1> QED BY <1>4, <1>5

\* A notification becomes active,
LEMMA NotifyStack ==
  ASSUME LockInv, NEW c \in Callbacks, Dispatch(c)
  PROVE  Active' = Active \cup {c} /\ MainTpl' = MainTpl
<1> DEFINE n == Len(frames)
<1>1. n \in Nat /\ n >= 1 /\ DOMAIN frames = 1..n /\ frames \in Seq(Frame)
  BY FrameTypes DEF LockInv, TypeInv, TypeOK
<1>2. frames' = Append(frames, [task |-> c, resume |-> tpl])
  BY DEF Dispatch
<1>3. /\ Len(frames') = n + 1 /\ DOMAIN frames' = 1..(n + 1)
      /\ frames'[n + 1] = [task |-> c, resume |-> tpl]
      /\ \A i \in 1..n : frames'[i] = frames[i]
  BY <1>1, <1>2
<1> HIDE DEF n
<1>4. \A i \in 1..(n + 1) : i \in 1..n \/ i = n + 1
  BY <1>1
<1>5. \A i \in 1..n : i \in 1..(n + 1)
  BY <1>1
<1>6. n + 1 \in 1..(n + 1)
  BY <1>1
<1>7. Active' = Active \cup {c}
  BY <1>1, <1>3, <1>4, <1>5, <1>6 DEF Active
<1>8. n = 1 => frames'[2].resume = tpl
  BY <1>3
<1>9. n # 1 => 2 \in 1..n /\ n + 1 # 1
  BY <1>1
<1>10. MainTpl' = MainTpl
  BY <1>1, <1>3, <1>8, <1>9 DEF MainTpl, n
<1> QED BY <1>7, <1>10

\* and is inactive when it returns.
LEMMA ReturnStack ==
  ASSUME LockInv, NEW c \in Callbacks, Return(c)
  PROVE  Active' = Active \ {c} /\ c \in Active /\ MainTpl' = MainTpl
<1> DEFINE n == Len(frames)
<1>1. n \in Nat /\ n >= 1 /\ DOMAIN frames = 1..n /\ frames \in Seq(Frame)
  BY FrameTypes DEF LockInv, TypeInv, TypeOK
<1>2. frames[n].task = c /\ c # Main
  BY DEF Return, Executes, Running, Last
<1>3. n > 1
  BY <1>1, <1>2, MainBelow, FrameTypes DEF LockInv
<1>4. frames' = Front(frames) /\ tpl' = frames[n].resume
  BY DEF Return, Last
<1>5. /\ Len(frames') = n - 1 /\ DOMAIN frames' = 1..(n - 1)
      /\ \A i \in 1..(n - 1) : frames'[i] = frames[i]
  BY <1>1, <1>3, <1>4 DEF Front
<1>6. \A i, j \in DOMAIN frames : frames[i].task = frames[j].task => i = j
  BY OneActivation DEF LockInv, NoReentry
<1> HIDE DEF n
<1>7. /\ n \in 1..n /\ \A i \in 1..n : i \in 1..(n - 1) <=> i # n
      /\ \A i \in 1..(n - 1) : i \in 1..n
  BY <1>1
<1>8. c \in Active
  BY <1>1, <1>2, <1>7 DEF Active
<1>9. \A i \in 1..n : frames[i].task = c <=> i = n
  BY <1>1, <1>2, <1>6, <1>7
<1>10. Active' = Active \ {c}
  BY <1>1, <1>5, <1>7, <1>9 DEF Active
<1>11. MainTpl' = MainTpl
  <2>1. CASE n = 2
    BY <1>4, <1>5, <2>1 DEF MainTpl, n
  <2>2. CASE n # 2
    <3>1. n - 1 # 1 /\ n # 1 /\ 2 \in 1..(n - 1)
      BY <1>1, <1>3, <2>2
    <3> QED BY <1>5, <3>1 DEF MainTpl, n
  <2> QED BY <2>1, <2>2
<1> QED BY <1>8, <1>10, <1>11

\* A call of a notification function leaves the main program's TPL alone.
LEMMA CallStack ==
  ASSUME LockInv, NEW t \in Tasks, LockStep(t)
  PROVE  Active' = Active /\ (t # Main => MainTpl' = MainTpl /\ op'[Main] = op[Main])
<1>1. t = Running /\ UNCHANGED frames
  BY DEF LockStep, Idle, Executes, Acquire, TryLock, LockPanics, RaiseTplGuarded, RaiseTpl, Unlock,
         RestoreTpl
<1>2. t # Main => Len(frames) # 1
  BY <1>1, MainBelow
<1>3. t # Main => op'[Main] = op[Main]
  <2>1. op \in [Tasks -> Op] /\ Main \in Tasks
    BY DEF LockInv, TypeInv, TypeOK, Tasks
  <2> QED BY <2>1 DEF LockStep, Acquire, TryLock, LockPanics, RaiseTplGuarded, RaiseTpl, Unlock,
                      RestoreTpl
<1> QED BY <1>1, <1>2, <1>3 DEF Active, MainTpl

-----------------------------------------------------------------------------
(* Events and contexts                                                     *)

\* The part of TypeOKEvents that is about neither TplMutex nor the data.
EvTypes ==
  /\ \A c \in Callbacks : kind[c] \in KindsOf[c]
  /\ event \in [Callbacks -> {"none", "alone", "grouped"}]
  /\ signaled \subseteq Callbacks
  /\ timer \in [Callbacks -> TimerTypes]
  /\ ctx \in [Callbacks -> {"held", "given", "freed", "freed twice"}]
  /\ reg \in [Callbacks -> {"none", "registered", "written"}]
  /\ ended \in BOOLEAN
  /\ oneShot \in BOOLEAN
  /\ regTpl \in [Callbacks -> Levels]
  /\ misread \subseteq Callbacks /\ miswrite \subseteq Callbacks

EvInv == EvTypes /\ QueueInv /\ ContextInv /\ RegInv

\* A registrar's event is signaled by the firmware, and only once it is registered.
LEMMA RegistrarKind ==
  ASSUME EvTypes, NEW c \in Registrars
  PROVE  c \in Callbacks /\ "NOTIFY_SIGNAL" \in kind[c].types /\ "TIMER" \notin kind[c].types
  BY EventsAssumption DEF EvTypes

\* Steps that change none of this module's variables but the queue: the callbacks cs
\* may be queued.
LEMMA EvQueued ==
  ASSUME EvInv, NEW cs, cs \subseteq Open, \A c \in cs : c \in Registrars => reg[c] # "none",
         pending' \subseteq pending \cup cs, signaled' \subseteq Callbacks,
         UNCHANGED <<tpl, frames, op, kind, event, ctx, reg, ended, histVars>>,
         timer' \in [Callbacks -> TimerTypes],
         \A c \in Callbacks : timer'[c] = timer[c] \/ timer'[c] = "Cancel"
                              \/ (c \in Open /\ "TIMER" \in kind[c].types)
  PROVE  EvInv'
<1>1. UNCHANGED <<oneShot, regTpl, misread, miswrite>>
  BY DEF histVars
<1>2. Open' = Open /\ Active' = Active /\ MainTpl' = MainTpl
  BY DEF Open, Active, MainTpl
<1>3. EvTypes'
  BY <1>1 DEF EvInv, EvTypes
<1>4. QueueInv'
  BY <1>2 DEF EvInv, QueueInv
<1>5. ContextInv'
  BY <1>1, <1>2 DEF EvInv, ContextInv, OwnedGiven, ReferencesHeld, Owned
<1>6. Unregistered'
  BY <1>1, <1>2 DEF EvInv, RegInv, Unregistered, Freed
<1>7. Registering' /\ RegistrationShielded'
  BY <1>1, <1>2 DEF EvInv, RegInv, Registering, RegistrationShielded, Freed
<1> QED BY <1>3, <1>4, <1>5, <1>6, <1>7 DEF EvInv, RegInv

\* signal_event, a timer's tick, check_event, an installed protocol, set_timer.
LEMMA EvSignals ==
  ASSUME EvInv,
         \/ \E c \in Callbacks : TimerTick(c) \/ ProtocolInstalled(c)
         \/ \E t \in Tasks, c \in Callbacks : SignalEvent(t, c) \/ CheckEvent(t, c)
         \/ \E t \in Tasks, c \in Callbacks, type \in TimerTypes : SetTimer(t, c, type)
  PROVE  EvInv'
<1>0. /\ EvTypes /\ QueueInv /\ Unregistered /\ Open \subseteq Callbacks
      /\ timer \in [Callbacks -> TimerTypes] /\ signaled \subseteq Callbacks
  BY DEF EvInv, EvTypes, RegInv, Open
<1>1. ASSUME NEW c \in Callbacks, TimerTick(c) PROVE EvInv'
  <2>1. c \in Open /\ c \notin Registrars
    BY <1>0, <1>1, RegistrarKind DEF TimerTick, QueueInv
  <2>2. Together(c) \subseteq Open /\ \A d \in Together(c) : d \in Registrars => reg[d] # "none"
    BY <1>0, <2>1, TogetherOpen DEF QueueInv
  <2>3. /\ pending' \subseteq pending \cup Together(c) /\ signaled' \subseteq Callbacks
        /\ UNCHANGED <<tpl, frames, op, kind, event, ctx, reg, ended, histVars>>
    BY <1>0, <1>1, <2>2 DEF TimerTick, Fire, firedVars
  <2>4. /\ timer' \in [Callbacks -> TimerTypes]
        /\ \A d \in Callbacks : timer'[d] = timer[d] \/ timer'[d] = "Cancel"
    BY <1>0, <1>1 DEF TimerTick, TimerTypes
  <2> QED BY <2>2, <2>3, <2>4, EvQueued
<1>2. ASSUME NEW c \in Callbacks, ProtocolInstalled(c) PROVE EvInv'
  <2> DEFINE cs == {c}
  <2>1. /\ cs \subseteq Open /\ \A d \in cs : reg[d] # "none"
        /\ pending' \subseteq pending \cup cs /\ signaled' \subseteq Callbacks
        /\ UNCHANGED <<tpl, frames, op, kind, event, ctx, reg, ended, timer, histVars>>
    BY <1>0, <1>2 DEF ProtocolInstalled, Fire, firedVars
  <2> HIDE DEF cs
  <2> QED BY <1>0, <2>1, EvQueued
<1>3. ASSUME NEW t \in Tasks, NEW c \in Callbacks, SignalEvent(t, c) PROVE EvInv'
  <2>1. c \in Open /\ c \notin Registrars
    BY <1>3 DEF SignalEvent
  <2>2. Together(c) \subseteq Open /\ \A d \in Together(c) : d \in Registrars => reg[d] # "none"
    BY <1>0, <2>1, TogetherOpen DEF QueueInv
  <2>3. /\ pending' \subseteq pending \cup Together(c) /\ signaled' \subseteq Callbacks
        /\ UNCHANGED <<tpl, frames, op, kind, event, ctx, reg, ended, timer, histVars>>
    BY <1>0, <1>3, <2>2 DEF SignalEvent, Fire, firedVars
  <2> QED BY <1>0, <2>2, <2>3, EvQueued
<1>4. ASSUME NEW t \in Tasks, NEW c \in Callbacks, CheckEvent(t, c) PROVE EvInv'
  <2> DEFINE cs == {c}
  <2>1. /\ cs \subseteq Open /\ \A d \in cs : d \notin Registrars
        /\ pending' \subseteq pending \cup cs /\ signaled' \subseteq Callbacks
        /\ UNCHANGED <<tpl, frames, op, kind, event, ctx, reg, ended, timer, histVars>>
    BY <1>0, <1>4, RegistrarKind DEF CheckEvent, firedVars
  <2> HIDE DEF cs
  <2> QED BY <1>0, <2>1, EvQueued
<1>5. ASSUME NEW t \in Tasks, NEW c \in Callbacks, NEW type \in TimerTypes, SetTimer(t, c, type)
      PROVE  EvInv'
  <2>1. /\ c \in Open /\ "TIMER" \in kind[c].types /\ timer' = [timer EXCEPT ![c] = type]
        /\ UNCHANGED <<pending, signaled, tpl, frames, op, kind, event, ctx, reg, ended, histVars>>
    BY <1>5 DEF SetTimer, vars
  <2>2. /\ timer' \in [Callbacks -> TimerTypes]
        /\ \A d \in Callbacks : timer'[d] = timer[d] \/ (d \in Open /\ "TIMER" \in kind[d].types)
    BY <1>0, <2>1
  <2> DEFINE cs == {}
  <2>3. cs \subseteq Open /\ (\A d \in cs : FALSE) /\ pending' \subseteq pending \cup cs
    BY <2>1
  <2> HIDE DEF cs
  <2> QED BY <1>0, <2>1, <2>2, <2>3, EvQueued
<1> QED BY <1>1, <1>2, <1>3, <1>4, <1>5

\* create_event and create_event_ex: into_ptr gives an owned context away.
LEMMA EvCreate ==
  ASSUME EvInv, NEW c \in Callbacks, NEW g \in {"alone", "grouped"}, CreateEvent(c, g)
  PROVE  EvInv'
<1>1. /\ event[c] = "none" /\ (c \in Registrars => g = "alone") /\ (Owned(c) => ctx[c] = "held")
      /\ ctx' = IntoPtr(c) /\ event' \in Created(c, g) /\ ~ended
      /\ UNCHANGED <<tpl, frames, op, pending, kind, signaled, timer, reg, ended>>
      /\ UNCHANGED <<oneShot, regTpl, misread, miswrite>>
  BY EventsAssumption DEF CreateEvent, vars, histVars, Idle
<1>2. /\ event \in [Callbacks -> {"none", "alone", "grouped"}]
      /\ ctx \in [Callbacks -> {"held", "given", "freed", "freed twice"}]
  BY DEF EvInv, EvTypes
<1>3. /\ ctx' \in [Callbacks -> {"held", "given", "freed", "freed twice"}]
      /\ \A d \in Callbacks : ctx'[d] = IF d = c /\ Owned(c) THEN "given" ELSE ctx[d]
  BY <1>1, <1>2 DEF IntoPtr
<1>4. /\ event' \in [Callbacks -> {"none", "alone", "grouped"}]
      /\ \A d \in Callbacks : event'[d] = event[d] \/ (d = c /\ event'[d] = g)
  BY <1>1, <1>2 DEF Created
<1>5. Active' = Active /\ MainTpl' = MainTpl /\ Open \subseteq Open' /\ Open' \subseteq Open \cup {c}
  BY <1>1, <1>4 DEF Active, MainTpl, Open
<1>6. EvTypes'
  BY <1>1, <1>3, <1>4 DEF EvInv, EvTypes
<1>7. QueueInv'
  <2>1. \A d \in Registrars : event'[d] # "grouped"
    BY <1>1, <1>4, EventsAssumption DEF EvInv, QueueInv
  <2> QED BY <1>1, <1>5, <2>1 DEF EvInv, QueueInv
<1>8. ContextInv'
  BY <1>1, <1>3, <1>5 DEF EvInv, ContextInv, OwnedGiven, ReferencesHeld, Owned
<1>9. \A d \in Callbacks : Freed(d)' <=> Freed(d)
  BY <1>1, <1>3 DEF Freed
<1>10. Unregistered' /\ Registering' /\ RegistrationShielded'
  BY <1>1, <1>5, <1>9 DEF EvInv, RegInv, Unregistered, Registering, RegistrationShielded
<1> QED BY <1>6, <1>7, <1>8, <1>10 DEF EvInv, RegInv

\* close_event: the context stays where it is, and no notification is left.
LEMMA EvClose ==
  ASSUME EvInv, NEW t \in Tasks, NEW c \in Callbacks, CloseEvent(t, c)
  PROVE  EvInv'
<1>1. /\ event' = [event EXCEPT ![c] = "none"] /\ pending' = pending \ {c}
      /\ signaled' = signaled \ {c} /\ timer' = [timer EXCEPT ![c] = "Cancel"]
      /\ UNCHANGED <<tpl, frames, op, kind, ctx, reg, ended>>
      /\ UNCHANGED <<oneShot, regTpl, misread, miswrite>>
  BY DEF CloseEvent, histVars
<1>2. event \in [Callbacks -> {"none", "alone", "grouped"}] /\ timer \in [Callbacks -> TimerTypes]
  BY DEF EvInv, EvTypes
<1>3. /\ Active' = Active /\ MainTpl' = MainTpl /\ Open' = Open \ {c}
      /\ \A d \in Callbacks : event'[d] = event[d] \/ event'[d] = "none"
  BY <1>1, <1>2 DEF Active, MainTpl, Open
<1>4. EvTypes'
  BY <1>1, <1>2 DEF EvInv, EvTypes, TimerTypes
<1>5. QueueInv'
  <2>1. \A d \in Callbacks : timer'[d] # "Cancel" => d # c /\ timer'[d] = timer[d]
    BY <1>1, <1>2
  <2>2. \A d \in Registrars : event'[d] # "grouped"
    BY <1>3, EventsAssumption DEF EvInv, QueueInv
  <2> QED BY <1>1, <1>3, <2>1, <2>2 DEF EvInv, QueueInv
<1>6. ContextInv'
  BY <1>1, <1>3 DEF EvInv, ContextInv, OwnedGiven, ReferencesHeld, Owned
<1>7. Unregistered' /\ Registering' /\ RegistrationShielded'
  BY <1>1, <1>3 DEF EvInv, RegInv, Unregistered, Registering, RegistrationShielded, Freed
<1> QED BY <1>4, <1>5, <1>6, <1>7 DEF EvInv, RegInv

\* A notification starts.  If its registration is not written yet, the main program was
\* interrupted between the two steps, below the callback's level.
LEMMA EvNotify ==
  ASSUME LockInv, EvInv, NEW c \in Callbacks, Notify(c)
  PROVE  EvInv'
<1>1. /\ Dispatch(c) /\ c \in pending /\ tpl < Home[c] /\ pending' = pending \ {c}
      /\ misread' = IF c \in Registrars /\ reg[c] # "written" THEN misread \cup {c} ELSE misread
      /\ UNCHANGED <<op, kind, event, signaled, timer, ctx, reg, ended, oneShot, regTpl, miswrite>>
  <2>1. tpl \in Nat /\ Home[c] \in Nat
    BY FrameTypes DEF LockInv, Tasks
  <2> QED BY <2>1 DEF Notify, Dispatch, Deliverable, evVars
<1>2. Active' = Active \cup {c} /\ MainTpl' = MainTpl /\ Open' = Open
  BY <1>1, NotifyStack DEF Open
<1>3. EvTypes'
  BY <1>1 DEF EvInv, EvTypes
<1>4. QueueInv'
  BY <1>1, <1>2 DEF EvInv, QueueInv
<1>5. ContextInv'
  BY <1>1, <1>2 DEF EvInv, ContextInv, OwnedGiven, ReferencesHeld, Owned, QueueInv
<1>6. ASSUME reg[c] = "registered" PROVE regTpl[c] < Home[c]
  <2>1. regTpl[c] = MainTpl
    BY <1>6 DEF EvInv, RegInv, Registering
  <2>2. MainTpl \in Nat /\ MainTpl <= tpl /\ tpl \in Nat /\ Home[c] \in Nat
    BY MainBelow, FrameTypes DEF LockInv, Tasks
  <2> QED BY <1>1, <2>1, <2>2
<1>7. c \in Registrars => reg[c] # "none"
  BY <1>1 DEF EvInv, RegInv, Unregistered
<1>8. c \in Registrars /\ reg[c] # "written" => regTpl[c] < Home[c]
  BY <1>6, <1>7 DEF EvInv, EvTypes
<1>9. Unregistered'
  BY <1>1, <1>2, <1>7, <1>8 DEF EvInv, RegInv, Unregistered, Freed
<1>10. Registering'
  BY <1>1, <1>2, <1>6 DEF EvInv, RegInv, Registering, Freed
<1>11. RegistrationShielded'
  BY <1>1, <1>8 DEF EvInv, RegInv, RegistrationShielded
<1> QED BY <1>3, <1>4, <1>5, <1>9, <1>10, <1>11 DEF EvInv, RegInv

\* A notification returns and drops what it was given.  It was the only one.
LEMMA EvReturns ==
  ASSUME LockInv, EvInv, NEW c \in Callbacks, NotifyReturns(c)
  PROVE  EvInv'
<1>1. /\ Return(c)
      /\ ctx' = [ctx EXCEPT ![c] = IF ~Owned(c) THEN @ ELSE IF @ = "given" THEN "freed"
                                                             ELSE "freed twice"]
      /\ oneShot' = (oneShot /\ (Owned(c) => c \notin Open))
      /\ UNCHANGED <<pending, op, kind, event, signaled, timer, reg, ended, regTpl, misread, miswrite>>
  BY DEF NotifyReturns, Return
<1>2. Active' = Active \ {c} /\ c \in Active /\ MainTpl' = MainTpl /\ Open' = Open
  BY <1>1, ReturnStack DEF Open
<1>3. ctx \in [Callbacks -> {"held", "given", "freed", "freed twice"}]
  BY DEF EvInv, EvTypes
<1>4. /\ ctx' \in [Callbacks -> {"held", "given", "freed", "freed twice"}]
      /\ \A d \in Callbacks : ctx'[d] # ctx[d] => d = c /\ Owned(c)
  BY <1>1, <1>3
<1>5. EvTypes'
  <2>1. oneShot' \in BOOLEAN
    BY <1>1
  <2> QED BY <1>1, <1>4, <2>1 DEF EvInv, EvTypes
<1>6. QueueInv'
  BY <1>1, <1>2 DEF EvInv, QueueInv
<1>7. ContextInv'
  <2>1. OwnedGiven'
    BY <1>1, <1>2, <1>4 DEF EvInv, ContextInv, OwnedGiven, Owned
  <2>2. ReferencesHeld'
    BY <1>1, <1>4 DEF EvInv, ContextInv, ReferencesHeld, Owned
  <2> QED BY <2>1, <2>2 DEF ContextInv
<1>8. \A d \in Callbacks : d # c => (Freed(d)' <=> Freed(d))
  BY <1>4 DEF Freed
<1>9. Unregistered'
  BY <1>1, <1>2, <1>8 DEF EvInv, RegInv, Unregistered
<1>10. Registering'
  BY <1>1, <1>2, <1>8 DEF EvInv, RegInv, Registering
<1>11. RegistrationShielded'
  BY <1>1 DEF EvInv, RegInv, RegistrationShielded
<1> QED BY <1>5, <1>6, <1>7, <1>9, <1>10, <1>11 DEF EvInv, RegInv

\* Locks, guards and data: the main program does none of it between registering and
\* writing the registration.
LEMMA EvCalls ==
  ASSUME LockInv, EvInv,
         \/ \E t \in Tasks : LockStep(t)
         \/ \E t \in Tasks, m \in Mutexes : ReadValue(t, m) \/ WriteValue(t, m)
         \/ UNCHANGED allVars
  PROVE  EvInv'
<1>1. /\ UNCHANGED <<kind, event, signaled, timer, ctx, reg, ended, oneShot, regTpl, misread, miswrite>>
      /\ UNCHANGED pending
  BY DEF LockStep, Acquire, TryLock, LockPanics, RaiseTplGuarded, RaiseTpl, Unlock, RestoreTpl,
         ReadValue, WriteValue, allVars, vars, evVars, histVars
<1>2. /\ Active' = Active
      /\ \A c \in Callbacks : reg[c] = "registered" => MainTpl' = MainTpl /\ op'[Main] = op[Main]
  <2>1. ASSUME NEW t \in Tasks, LockStep(t)
        PROVE  /\ Active' = Active
               /\ \A c \in Callbacks : reg[c] = "registered" => MainTpl' = MainTpl /\ op'[Main] = op[Main]
    <3>1. ASSUME t = Main, NEW c \in Callbacks, reg[c] = "registered" PROVE FALSE
      BY <2>1, <3>1 DEF LockStep, Idle, Executes, EvInv, RegInv, Registering
    <3> QED BY <2>1, <3>1, CallStack
  <2>2. ASSUME UNCHANGED vars
        PROVE  Active' = Active /\ MainTpl' = MainTpl /\ op'[Main] = op[Main]
    BY <2>2 DEF vars, Active, MainTpl
  <2> QED BY <2>1, <2>2 DEF ReadValue, WriteValue, allVars
<1>3. Open' = Open
  BY <1>1 DEF Open
<1>4. EvTypes' /\ QueueInv'
  BY <1>1, <1>3 DEF EvInv, EvTypes, QueueInv
<1>5. ContextInv'
  BY <1>1, <1>2, <1>3 DEF EvInv, ContextInv, OwnedGiven, ReferencesHeld, Owned
<1>6. Unregistered' /\ Registering' /\ RegistrationShielded'
  BY <1>1, <1>2 DEF EvInv, RegInv, Unregistered, Registering, RegistrationShielded, Freed
<1> QED BY <1>4, <1>5, <1>6 DEF EvInv, RegInv

\* register_protocol_notify, the write of its result, and the main program's end.
LEMMA EvProgram ==
  ASSUME LockInv, EvInv,
         \/ \E c \in Callbacks : RegisterProtocolNotify(c) \/ WriteRegistration(c)
         \/ MainReturns
  PROVE  EvInv'
<1>0. /\ reg \in [Callbacks -> {"none", "registered", "written"}] /\ regTpl \in [Callbacks -> Levels]
      /\ ctx \in [Callbacks -> {"held", "given", "freed", "freed twice"}] /\ tpl \in Levels
  BY DEF EvInv, EvTypes, LockInv, TypeInv, TypeOK
<1>1. ASSUME NEW c \in Callbacks, RegisterProtocolNotify(c) PROVE EvInv'
  <2>1. /\ c \in Registrars /\ reg[c] = "none" /\ ~ended /\ Running = Main /\ op[Main].step = "ready"
        /\ \A d \in Callbacks : reg[d] # "registered"
        /\ reg' = [reg EXCEPT ![c] = "registered"] /\ regTpl' = [regTpl EXCEPT ![c] = tpl]
        /\ UNCHANGED <<tpl, frames, op, pending, kind, event, signaled, timer, ctx, ended>>
        /\ UNCHANGED <<oneShot, misread, miswrite>>
    BY <1>1 DEF RegisterProtocolNotify, Idle, Executes, vars
  <2>2. Active' = Active /\ Open' = Open /\ MainTpl = tpl /\ MainTpl' = tpl
    BY <2>1, MainBelow DEF Active, Open, MainTpl
  <2>3. EvTypes' /\ QueueInv'
    BY <1>0, <2>1, <2>2 DEF EvInv, EvTypes, QueueInv
  <2>4. ContextInv'
    BY <2>1, <2>2 DEF EvInv, ContextInv, OwnedGiven, ReferencesHeld, Owned
  <2>5. Unregistered'
    BY <1>0, <2>1, <2>2 DEF EvInv, RegInv, Unregistered, Freed
  <2>6. c \notin Active /\ ~Freed(c)
    BY <2>1 DEF EvInv, RegInv, Unregistered
  <2>7. Registering'
    BY <1>0, <2>1, <2>2, <2>6 DEF Registering, Freed
  <2>8. ASSUME NEW d \in misread \cup miswrite PROVE regTpl'[d] < Home[d]
    <3>1. d \in Callbacks
      BY <2>8 DEF EvInv, EvTypes
    <3>2. d # c
      BY <2>1 DEF EvInv, RegInv, Unregistered
    <3> QED BY <1>0, <2>1, <2>8, <3>1, <3>2 DEF EvInv, RegInv, RegistrationShielded
  <2> QED BY <2>1, <2>3, <2>4, <2>5, <2>7, <2>8 DEF EvInv, RegInv, RegistrationShielded
<1>2. ASSUME NEW c \in Callbacks, WriteRegistration(c) PROVE EvInv'
  <2>1. /\ reg[c] = "registered" /\ reg' = [reg EXCEPT ![c] = "written"]
        /\ miswrite' = IF Freed(c) THEN miswrite \cup {c} ELSE miswrite
        /\ UNCHANGED <<tpl, frames, op, pending, kind, event, signaled, timer, ctx, ended>>
        /\ UNCHANGED <<oneShot, regTpl, misread>>
    BY <1>2 DEF WriteRegistration, Freed, vars
  <2>2. Active' = Active /\ Open' = Open /\ MainTpl' = MainTpl
    BY <2>1 DEF Active, Open, MainTpl
  <2>3. EvTypes' /\ QueueInv'
    BY <1>0, <2>1, <2>2 DEF EvInv, EvTypes, QueueInv
  <2>4. ContextInv'
    BY <2>1, <2>2 DEF EvInv, ContextInv, OwnedGiven, ReferencesHeld, Owned
  <2>5. \A d \in Callbacks : Freed(d)' = Freed(d) /\ (d # c => reg'[d] = reg[d]) /\ reg'[c] = "written"
    BY <1>0, <2>1 DEF Freed
  <2>6. Unregistered' /\ Registering'
    BY <2>1, <2>2, <2>5 DEF EvInv, RegInv, Unregistered, Registering
  <2>7. RegistrationShielded'
    BY <2>1 DEF EvInv, RegInv, Registering, RegistrationShielded
  <2> QED BY <2>3, <2>4, <2>6, <2>7 DEF EvInv, RegInv
<1>3. ASSUME MainReturns PROVE EvInv'
  <2>1. /\ \A c \in Callbacks : reg[c] # "registered"
        /\ ctx' = [c \in Callbacks |-> IF kind[c].context = "ref" \/ (Owned(c) /\ ctx[c] = "held")
                                       THEN "freed" ELSE ctx[c]]
        /\ UNCHANGED <<tpl, frames, op, pending, kind, event, signaled, timer, reg>>
        /\ UNCHANGED <<oneShot, regTpl, misread, miswrite>>
    BY <1>3 DEF MainReturns, Idle, vars, histVars
  <2>2. ended'
    BY <1>3 DEF MainReturns
  <2>3. /\ ctx' \in [Callbacks -> {"held", "given", "freed", "freed twice"}]
        /\ \A c \in Callbacks : Owned(c) /\ ctx[c] = "given" => ctx'[c] = "given"
    BY <1>0, <2>1 DEF Owned
  <2>4. Active' = Active /\ Open' = Open
    BY <2>1 DEF Active, Open
  <2>5. EvTypes' /\ QueueInv'
    BY <2>1, <2>2, <2>3, <2>4 DEF EvInv, EvTypes, QueueInv
  <2>6. ContextInv'
    BY <2>1, <2>2, <2>3, <2>4 DEF EvInv, ContextInv, OwnedGiven, ReferencesHeld, Owned
  <2>7. Unregistered' /\ Registering' /\ RegistrationShielded'
    BY <2>1, <2>2, <2>4 DEF EvInv, RegInv, Unregistered, Registering, RegistrationShielded
  <2> QED BY <2>5, <2>6, <2>7 DEF EvInv, RegInv
<1> QED BY <1>1, <1>2, <1>3

-----------------------------------------------------------------------------

\* No event and no update at the start.
LEMMA EvInit == InitEvents => LockInv /\ DataInv /\ EvInv /\ TypeOKEvents
<1> SUFFICES ASSUME InitEvents PROVE LockInv /\ DataInv /\ EvInv /\ TypeOKEvents
  OBVIOUS
<1> USE TplAssumption, EventsAssumption
<1>1. LockInv
  BY TypeInit, ClaimInit, HomeInit DEF InitEvents, LockInv
<1>2. DataInv
  BY DEF InitEvents, DataInv, NoLostUpdate, Updating
<1>3. EvTypes
  BY DEF InitEvents, EvTypes, TimerTypes, Tasks
<1>4. Active = {Main}
  <2>1. frames = <<[task |-> Main, resume |-> Home[Main]]>>
    BY DEF InitEvents, Init
  <2>2. DOMAIN frames = {1} /\ frames[1].task = Main
    BY <2>1
  <2> QED BY <2>2 DEF Active
<1>5. Open = {} /\ pending = {}
  BY DEF InitEvents, Init, Open
<1>6. QueueInv
  BY <1>5 DEF InitEvents, QueueInv
<1>7. ContextInv
  BY <1>4, <1>5 DEF InitEvents, ContextInv, OwnedGiven, ReferencesHeld
<1>8. RegInv
  BY <1>4, <1>5 DEF InitEvents, RegInv, Unregistered, Registering, RegistrationShielded, Freed
<1>9. TypeOKEvents
  <2>1. value \in [Mutexes -> Nat] /\ updates \in [Mutexes -> Nat]
        /\ read \in [Tasks -> Reading \cup {Unread}]
    BY DEF InitEvents
  <2> QED BY <1>1, <1>3, <2>1 DEF LockInv, TypeInv, TypeOKEvents, EvTypes
<1> QED BY <1>1, <1>2, <1>3, <1>6, <1>7, <1>8, <1>9 DEF EvInv

EventsInv == LockInv /\ DataInv /\ EvInv /\ TypeOKEvents

\* Every step keeps the invariant.
LEMMA EvStep == EventsInv /\ [EventNext]_allVars => EventsInv'
<1> SUFFICES ASSUME EventsInv, [EventNext]_allVars PROVE EventsInv'
  OBVIOUS
<1> USE DEF EventsInv
<1>1. LockInv'
  BY LockInvStep DEF EvInv
<1>2. /\ DataInv'
      /\ value' \in [Mutexes -> Nat] /\ updates' \in [Mutexes -> Nat]
      /\ read' \in [Tasks -> Reading \cup {Unread}]
  BY DataStep
<1>3. EvInv'
  BY EvSignals, EvCreate, EvClose, EvNotify, EvReturns, EvCalls, EvProgram DEF EventNext
<1>4. TypeOKEvents'
  BY <1>1, <1>2, <1>3 DEF LockInv, TypeInv, EvInv, EvTypes, TypeOKEvents
<1> QED BY <1>1, <1>2, <1>3, <1>4

\* The inductive invariant holds throughout.
LEMMA EventsInvariant == EventSpec => []EventsInv
<1>1. InitEvents => EventsInv
  BY EvInit DEF EventsInv
<1> QED BY <1>1, EvStep, PTL DEF EventSpec

\* The events, their contexts and the data keep their types.
THEOREM EventsTyped == EventSpec => []TypeOKEvents
<1>1. EventsInv => TypeOKEvents
  BY DEF EventsInv
<1> QED BY <1>1, EventsInvariant, PTL

\* Every `+= 1` through a TplMutexGuard takes effect, whoever preempts whom and in
\* whatever order guards are dropped.
THEOREM UpdatesKept == EventSpec => []NoLostUpdate
<1>1. EventsInv => NoLostUpdate
  BY DEF EventsInv, DataInv
<1> QED BY <1>1, EventsInvariant, PTL

\* A running notification's context is alive: a Box if such callbacks close their event
\* before they return, a reference until the main program returns.
THEOREM ContextsAlive == EventSpec => []ContextAlive
<1>1. EventsInv => ContextAlive
  <2> SUFFICES ASSUME EventsInv, NEW c \in Active, c # Main
               PROVE  /\ Owned(c) /\ oneShot => ctx[c] = "given"
                      /\ kind[c].context = "ref" /\ ~ended => ctx[c] = "held"
    BY DEF ContextAlive
  <2>1. c \in Callbacks
    BY FrameTypes DEF EventsInv, LockInv, Active, Tasks
  <2> QED BY <2>1 DEF EventsInv, EvInv, ContextInv, OwnedGiven, ReferencesHeld
<1> QED BY <1>1, EventsInvariant, PTL

\* A registration is missed, or written into freed memory, only if the program
\* registered below the event's notify TPL.
THEOREM RegistrationSafe == EventSpec => []RegistrationShielded
<1>1. EventsInv => RegistrationShielded
  BY DEF EventsInv, EvInv, RegInv
<1> QED BY <1>1, EventsInvariant, PTL

\* With events signaled, timed and closed around them, the mutexes still exclude, and
\* no notification function is entered again before it has returned.
THEOREM EventsExclude == EventSpec => [](MutualExclusion /\ NoReentry)
<1>1. EventsInv => MutualExclusion /\ NoReentry
  BY OneActivation DEF EventsInv, LockInv, ClaimInv
<1> QED BY <1>1, EventsInvariant, PTL

=============================================================================
