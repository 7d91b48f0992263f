------------------------ MODULE VariableAccessProofs ------------------------
(***************************************************************************)
(* What get_variable returns, for every variable, every size_hint and every *)
(* sequence of concurrent writes; and what VariableNameIterator returns, for *)
(* every set of names, every order and length of them, and any number of     *)
(* changes and errors.                                                       *)
(***************************************************************************)
EXTENDS VariableAccess, VariableNames, TLAPS

\* Inside the loop: no call made and a buffer of size_hint bytes, or one call made
\* and a buffer of the size that call reported.
LoopInv ==
  pc = "calling" =>
    /\ first_attempt => calls = 0 /\ Len(data) = hint
    /\ ~first_attempt => calls = 1 /\ Len(data) = Len(sized.data)

\* ... and no answer yet.
Unanswered == pc = "calling" => result.status \notin {"Ok", "BUFFER_TOO_SMALL"}

ResultInv ==
  /\ ValueIsASnapshot
  /\ LongOnlyIfHintedOrShrunk
  /\ TooSmallOnlyIfGrown

\* The inductive invariant.
AccessInv == TypeOK /\ LoopInv /\ Unanswered /\ AtMostTwoCalls /\ ResultInv

\* Vec::resize gives the asked length and keeps the front of the buffer.
LEMMA ResizeProperties ==
  ASSUME NEW b \in Seq(Nat), NEW n \in Nat, NEW f \in Nat
  PROVE  Resize(b, n, f) \in Seq(Nat) /\ Len(Resize(b, n, f)) = n
BY DEF Resize

\* A firmware call that succeeds leaves the length of the buffer alone.
LEMMA OverwriteProperties ==
  ASSUME NEW b \in Seq(Nat), NEW v \in Seq(Nat), Len(v) <= Len(b)
  PROVE  /\ Overwrite(b, v) \in Seq(Nat)
         /\ Len(Overwrite(b, v)) = Len(b)
         /\ \A i \in DOMAIN v : Overwrite(b, v)[i] = v[i]
BY DEF Overwrite

\* Entries have data that is a non-empty sequence, and None is not one of them.
LEMMA EntryProperties ==
  ASSUME NEW e \in Entry
  PROVE  e # None /\ e.data \in Seq(Nat) /\ Len(e.data) \in Nat /\ e.attributes \in Attributes
BY DataAssumption, NoneAssumption DEF Entry

\* The results the code builds, and what they say.
LEMMA NoResultType == NoResult \in Result /\ NoResult.status = "none"
BY DEF NoResult, Failed, Result, Statuses

\* An error is a result,
LEMMA FailedType ==
  ASSUME NEW s \in Statuses
  PROVE  Failed(s) \in Result /\ Failed(s).status = s
BY DEF Failed, Result

\* and so is data with attributes.
LEMMA OkType ==
  ASSUME NEW b \in Seq(Nat), NEW a \in Attributes
  PROVE  /\ Ok(b, a) \in Result
         /\ Ok(b, a).status = "Ok"
         /\ Ok(b, a).data = b
         /\ Ok(b, a).attributes = a
<1>1. Len(b) \in Nat
  OBVIOUS
<1> QED BY <1>1 DEF Ok, Result, Statuses

-----------------------------------------------------------------------------

\* No call has been made at the start.
LEMMA AccessInit == Init => AccessInv
<1> SUFFICES ASSUME Init PROVE AccessInv
  OBVIOUS
<1>1. result \in Result /\ result.status = "none"
  BY NoResultType DEF Init
<1>2. TypeOK
  BY <1>1 DEF Init, TypeOK
<1>3. LoopInv /\ Unanswered /\ AtMostTwoCalls /\ ResultInv
  BY <1>1 DEF Init, LoopInv, Unanswered, AtMostTwoCalls, ResultInv, ValueIsASnapshot,
              LongOnlyIfHintedOrShrunk, TooSmallOnlyIfGrown
<1> QED BY <1>2, <1>3 DEF AccessInv

\* A step that ends the call, or the system, without an answer that carries data
\* keeps the invariant: the histories are only read when there is one.
LEMMA EndsWithoutData ==
  ASSUME AccessInv, TypeOK', AtMostTwoCalls', pc' # "calling",
         result'.status \notin {"Ok", "BUFFER_TOO_SMALL"}
  PROVE  AccessInv'
BY DEF AccessInv, LoopInv, Unanswered, ResultInv, ValueIsASnapshot,
       LongOnlyIfHintedOrShrunk, TooSmallOnlyIfGrown

\* A refused name, a missing table entry.
LEMMA DebugAssertType ==
  ASSUME TypeOK, NEW s \in {"NOT_FOUND", "INVALID_PARAMETER"}, DebugAssertOr(s)
  PROVE  /\ pc' \in {"idle", "panicked"}
         /\ result' \in Result
         /\ result' = result \/ result'.status \notin {"Ok", "BUFFER_TOO_SMALL"}
<1>1. Failed(s) \in Result /\ Failed(s).status \notin {"Ok", "BUFFER_TOO_SMALL"}
  BY FailedType DEF Statuses
<1> QED BY <1>1 DEF DebugAssertOr, Panics, Returns, TypeOK

\* A step that reports no new data keeps the invariant.
LEMMA KeepsResult ==
  ASSUME AccessInv, TypeOK', pc' # "calling",
         result' = result \/ result'.status \notin {"Ok", "BUFFER_TOO_SMALL"},
         UNCHANGED <<hint, calls, sized, seen>>
  PROVE  AccessInv'
BY DEF AccessInv, LoopInv, Unanswered, ResultInv, AtMostTwoCalls, ValueIsASnapshot,
       LongOnlyIfHintedOrShrunk, TooSmallOnlyIfGrown

\* The firmware call counts itself and records what it found.
LEMMA CallsType ==
  ASSUME AccessInv, Calls
  PROVE  /\ calls \in {0, 1} /\ calls' = calls + 1 /\ calls' \in Nat
         /\ AtMostTwoCalls'
         /\ seen' = store
         /\ UNCHANGED <<debug_assertions, services, store, hint>>
<1>1. calls \in {0, 1}
  BY DEF AccessInv, LoopInv, TypeOK, Calls
<1> QED BY <1>1 DEF Calls, CallsCap, AtMostTwoCalls

\* A successful call: the buffer has the bytes found, and its length tells where
\* it comes from.
LEMMA AccessSuccess ==
  ASSUME AccessInv, NEW ok \in BOOLEAN, GetVariableSuccess(ok)
  PROVE  AccessInv'
<1>1. /\ calls' \in Nat /\ AtMostTwoCalls' /\ seen' = store
      /\ UNCHANGED <<debug_assertions, services, store, hint>>
  BY CallsType DEF GetVariableSuccess
<1>2. store \in Entry /\ store # None /\ Len(store.data) <= Len(data) /\ data \in Seq(Nat)
  BY DEF GetVariableSuccess, AccessInv, TypeOK
<1>3. store.data \in Seq(Nat) /\ store.attributes \in Attributes
  BY <1>2, EntryProperties
<1>4. /\ data' \in Seq(Nat) /\ Len(data') = Len(data)
      /\ \A i \in DOMAIN store.data : data'[i] = store.data[i]
  BY <1>2, <1>3, OverwriteProperties DEF GetVariableSuccess
<1>5. pc' = "idle" /\ UNCHANGED <<first_attempt, sized>>
      /\ result' = IF ok THEN Ok(data', store.attributes) ELSE Failed("INVALID_PARAMETER")
  BY DEF GetVariableSuccess, Returns
<1>6. CASE ~ok
  <2>1. result' \in Result /\ result'.status = "INVALID_PARAMETER"
    BY <1>5, <1>6, FailedType DEF Statuses
  <2>2. TypeOK'
    BY <1>1, <1>2, <1>4, <1>5, <2>1 DEF AccessInv, TypeOK
  <2> QED BY <1>1, <1>5, <2>1, <2>2, EndsWithoutData
<1>7. CASE ok
  <2>1. /\ result' \in Result /\ result'.status = "Ok"
        /\ result'.data = data' /\ result'.attributes = store.attributes
    BY <1>3, <1>4, <1>5, <1>7, OkType
  <2>2. TypeOK'
    BY <1>1, <1>2, <1>4, <1>5, <2>1 DEF AccessInv, TypeOK
  <2>3. ValueIsASnapshot'
    BY <1>1, <1>2, <1>4, <2>1 DEF ValueIsASnapshot
  <2>4. Len(data) = hint \/ (sized # None /\ Len(data) = Len(sized.data))
    BY DEF AccessInv, LoopInv, TypeOK, GetVariableSuccess, Calls
  <2>5. Len(data) \in Nat /\ Len(store.data) \in Nat
    BY <1>2, <1>3
  <2>6. LongOnlyIfHintedOrShrunk'
    BY <1>1, <1>2, <1>4, <1>5, <2>1, <2>4, <2>5 DEF LongOnlyIfHintedOrShrunk
  <2> QED BY <1>1, <1>5, <2>1, <2>2, <2>3, <2>6
      DEF AccessInv, LoopInv, Unanswered, ResultInv, TooSmallOnlyIfGrown
<1> QED BY <1>6, <1>7

\* A buffer that is too small is resized once, to the size reported.
LEMMA AccessTooSmall ==
  ASSUME AccessInv, GetVariableResizes \/ GetVariableTooSmall
  PROVE  AccessInv'
<1>1. TooSmall /\ Calls /\ pc = "calling"
  BY DEF GetVariableResizes, GetVariableTooSmall, TooSmall, Calls
<1>2. /\ calls \in {0, 1} /\ calls' = calls + 1 /\ calls' \in Nat /\ AtMostTwoCalls'
      /\ seen' = store /\ UNCHANGED <<debug_assertions, services, store, hint>>
  BY <1>1, CallsType
<1>3. store \in Entry /\ store # None /\ Len(store.data) > Len(data) /\ data \in Seq(Nat)
  BY <1>1 DEF TooSmall, AccessInv, TypeOK
<1>4. store.data \in Seq(Nat) /\ Len(store.data) \in Nat
  BY <1>3, EntryProperties
<1>5. CASE GetVariableResizes
  <2>1. data' \in Seq(Nat) /\ Len(data') = Len(store.data)
    BY <1>3, <1>4, <1>5, ResizeProperties DEF GetVariableResizes, SizedFill
  <2>2. /\ first_attempt /\ first_attempt' = FALSE /\ sized' = store
        /\ UNCHANGED <<pc, result>>
    BY <1>5 DEF GetVariableResizes
  <2>3. calls = 0
    BY <1>1, <2>2 DEF AccessInv, LoopInv
  <2>4. TypeOK'
    BY <1>2, <1>3, <2>1, <2>2 DEF AccessInv, TypeOK
  <2>5. LoopInv'
    BY <1>2, <2>1, <2>2, <2>3 DEF LoopInv
  <2>6. result.status \notin {"Ok", "BUFFER_TOO_SMALL"}
    BY <1>1 DEF AccessInv, Unanswered
  <2> QED BY <1>2, <2>2, <2>4, <2>5, <2>6
      DEF AccessInv, Unanswered, ResultInv, ValueIsASnapshot, LongOnlyIfHintedOrShrunk,
          TooSmallOnlyIfGrown
<1>6. CASE GetVariableTooSmall
  <2>1. /\ pc' = "idle" /\ result' \in Result /\ result'.status = "BUFFER_TOO_SMALL"
        /\ ~first_attempt /\ UNCHANGED <<data, first_attempt, sized>>
    BY <1>6, FailedType DEF GetVariableTooSmall, Returns, Statuses
  <2>2. TypeOK'
    BY <1>2, <1>3, <2>1 DEF AccessInv, TypeOK
  <2>3. sized # None /\ Len(data) = Len(sized.data)
    BY <1>1, <2>1 DEF AccessInv, LoopInv, TypeOK
  <2> QED BY <1>2, <1>3, <2>1, <2>2, <2>3
      DEF AccessInv, Unanswered, LoopInv, ResultInv, ValueIsASnapshot,
          LongOnlyIfHintedOrShrunk, TooSmallOnlyIfGrown
<1> QED BY <1>5, <1>6

\* Every step keeps the invariant.
LEMMA AccessStep == AccessInv /\ [Next]_vars => AccessInv'
<1> SUFFICES ASSUME AccessInv, [Next]_vars PROVE AccessInv'
  OBVIOUS
<1>1. CASE NotTerminated
  <2>1. TypeOK' /\ pc' # "calling"
        /\ (result' = result \/ result'.status \notin {"Ok", "BUFFER_TOO_SMALL"})
    BY <1>1, DebugAssertType DEF NotTerminated, AccessInv, TypeOK
  <2> QED BY <1>1, <2>1, KeepsResult DEF NotTerminated
<1>2. ASSUME NEW h \in Hints, GetVariable(h) PROVE AccessInv'
  <2>1. h \in Nat
    BY DataAssumption
  <2>2. data' \in Seq(Nat) /\ Len(data') = h
    <3>1. <<>> \in Seq(Nat) /\ ZeroFill \in Nat
      BY DEF ZeroFill
    <3> QED BY <1>2, <2>1, <3>1, ResizeProperties DEF GetVariable
  <2>3. result' \in Result /\ result'.status = "none"
    BY <1>2, NoResultType DEF GetVariable
  <2>4. TypeOK'
    BY <1>2, <2>1, <2>2, <2>3 DEF GetVariable, AccessInv, TypeOK
  <2> QED BY <1>2, <2>2, <2>3, <2>4
      DEF GetVariable, AccessInv, Unanswered, LoopInv, AtMostTwoCalls, ResultInv,
          ValueIsASnapshot, LongOnlyIfHintedOrShrunk, TooSmallOnlyIfGrown
<1>3. CASE GetVariableMissing
  <2>1. TypeOK' /\ pc' # "calling"
        /\ (result' = result \/ result'.status \notin {"Ok", "BUFFER_TOO_SMALL"})
    BY <1>3, DebugAssertType DEF GetVariableMissing, AccessInv, TypeOK
  <2> QED BY <1>3, <2>1, KeepsResult DEF GetVariableMissing
<1>4. ASSUME NEW s \in {"NOT_FOUND", "DEVICE_ERROR"}, GetVariableError(s) PROVE AccessInv'
  <2>1. /\ calls' \in Nat /\ AtMostTwoCalls' /\ seen' = store
        /\ UNCHANGED <<debug_assertions, services, store, hint>>
    BY <1>4, CallsType DEF GetVariableError
  <2>2. /\ pc' = "idle" /\ result' \in Result
        /\ result'.status \notin {"Ok", "BUFFER_TOO_SMALL"}
    BY <1>4, FailedType DEF GetVariableError, Returns, Statuses
  <2>3. TypeOK'
    BY <1>4, <2>1, <2>2 DEF GetVariableError, AccessInv, TypeOK
  <2> QED BY <2>1, <2>2, <2>3, EndsWithoutData
<1>5. CASE GetVariableSizeAndAttributes
  <2>1. store # None => SizeOf(Len(store.data), store.attributes) \in Result
                        /\ SizeOf(Len(store.data), store.attributes).status = "Size"
    BY EntryProperties DEF AccessInv, TypeOK, SizeOf, Result, Statuses
  <2>2. /\ pc' = "idle" /\ result' \in Result
        /\ result'.status \notin {"Ok", "BUFFER_TOO_SMALL"}
    BY <1>5, <2>1, FailedType DEF GetVariableSizeAndAttributes, Returns, Statuses
  <2>3. TypeOK' /\ AtMostTwoCalls'
    BY <1>5, <2>2 DEF GetVariableSizeAndAttributes, AccessInv, TypeOK, AtMostTwoCalls
  <2> QED BY <2>2, <2>3, EndsWithoutData
<1>6. CASE SizeAndAttributesMissing
  <2>1. TypeOK' /\ pc' # "calling"
        /\ (result' = result \/ result'.status \notin {"Ok", "BUFFER_TOO_SMALL"})
    BY <1>6, DebugAssertType DEF SizeAndAttributesMissing, AccessInv, TypeOK
  <2> QED BY <1>6, <2>1, KeepsResult DEF SizeAndAttributesMissing
<1>7. ASSUME NEW e \in Entry \cup {None}, SetVariable(e) PROVE AccessInv'
  BY <1>7 DEF SetVariable, AccessInv, TypeOK, Unanswered, LoopInv, AtMostTwoCalls, ResultInv,
              ValueIsASnapshot, LongOnlyIfHintedOrShrunk, TooSmallOnlyIfGrown
<1>8. CASE SetVariableMissing
  <2>1. TypeOK' /\ pc' # "calling" /\ result' = result
    BY <1>8 DEF SetVariableMissing, Panics, AccessInv, TypeOK
  <2> QED BY <1>8, <2>1, KeepsResult DEF SetVariableMissing
<1>9. CASE QueryVariableInfo
  <2>1. TypeOK' /\ pc' # "calling"
        /\ (result' = result \/ result'.status \notin {"Ok", "BUFFER_TOO_SMALL"})
    BY <1>9, DebugAssertType, NoResultType, FailedType
       DEF QueryVariableInfo, Returns, AccessInv, TypeOK, Statuses
  <2> QED BY <1>9, <2>1, KeepsResult DEF QueryVariableInfo
<1>10. CASE UNCHANGED vars
  BY <1>10 DEF vars, AccessInv, TypeOK, Unanswered, LoopInv, AtMostTwoCalls, ResultInv,
              ValueIsASnapshot, LongOnlyIfHintedOrShrunk, TooSmallOnlyIfGrown
<1> QED BY <1>1, <1>2, <1>3, <1>4, <1>5, <1>6, <1>7, <1>8, <1>9, <1>10, AccessSuccess, AccessTooSmall
    DEF Next, GetVariableLoop

\* The inductive invariant holds throughout.
LEMMA AccessInvariant == Spec => []AccessInv
BY AccessInit, AccessStep, PTL DEF Spec

\* get_variable's answer is one state of the variable: the bytes and the
\* attributes found by the call that succeeded, never a mixture of two.
THEOREM Snapshot == Spec => []ValueIsASnapshot
<1>1. AccessInv => ValueIsASnapshot
  BY DEF AccessInv, ResultInv
<1> QED BY <1>1, AccessInvariant, PTL

\* The answer is longer than the variable only for the two reasons named.
THEOREM Length == Spec => []LongOnlyIfHintedOrShrunk
<1>1. AccessInv => LongOnlyIfHintedOrShrunk
  BY DEF AccessInv, ResultInv
<1> QED BY <1>1, AccessInvariant, PTL

\* The loop ends by its second call, whatever is written meanwhile, and reports
\* BUFFER_TOO_SMALL only for a variable that grew.
THEOREM TwoCalls == Spec => []TwoCallsSuffice
<1>1. AccessInv => TwoCallsSuffice
  BY DEF AccessInv, ResultInv, TwoCallsSuffice
<1> QED BY <1>1, AccessInvariant, PTL

-----------------------------------------------------------------------------
(* The iterator over variable names.                                       *)

\* The name the iterator stands at: the last one returned.
Position == IF visited = <<>> THEN start ELSE Last(visited)

\* The name passed in the buffer of a call is the iterator's own, in a buffer that is
\* not shorter than the one it was copied from.
CallsFromCurrent ==
  phase = "calling" => service /\ ~finished /\ next.name = current.name /\ next.len >= current.len

\* Both buffers hold the names in them, between calls too: either may be swapped in.
BothHold ==
  /\ current.name \in Names => current.len >= NameLen[current.name]
  /\ next.name \in Names => next.len >= NameLen[next.name]

\* A buffer the firmware wrote over spells no name, and the iterator stays at it.
ScribbledStays == scribbled => service /\ current.name = Unknown

\* What existed all along after the start was returned or is still ahead.
NoneSkipped ==
  \A n \in stable : Rank[n] > RankOf(start) => n \in Range(visited) \/ Rank[n] > RankOf(Position)

IteratorInv ==
  /\ NamesTypeOK
  /\ CallsFromCurrent
  /\ BothHold
  /\ ScribbledStays
  /\ PositionKept
  /\ VisitedAscending
  /\ NoneSkipped
  /\ CompleteAtEnd

-----------------------------------------------------------------------------
(* Appending a name to those visited.                                      *)

\* The name appended is the last one.
LEMMA AppendVisited ==
  ASSUME NEW s \in Seq(Names), NEW m \in Names
  PROVE  /\ Append(s, m) \in Seq(Names) /\ Append(s, m) # <<>>
         /\ Last(Append(s, m)) = m
         /\ \A n : n \in Range(Append(s, m)) <=> n \in Range(s) \/ n = m
<1> DEFINE a == Append(s, m)
<1>1. a \in Seq(Names) /\ Len(a) = Len(s) + 1 /\ a[Len(s) + 1] = m
  OBVIOUS
<1>2. \A i \in 1..Len(s) : a[i] = s[i]
  OBVIOUS
<1>3. Last(a) = m /\ a # <<>>
  BY <1>1 DEF Last
<1>4. DOMAIN a = 1..(Len(s) + 1) /\ DOMAIN s = 1..Len(s) /\ Len(s) \in Nat
  BY <1>1
<1>5. \A i \in DOMAIN a : i \in DOMAIN s \/ i = Len(s) + 1
  BY <1>4
<1>6. \A i \in DOMAIN s : i \in DOMAIN a
  BY <1>4
<1>7. Len(s) + 1 \in DOMAIN a
  BY <1>4
<1> HIDE DEF a
<1>8. \A n : n \in Range(a) <=> n \in Range(s) \/ n = m
  BY <1>1, <1>2, <1>4, <1>5, <1>6, <1>7 DEF Range
<1> QED BY <1>1, <1>3, <1>8 DEF a

\* A later name keeps the order.
LEMMA AppendAscending ==
  ASSUME NEW s \in Seq(Names), NEW m \in Names,
         \A i, j \in DOMAIN s : i < j => Rank[s[i]] < Rank[s[j]],
         s # <<>> => Rank[Last(s)] < Rank[m]
  PROVE  \A i, j \in DOMAIN Append(s, m) :
           i < j => Rank[Append(s, m)[i]] < Rank[Append(s, m)[j]]
<1> DEFINE a == Append(s, m)
           l == Len(s)
<1>1. l \in Nat /\ DOMAIN s = 1..l /\ DOMAIN a = 1..(l + 1) /\ a[l + 1] = m
  OBVIOUS
<1>2. \A i \in 1..l : a[i] = s[i] /\ s[i] \in Names
  OBVIOUS
<1>3. l > 0 => s # <<>> /\ Last(s) = s[l]
  BY DEF Last
<1>4. \A n \in Names : Rank[n] \in Nat
  BY NamesAssumption
<1> HIDE DEF a, l
<1>5. \A i \in 1..l : Rank[s[i]] < Rank[m]
  <2> SUFFICES ASSUME NEW i \in 1..l PROVE Rank[s[i]] < Rank[m]
    OBVIOUS
  <2>1. l > 0 /\ l \in 1..l /\ Rank[s[l]] < Rank[m]
    BY <1>1, <1>3
  <2>2. i = l \/ (i < l /\ Rank[s[i]] < Rank[s[l]])
    BY <2>1, <1>1
  <2>3. Rank[s[i]] \in Nat /\ Rank[s[l]] \in Nat /\ Rank[m] \in Nat
    BY <1>2, <1>4, <2>1
  <2> QED BY <2>1, <2>2, <2>3
<1>6. ASSUME NEW i \in DOMAIN a, NEW j \in DOMAIN a, i < j PROVE Rank[a[i]] < Rank[a[j]]
  <2>1. i \in 1..l
    BY <1>1, <1>6
  <2>2. CASE j \in 1..l
    BY <2>1, <2>2, <1>1, <1>2, <1>6
  <2>3. CASE j = l + 1
    BY <2>1, <2>3, <1>1, <1>2, <1>5
  <2> QED BY <2>2, <2>3, <1>1
<1> QED BY <1>6 DEF a

-----------------------------------------------------------------------------

\* A new iterator has visited nothing.
LEMMA IteratorInit == NamesInit => IteratorInv
<1> SUFFICES ASSUME NamesInit PROVE IteratorInv
  OBVIOUS
<1> USE NamesAssumption DEF NamesInit, Len0
<1>0. current \in Identifier /\ next \in Identifier
  BY DEF Identifier
<1>4. /\ present \subseteq Names /\ stable \subseteq present
       /\ visited \in Seq(Names) /\ changes \in 0..MaxChanges /\ errors \in 0..MaxErrors
  OBVIOUS
<1>1. NamesTypeOK
  <2>1. /\ debug_build \in BOOLEAN /\ service \in BOOLEAN /\ finished \in BOOLEAN
        /\ first_try \in BOOLEAN /\ lost \in BOOLEAN /\ scribbled \in BOOLEAN
    OBVIOUS
  <2> QED BY <1>0, <1>4, <2>1 DEF NamesTypeOK
<1>2. BothHold /\ CallsFromCurrent /\ ScribbledStays /\ PositionKept
  BY DEF BothHold, CallsFromCurrent, ScribbledStays, PositionKept
<1>3. VisitedAscending /\ NoneSkipped /\ CompleteAtEnd
  BY DEF VisitedAscending, NoneSkipped, CompleteAtEnd, Position
<1> QED BY <1>1, <1>2, <1>3 DEF IteratorInv

\* Other code creates or deletes a variable: what is stable only shrinks.
LEMMA ChangeKeepsInv ==
  ASSUME IteratorInv, NEW n \in Names, Create(n) \/ Delete(n)
  PROVE  IteratorInv'
<1> USE NamesAssumption DEF IteratorInv
<1>1. NamesTypeOK'
  BY DEF NamesTypeOK, Create, Delete
<1>2. /\ UNCHANGED <<service, current, next, finished, phase, start, visited, lost, scribbled>>
      /\ stable' \subseteq stable
  BY DEF Create, Delete
<1>3. CallsFromCurrent' /\ BothHold' /\ ScribbledStays' /\ PositionKept' /\ VisitedAscending'
  BY <1>2 DEF CallsFromCurrent, BothHold, ScribbledStays, PositionKept, VisitedAscending
<1>4. NoneSkipped' /\ CompleteAtEnd'
  BY <1>2 DEF NoneSkipped, CompleteAtEnd, Position, RankOf
<1> QED BY <1>1, <1>3, <1>4

\* advance starts its call from the last name.
LEMMA AdvanceKeepsInv ==
  ASSUME IteratorInv, Advance \/ AdvanceMissing
  PROVE  IteratorInv'
<1> USE NamesAssumption DEF IteratorInv
<1>1. CASE Advance
  <2>1. NamesTypeOK'
    BY <1>1 DEF NamesTypeOK, Advance, Identifier, Larger, others
  <2>2. CallsFromCurrent' /\ BothHold'
    BY <1>1 DEF Advance, CallsFromCurrent, BothHold, NamesTypeOK, Identifier, Larger, others
  <2>3. UNCHANGED <<service, current, finished, start, visited, stable, lost, scribbled>>
    BY <1>1 DEF Advance, others
  <2>4. ScribbledStays' /\ PositionKept' /\ VisitedAscending' /\ NoneSkipped' /\ CompleteAtEnd'
    BY <2>3 DEF ScribbledStays, PositionKept, VisitedAscending, NoneSkipped, CompleteAtEnd,
                Position, RankOf
  <2> QED BY <2>1, <2>2, <2>4
<1>2. CASE AdvanceMissing
  <2>1. NamesTypeOK'
    BY <1>2 DEF NamesTypeOK, AdvanceMissing, others
  <2>2. CallsFromCurrent' /\ BothHold' /\ ScribbledStays'
    BY <1>2 DEF AdvanceMissing, CallsFromCurrent, BothHold, ScribbledStays
  <2>3. UNCHANGED <<start, visited, stable, scribbled>> /\ lost'
    BY <1>2 DEF AdvanceMissing, others
  <2>4. finished' \/ UNCHANGED <<finished, current>>
    BY <1>2 DEF AdvanceMissing
  <2>5. PositionKept' /\ VisitedAscending' /\ NoneSkipped' /\ CompleteAtEnd'
    BY <2>3, <2>4 DEF PositionKept, VisitedAscending, NoneSkipped, CompleteAtEnd, Position, RankOf
  <2> QED BY <2>1, <2>2, <2>5
<1> QED BY <1>1, <1>2

\* A call that answers without a name: the end, an error, or a buffer too small.
LEMMA FailureKeepsInv ==
  ASSUME IteratorInv,
         \/ CallNotFound \/ CallInvalid \/ CallError
         \/ \E m \in Names, name \in Names \cup {Empty, Unknown} : CallTooSmall(m, name)
  PROVE  IteratorInv'
<1> USE NamesAssumption DEF IteratorInv
<1> DEFINE Fails ==
             /\ phase = "calling" /\ phase' = "idle" /\ next' = current
             /\ current' = next \/ current' = [name |-> Unknown, len |-> next.len]
             /\ current' = next \/ scribbled'
             /\ scribbled' => scribbled \/ current'.name = Unknown
             /\ scribbled => scribbled'
             /\ UNCHANGED <<service, start, visited, stable>>
<1>1. Fails /\ NamesTypeOK'
  <2>0. current \in Identifier /\ next \in Identifier
        /\ [name |-> Unknown, len |-> next.len] \in Identifier
    BY DEF NamesTypeOK, Identifier
  <2>1. CASE CallNotFound
    BY <2>0, <2>1 DEF CallNotFound, SwapIn, others, NamesTypeOK
  <2>2. CASE CallInvalid
    BY <2>0, <2>2 DEF CallInvalid, SwapIn, others, NamesTypeOK
  <2>3. CASE CallError
    BY <2>0, <2>3 DEF CallError, SwapIn, others, NamesTypeOK
  <2>4. ASSUME NEW m \in Names, NEW name \in Names \cup {Empty, Unknown}, CallTooSmall(m, name)
        PROVE  Fails /\ NamesTypeOK'
    <3>1. next = [name |-> next.name, len |-> next.len]
      BY <2>0 DEF Identifier
    <3>2. Fails
      BY <2>4, <3>1 DEF CallTooSmall, NameTooSmall, SwapIn, others
    <3>3. current' \in Identifier /\ next' \in Identifier /\ NameLen[m] \in Nat
      BY <2>0, <3>2
    <3>4. scribbled' \in BOOLEAN
      BY <2>4 DEF CallTooSmall
    <3> QED BY <2>4, <3>2, <3>3, <3>4 DEF CallTooSmall, others, NamesTypeOK
  <2> QED BY <2>1, <2>2, <2>3, <2>4
<1>2. NamesTypeOK'
  BY <1>1
<1>3. CallsFromCurrent' /\ BothHold'
  BY <1>1 DEF CallsFromCurrent, BothHold
<1>4. ScribbledStays'
  BY <1>1 DEF ScribbledStays, CallsFromCurrent
<1>5. ~finished /\ (~scribbled' => current'.name = current.name)
  BY <1>1 DEF CallsFromCurrent
<1>6. PositionKept'
  BY <1>1, <1>5 DEF PositionKept
<1>7. VisitedAscending' /\ NoneSkipped'
  BY <1>1 DEF VisitedAscending, NoneSkipped, Position, RankOf
<1>8. CompleteAtEnd'
  <2> SUFFICES ASSUME finished', ~lost', NEW n \in stable', Rank[n] > RankOf(start')
               PROVE  n \in Range(visited')
    BY DEF CompleteAtEnd, RankOf
  <2>1. CallNotFound /\ Known(next.name) /\ Later(next.name) = {} /\ ~lost
    BY <1>5 DEF CallNotFound, CallInvalid, CallError, CallTooSmall
  <2>2. next.name = current.name /\ current.name # Unknown
    BY <2>1, <1>1 DEF CallsFromCurrent, Known, NamesTypeOK
  <2>3. current.name = Position
    BY <2>2, <1>5 DEF ScribbledStays, PositionKept, Position
  <2>4. n \in present /\ n \notin Later(Position)
    BY <1>1, <2>1, <2>2, <2>3 DEF NamesTypeOK
  <2> QED BY <1>1, <2>4 DEF NoneSkipped, Later
<1> QED BY <1>2, <1>3, <1>4, <1>6, <1>7, <1>8

\* A resized buffer holds the last name again.
LEMMA ResizeKeepsInv ==
  ASSUME IteratorInv, NEW m \in Names, CallResizes(m)
  PROVE  IteratorInv'
<1> USE NamesAssumption DEF IteratorInv
<1>1. /\ next' = [name |-> current.name, len |-> NameLen[m]]
      /\ NameLen[m] > next_name_size /\ NameLen[m] \in Nat /\ phase = "calling"
      /\ next_name_size' = NameLen[m] /\ first_try' = FALSE
      /\ UNCHANGED <<debug_build, service, others, current, finished, phase, start, visited,
                     lost, scribbled, errors>>
  BY DEF CallResizes, NameTooSmall
<1>2. NamesTypeOK'
  BY <1>1 DEF NamesTypeOK, Identifier, others
<1>3. CallsFromCurrent' /\ BothHold'
  BY <1>1 DEF CallsFromCurrent, BothHold, NamesTypeOK, Identifier
<1>4. ScribbledStays' /\ PositionKept' /\ VisitedAscending' /\ NoneSkipped' /\ CompleteAtEnd'
  BY <1>1 DEF ScribbledStays, PositionKept, VisitedAscending, NoneSkipped, CompleteAtEnd,
              Position, RankOf, others
<1> QED BY <1>2, <1>3, <1>4

\* A successful call moves on by one name.
LEMMA SuccessKeepsInv ==
  ASSUME IteratorInv, NEW m \in Names, CallSucceeds(m)
  PROVE  IteratorInv'
<1> USE NamesAssumption DEF IteratorInv
<1>1. /\ phase = "calling" /\ phase' = "idle" /\ next' = current
      /\ current' = [name |-> m, len |-> next.len] /\ NameLen[m] <= next.len
      /\ next_name_size' = NameLen[m] /\ visited' = Append(visited, m)
      /\ UNCHANGED <<debug_build, service, others, finished, first_try, start, lost,
                     scribbled, errors>>
  BY DEF CallSucceeds, SwapIn, NamesTypeOK
<1>2. IsNext(m, current.name) /\ Known(current.name) /\ ~finished
  BY <1>1 DEF CallSucceeds, CallsFromCurrent
<1>3. current.name # Unknown /\ ~scribbled /\ current.name = Position
  BY <1>2 DEF Known, NamesTypeOK, ScribbledStays, PositionKept, Position
<1>4. /\ visited' \in Seq(Names) /\ visited' # <<>> /\ Last(visited') = m
      /\ \A n : n \in Range(visited') <=> n \in Range(visited) \/ n = m
  BY <1>1, AppendVisited DEF NamesTypeOK
<1>5. NamesTypeOK'
  BY <1>1, <1>4 DEF NamesTypeOK, Identifier, others
<1>6. CallsFromCurrent' /\ BothHold' /\ ScribbledStays'
  BY <1>1, <1>3 DEF CallsFromCurrent, BothHold, ScribbledStays, NamesTypeOK, Identifier
<1>7. PositionKept' /\ Position' = m
  BY <1>1, <1>4 DEF PositionKept, Position
<1>8. VisitedAscending'
  <2>1. visited # <<>> => Rank[Last(visited)] < Rank[m]
    <3> SUFFICES ASSUME visited # <<>> PROVE Rank[Last(visited)] < Rank[m]
      OBVIOUS
    <3>1. Last(visited) \in Names /\ Last(visited) = current.name
      BY <1>3 DEF NamesTypeOK, Last, Position
    <3> QED BY <3>1, <1>2 DEF IsNext, Later, RankOf
  <2>2. visited \in Seq(Names) /\ \A i, j \in DOMAIN visited : i < j => Rank[visited[i]] < Rank[visited[j]]
    BY DEF NamesTypeOK, VisitedAscending
  <2> QED BY <2>1, <2>2, <1>1, AppendAscending DEF VisitedAscending
<1>9. NoneSkipped'
  <2> SUFFICES ASSUME NEW n \in stable', Rank[n] > RankOf(start')
               PROVE  n \in Range(visited') \/ Rank[n] > RankOf(Position')
    BY DEF NoneSkipped, RankOf
  <2>1. n \in stable /\ n \in present /\ start' = start /\ n \in Names
    BY <1>1 DEF NamesTypeOK, others
  <2>2. n \in Range(visited) \/ n \in Later(current.name)
    BY <2>1, <1>3 DEF NoneSkipped, Later
  <2>3. n \in Later(current.name) => n = m \/ Rank[n] > Rank[m]
    BY <2>1, <1>2 DEF IsNext
  <2> QED BY <2>2, <2>3, <1>4, <1>7 DEF RankOf
<1>10. CompleteAtEnd'
  BY <1>1, <1>2 DEF CompleteAtEnd
<1> QED BY <1>5, <1>6, <1>7, <1>8, <1>9, <1>10

\* The inductive invariant of the iterator.
LEMMA IteratorInvariant == NamesSpec => []IteratorInv
<1>1. IteratorInv /\ [NamesNext]_namesVars => IteratorInv'
  <2> SUFFICES ASSUME IteratorInv, [NamesNext]_namesVars PROVE IteratorInv'
    OBVIOUS
  <2>1. CASE UNCHANGED namesVars
    BY <2>1 DEF namesVars, IteratorInv, NamesTypeOK, CallsFromCurrent, BothHold, ScribbledStays,
       PositionKept, VisitedAscending, NoneSkipped, CompleteAtEnd, Position, RankOf
  <2> QED BY <2>1, ChangeKeepsInv, AdvanceKeepsInv, FailureKeepsInv, ResizeKeepsInv,
             SuccessKeepsInv DEF NamesNext, Call
<1> QED BY <1>1, IteratorInit, PTL DEF NamesSpec

-----------------------------------------------------------------------------

\* advance never returns a variable twice or out of the firmware's order.
THEOREM Ascending == NamesSpec => []VisitedAscending
<1>1. IteratorInv => VisitedAscending
  BY DEF IteratorInv
<1> QED BY <1>1, IteratorInvariant, PTL

\* When advance has reported the end, every variable that was there all along has
\* been returned, unless the firmware was asked about a name that was not there.
THEOREM Complete == NamesSpec => []CompleteAtEnd
<1>1. IteratorInv => CompleteAtEnd
  BY DEF IteratorInv
<1> QED BY <1>1, IteratorInvariant, PTL

\* After any error but one, advance goes on from the variable it returned last.
THEOREM ErrorsKeepPosition == NamesSpec => []PositionKept
<1>1. IteratorInv => PositionKept
  BY DEF IteratorInv
<1> QED BY <1>1, IteratorInvariant, PTL

\* No buffer of the iterator is shorter than the name in it.
THEOREM BuffersHoldNames == NamesSpec => []BufferHoldsName
<1>1. IteratorInv => BufferHoldsName
  BY DEF IteratorInv, BothHold, BufferHoldsName
<1> QED BY <1>1, IteratorInvariant, PTL

=============================================================================
