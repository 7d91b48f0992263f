--------------------------- MODULE VariableAccess ---------------------------
(***************************************************************************)
(* get_variable, get_variable_size_and_attributes, set_variable and         *)
(* query_variable_info of RuntimeServices, on one UEFI variable.            *)
(*                                                                          *)
(* get_variable may need two calls of the firmware: one that tells the size *)
(* and one that fetches the data.  Between the two, code that preempts the  *)
(* caller may write, resize or delete the variable with set_variable.       *)
(***************************************************************************)
EXTENDS Naturals, Sequences

CONSTANTS
  Data,        \* contents a variable may be given: non-empty sequences of bytes
  Attributes,  \* attribute words
  Hints,       \* values of size_hint; 0 also stands for None
  None         \* no variable, or no entry recorded

\* A variable of size zero does not exist: SetVariable of no data deletes it.
ASSUME DataAssumption ==
  /\ Data \subseteq Seq(Nat) \ {<<>>}
  /\ Hints \subseteq Nat

\* The entries of the runtime services table these calls use.
Services == {"get_variable", "set_variable", "query_variable_info"}

Entry == [data : Data, attributes : Attributes]

ASSUME NoneAssumption == None \notin Entry

\* The two bytes get_variable fills a buffer with before the firmware writes it.
ZeroFill == 0
SizedFill == 10

\* Bound: firmware calls are counted up to here.
CallsCap == 3

VARIABLES
  debug_assertions,  \* TRUE in a debug build; fixed
  services,          \* entries of the runtime services table that are set; fixed
  store,             \* the variable: an Entry, or None (firmware)
  pc,                \* idle, calling (inside get_variable's loop) or panicked
  data,              \* get_variable's buffer
  first_attempt,
  result,            \* what the last call returned
  hint,              \* history: size_hint of the call
  calls,             \* history: firmware calls the call has made
  sized,             \* history: the entry whose size the first call reported
  seen               \* history: the entry the last firmware call found

vars == <<debug_assertions, services, store, pc, data, first_attempt, result,
          hint, calls, sized, seen>>

\* T::try_from and the caller see the data as a sequence, and its attributes.
Failed(code) == [status |-> code, data |-> <<>>, size |-> 0, attributes |-> None]
NoResult == Failed("none")
SizeOf(n, attributes) ==
  [status |-> "Size", data |-> <<>>, size |-> n, attributes |-> attributes]
Ok(bytes, attributes) ==
  [status |-> "Ok", data |-> bytes, size |-> Len(bytes), attributes |-> attributes]

Statuses == {"none", "Ok", "Size", "NOT_FOUND", "DEVICE_ERROR", "INVALID_PARAMETER",
             "BUFFER_TOO_SMALL"}
Result == [status : Statuses, data : Seq(Nat), size : Nat, attributes : Attributes \cup {None}]

TypeOK ==
  /\ debug_assertions \in BOOLEAN
  /\ services \subseteq Services
  /\ store \in Entry \cup {None}
  /\ pc \in {"idle", "calling", "panicked"}
  /\ data \in Seq(Nat)
  /\ first_attempt \in BOOLEAN
  /\ result \in Result
  /\ hint \in Nat
  /\ calls \in Nat
  /\ sized \in Entry \cup {None}
  /\ seen \in Entry \cup {None}
  /\ pc = "calling" => (first_attempt <=> sized = None)

Init ==
  /\ debug_assertions \in BOOLEAN
  /\ services \in SUBSET Services
  /\ store \in Entry \cup {None}
  /\ pc = "idle"
  /\ data = <<>>
  /\ first_attempt = TRUE
  /\ result = NoResult
  /\ hint = 0
  /\ calls = 0
  /\ sized = None
  /\ seen = None

-----------------------------------------------------------------------------
(* Vec::resize, and a firmware call that writes the front of a buffer.      *)

Resize(buffer, size, fill) ==
  [i \in 1..size |-> IF i <= Len(buffer) THEN buffer[i] ELSE fill]

Overwrite(buffer, bytes) ==
  [i \in 1..Len(buffer) |-> IF i <= Len(bytes) THEN bytes[i] ELSE buffer[i]]

-----------------------------------------------------------------------------

Returns(r) == pc' = "idle" /\ result' = r

Panics == pc' = "panicked" /\ UNCHANGED result

\* debug_assert!(false) followed by a return of an error.
DebugAssertOr(status) ==
  IF debug_assertions THEN Panics ELSE Returns(Failed(status))

\* A name without terminating null is refused before anything else happens.
NotTerminated ==
  /\ pc = "idle"
  /\ DebugAssertOr("INVALID_PARAMETER")
  /\ UNCHANGED <<debug_assertions, services, store, data, first_attempt, hint, calls,
                 sized, seen>>

\* get_variable up to its loop.
GetVariable(h) ==
  /\ pc = "idle"
  /\ pc' = "calling"
  /\ data' = Resize(<<>>, h, ZeroFill)
  /\ first_attempt' = TRUE
  /\ hint' = h
  /\ calls' = 0
  /\ sized' = None
  /\ seen' = None
  /\ result' = NoResult
  /\ UNCHANGED <<debug_assertions, services, store>>

\* A firmware call from the loop, and the entry it finds.
Calls ==
  /\ pc = "calling"
  /\ calls' = IF calls < CallsCap THEN calls + 1 ELSE calls
  /\ seen' = store
  /\ UNCHANGED <<debug_assertions, services, store, hint>>

\* get_variable_unchecked without a GetVariable entry in the table.
GetVariableMissing ==
  /\ pc = "calling"
  /\ "get_variable" \notin services
  /\ DebugAssertOr("NOT_FOUND")
  /\ UNCHANGED <<debug_assertions, services, store, data, first_attempt, hint, calls,
                 sized, seen>>

\* GetVariableStatus::Error: no such variable, or a failing device.
GetVariableError(status) ==
  /\ Calls
  /\ "get_variable" \in services
  /\ store # None => status = "DEVICE_ERROR"
  /\ Returns(Failed(status))
  /\ UNCHANGED <<data, first_attempt, sized>>

\* Mutant: the attributes are those of the call that told the size.
GetVariableStaleAttributes(ok) ==
  /\ Calls
  /\ "get_variable" \in services
  /\ store # None
  /\ Len(store.data) <= Len(data)
  /\ data' = Overwrite(data, store.data)
  /\ Returns(IF ok THEN Ok(data', (IF sized = None THEN store ELSE sized).attributes)
             ELSE Failed("INVALID_PARAMETER"))
  /\ UNCHANGED <<first_attempt, sized>>

\* GetVariableStatus::Success: the buffer goes to T::try_from, which may refuse it.
GetVariableSuccess(ok) ==
  /\ Calls
  /\ "get_variable" \in services
  /\ store # None
  /\ Len(store.data) <= Len(data)
  /\ data' = Overwrite(data, store.data)
  /\ Returns(IF ok THEN Ok(data', store.attributes)
             ELSE Failed("INVALID_PARAMETER"))
  /\ UNCHANGED <<first_attempt, sized>>

TooSmall ==
  /\ Calls
  /\ "get_variable" \in services
  /\ store # None
  /\ Len(store.data) > Len(data)

\* Mutant: the buffer is made one byte too long.
GetVariableResizesLong ==
  /\ TooSmall
  /\ first_attempt
  /\ first_attempt' = FALSE
  /\ data' = Resize(data, Len(store.data) + 1, SizedFill)
  /\ sized' = store
  /\ UNCHANGED <<pc, result>>

\* Mutant: first_attempt is not cleared.
GetVariableAlwaysFirst ==
  /\ TooSmall
  /\ first_attempt
  /\ data' = Resize(data, Len(store.data), SizedFill)
  /\ sized' = store
  /\ UNCHANGED <<pc, result, first_attempt>>

\* GetVariableStatus::BufferTooSmall, the first time: the buffer is resized.
GetVariableResizes ==
  /\ TooSmall
  /\ first_attempt
  /\ first_attempt' = FALSE
  /\ data' = Resize(data, Len(store.data), SizedFill)
  /\ sized' = store
  /\ UNCHANGED <<pc, result>>

\* GetVariableStatus::BufferTooSmall, the second time.
GetVariableTooSmall ==
  /\ TooSmall
  /\ ~first_attempt
  /\ Returns(Failed("BUFFER_TOO_SMALL"))
  /\ UNCHANGED <<data, first_attempt, sized>>

\* get_variable_size_and_attributes: one call without a buffer.
GetVariableSizeAndAttributes ==
  /\ pc = "idle"
  /\ "get_variable" \in services
  /\ \/ store = None /\ Returns(Failed("NOT_FOUND"))
     \/ store # None /\ Returns(Failed("DEVICE_ERROR"))
     \/ store # None /\ Returns(SizeOf(Len(store.data), store.attributes))
  /\ seen' = store
  /\ UNCHANGED <<debug_assertions, services, store, data, first_attempt, hint, calls, sized>>

SizeAndAttributesMissing ==
  /\ pc = "idle"
  /\ "get_variable" \notin services
  /\ DebugAssertOr("NOT_FOUND")
  /\ UNCHANGED <<debug_assertions, services, store, data, first_attempt, hint, calls,
                 sized, seen>>

\* query_variable_info: one call, of whose answer only the status matters here.
QueryVariableInfo ==
  /\ pc = "idle"
  /\ IF "query_variable_info" \in services
     THEN Returns(NoResult) \/ Returns(Failed("INVALID_PARAMETER"))
     ELSE DebugAssertOr("NOT_FOUND")
  /\ UNCHANGED <<debug_assertions, services, store, data, first_attempt, hint, calls,
                 sized, seen>>

\* set_variable by the code of a preempting callback, the whole call at once: the
\* variable is written, or deleted (e = None).  An error of the firmware, and the
\* error of a missing SetVariable entry in a release build, change nothing.
SetVariable(e) ==
  /\ pc # "panicked"
  /\ "set_variable" \in services
  /\ store' = e
  /\ UNCHANGED <<debug_assertions, services, pc, data, first_attempt, result, hint, calls,
                 sized, seen>>

SetVariableMissing ==
  /\ pc # "panicked"
  /\ "set_variable" \notin services
  /\ debug_assertions
  /\ Panics
  /\ UNCHANGED <<debug_assertions, services, store, data, first_attempt, hint, calls,
                 sized, seen>>

GetVariableLoop ==
  \/ GetVariableMissing
  \/ \E status \in {"NOT_FOUND", "DEVICE_ERROR"} : GetVariableError(status)
  \/ \E ok \in BOOLEAN : GetVariableSuccess(ok)
  \/ GetVariableResizes
  \/ GetVariableTooSmall

Next ==
  \/ NotTerminated
  \/ \E h \in Hints : GetVariable(h)
  \/ GetVariableLoop
  \/ GetVariableSizeAndAttributes
  \/ SizeAndAttributesMissing
  \/ QueryVariableInfo
  \/ \E e \in Entry \cup {None} : SetVariable(e)
  \/ SetVariableMissing

Spec == Init /\ [][Next]_vars

-----------------------------------------------------------------------------

\* The data returned starts with the bytes the variable had when the last call
\* read it, and comes with the attributes it had then, not with older ones.
ValueIsASnapshot ==
  result.status = "Ok" =>
    /\ Len(result.data) >= Len(seen.data)
    /\ \A i \in DOMAIN seen.data : result.data[i] = seen.data[i]
    /\ result.attributes = seen.attributes

\* Bytes follow the variable's own in what is returned only if size_hint was
\* larger than the variable, or if it shrank between the two calls.
LongOnlyIfHintedOrShrunk ==
  result.status = "Ok" /\ Len(result.data) # Len(seen.data) =>
    \/ hint > Len(seen.data)
    \/ sized # None /\ Len(sized.data) > Len(seen.data)

\* get_variable gives up with BUFFER_TOO_SMALL only if the variable grew between
\* the call that told its size and the call that was to fetch it.
TooSmallOnlyIfGrown ==
  result.status = "BUFFER_TOO_SMALL" =>
    sized # None /\ seen # None /\ Len(seen.data) > Len(sized.data)

\* "Do at most two calls to get_variable_unchecked.": the loop ends, however often the
\* variable changes between its calls.
AtMostTwoCalls == calls <= 2

\* Two calls are all that get_variable makes, and they are enough unless the variable
\* grew between them.
TwoCallsSuffice == AtMostTwoCalls /\ TooSmallOnlyIfGrown

=============================================================================
