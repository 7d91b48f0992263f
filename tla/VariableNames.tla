--------------------------- MODULE VariableNames ----------------------------
(***************************************************************************)
(* VariableNameIterator and get_next_variable_name_unchecked: walking the   *)
(* names of the UEFI variables while others create and delete variables.    *)
(*                                                                          *)
(* The iterator keeps two name buffers that it fills and swaps.  A buffer   *)
(* is modelled by the name its characters up to the terminating null spell  *)
(* and by its length; a name stands for the pair of name and namespace.     *)
(***************************************************************************)
EXTENDS Naturals, SequencesExt

CONSTANTS
  Names,       \* names variables may have
  Rank,        \* the firmware's enumeration order of names
  NameLen,     \* length of a name with its null, in characters
  Empty,       \* the empty name: a null character only
  Unknown,     \* characters that spell no variable's name, or have no null
  MaxChanges,  \* bound: creations and deletions of variables
  MaxErrors    \* bound: device errors of the firmware

ASSUME NamesAssumption ==
  /\ Rank \in [Names -> Nat \ {0}]
  /\ \A m, n \in Names : Rank[m] = Rank[n] => m = n
  /\ NameLen \in [Names -> Nat \ {0, 1}]
  /\ Empty \notin Names /\ Unknown \notin Names /\ Empty # Unknown
  /\ MaxChanges \in Nat /\ MaxErrors \in Nat

VARIABLES
  debug_build,       \* TRUE in a debug build; fixed
  service,           \* GetNextVariableName is set in the table; fixed
  present,           \* names of the variables that exist (firmware)
  current, next,     \* the iterator's two VariableIdentifiers
  finished,
  phase,             \* idle, calling (inside the loop) or panicked
  first_try,
  next_name_size,
  start,             \* history: the name the iteration started from
  visited,           \* history: the names advance succeeded with, in order
  stable,            \* history: variables that existed all along
  lost,              \* history: the firmware was asked about a name not there
  scribbled,         \* history: a buffer the firmware wrote over was swapped in
  changes, errors    \* counters for the bounds

others == <<present, stable, changes>>
namesVars == <<debug_build, service, present, current, next, finished, phase, first_try,
               next_name_size, start, visited, stable, lost, scribbled, changes, errors>>

Identifier == [name : Names \cup {Empty, Unknown}, len : Nat]

NamesTypeOK ==
  /\ debug_build \in BOOLEAN /\ service \in BOOLEAN
  /\ present \subseteq Names /\ stable \subseteq present
  /\ current \in Identifier /\ next \in Identifier
  /\ finished \in BOOLEAN
  /\ phase \in {"idle", "calling", "panicked"}
  /\ first_try \in BOOLEAN
  /\ next_name_size \in Nat
  /\ phase = "calling" => next_name_size = next.len
  /\ start \in Names \cup {Empty, Unknown}
  /\ visited \in Seq(Names)
  /\ lost \in BOOLEAN /\ scribbled \in BOOLEAN
  /\ changes \in 0..MaxChanges /\ errors \in 0..MaxErrors

Len0(n) == IF n \in Names THEN NameLen[n] ELSE 1

\* new_from_first (Empty) or new_from_variable.
NamesInit ==
  /\ debug_build \in BOOLEAN /\ service \in BOOLEAN
  /\ present \in SUBSET Names
  /\ start \in Names \cup {Empty, Unknown}
  /\ current = [name |-> start, len |-> Len0(start)]
  /\ next = [name |-> Unknown, len |-> 0]
  /\ finished = FALSE
  /\ phase = "idle"
  /\ first_try = TRUE
  /\ next_name_size = 0
  /\ visited = <<>>
  /\ stable = present
  /\ lost = FALSE /\ scribbled = FALSE
  /\ changes = 0 /\ errors = 0

-----------------------------------------------------------------------------
(* Firmware.                                                               *)

RankOf(n) == IF n \in Names THEN Rank[n] ELSE 0

Known(n) == n = Empty \/ n \in present

Later(n) == {m \in present : Rank[m] > RankOf(n)}

IsNext(m, n) == m \in Later(n) /\ \A k \in Later(n) : Rank[m] <= Rank[k]

\* Other code creates or deletes a variable.
Create(n) ==
  /\ changes < MaxChanges
  /\ n \notin present
  /\ present' = present \cup {n}
  /\ changes' = changes + 1
  /\ UNCHANGED <<debug_build, service, current, next, finished, phase, first_try,
                 next_name_size, start, visited, stable, lost, scribbled, errors>>

Delete(n) ==
  /\ changes < MaxChanges
  /\ n \in present
  /\ present' = present \ {n}
  /\ stable' = stable \ {n}
  /\ changes' = changes + 1
  /\ UNCHANGED <<debug_build, service, current, next, finished, phase, first_try,
                 next_name_size, start, visited, lost, scribbled, errors>>

-----------------------------------------------------------------------------
(* advance, and get_next_variable_name_unchecked inside it.                *)

\* get_next_variable_name_unchecked without an entry in the table; advance takes
\* the NOT_FOUND it returns for the end of the list.
AdvanceMissing ==
  /\ phase = "idle" /\ ~finished
  /\ ~service
  /\ IF debug_build THEN phase' = "panicked" /\ UNCHANGED <<current, next, finished>>
     ELSE phase' = "idle" /\ current' = next /\ next' = current /\ finished' = TRUE
  /\ lost' = TRUE
  /\ UNCHANGED <<debug_build, service, others, first_try, next_name_size, start, visited,
                 scribbled, errors>>

Larger(a, b) == IF a < b THEN b ELSE a

\* Mutant: the previous name is copied only when the buffer had to grow.
AdvanceCopiesIfGrown ==
  /\ phase = "idle" /\ ~finished
  /\ service
  /\ phase' = "calling"
  /\ next' = [name |-> IF next.len < current.len THEN current.name ELSE next.name,
              len |-> Larger(next.len, current.len)]
  /\ next_name_size' = next'.len
  /\ first_try' = TRUE
  /\ UNCHANGED <<debug_build, service, others, current, finished, start, visited, lost,
                 scribbled, errors>>

\* The previous name is copied to the other buffer, which grows if it must.
Advance ==
  /\ phase = "idle" /\ ~finished
  /\ service
  /\ phase' = "calling"
  /\ next' = [name |-> current.name, len |-> Larger(next.len, current.len)]
  /\ next_name_size' = next'.len
  /\ first_try' = TRUE
  /\ UNCHANGED <<debug_build, service, others, current, finished, start, visited, lost,
                 scribbled, errors>>

\* The end of advance: the buffers are swapped, on success and on failure alike.
SwapIn(identifier) ==
  /\ phase' = "idle"
  /\ current' = identifier
  /\ next' = current

\* Success: the firmware has written the name after the one in the buffer.
CallSucceeds(m) ==
  /\ phase = "calling"
  /\ Known(next.name)
  /\ IsNext(m, next.name)
  /\ NameLen[m] <= next_name_size
  /\ next_name_size' = NameLen[m]
  /\ SwapIn([name |-> m, len |-> next.len])
  /\ visited' = Append(visited, m)
  /\ UNCHANGED <<debug_build, service, others, finished, first_try, start, lost,
                 scribbled, errors>>

NameTooSmall(m) ==
  /\ phase = "calling"
  /\ Known(next.name)
  /\ IsNext(m, next.name)
  /\ NameLen[m] > next_name_size

\* Mutant: the buffer is made one character too short.
CallResizesShort(m) ==
  /\ NameTooSmall(m)
  /\ first_try
  /\ first_try' = FALSE
  /\ next_name_size' = NameLen[m]
  /\ next' = [name |-> current.name, len |-> NameLen[m] - 1]
  /\ UNCHANGED <<debug_build, service, others, current, finished, phase, start, visited,
                 lost, scribbled, errors>>

\* Mutant: what the firmware wrote over the buffer is not undone.
CallResizesOnly(m) ==
  /\ NameTooSmall(m)
  /\ first_try
  /\ first_try' = FALSE
  /\ next_name_size' = NameLen[m]
  /\ \E name \in {next.name, Unknown} : next' = [name |-> name, len |-> NameLen[m]]
  /\ UNCHANGED <<debug_build, service, others, current, finished, phase, start, visited,
                 lost, scribbled, errors>>

\* BUFFER_TOO_SMALL, the first time: the buffer is resized and the previous name
\* copied again, as the firmware may have written over it.  The assert!() between
\* the two, that the size asked for is larger than the buffer, holds by NameTooSmall.
CallResizes(m) ==
  /\ NameTooSmall(m)
  /\ first_try
  /\ first_try' = FALSE
  /\ next_name_size' = NameLen[m]
  /\ next' = [name |-> current.name, len |-> NameLen[m]]
  /\ UNCHANGED <<debug_build, service, others, current, finished, phase, start, visited,
                 lost, scribbled, errors>>

\* BUFFER_TOO_SMALL, the second time: an error, with the buffer as it was left.
CallTooSmall(m, name) ==
  /\ NameTooSmall(m)
  /\ ~first_try
  /\ name \in {next.name, Unknown}
  /\ next_name_size' = NameLen[m]
  /\ SwapIn([name |-> name, len |-> next.len])
  /\ scribbled' = (scribbled \/ name # next.name)
  /\ UNCHANGED <<debug_build, service, others, finished, first_try, start, visited, lost,
                 errors>>

\* Mutant: NOT_FOUND is returned, but the iterator does not remember it.
CallNotFoundForgotten ==
  /\ phase = "calling"
  /\ Known(next.name) => Later(next.name) = {}
  /\ SwapIn(next)
  /\ lost' = (lost \/ ~Known(next.name))
  /\ UNCHANGED <<debug_build, service, others, finished, first_try, next_name_size,
                 start, visited, scribbled, errors>>

\* NOT_FOUND: no further name, or no variable of the name in the buffer.
CallNotFound ==
  /\ phase = "calling"
  /\ Known(next.name) => Later(next.name) = {}
  /\ SwapIn(next)
  /\ finished' = TRUE
  /\ lost' = (lost \/ ~Known(next.name))
  /\ UNCHANGED <<debug_build, service, others, first_try, next_name_size, start, visited,
                 scribbled, errors>>

\* INVALID_PARAMETER: the other answer to a name that no variable has.
CallInvalid ==
  /\ phase = "calling"
  /\ ~Known(next.name)
  /\ SwapIn(next)
  /\ lost' = TRUE
  /\ UNCHANGED <<debug_build, service, others, finished, first_try, next_name_size,
                 start, visited, scribbled, errors>>

\* Mutant: a failure of the firmware is taken for the end of the list.
CallErrorEnds ==
  /\ phase = "calling"
  /\ errors < MaxErrors
  /\ errors' = errors + 1
  /\ SwapIn(next)
  /\ finished' = TRUE
  /\ UNCHANGED <<debug_build, service, others, first_try, next_name_size,
                 start, visited, lost, scribbled>>

\* Any other error of the firmware.
CallError ==
  /\ phase = "calling"
  /\ errors < MaxErrors
  /\ errors' = errors + 1
  /\ SwapIn(next)
  /\ UNCHANGED <<debug_build, service, others, finished, first_try, next_name_size,
                 start, visited, lost, scribbled>>

-----------------------------------------------------------------------------

Call ==
  \/ \E m \in Names : CallSucceeds(m) \/ CallResizes(m)
  \/ \E m \in Names, name \in Names \cup {Empty, Unknown} : CallTooSmall(m, name)
  \/ CallNotFound
  \/ CallInvalid
  \/ CallError

NamesNext ==
  \/ \E n \in Names : Create(n) \/ Delete(n)
  \/ AdvanceMissing
  \/ Advance
  \/ Call

NamesSpec == NamesInit /\ [][NamesNext]_namesVars

\* The caller's loop goes on after an error, and the firmware answers.
NamesFairSpec == NamesSpec /\ WF_namesVars(AdvanceMissing \/ Advance) /\ WF_namesVars(Call)

-----------------------------------------------------------------------------

\* No variable is returned twice, and none out of order, whatever is created,
\* deleted, refused or retried on the way.
VisitedAscending ==
  \A i, j \in DOMAIN visited : i < j => Rank[visited[i]] < Rank[visited[j]]

\* The end of the iteration means what the documentation's example ("Iterating
\* through all UEFI variable names") takes it for: every variable that existed
\* all along has been returned, unless the firmware was asked about a name that
\* was deleted, overwritten or unknown, or could not be asked.
CompleteAtEnd ==
  finished /\ ~lost =>
    \A n \in stable : Rank[n] > RankOf(start) => n \in Range(visited)

\* The iterator resumes where it was: after an error the buffer swapped in names
\* the variable returned last.
PositionKept ==
  ~finished /\ ~scribbled =>
    current.name = IF visited = <<>> THEN start ELSE Last(visited)

\* A buffer is never shorter than the name in it: prev_name, copied by its
\* length, always brings its terminating null along.
BufferHoldsName ==
  /\ current.name \in Names => current.len >= NameLen[current.name]
  /\ phase = "calling" /\ next.name \in Names => next.len >= NameLen[next.name]

\* Once variables stop changing the iteration ends, or stays at a name that is gone.
IterationEnds ==
  <>[](finished \/ phase = "panicked" \/ ~Known(current.name))

=============================================================================
