--------------------------- MODULE MCVariableNames --------------------------
(* Three names, so that a longer and a shorter one can follow, be created and *)
(* be deleted before, at and after the iterator's position.                   *)
EXTENDS VariableNames

CONSTANTS boot, lang, time

MCNames == {boot, lang, time}
MCRank == [n \in MCNames |-> IF n = boot THEN 1 ELSE IF n = lang THEN 2 ELSE 3]
MCNameLen == [n \in MCNames |-> IF n = boot THEN 3 ELSE IF n = lang THEN 2 ELSE 4]

=============================================================================
