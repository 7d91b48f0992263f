-------------------------- MODULE MCVariableAccess --------------------------
(* A variable of one to three bytes that can grow, shrink, change in place   *)
(* and disappear; hints below, at and above its size.                        *)
EXTENDS VariableAccess

MCData == {<<1>>, <<2, 3>>, <<4, 5>>, <<6, 7, 8>>}
MCAttributes == {1, 7}
MCHints == {0, 1, 2, 4}

=============================================================================
