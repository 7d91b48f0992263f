----------------------------- MODULE MCBootPool -----------------------------
(* Two buffers, two handles and two descriptors at most; a call's buffer may *)
(* be allocated between another box's drop and its own second call.            *)
EXTENDS BootPool, TLC

CONSTANTS p1, p2

MCAddresses == {p1, p2}
Symmetry == Permutations(MCAddresses)

=============================================================================
