---------------------------- MODULE MCProtocols -----------------------------
(* Three interfaces, two handles, two protocols, a marker and a configuration    *)
(* table: stale keys, and keys the program made itself, are tried at the right   *)
(* place and at the wrong handle or protocol.                                    *)
EXTENDS Protocols, TLC

CONSTANTS h1, h2, g1, g2, tag, table, o1, o2, o3

MCHandles == {h1, h2}
MCGuids == {g1, g2}
MCMarkers == {tag}
MCTables == {table}
MCObjects == {o1, o2, o3}
Symmetry == Permutations(MCHandles) \cup Permutations(MCGuids) \cup Permutations(MCObjects)

=============================================================================
