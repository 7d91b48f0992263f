------------------------------- MODULE Words --------------------------------
(* Powers of two, for the shifts and masks of uefi_decompress.             *)
EXTENDS Naturals

\* 1 << n
Pow2[n \in Nat] == IF n = 0 THEN 1 ELSE 2 * Pow2[n - 1]

=============================================================================
