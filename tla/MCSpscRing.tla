---------------------------- MODULE MCSpscRing -----------------------------
(* A ring of four slots and two distinguishable messages: the indices wrap *)
(* and the ring fills.                                                     *)
EXTENDS SpscRing

(* The code masks with Depth - 1, a power of two minus one.                *)
ASSUME MaskIsModulo == \A x \in 0 .. (2 * Depth - 1) : Wrap(x) = x % Depth
=============================================================================
