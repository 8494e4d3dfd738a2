-------------------------------- MODULE MCTx ---------------------------------
(* Instances of the transmit path for TLC. *)
EXTENDS EnaTx, TLC

CONSTANTS c1, c2, n1, n2, n3, n4, n5, b1, b2

\* Netbufs and bounce slots are interchangeable, and so are the cores when
\* all of them have the same roles.
DataSymmetry == Permutations(Netbufs) \cup Permutations(BounceSlots)
FullSymmetry == DataSymmetry \cup Permutations(Cpus)
=============================================================================
