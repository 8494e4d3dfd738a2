--------------------------------- MODULE MCRx ---------------------------------
EXTENDS EnaRx, TLC

\* Netbufs of one kind, and bounce slots, are interchangeable.
Symmetry ==
  Permutations(LowNetbufs) \cup Permutations(Netbufs \ LowNetbufs)
    \cup Permutations(BounceSlots)
=============================================================================
