---------------------------- MODULE NetbufCustody ----------------------------
(***************************************************************************)
(* What a transmit queue promises about packet buffers, and nothing of how  *)
(* it does it: a buffer is allocated on the heap of one core, the queue     *)
(* accepts it or leaves it to its sender, and an accepted buffer stays with *)
(* the queue until the step that frees it.  No step loses a buffer, frees   *)
(* one twice, frees one that it does not hold, or lets go of two at once,   *)
(* but for a reset, which frees all the queue holds.                        *)
(***************************************************************************)
CONSTANTS Cpus, Netbufs, None

VARIABLES
  home,    \* core whose heap a buffer was allocated from, None when it is free
  inRing   \* buffers the queue holds

custody == <<home, inRing>>

Init ==
  /\ home = [nb \in Netbufs |-> None]
  /\ inRing = {}

Freed(nbs) == [nb \in Netbufs |-> IF nb \in nbs THEN None ELSE home[nb]]
WithSender(nb) == home[nb] # None /\ nb \notin inRing

Take(c, nb) ==
  /\ home[nb] = None /\ nb \notin inRing
  /\ home' = [home EXCEPT ![nb] = c]
  /\ UNCHANGED inRing

\* The queue refused the buffer: its sender frees it.
Return(nb) ==
  /\ WithSender(nb)
  /\ home' = Freed({nb})
  /\ UNCHANGED inRing

Accept(nb) ==
  /\ WithSender(nb)
  /\ inRing' = inRing \cup {nb}
  /\ UNCHANGED home

Release(nb) ==
  /\ nb \in inRing
  /\ inRing' = inRing \ {nb}
  /\ home' = Freed({nb})

ReleaseAll == inRing' = {} /\ home' = Freed(inRing)

Next ==
  \/ \E nb \in Netbufs :
       Return(nb) \/ Accept(nb) \/ Release(nb) \/ \E c \in Cpus : Take(c, nb)
  \/ ReleaseAll

Spec == Init /\ [][Next]_custody
=============================================================================
