------------------------------- MODULE EnaIntr -------------------------------
(***************************************************************************)
(* The MSI-X interrupts of one queue pair (src/ena_intr.c, and the arming   *)
(* of src/ena_plat.c): the vector table of the driver, the vectors of the   *)
(* interrupt controller, and what the device does with them.  Vector 0      *)
(* reports admin events, vector v > 0 the completions of queue v - 1, to    *)
(* the core that polls the queue.  The module has no specification of its   *)
(* own: McWorker composes it with the worker that polls queue Q.            *)
(***************************************************************************)
EXTENDS Naturals, FiniteSets

CONSTANTS
  Q,                      \* the queue pair, and the core that polls it
  DeviceVectors,          \* vector counts the capability may report
  ENA_MAX_MSIX_VECTORS

ASSUME IntrAssumption ==
  /\ Q \in Nat /\ DeviceVectors \subseteq Nat
  /\ ENA_MAX_MSIX_VECTORS \in Nat \ {0}

VARIABLES
  setup,        \* ena_intr_setup: where it is, and the vector it is at
  num_irq_vectors, \* length of adapter->irq_vectors, 0 when there is none
  masked,       \* vectors whose masked flag is set
  intr_mask,    \* bit 0 of the device's INTR_MASK register
  registered,   \* vectors that hold an interrupt and a handler
  armed,        \* s_msix.armed: the capability is enabled
  unmask_db,    \* CREATE_CQ reported an unmask register for the queue
  cq_masked,    \* the device holds the interrupt of the queue back
  msi           \* an interrupt of the queue waits for the core to take it

intrVars == <<setup, num_irq_vectors, masked, intr_mask, registered, armed,
              unmask_db, cq_masked, msi>>

IntrInit ==
  /\ setup = [at |-> "probe", i |-> 0]
  /\ num_irq_vectors = 0 /\ masked = {} /\ intr_mask = 1
  /\ registered = {} /\ armed = FALSE
  /\ unmask_db \in BOOLEAN /\ cq_masked = FALSE /\ msi = FALSE

\* The device signals completions that wait when the queue is unmasked, and
\* masks the queue with every interrupt it sends.
Signal(waiting) ==
  IF waiting /\ armed THEN msi' = TRUE /\ cq_masked' = TRUE
                      ELSE cq_masked' = FALSE /\ UNCHANGED msi

\* A completion is posted.
Posted ==
  IF armed /\ ~cq_masked THEN msi' = TRUE /\ cq_masked' = TRUE
                         ELSE UNCHANGED <<msi, cq_masked>>

-----------------------------------------------------------------------------
(* ena_intr_mask_vector, ena_intr_unmask_vector *)

\* A set of vectors: vector 0 has a register of the device, an IO vector the
\* unmask register of its queue.
UnmaskVectors(vs, waiting) ==
  LET mine == vs \cap 0 .. num_irq_vectors - 1 IN
  /\ masked' = masked \ mine
  /\ intr_mask' = IF 0 \in mine THEN 0 ELSE intr_mask
  /\ IF Q + 1 \in mine /\ unmask_db THEN Signal(waiting)
                                    ELSE UNCHANGED <<msi, cq_masked>>

\* msix_tramp and msix_on_fire: the core takes the interrupt of its queue and
\* unmasks it again; it consumes nothing.
\* Mutant: the handler leaves the queue masked.
OnFireNoUnmask(waiting) ==
  /\ msi /\ msi' = FALSE
  /\ UNCHANGED <<setup, num_irq_vectors, masked, intr_mask, registered, armed,
                 unmask_db, cq_masked>>
OnFire(waiting) ==
  /\ msi
  /\ IF Q + 1 < num_irq_vectors /\ unmask_db
     THEN /\ msi' = waiting /\ cq_masked' = waiting
          /\ masked' = masked \ {Q + 1}
     ELSE msi' = FALSE /\ UNCHANGED <<cq_masked, masked>>
  /\ UNCHANGED <<setup, num_irq_vectors, intr_mask, registered, armed, unmask_db>>

\* ena_netdev_rearm_cq_intr
RearmCq(waiting) ==
  /\ UnmaskVectors(IF Q + 1 < num_irq_vectors THEN {Q + 1} ELSE {}, waiting)
  /\ UNCHANGED <<setup, num_irq_vectors, registered, armed, unmask_db>>

-----------------------------------------------------------------------------
(* ena_intr_setup *)

Goto(at, i) == setup' = [at |-> at, i |-> i]

\* ena_plat_msix_probe: the vectors of the capability, 0 when there is none.
Probed == DeviceVectors

\* ena_intr_msix_init: a table of n vectors, all masked; the setup unmasks the
\* admin vector at once.
MsixInit(n) ==
  /\ num_irq_vectors' = n
  /\ masked' = 1 .. n - 1
  /\ intr_mask' = 0

\* Without vectors, or without memory for the table, the driver polls.
SetupProbe ==
  /\ setup.at = "probe"
  /\ \/ \E count \in Probed \ {0} :
          /\ MsixInit(IF count > ENA_MAX_MSIX_VECTORS THEN ENA_MAX_MSIX_VECTORS
                                                     ELSE count)
          /\ Goto("find", 0)
     \/ Goto("done", 0) /\ UNCHANGED <<num_irq_vectors, masked, intr_mask>>
  /\ UNCHANGED <<registered, armed, unmask_db, cq_masked, msi>>

\* msix_find: the BAR that holds the vector table has an address, or not.
SetupFind ==
  /\ setup.at = "find"
  /\ \E at \in {"arm", "fini"} : Goto(at, 0)
  /\ UNCHANGED <<num_irq_vectors, masked, intr_mask, registered, armed, unmask_db,
                 cq_masked, msi>>

\* ena_plat_msix_arm, one vector: an interrupt and its handler.
SetupVector ==
  /\ setup.at = "arm" /\ setup.i < num_irq_vectors
  /\ \/ /\ registered' = registered \cup {setup.i}
        /\ Goto("arm", setup.i + 1)
     \/ Goto("unroll", setup.i) /\ UNCHANGED registered
  /\ UNCHANGED <<num_irq_vectors, masked, intr_mask, armed, unmask_db,
                 cq_masked, msi>>

\* All vectors have a handler: the capability is enabled.
SetupArmed ==
  /\ setup.at = "arm" /\ setup.i = num_irq_vectors
  /\ armed' = TRUE
  /\ Goto("done", 0)
  /\ UNCHANGED <<num_irq_vectors, masked, intr_mask, registered, unmask_db,
                 cq_masked, msi>>

\* Mutant: the vector before the one that failed is passed over.
UnrollFromPassed(i) == i - 2
\* The first vector to release: the one before the one that failed.
UnrollFrom(i) == i - 1

\* err_free releases the vectors downwards.
SetupUnroll ==
  /\ setup.at = "unroll"
  /\ registered' = {v \in registered : v > UnrollFrom(setup.i)}
  /\ Goto("fini", 0)
  /\ UNCHANGED <<num_irq_vectors, masked, intr_mask, armed, unmask_db,
                 cq_masked, msi>>

\* ena_intr_mask_all: of the masks only that of vector 0 is a register.
MaskAll == intr_mask' = IF num_irq_vectors > 0 THEN 1 ELSE intr_mask

\* ena_intr_msix_fini: the vectors are masked and the table is dropped.  (The
\* capability was never enabled, so there is nothing to disarm.)
SetupFini ==
  /\ setup.at = "fini"
  /\ MaskAll
  /\ num_irq_vectors' = 0 /\ masked' = {}
  /\ Goto("done", 0)
  /\ UNCHANGED <<registered, armed, unmask_db, cq_masked, msi>>

Setup == \/ SetupProbe \/ SetupFind \/ SetupVector \/ SetupArmed
         \/ SetupUnroll \/ SetupFini

-----------------------------------------------------------------------------

\* However far the arming got before a vector could not be had, the setup ends
\* with everything in place (a handler for every vector, the capability on, the
\* admin vector unmasked) or with nothing left behind (ena_intr_setup,
\* ena_plat_msix_arm, ena_intr_msix_fini).
SetupAllOrNothing ==
  setup.at = "done" =>
    \/ /\ armed /\ num_irq_vectors > 0 /\ intr_mask = 0
       /\ registered = 0 .. num_irq_vectors - 1
    \/ ~armed /\ num_irq_vectors = 0 /\ registered = {} /\ intr_mask = 1
=============================================================================
