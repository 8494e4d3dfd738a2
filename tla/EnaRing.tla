------------------------------- MODULE EnaRing -------------------------------
(***************************************************************************)
(* One IO ring of the driver (struct ena_ring, include/ena_datapath.h):    *)
(* the request-id pool, the submission and completion queues with their    *)
(* free-running indices and phase bits, the tracking slots, the ring lock, *)
(* and the device's side of the two queues.  The TX and RX paths extend    *)
(* this module with their own operations.                                  *)
(*                                                                         *)
(* The pool is an array used as a FIFO (free_req_ids/head/tail/count); it  *)
(* is kept here as the sequence of the ids between head and tail, so       *)
(* Len(free_req_ids) is free_req_count.                                    *)
(***************************************************************************)
EXTENDS Naturals, Sequences

CONSTANTS
  Cpus,      \* cores that call the driver
  Netbufs,   \* packet buffers
  None,      \* "no core", "no buffer", "no slot": ENA_CPU_ID_NONE, NULL, -1
  Depth,     \* sq_depth = cq_depth
  IdxMod     \* indices are uint16_t: 2^16 in the code

ASSUME NoneAssumption == None \notin Cpus /\ None \notin Netbufs

\* ena_ring_alloc accepts a power of two of at least 4.  What the indices
\* need of it is that masking agrees with counting modulo IdxMod, and that a
\* full queue and an empty one have different indices.
ASSUME DepthAssumption ==
  /\ Depth \in Nat /\ Depth >= 4
  /\ IdxMod \in Nat /\ IdxMod % Depth = 0 /\ IdxMod >= 2 * Depth

VARIABLES
  hw_valid,        \* the hardware queues behind the ring are valid
  ring_lock,       \* None, or the core inside ena_ring_lock .. ena_ring_unlock
  sq_tail, sq_phase,
  cq_head, cq_phase,
  free_req_ids,    \* FIFO of free request ids
  req_allocated, req_in_flight,
  bufs,            \* netbuf held by each request id's tracking slot
  sq_virt,         \* submission descriptors in DMA memory
  cq_virt,         \* completion descriptors in DMA memory
  dev_live,        \* the device has queues for this ring
  dev_sq_db,       \* last tail the SQ doorbell told the device
  dev_sq_head,     \* next descriptor the device fetches
  dev_work,        \* fetched descriptors the device has not completed
  dev_cq_tail, dev_cq_phase

poolVars == <<free_req_ids, req_allocated, req_in_flight, bufs>>
sqVars   == <<sq_tail, sq_phase, sq_virt>>
cqVars   == <<cq_head, cq_phase>>
devVars  == <<dev_live, dev_sq_db, dev_sq_head, dev_work, dev_cq_tail,
              dev_cq_phase>>
ringVars == <<hw_valid, ring_lock, poolVars, sqVars, cqVars, cq_virt, devVars>>

Ids     == 0 .. Depth - 1
Indices == 0 .. IdxMod - 1
Phases  == {0, 1}

\* index & (depth - 1)
Slot(i) == i % Depth
\* index++ on a uint16_t
Succ(i) == (i + 1) % IdxMod
\* if ((index & (depth - 1)) == 0) phase ^= 1, after the increment to i
FlipOnWrap(phase, i) == IF Slot(i) = 0 THEN 1 - phase ELSE phase
\* how far index j is ahead of index i
Ahead(j, i) == (j + IdxMod - i) % IdxMod

\* The pool the allocation and the reset write: every id, in order.
AllIds == [k \in 1 .. Depth |-> k - 1]

\* A ring as ena_ring_alloc leaves it, with its queues created.
RingInit ==
  /\ hw_valid = TRUE
  /\ ring_lock = None
  /\ sq_tail = 0 /\ sq_phase = 1
  /\ cq_head = 0 /\ cq_phase = 1
  /\ free_req_ids = AllIds
  /\ req_allocated = [id \in Ids |-> FALSE]
  /\ req_in_flight = [id \in Ids |-> FALSE]
  /\ bufs = [id \in Ids |-> None]
  /\ sq_virt = [s \in Ids |-> [req_id |-> 0, nb |-> None, phase |-> 0]]
  /\ cq_virt = [s \in Ids |-> [req_id |-> 0, phase |-> 0]]
  /\ dev_live = TRUE
  /\ dev_sq_db = 0 /\ dev_sq_head = 0
  /\ dev_work = {}
  /\ dev_cq_tail = 0 /\ dev_cq_phase = 1

-----------------------------------------------------------------------------
(* The lock *)

Lock(c)   == ring_lock = None /\ ring_lock' = c
Unlock(c) == ring_lock = c /\ ring_lock' = None

(* The request-id pool *)

\* Mutant: the count goes down and the head stays.
ReqIdAllocStuck(id) ==
  /\ free_req_ids # <<>>
  /\ id = Head(free_req_ids)
  /\ free_req_ids' = SubSeq(free_req_ids, 1, Len(free_req_ids) - 1)
  /\ req_allocated' = [req_allocated EXCEPT ![id] = TRUE]

\* ena_ring_req_id_alloc: take the id at the head of the FIFO.
ReqIdAlloc(id) ==
  /\ free_req_ids # <<>>
  /\ id = Head(free_req_ids)
  /\ free_req_ids' = Tail(free_req_ids)
  /\ req_allocated' = [req_allocated EXCEPT ![id] = TRUE]

\* The release is idempotent and refuses to overfill the pool.
Releasable(id) == req_allocated[id] /\ Len(free_req_ids) < Depth

\* ena_ring_req_id_free: put the id at the tail of the FIFO and clear its
\* tracking slot.  The caller has already taken the netbuf out of the slot.
ReqIdFree(id) ==
  /\ free_req_ids' = IF Releasable(id) THEN Append(free_req_ids, id)
                                       ELSE free_req_ids
  /\ req_allocated' = IF Releasable(id)
                      THEN [req_allocated EXCEPT ![id] = FALSE]
                      ELSE req_allocated
  /\ bufs' = [bufs EXCEPT ![id] = None]

(* The queues *)

\* Write a descriptor at the tail and advance the tail.
SqPush(id, nb) ==
  /\ sq_virt' = [sq_virt EXCEPT ![Slot(sq_tail)] =
                   [req_id |-> id, nb |-> nb, phase |-> sq_phase]]
  /\ sq_tail' = Succ(sq_tail)
  /\ sq_phase' = FlipOnWrap(sq_phase, Succ(sq_tail))

\* The completion at the head is new when its phase is the expected one.
\* Mutant: completions are taken to come in submission order.
CdescInOrder == [cq_virt[Slot(cq_head)] EXCEPT !.req_id = Slot(cq_head)]
Cdesc == cq_virt[Slot(cq_head)]
CdescReady == Cdesc.phase = cq_phase

\* Mutant: the expected phase is not flipped at the wrap.
CqAdvanceNoFlip == cq_head' = Succ(cq_head) /\ UNCHANGED cq_phase

CqAdvance ==
  /\ cq_head' = Succ(cq_head)
  /\ cq_phase' = FlipOnWrap(cq_phase, Succ(cq_head))

\* Mutant: the ownership marks survive the reset of the pool.
FreshMarksKept == UNCHANGED <<req_in_flight, req_allocated>>

FreshMarks ==
  /\ req_in_flight' = [id \in Ids |-> FALSE]
  /\ req_allocated' = [id \in Ids |-> FALSE]

MarkInvalid == hw_valid' = FALSE

\* ena_ring_reset_sw_state: everything but the DMA memory goes back to its
\* first value.  The netbufs the slots hold are released by the caller's
\* buffer accounting.
ResetSwState ==
  /\ MarkInvalid
  /\ sq_tail' = 0 /\ sq_phase' = 1
  /\ cq_head' = 0 /\ cq_phase' = 1
  /\ bufs' = [id \in Ids |-> None]
  /\ free_req_ids' = AllIds /\ FreshMarks
  /\ UNCHANGED <<sq_virt, cq_virt>>

-----------------------------------------------------------------------------
(* The device *)

\* The device fetches the next published descriptor.  It takes no tail that
\* lies more than one queue ahead of its head.
DevFetch ==
  /\ dev_live /\ dev_sq_head # dev_sq_db
  /\ Ahead(dev_sq_db, dev_sq_head) <= Depth
  /\ LET d == sq_virt[Slot(dev_sq_head)] IN
       dev_work' = dev_work \cup {[req_id |-> d.req_id, nb |-> d.nb]}
  /\ dev_sq_head' = Succ(dev_sq_head)
  /\ UNCHANGED <<dev_live, dev_sq_db, dev_cq_tail, dev_cq_phase, cq_virt>>

\* The device writes a completion at its own tail with its own phase.
DevPost(id) ==
  /\ cq_virt' = [cq_virt EXCEPT ![Slot(dev_cq_tail)] =
                   [req_id |-> id, phase |-> dev_cq_phase]]
  /\ dev_cq_tail' = Succ(dev_cq_tail)
  /\ dev_cq_phase' = FlipOnWrap(dev_cq_phase, Succ(dev_cq_tail))
  /\ UNCHANGED <<dev_live, dev_sq_db, dev_sq_head>>

\* It completes fetched descriptors in any order.
DevComplete ==
  \E w \in dev_work :
    /\ dev_live
    /\ dev_work' = dev_work \ {w}
    /\ DevPost(w.req_id)

\* A device reset deletes the queues; CREATE_CQ and CREATE_SQ make new ones
\* that start at index 0 with phase 1.
DevReset ==
  /\ dev_live' = FALSE /\ dev_work' = {}
  /\ UNCHANGED <<dev_sq_db, dev_sq_head, dev_cq_tail, dev_cq_phase>>

DevCreate ==
  /\ dev_live' = TRUE /\ dev_work' = {}
  /\ dev_sq_db' = 0 /\ dev_sq_head' = 0
  /\ dev_cq_tail' = 0 /\ dev_cq_phase' = 1

\* Request ids of the descriptors the driver wrote and the device has not
\* completed: those it has fetched and those between its head and the tail.
Unfetched == {Slot(dev_sq_head + k) : k \in 0 .. Ahead(sq_tail, dev_sq_head) - 1}
DeviceHolds(id) ==
  \/ \E w \in dev_work : w.req_id = id
  \/ \E s \in Unfetched : sq_virt[s].req_id = id

-----------------------------------------------------------------------------
(* The type of the ring's state, and what the pool always satisfies.       *)

RingTypeOK ==
  /\ hw_valid \in BOOLEAN
  /\ ring_lock \in Cpus \cup {None}
  /\ sq_tail \in Indices /\ sq_phase \in Phases
  /\ cq_head \in Indices /\ cq_phase \in Phases
  /\ free_req_ids \in Seq(Ids)
  /\ req_allocated \in [Ids -> BOOLEAN]
  /\ req_in_flight \in [Ids -> BOOLEAN]
  /\ bufs \in [Ids -> Netbufs \cup {None}]
  /\ sq_virt \in [Ids -> [req_id : Ids, nb : Netbufs \cup {None},
                          phase : Phases]]
  /\ cq_virt \in [Ids -> [req_id : 0 .. Depth, phase : Phases]]
  /\ dev_live \in BOOLEAN
  /\ dev_sq_db \in Indices /\ dev_sq_head \in Indices
  /\ dev_work \subseteq [req_id : Ids, nb : Netbufs \cup {None}]
  /\ dev_cq_tail \in Indices /\ dev_cq_phase \in Phases

\* A request id is in the free pool exactly when it is not checked out, and
\* it is there once: no id can be handed to two requests, none is lost.
PoolPartition ==
  /\ \A i, j \in 1 .. Len(free_req_ids) :
       i # j => free_req_ids[i] # free_req_ids[j]
  /\ \A i \in 1 .. Len(free_req_ids) : ~ req_allocated[free_req_ids[i]]
  /\ \A id \in Ids : \/ req_allocated[id]
                     \/ \E i \in 1 .. Len(free_req_ids) : free_req_ids[i] = id
=============================================================================
