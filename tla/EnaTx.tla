-------------------------------- MODULE EnaTx --------------------------------
(***************************************************************************)
(* The transmit path of one queue (src/ena_tx.c, the transmit half of      *)
(* src/ena_netdev.c), called by several cores at once, with the device and *)
(* the reset-and-recover path of src/ena_admin.c.                          *)
(*                                                                         *)
(* A call runs as steps of its core: the checks a function makes before it *)
(* takes the ring lock, its critical section, and what it does after the   *)
(* unlock are separate steps, because another core may run between them.   *)
(* The poll loop takes one step per deferred release and per completion.   *)
(***************************************************************************)
EXTENDS EnaRing

CONSTANTS
  Senders,      \* cores that transmit on the queue
  Resetters,    \* cores that may run the recovery path
  BounceSlots,  \* slots of the TX bounce pool (nb_desc of them in the code)
  Budget,       \* completions one poll may clean
  MaxSends, MaxResets, MaxSpurious   \* bounds on the explored behaviours

ASSUME TxAssumption ==
  /\ Senders \subseteq Cpus /\ Resetters \subseteq Cpus
  /\ None \notin BounceSlots
  /\ Budget \in Nat \ {0}
  /\ MaxSends \in Nat /\ MaxResets \in Nat /\ MaxSpurious \in Nat

VARIABLES
  tx_owner_cpu,     \* core of the last submit
  tx_foreign,       \* deferred releases: sequence of [req_id, owner_cpu]
  bounce_free,      \* free bounce slots
  bounce_map,       \* bounce slot of each request id
  recover_active,   \* a core is inside ena_adapter_reset_and_recover
  pc,               \* where each core is
  pkt,              \* netbuf a core is sending and still owns
  slot,             \* bounce slot the core took for it
  req_id,           \* request id the submit returned
  db_val,           \* tail loaded by ena_tx_doorbell
  cleaned,          \* completions cleaned in this lock hold
  home,             \* core whose heap a netbuf was allocated from, or None
  sends, resets, spurious

coreVars == <<pkt, slot, req_id, db_val>>
txVars   == <<tx_owner_cpu, tx_foreign>>
bounceVars == <<bounce_free, bounce_map>>
boundVars  == <<sends, resets, spurious>>
vars == <<ringVars, txVars, bounceVars, recover_active, pc, coreVars, cleaned,
          home, boundVars>>

Init ==
  /\ RingInit
  /\ tx_owner_cpu = None
  /\ tx_foreign = <<>>
  /\ bounce_free = BounceSlots
  /\ bounce_map = [id \in Ids |-> None]
  /\ recover_active = FALSE
  /\ pc = [c \in Cpus |-> "idle"]
  /\ pkt = [c \in Cpus |-> None]
  /\ slot = [c \in Cpus |-> None]
  /\ req_id = [c \in Cpus |-> None]
  /\ db_val = [c \in Cpus |-> 0]
  /\ cleaned = 0
  /\ home = [nb \in Netbufs |-> None]
  /\ sends = 0 /\ resets = 0 /\ spurious = 0

Goto(c, from, to) == pc[c] = from /\ pc' = [pc EXCEPT ![c] = to]

-----------------------------------------------------------------------------
(* ena_tx_poll_completions *)

\* A poll that belongs to no transmit: the receive path reaps its queue's
\* completions, stop drains every queue.
CallPoll(c) ==
  /\ Goto(c, "idle", "poll")
  /\ UNCHANGED <<ringVars, txVars, bounceVars, recover_active, coreVars,
                 cleaned, home, boundVars>>

\* Where the core goes on after the poll returns.
AfterPoll(c) == IF pkt[c] = None THEN "idle" ELSE "send"

\* Mutant: a queue with one request outstanding counts as idle.
OutstandingLate == Len(free_req_ids) < Depth - 1
Outstanding == Len(free_req_ids) < Depth

\* Two early returns before the lock: the ring is invalid, or every request
\* id is in the pool.
PollSkip(c) ==
  /\ ~ (hw_valid /\ Outstanding)
  /\ Goto(c, "poll", AfterPoll(c))
  /\ UNCHANGED <<ringVars, txVars, bounceVars, recover_active, coreVars,
                 cleaned, home, boundVars>>

PollEnter(c) ==
  /\ hw_valid /\ Outstanding
  /\ Goto(c, "poll", "pollLock")
  /\ UNCHANGED <<ringVars, txVars, bounceVars, recover_active, coreVars,
                 cleaned, home, boundVars>>

PollLock(c) ==
  /\ Goto(c, "pollLock", "reap")
  /\ Lock(c)
  /\ UNCHANGED <<hw_valid, poolVars, sqVars, cqVars, cq_virt, devVars, txVars,
                 bounceVars, recover_active, coreVars, cleaned, home,
                 boundVars>>

\* The scan of the deferred releases meets its next entry at the first
\* position that belongs to the polling core.
NextForeign(c, i) ==
  /\ tx_foreign[i].owner_cpu = c
  /\ \A j \in 1 .. i - 1 : tx_foreign[j].owner_cpu # c

\* The last entry takes the place of entry i.
DropForeign(i) ==
  [j \in 1 .. Len(tx_foreign) - 1 |->
     IF j = i THEN tx_foreign[Len(tx_foreign)] ELSE tx_foreign[j]]

\* ena_tx_drain_foreign_frees, one entry.
DrainOne(c) ==
  \E i \in 1 .. Len(tx_foreign) :
    LET id == tx_foreign[i].req_id IN
      /\ pc[c] = "reap"
      /\ NextForeign(c, i)
      /\ home' = [nb \in Netbufs |-> IF nb = bufs[id] THEN None ELSE home[nb]]
      /\ ReqIdFree(id)
      /\ tx_foreign' = DropForeign(i)
      /\ UNCHANGED <<hw_valid, ring_lock, req_in_flight, sqVars, cqVars,
                     cq_virt, devVars, tx_owner_cpu, bounceVars,
                     recover_active, pc, coreVars, cleaned, boundVars>>

\* The drain comes before the loop.  The loop cannot give it new work: it
\* only defers buffers of other cores.
Drained(c) == \A i \in 1 .. Len(tx_foreign) : tx_foreign[i].owner_cpu # c

\* The loop runs while the budget lasts and the head holds a new completion
\* with a request id of this ring.
Reaping(c) ==
  /\ pc[c] = "reap" /\ Drained(c)
  /\ cleaned < Budget /\ CdescReady /\ Cdesc.req_id \in Ids

\* A completion whose request is not in flight is skipped.
ReapStale(c) ==
  /\ Reaping(c) /\ ~ req_in_flight[Cdesc.req_id]
  /\ CqAdvance
  /\ UNCHANGED <<hw_valid, ring_lock, poolVars, sqVars, cq_virt, devVars,
                 txVars, bounceVars, recover_active, pc, coreVars, cleaned,
                 home, boundVars>>

\* Mutant: the slot is unmapped and not pushed back.
ReclaimSlotLost(id) ==
  bounce_map' = [bounce_map EXCEPT ![id] = None] /\ UNCHANGED bounce_free

\* tx_complete_cb = ena_netdev_txq_reclaim_slot: the request's bounce slot
\* goes back to the pool.
ReclaimSlot(id) ==
  /\ bounce_map' = [bounce_map EXCEPT ![id] = None]
  /\ bounce_free' = IF bounce_map[id] = None
                    THEN bounce_free ELSE bounce_free \cup {bounce_map[id]}

\* Mutant: the polling core is not compared with the owner.
StagesNever(c, id) == FALSE

\* ena_tx_stage_foreign_free queues the buffer unless the slot is empty or
\* the array is full.
Stages(c, id) ==
  c # tx_owner_cpu /\ bufs[id] # None /\ Len(tx_foreign) < Depth

\* The array was full: the slot loses its buffer and nobody frees it.
StageDrops(c, id) ==
  c # tx_owner_cpu /\ bufs[id] # None /\ Len(tx_foreign) >= Depth

\* The deferred release remembers the core of the last submit; the request
\* keeps its id and its buffer.
StageForeign(id) ==
  /\ tx_foreign' = Append(tx_foreign, [req_id |-> id,
                                       owner_cpu |-> tx_owner_cpu])
  /\ UNCHANGED <<free_req_ids, req_allocated, bufs, home>>

\* The completion of a request in flight.  The core that sent last frees the
\* buffer and returns the id; any other core queues the buffer for the owner
\* and the id stays out of the pool.
ReapOne(c) ==
  LET id == Cdesc.req_id IN
    /\ Reaping(c) /\ req_in_flight[id]
    /\ req_in_flight' = [req_in_flight EXCEPT ![id] = FALSE]
    /\ ReclaimSlot(id)
    /\ IF Stages(c, id)
       THEN StageForeign(id)
       ELSE /\ home' = [nb \in Netbufs |->
                          IF nb = bufs[id] /\ ~ StageDrops(c, id)
                          THEN None ELSE home[nb]]
            /\ ReqIdFree(id)
            /\ UNCHANGED tx_foreign
    /\ CqAdvance
    /\ cleaned' = cleaned + 1
    /\ UNCHANGED <<hw_valid, ring_lock, sqVars, cq_virt, devVars,
                   tx_owner_cpu, recover_active, pc, coreVars, boundVars>>

PollUnlock(c) ==
  /\ Drained(c) /\ ~ Reaping(c)
  /\ Goto(c, "reap", AfterPoll(c))
  /\ Unlock(c)
  /\ cleaned' = 0
  /\ UNCHANGED <<hw_valid, poolVars, sqVars, cqVars, cq_virt, devVars, txVars,
                 bounceVars, recover_active, coreVars, home, boundVars>>

-----------------------------------------------------------------------------
(* ena_netdev_tx_one *)

\* The stack allocates a netbuf on its own core's heap and sends it.  The
\* call polls completions first.
TxOne(c, nb) ==
  /\ c \in Senders /\ home[nb] = None /\ sends < MaxSends
  /\ Goto(c, "idle", "poll")
  /\ home' = [home EXCEPT ![nb] = c]
  /\ pkt' = [pkt EXCEPT ![c] = nb]
  /\ sends' = sends + 1
  /\ UNCHANGED <<ringVars, txVars, bounceVars, recover_active, slot, req_id,
                 db_val, cleaned, resets, spurious>>

\* A send that fails gives the bounce slot back; the packet stays with the
\* caller, which frees it on its own core.
SendFails(c) ==
  /\ pc' = [pc EXCEPT ![c] = "idle"]
  /\ bounce_free' = IF slot[c] = None
                    THEN bounce_free ELSE bounce_free \cup {slot[c]}
  /\ slot' = [slot EXCEPT ![c] = None]
  /\ pkt' = [pkt EXCEPT ![c] = None]
  /\ home' = [home EXCEPT ![pkt[c]] = None]
  /\ UNCHANGED <<ringVars, txVars, bounce_map, recover_active, req_id, db_val,
                 cleaned, boundVars>>

\* A packet in low memory that finds no free slot (-EBUSY) or does not fit
\* one (-EINVAL), and any packet that ena_tx_submit finds the ring invalid
\* for (-ENODEV).
SendRefused(c) == pc[c] = "send" /\ SendFails(c)

\* A packet above the low-memory limit is sent from its own buffer.  It
\* passes the check ena_tx_submit makes before it takes the lock.
SendDirect(c) ==
  /\ hw_valid
  /\ Goto(c, "send", "submit")
  /\ UNCHANGED <<ringVars, txVars, bounceVars, recover_active, coreVars,
                 cleaned, home, boundVars>>

\* A packet in low memory is copied to a bounce slot first.
SendBounced(c) ==
  \E s \in bounce_free :
    /\ hw_valid
    /\ Goto(c, "send", "submit")
    /\ slot' = [slot EXCEPT ![c] = s]
    /\ bounce_free' = bounce_free \ {s}
    /\ UNCHANGED <<ringVars, txVars, bounce_map, recover_active, pkt, req_id,
                   db_val, cleaned, home, boundVars>>

(* ena_tx_submit, after that check *)

\* The critical section found no free request id.
SubmitBusy(c) ==
  pc[c] = "submit" /\ ring_lock = None /\ free_req_ids = <<>> /\ SendFails(c)

\* The critical section: take an id, record the netbuf, write the descriptor
\* and remember the core.
Submit(c) ==
  \E id \in Ids :
    /\ Goto(c, "submit", "doorbell")
    /\ ring_lock = None
    /\ ReqIdAlloc(id)
    /\ req_in_flight' = [req_in_flight EXCEPT ![id] = TRUE]
    /\ bufs' = [bufs EXCEPT ![id] = pkt[c]]
    /\ SqPush(id, pkt[c])
    /\ tx_owner_cpu' = c
    /\ req_id' = [req_id EXCEPT ![c] = id]
    /\ pkt' = [pkt EXCEPT ![c] = None]
    /\ UNCHANGED <<hw_valid, ring_lock, cqVars, cq_virt, devVars, tx_foreign,
                   bounceVars, recover_active, slot, db_val, cleaned, home,
                   boundVars>>

\* The value ena_tx_doorbell writes: the free-running tail.
PublishedTail == sq_tail

\* ena_tx_doorbell runs after the unlock: it checks the ring and loads the
\* tail, and then writes the register.
Doorbell(c) ==
  /\ Goto(c, "doorbell", IF hw_valid THEN "dbWrite" ELSE "map")
  /\ db_val' = IF hw_valid THEN [db_val EXCEPT ![c] = PublishedTail] ELSE db_val
  /\ UNCHANGED <<ringVars, txVars, bounceVars, recover_active, pkt, slot,
                 req_id, cleaned, home, boundVars>>

\* A reset that came in between cleared sq_db: the write reaches the register
\* only if the pointer was loaded before.  A device without queues ignores it.
DoorbellWrite(c) ==
  /\ Goto(c, "dbWrite", "map")
  /\ \/ dev_live /\ dev_sq_db' = db_val[c]
     \/ ~ (hw_valid /\ dev_live) /\ UNCHANGED dev_sq_db
  /\ db_val' = [db_val EXCEPT ![c] = 0]
  /\ UNCHANGED <<hw_valid, ring_lock, poolVars, sqVars, cqVars, cq_virt,
                 dev_live, dev_sq_head, dev_work, dev_cq_tail, dev_cq_phase,
                 txVars, bounceVars, recover_active, pkt, slot, req_id,
                 cleaned, home, boundVars>>

\* Back in ena_netdev_tx_one: the bounce slot is tied to the request id.
MapSlot(c) ==
  /\ Goto(c, "map", "idle")
  /\ bounce_map' = IF slot[c] = None
                   THEN bounce_map
                   ELSE [bounce_map EXCEPT ![req_id[c]] = slot[c]]
  /\ slot' = [slot EXCEPT ![c] = None]
  /\ req_id' = [req_id EXCEPT ![c] = None]
  /\ UNCHANGED <<ringVars, txVars, bounce_free, recover_active, pkt, db_val,
                 cleaned, home, boundVars>>

-----------------------------------------------------------------------------
(* ena_adapter_reset_and_recover, as far as this ring is concerned *)

\* A fatal event or a command timeout starts a recovery unless one is
\* running.  The flag is tested and set with no lock held.
RecoverBegin(c) ==
  /\ c \in Resetters /\ ~ recover_active /\ resets < MaxResets
  /\ Goto(c, "idle", "recover")
  /\ resets' = resets + 1
  /\ UNCHANGED <<ringVars, txVars, bounceVars, recover_active, coreVars,
                 cleaned, home, sends, spurious>>

RecoverMark(c) ==
  /\ Goto(c, "recover", "invalidate")
  /\ recover_active' = TRUE
  /\ UNCHANGED <<ringVars, txVars, bounceVars, coreVars, cleaned, home,
                 boundVars>>

InvalidateLock(c) ==
  /\ Goto(c, "invalidate", "resetSw")
  /\ Lock(c)
  /\ UNCHANGED <<hw_valid, poolVars, sqVars, cqVars, cq_virt, devVars, txVars,
                 bounceVars, recover_active, coreVars, cleaned, home,
                 boundVars>>

\* Mutant: the slots are cleared and their netbufs forgotten.
DropSlotsLeaks == UNCHANGED home

\* The reset gives every netbuf its slots hold to the drop callback, which
\* frees it.
DropSlots ==
  home' = [nb \in Netbufs |->
             IF \E id \in Ids : bufs[id] = nb THEN None ELSE home[nb]]

\* Mutant: the deferred releases survive the reset.
ClearForeignForgotten == UNCHANGED tx_foreign

\* The deferred releases pointed at the same slots: they are forgotten.
ClearForeign == tx_foreign' = <<>>

\* ena_adapter_invalidate_io_rings: the ring goes back to its fresh state and
\* the netbufs in its slots are freed.
Invalidate(c) ==
  /\ Goto(c, "resetSw", "devReset")
  /\ Unlock(c)
  /\ ResetSwState /\ DropSlots /\ ClearForeign
  /\ UNCHANGED <<devVars, tx_owner_cpu, bounceVars, recover_active, coreVars,
                 cleaned, boundVars>>

\* ena_device_reset and ena_device_wait_reset_complete.
ResetDevice(c) ==
  /\ Goto(c, "devReset", "createHw")
  /\ DevReset
  /\ UNCHANGED <<hw_valid, ring_lock, poolVars, sqVars, cqVars, cq_virt,
                 txVars, bounceVars, recover_active, coreVars, cleaned, home,
                 boundVars>>

\* ena_adapter_recover_io_rings with ena_ring_create_hw: new device queues for
\* an invalid ring; the driver's indices and the completion memory stay as
\* they are.  A ring that is valid is left alone.
CreateHw(c) ==
  /\ Goto(c, "createHw", "idle")
  /\ IF hw_valid THEN UNCHANGED devVars ELSE DevCreate
  /\ hw_valid' = TRUE
  /\ recover_active' = FALSE
  /\ UNCHANGED <<ring_lock, poolVars, sqVars, cqVars, cq_virt, txVars,
                 bounceVars, coreVars, cleaned, home, boundVars>>

\* The reset, the admin re-init or the creation failed: the ring stays
\* invalid.
RecoverFails(c) ==
  /\ Goto(c, "createHw", "idle")
  /\ recover_active' = FALSE
  /\ UNCHANGED <<ringVars, txVars, bounceVars, coreVars, cleaned, home,
                 boundVars>>

-----------------------------------------------------------------------------
(* The device *)

restOfDriver == <<hw_valid, ring_lock, poolVars, sqVars, cqVars, txVars,
                  bounceVars, recover_active, pc, coreVars, cleaned, home,
                  sends, resets>>

Fetch    == DevFetch /\ UNCHANGED <<restOfDriver, spurious>>
Complete == DevComplete /\ UNCHANGED <<restOfDriver, spurious>>

\* A completion nobody asked for: a repeated id, or one past the ring.
Spurious ==
  /\ spurious < MaxSpurious /\ dev_live
  /\ \E id \in 0 .. Depth : DevPost(id)
  /\ spurious' = spurious + 1
  /\ UNCHANGED <<restOfDriver, dev_work>>

CoreStep(c) ==
  \/ PollSkip(c) \/ PollEnter(c) \/ PollLock(c) \/ DrainOne(c)
  \/ ReapStale(c) \/ ReapOne(c) \/ PollUnlock(c)
  \/ SendRefused(c) \/ SendDirect(c) \/ SendBounced(c)
  \/ SubmitBusy(c) \/ Submit(c)
  \/ Doorbell(c) \/ DoorbellWrite(c) \/ MapSlot(c)
  \/ RecoverMark(c) \/ InvalidateLock(c) \/ Invalidate(c) \/ ResetDevice(c) \/ CreateHw(c)
  \/ RecoverFails(c)

Next ==
  \/ \E c \in Cpus :
       \/ CoreStep(c) \/ CallPoll(c) \/ RecoverBegin(c)
       \/ \E nb \in Netbufs : TxOne(c, nb)
  \/ Fetch \/ Complete \/ Spurious

Spec == Init /\ [][Next]_vars

\* A core inside a call goes on, and the test-and-set loop of the ring lock
\* gets the lock if it is free again and again (strong fairness; only the steps
\* that take a lock can be disabled by others); the main loop of a core that
\* sends keeps polling its queue; the device keeps working.
Fairness ==
  /\ \A c \in Cpus : SF_vars(CoreStep(c))
  /\ \A c \in Senders : WF_vars(CallPoll(c))
  /\ WF_vars(Fetch) /\ WF_vars(Complete)

FairSpec == Spec /\ Fairness

-----------------------------------------------------------------------------
(* What the transmit path promises *)

Pcs == {"idle", "poll", "pollLock", "reap", "send", "submit", "doorbell",
        "dbWrite", "map", "recover", "invalidate",
        "resetSw", "devReset", "createHw"}

\* The type of the transmit path's state.
TypeOK ==
  /\ RingTypeOK
  /\ tx_owner_cpu \in Cpus \cup {None}
  /\ tx_foreign \in Seq([req_id : Ids, owner_cpu : Cpus \cup {None}])
  /\ bounce_free \subseteq BounceSlots
  /\ bounce_map \in [Ids -> BounceSlots \cup {None}]
  /\ recover_active \in BOOLEAN
  /\ pc \in [Cpus -> Pcs]
  /\ pkt \in [Cpus -> Netbufs \cup {None}]
  /\ slot \in [Cpus -> BounceSlots \cup {None}]
  /\ req_id \in [Cpus -> Ids \cup {None}]
  /\ db_val \in [Cpus -> Indices]
  /\ cleaned \in Nat
  /\ home \in [Netbufs -> Cpus \cup {None}]
  /\ sends \in Nat /\ resets \in Nat /\ spurious \in Nat

ForeignIds == {tx_foreign[i].req_id : i \in 1 .. Len(tx_foreign)}

\* Every request id that is checked out holds a netbuf and is either in
\* flight or waiting once in the deferred array, never both; an id in the
\* pool is neither (ena_tx_submit, ena_tx_poll_completions,
\* ena_tx_stage_foreign_free, ena_tx_drain_foreign_frees and the reset agree
\* on who owns an id).
RequestAccounting ==
  /\ \A id \in Ids :
       /\ req_allocated[id] <=> bufs[id] # None
       /\ req_allocated[id] <=> (req_in_flight[id] \/ id \in ForeignIds)
       /\ ~ (req_in_flight[id] /\ id \in ForeignIds)
  /\ \A i, j \in 1 .. Len(tx_foreign) :
       i # j => tx_foreign[i].req_id # tx_foreign[j].req_id

\* A netbuf that is not free has exactly one holder, a tracking slot or the
\* core that is sending it, and a free netbuf has none: the path neither
\* leaks a buffer nor keeps a pointer it could free a second time.
NetbufOwnedOnce ==
  /\ \A id \in Ids : bufs[id] # None =>
       /\ home[bufs[id]] # None
       /\ \A other \in Ids \ {id} : bufs[other] # bufs[id]
       /\ \A c \in Cpus : pkt[c] # bufs[id]
  /\ \A c \in Cpus : pkt[c] # None =>
       /\ home[pkt[c]] = c
       /\ \A d \in Cpus \ {c} : pkt[d] # pkt[c]
  /\ \A nb \in Netbufs : home[nb] # None =>
       (\E id \in Ids : bufs[id] = nb) \/ (\E c \in Cpus : pkt[c] = nb)

\* While a request is in flight the deferred array has a slot left for it, so
\* the branch of ena_tx_stage_foreign_free that drops a buffer never runs:
\* "The array holds one slot per request ID, so it never runs out".
ForeignHasRoom ==
  (\E id \in Ids : req_in_flight[id]) => Len(tx_foreign) < Depth

\* The driver never writes a descriptor over one the device has not fetched,
\* and the device never writes a completion over one the driver has not
\* read, although neither side tells the other how far it has come.
QueuesNeverOverrun ==
  hw_valid /\ dev_live =>
    /\ Ahead(sq_tail, dev_sq_head) <= Depth
    /\ Ahead(dev_cq_tail, cq_head) <= Depth

\* Every bounce slot is in the pool, with a core that is sending from it, or
\* mapped to a request in flight.
BounceAccounting ==
  \A s \in BounceSlots :
    \/ s \in bounce_free
    \/ \E c \in Cpus : slot[c] = s
    \/ \E id \in Ids : bounce_map[id] = s /\ req_in_flight[id]

\* A request leaves the in-flight state by a completion only after the device
\* is done with it: "A req_id is only ever returned to the free pool here,
\* after its completion, so it is never reused while outstanding".
CompletedBeforeRelease ==
  [][\A id \in Ids :
       req_in_flight[id] /\ ~ req_in_flight'[id] /\ hw_valid'
         => ~ DeviceHolds(id)]_vars

\* A netbuf that leaves its tracking slot is freed by the core whose heap it
\* came from; the core that frees holds the ring lock.
FreedOnItsCore ==
  [][\A id \in Ids :
       bufs[id] # None /\ bufs'[id] = None => ring_lock = home[bufs[id]]]_vars

\* The buffers in the tracking slots.
InRing == {nb \in Netbufs : \E id \in Ids : bufs[id] = nb}
Custody == INSTANCE NetbufCustody WITH inRing <- InRing

\* The transmit path, with its deferred releases, failing sends and resets,
\* keeps the promise of NetbufCustody: each of its steps takes, returns,
\* accepts or frees one netbuf, frees all at a reset, or moves none.
KeepsCustody == Custody!Spec

\* Every netbuf handed to the transmit path is freed in the end, whichever
\* core reaps its completion.
SentIsFreed ==
  \A nb \in Netbufs : home[nb] # None ~> home[nb] = None
=============================================================================
