-------------------------------- MODULE EnaRx --------------------------------
(***************************************************************************)
(* The receive path of one queue (src/ena_rx.c, the receive half of        *)
(* src/ena_netdev.c): refill with the bounce slots, poll, frame reassembly *)
(* and delivery, run by the core that owns the queue, while another core   *)
(* may reset the device and refill the queue in ena_adapter_recover_io_    *)
(* rings.  As in EnaTx, what a function does before, inside and after its  *)
(* lock are separate steps.                                                *)
(*                                                                         *)
(* A completion carries, beside its request id, what the reassembly looks  *)
(* at: the frame it belongs to, whether it is the first or the last        *)
(* fragment, and whether it fits ("ok"), exceeds the posted buffer         *)
(* ("long") or fails the checks of the netdev layer ("bad").               *)
(***************************************************************************)
EXTENDS EnaRing, FiniteSets

CONSTANTS
  Owner,        \* the core that polls the queue
  Resetters,    \* cores that may run the recovery
  LowNetbufs,   \* netbufs below the DMA limit: received through a bounce slot
  BounceSlots,  \* slots of the RX bounce pool
  MaxFrags,     \* fragments of the longest frame
  OddIds,       \* ids of completions nobody asked for; Depth is past the ring
  DevCache,     \* descriptors the device fetches ahead of the frames
  MaxFrames, MaxOdd, MaxResets  \* bounds of the exploration

ASSUME RxAssumption ==
  /\ Owner \in Cpus /\ Resetters \subseteq Cpus /\ LowNetbufs \subseteq Netbufs
  /\ None \notin BounceSlots /\ OddIds \subseteq 0 .. Depth
  /\ MaxFrags \in Nat \ {0} /\ DevCache \in Nat \ {0}

VARIABLES
  bounce_free, bounce_map, pending_slot,
  chain,           \* fragments of the frame being put together
  out,             \* the packet the last rx_one delivered
  stack,           \* netbufs the network stack holds
  home,            \* core whose heap a netbuf was allocated from, or None
  recover_active,
  pc,
  back,            \* where a core goes on after its refill
  left,            \* buffers the refill may still post
  fresh,           \* netbuf the refill is posting
  dma,             \* bounce slot whose address the descriptor gets, or None
  req_id,          \* request id the submit returned
  db_val,          \* tail loaded by ena_rx_doorbell
  got,             \* what ena_rx_poll returned to rx_one, or NoPkt
  dropped,         \* ena_rx_poll dropped a completion
  target,          \* bounce slot each posted descriptor points to
  cq_info,         \* the rest of every completion descriptor
  dev_left,        \* fragments the device still has of its current frame
  frames, drops, spurious, resets

bounceVars == <<bounce_free, bounce_map, pending_slot>>
refillVars == <<back, left, fresh, dma, req_id, db_val>>
pollVars   == <<got, dropped>>
stackVars  == <<chain, out, stack>>
feedVars   == <<cq_info, dev_left, frames, drops, spurious>>
rxVars == <<bounceVars, stackVars, home, recover_active, refillVars, pollVars,
            target, feedVars, resets>>
vars == <<ringVars, rxVars, pc>>

NoInfo == [frame |-> 0, first |-> TRUE, last |-> TRUE, kind |-> "ok"]
NoPkt == [nb |-> None, id |-> 0, target |-> None, info |-> NoInfo]

Init ==
  /\ RingInit
  /\ bounce_free = BounceSlots /\ bounce_map = [id \in Ids |-> None]
  /\ pending_slot = None
  /\ chain = <<>> /\ out = <<>> /\ stack = {}
  /\ home = [nb \in Netbufs |-> None]
  /\ recover_active = FALSE
  /\ pc = [c \in Cpus |-> "idle"]
  /\ back = [c \in Cpus |-> "idle"] /\ left = [c \in Cpus |-> 0]
  /\ fresh = [c \in Cpus |-> None] /\ dma = [c \in Cpus |-> None]
  /\ req_id = [c \in Cpus |-> None] /\ db_val = [c \in Cpus |-> 0]
  /\ got = NoPkt /\ dropped = FALSE
  /\ target = [id \in Ids |-> None]
  /\ cq_info = [s \in Ids |-> NoInfo]
  /\ dev_left = 0 /\ frames = 0 /\ drops = 0 /\ spurious = 0 /\ resets = 0

Goto(c, from, to) == pc[c] = from /\ pc' = [pc EXCEPT ![c] = to]
Free(nbs) == home' = [nb \in Netbufs |-> IF nb \in nbs THEN None ELSE home[nb]]
SlotSet(s) == IF s = None THEN {} ELSE {s}
GiveBack(s) == bounce_free' = bounce_free \cup SlotSet(s)

-----------------------------------------------------------------------------
(* ena_rx_refill *)

\* ena_netdev_rx_refill_helper: a queue with nothing posted keeps one id back.
ToRefill == IF Len(free_req_ids) >= Depth THEN Depth - 1 ELSE Len(free_req_ids)

CallRefill(c, from, to, count) ==
  /\ Goto(c, from, IF count = 0 THEN "recount" ELSE "refill")
  /\ back' = [back EXCEPT ![c] = to]
  /\ left' = [left EXCEPT ![c] = count]
  /\ UNCHANGED <<fresh, dma, req_id, db_val>>

\* ena_netdev_rx_one begins with a refill.
RxOne(c) ==
  /\ c = Owner
  /\ CallRefill(c, "idle", "poll", ToRefill)
  /\ out' = <<>>
  /\ UNCHANGED <<ringVars, bounceVars, chain, stack, home, recover_active,
                 pollVars, target, feedVars, resets>>

\* ena_rx_refill takes a count of 0 for "as many as are free".
Recount(c) ==
  /\ Goto(c, "recount", "refill")
  /\ left' = [left EXCEPT ![c] = Len(free_req_ids)]
  /\ UNCHANGED <<ringVars, bounceVars, stackVars, home, recover_active, back,
                 fresh, dma, req_id, db_val, pollVars, target, feedVars, resets>>

Refilling(c) == left[c] > 0 /\ free_req_ids # <<>>
HasSlot(nb) == nb \in LowNetbufs => bounce_free # {}

\* ena_netbuf_alloc_helper: a netbuf of this core's heap, and for a netbuf in
\* low memory a bounce slot, remembered in the queue.
RefillAlloc(c) ==
  \E nb \in Netbufs :
    /\ Refilling(c) /\ home[nb] = None /\ HasSlot(nb)
    /\ Goto(c, "refill", "check")
    /\ home' = [home EXCEPT ![nb] = c]
    /\ fresh' = [fresh EXCEPT ![c] = nb]
    /\ IF nb \in LowNetbufs
       THEN \E s \in bounce_free :
              /\ bounce_free' = bounce_free \ {s}
              /\ pending_slot' = s
              /\ dma' = [dma EXCEPT ![c] = s]
       ELSE UNCHANGED <<bounce_free, pending_slot, dma>>
    /\ UNCHANGED <<ringVars, bounce_map, stackVars, recover_active, back, left,
                   req_id, db_val, pollVars, target, feedVars, resets>>

\* Enough is posted, no netbuf is left, or the one that was allocated found
\* no bounce slot and was freed again.
RefillStop(c) ==
  /\ \/ ~ Refilling(c)
     \/ \A nb \in Netbufs : home[nb] # None
     \/ \E nb \in Netbufs : home[nb] = None /\ ~ HasSlot(nb)
  /\ Goto(c, "refill", "doorbell")
  /\ left' = [left EXCEPT ![c] = 0]
  /\ UNCHANGED <<ringVars, bounceVars, stackVars, home, recover_active, back,
                 fresh, dma, req_id, db_val, pollVars, target, feedVars, resets>>

\* ena_rx_submit_one checks the ring before it takes the lock.
SubmitCheck(c) ==
  /\ hw_valid
  /\ Goto(c, "check", "submit")
  /\ UNCHANGED <<ringVars, rxVars>>

\* The submit failed: the netbuf and the pending slot are released, and the
\* loop ends.
SubmitFails(c) ==
  /\ Free({fresh[c]})
  /\ GiveBack(pending_slot) /\ pending_slot' = None
  /\ pc' = [pc EXCEPT ![c] = "doorbell"]
  /\ fresh' = [fresh EXCEPT ![c] = None]
  /\ dma' = [dma EXCEPT ![c] = None]
  /\ left' = [left EXCEPT ![c] = 0]
  /\ UNCHANGED <<ringVars, bounce_map, stackVars, recover_active, back,
                 req_id, db_val, pollVars, target, feedVars, resets>>

SubmitRefused(c) == pc[c] = "check" /\ ~ hw_valid /\ SubmitFails(c)
SubmitBusy(c) ==
  pc[c] = "submit" /\ ring_lock = None /\ free_req_ids = <<>> /\ SubmitFails(c)

\* The critical section of ena_rx_submit_one.
SubmitOne(c) ==
  \E id \in Ids :
    /\ Goto(c, "submit", "map")
    /\ ring_lock = None
    /\ ReqIdAlloc(id)
    /\ req_in_flight' = [req_in_flight EXCEPT ![id] = TRUE]
    /\ bufs' = [bufs EXCEPT ![id] = fresh[c]]
    /\ SqPush(id, fresh[c])
    /\ target' = [target EXCEPT ![id] = dma[c]]
    /\ req_id' = [req_id EXCEPT ![c] = id]
    /\ fresh' = [fresh EXCEPT ![c] = None]
    /\ dma' = [dma EXCEPT ![c] = None]
    /\ UNCHANGED <<hw_valid, ring_lock, cqVars, cq_virt, devVars, bounceVars,
                   stackVars, home, recover_active, back, left, db_val,
                   pollVars, feedVars, resets>>

\* Mutant: the slot is not tied to the request.
MapSlotForgotten(id) == UNCHANGED bounce_map
MapSlot(id) == bounce_map' = [bounce_map EXCEPT ![id] = pending_slot]

\* After the unlock the pending slot is tied to the request id.
Posted(c) ==
  /\ Goto(c, "map", "refill")
  /\ MapSlot(req_id[c])
  /\ pending_slot' = None
  /\ req_id' = [req_id EXCEPT ![c] = None]
  /\ left' = [left EXCEPT ![c] = @ - 1]
  /\ UNCHANGED <<ringVars, bounce_free, stackVars, home, recover_active, back,
                 fresh, dma, db_val, pollVars, target, feedVars, resets>>

\* Mutant: the doorbell gets the slot in place of the free-running tail.
PublishedTailMasked == Slot(sq_tail)
PublishedTail == sq_tail

\* ena_rx_doorbell runs even when nothing was posted.
Doorbell(c) ==
  /\ Goto(c, "doorbell", IF hw_valid THEN "dbWrite" ELSE back[c])
  /\ db_val' = [db_val EXCEPT ![c] = IF hw_valid THEN PublishedTail ELSE 0]
  /\ UNCHANGED <<ringVars, bounceVars, stackVars, home, recover_active, back,
                 left, fresh, dma, req_id, pollVars, target, feedVars, resets>>

\* As in EnaTx, a reset in between may have cleared sq_db.
DoorbellWrite(c) ==
  /\ Goto(c, "dbWrite", back[c])
  /\ \/ dev_live /\ dev_sq_db' = db_val[c]
     \/ ~ (hw_valid /\ dev_live) /\ UNCHANGED dev_sq_db
  /\ db_val' = [db_val EXCEPT ![c] = 0]
  /\ UNCHANGED <<hw_valid, ring_lock, poolVars, sqVars, cqVars, cq_virt,
                 dev_live, dev_sq_head, dev_work, dev_cq_tail, dev_cq_phase,
                 bounceVars, stackVars, home, recover_active, back, left,
                 fresh, dma, req_id, pollVars, target, feedVars, resets>>

-----------------------------------------------------------------------------
(* ena_rx_poll for one packet *)

PollSkip(c) ==
  /\ ~ hw_valid
  /\ CallRefill(c, "poll", "idle", ToRefill)
  /\ UNCHANGED <<ringVars, bounceVars, stackVars, home, recover_active,
                 pollVars, target, feedVars, resets>>

PollEnter(c) ==
  /\ hw_valid
  /\ Goto(c, "poll", "pollLock")
  /\ UNCHANGED <<ringVars, rxVars>>

PollLock(c) ==
  /\ Goto(c, "pollLock", "reap")
  /\ Lock(c)
  /\ UNCHANGED <<hw_valid, poolVars, sqVars, cqVars, cq_virt, devVars, rxVars>>

Reaping(c) == pc[c] = "reap" /\ CdescReady /\ Cdesc.req_id \in Ids
Info == cq_info[Slot(cq_head)]

\* The packet is longer than the posted buffer.  A slot that was released has
\* length 0.
TooLong(id) == Info.kind = "long" \/ bufs[id] = None

\* A completion whose request is not in flight is skipped.
ReapStale(c) ==
  /\ Reaping(c) /\ ~ req_in_flight[Cdesc.req_id]
  /\ CqAdvance
  /\ UNCHANGED <<hw_valid, ring_lock, poolVars, sqVars, cq_virt, devVars,
                 rxVars, pc>>

\* A completion longer than its buffer: slot, netbuf and id are released and
\* the request stays marked in flight.
ReapLong(c) ==
  LET id == Cdesc.req_id IN
    /\ Reaping(c) /\ req_in_flight[id] /\ TooLong(id)
    /\ GiveBack(bounce_map[id])
    /\ bounce_map' = [bounce_map EXCEPT ![id] = None]
    /\ Free({bufs[id]})
    /\ ReqIdFree(id)
    /\ CqAdvance
    /\ dropped' = TRUE
    /\ UNCHANGED <<hw_valid, ring_lock, req_in_flight, sqVars, cq_virt,
                   devVars, pending_slot, stackVars, recover_active, pc,
                   refillVars, got, target, feedVars, resets>>

\* A completion is accepted: its netbuf leaves the slot and its id the ring.
ReapOne(c) ==
  LET id == Cdesc.req_id IN
    /\ Reaping(c) /\ req_in_flight[id] /\ ~ TooLong(id)
    /\ Goto(c, "reap", "polled")
    /\ Unlock(c)
    /\ req_in_flight' = [req_in_flight EXCEPT ![id] = FALSE]
    /\ got' = [nb |-> bufs[id], id |-> id, target |-> target[id],
               info |-> Info]
    /\ ReqIdFree(id)
    /\ CqAdvance
    /\ UNCHANGED <<hw_valid, sqVars, cq_virt, devVars, bounceVars, stackVars,
                   home, recover_active, refillVars, dropped, target,
                   feedVars, resets>>

\* No new completion, or one with an id past the ring.
ReapNone(c) ==
  /\ ~ Reaping(c)
  /\ Goto(c, "reap", "polled")
  /\ Unlock(c)
  /\ UNCHANGED <<hw_valid, poolVars, sqVars, cqVars, cq_virt, devVars, rxVars>>

-----------------------------------------------------------------------------
(* ena_netdev_rx_one after the poll *)

NetbufsOf(frags) == {frags[i].nb : i \in 1 .. Len(frags)}

\* A drop in the ring layer ends the frame that is being put together.
KeptAfter(frags) == IF dropped THEN <<>> ELSE frags
DroppedFrags == IF dropped THEN NetbufsOf(chain) ELSE {}

\* Nothing came back, or a completion without a netbuf.
NothingReceived(c) ==
  /\ got.nb = None
  /\ CallRefill(c, "polled", "idle", ToRefill)
  /\ chain' = KeptAfter(chain) /\ Free(DroppedFrags)
  /\ got' = NoPkt /\ dropped' = FALSE
  /\ UNCHANGED <<ringVars, bounceVars, out, stack, recover_active, target,
                 feedVars, resets>>

\* Mutant: the request id keeps the slot it gave back.
UnmapSlotKept == GiveBack(bounce_map[got.id]) /\ UNCHANGED <<bounce_map, pending_slot>>
\* The slot of a bounced packet goes back to the pool.
UnmapSlot ==
  /\ GiveBack(bounce_map[got.id])
  /\ bounce_map' = [bounce_map EXCEPT ![got.id] = None]
  /\ UNCHANGED pending_slot

\* The packet does not fit the netbuf or the slot: it and its frame go.
DropPacket(c) ==
  /\ got.nb # None /\ got.info.kind = "bad"
  /\ CallRefill(c, "polled", "idle", ToRefill)
  /\ UnmapSlot
  /\ chain' = <<>> /\ Free({got.nb} \cup NetbufsOf(chain))
  /\ got' = NoPkt /\ dropped' = FALSE
  /\ UNCHANGED <<ringVars, out, stack, recover_active, target, feedVars,
                 resets>>

\* The packet is copied out of its slot and the ring refilled.
TakePacket(c) ==
  /\ got.nb # None /\ got.info.kind # "bad"
  /\ CallRefill(c, "polled", "chain", ToRefill)
  /\ UnmapSlot
  /\ chain' = KeptAfter(chain) /\ Free(DroppedFrags)
  /\ dropped' = FALSE
  /\ UNCHANGED <<ringVars, out, stack, recover_active, got, target, feedVars,
                 resets>>

Fragment == [nb |-> got.nb, info |-> got.info]

\* Mutant: a frame of one fragment starts a chain, too.
StartsChainOnFirst == chain = <<>> /\ got.info.first
\* A first fragment starts a chain, later ones are appended.
StartsChain == chain = <<>> /\ got.info.first /\ ~ got.info.last
ExtendsChain == chain # <<>> /\ ~ got.info.last

ChainFragment(c) ==
  /\ StartsChain \/ ExtendsChain
  /\ Goto(c, "chain", "poll")
  /\ chain' = Append(chain, Fragment)
  /\ got' = NoPkt
  /\ UNCHANGED <<ringVars, bounceVars, out, stack, home, recover_active,
                 refillVars, dropped, target, feedVars, resets>>

\* The last fragment, or a packet of its own, is delivered.
Deliver(c) ==
  /\ ~ (StartsChain \/ ExtendsChain)
  /\ Goto(c, "chain", "idle")
  /\ out' = Append(chain, Fragment)
  /\ stack' = stack \cup NetbufsOf(out')
  /\ chain' = <<>>
  /\ got' = NoPkt
  /\ UNCHANGED <<ringVars, bounceVars, home, recover_active, refillVars,
                 dropped, target, feedVars, resets>>

\* The stack is done with a netbuf.
StackFrees ==
  \E nb \in stack :
    /\ stack' = stack \ {nb} /\ Free({nb})
    /\ UNCHANGED <<ringVars, bounceVars, chain, out, recover_active, pc,
                   refillVars, pollVars, target, feedVars, resets>>

-----------------------------------------------------------------------------
(* ena_adapter_reset_and_recover, as far as this ring is concerned *)

RecoverBegin(c) ==
  /\ c \in Resetters /\ ~ recover_active /\ resets < MaxResets
  /\ Goto(c, "idle", "recover")
  /\ UNCHANGED <<ringVars, rxVars>>

RecoverMark(c) ==
  /\ Goto(c, "recover", "invalidate")
  /\ recover_active' = TRUE
  /\ UNCHANGED <<ringVars, bounceVars, stackVars, home, refillVars, pollVars,
                 target, feedVars, resets>>

\* Mutant: the reset forgets the netbufs of the outstanding requests.
ReleaseSlotsLeaks == UNCHANGED home
ReleaseSlots == Free({bufs[id] : id \in Ids})

\* ena_adapter_invalidate_io_rings: the drop callback frees the netbufs; the
\* bounce slots of the requests and the partial frame stay as they are.
Invalidate(c) ==
  /\ Goto(c, "invalidate", "devReset")
  /\ ring_lock = None /\ UNCHANGED ring_lock
  /\ ResetSwState /\ ReleaseSlots
  /\ UNCHANGED <<devVars, bounceVars, stackVars, recover_active, refillVars,
                 pollVars, target, feedVars, resets>>

ResetDevice(c) ==
  /\ Goto(c, "devReset", "createHw")
  /\ DevReset /\ dev_left' = 0 /\ resets' = resets + 1
  /\ UNCHANGED <<hw_valid, ring_lock, poolVars, sqVars, cqVars, cq_virt,
                 bounceVars, stackVars, home, recover_active, refillVars,
                 pollVars, target, cq_info, frames, drops, spurious>>

\* ena_ring_create_hw, and the refill of RX queue 0 by the recovering core.
CreateHw(c) ==
  /\ ~ hw_valid
  /\ CallRefill(c, "createHw", "recovered", Depth - 1)
  /\ DevCreate
  /\ hw_valid' = TRUE
  /\ UNCHANGED <<ring_lock, poolVars, sqVars, cqVars, cq_virt, bounceVars,
                 stackVars, home, recover_active, pollVars, target, feedVars,
                 resets>>

\* The reset or the creation failed, or another core made the queue valid.
CreateSkipped(c) ==
  /\ Goto(c, "createHw", "recovered")
  /\ UNCHANGED <<ringVars, rxVars>>

Recovered(c) ==
  /\ Goto(c, "recovered", "idle")
  /\ recover_active' = FALSE
  /\ UNCHANGED <<ringVars, bounceVars, stackVars, home, refillVars, pollVars,
                 target, feedVars, resets>>

-----------------------------------------------------------------------------
(* The device *)

restOfDriver == <<hw_valid, ring_lock, poolVars, sqVars, cqVars, bounceVars,
                  stackVars, home, recover_active, pc, refillVars, pollVars,
                  target, resets>>

Fetch ==
  /\ Cardinality(dev_work) < DevCache
  /\ DevFetch
  /\ UNCHANGED <<restOfDriver, feedVars>>

PutInfo(info) == cq_info' = [cq_info EXCEPT ![Slot(dev_cq_tail)] = info]

\* The device puts the next fragment of a frame into a buffer it has fetched.
Receive(kind) ==
  \E n \in IF dev_left = 0 THEN 1 .. MaxFrags ELSE {dev_left} :
    LET first == dev_left = 0
        frame == IF first THEN frames + 1 ELSE frames IN
    /\ frame <= MaxFrames
    /\ kind # "ok" => drops + spurious < MaxOdd
    /\ DevComplete
    /\ frames' = frame /\ dev_left' = n - 1
    /\ PutInfo([frame |-> frame, first |-> first, last |-> n = 1,
                kind |-> kind])
    /\ drops' = IF kind = "ok" THEN drops ELSE drops + 1
    /\ UNCHANGED <<restOfDriver, spurious>>

\* A completion nobody asked for: a repeated id, or one past the ring.
Spurious ==
  /\ drops + spurious < MaxOdd /\ dev_live
  /\ \E id \in OddIds : DevPost(id)
  /\ PutInfo(NoInfo)
  /\ spurious' = spurious + 1
  /\ UNCHANGED <<restOfDriver, dev_work, dev_left, frames, drops>>

CoreStep(c) ==
  \/ Recount(c) \/ RefillAlloc(c) \/ RefillStop(c) \/ SubmitCheck(c)
  \/ SubmitRefused(c) \/ SubmitBusy(c) \/ SubmitOne(c) \/ Posted(c) \/ Doorbell(c)
  \/ DoorbellWrite(c) \/ PollSkip(c) \/ PollEnter(c) \/ PollLock(c)
  \/ ReapStale(c) \/ ReapLong(c) \/ ReapOne(c) \/ ReapNone(c)
  \/ NothingReceived(c) \/ DropPacket(c) \/ TakePacket(c) \/ ChainFragment(c)
  \/ Deliver(c)
  \/ RecoverMark(c) \/ Invalidate(c) \/ ResetDevice(c) \/ CreateHw(c)
  \/ CreateSkipped(c) \/ Recovered(c)

Next ==
  \/ \E c \in Cpus : CoreStep(c) \/ RxOne(c) \/ RecoverBegin(c)
  \/ StackFrees \/ Fetch \/ Spurious
  \/ \E kind \in {"ok", "long", "bad"} : Receive(kind)

Spec == Init /\ [][Next]_vars

\* The main loop keeps calling rx_one, a core inside a call goes on and gets
\* the lock at last (strong fairness; only the steps that take a lock can be
\* disabled by others), the stack frees what it was given, the device works.
Fairness ==
  /\ WF_vars(RxOne(Owner)) /\ WF_vars(StackFrees) /\ WF_vars(Fetch)
  /\ \A c \in Cpus : SF_vars(CoreStep(c))
  /\ WF_vars(Receive("ok"))

FairSpec == Spec /\ Fairness

-----------------------------------------------------------------------------
(* What the receive path promises *)

\* The places that hold a netbuf: how many hold nb.
Holders(nb) ==
  {<<"slot", id>> : id \in {i \in Ids : bufs[i] = nb}}
    \cup {<<"refill", c>> : c \in {d \in Cpus : fresh[d] = nb}}
    \cup {<<"chain", i>> : i \in {j \in 1 .. Len(chain) : chain[j].nb = nb}}
    \cup (IF got.nb = nb THEN {<<"poll", 0>>} ELSE {})
    \cup (IF nb \in stack THEN {<<"stack", 0>>} ELSE {})

\* A netbuf that is not free has exactly one holder (a posted request, a
\* refill, the poll, the frame being put together, the stack) and a free one
\* has none: receive, drop and reset neither leak a buffer nor deliver one
\* twice (ena_rx_poll, ena_netdev_rx_one, ena_netdev_rxq_drop_chain,
\* ena_ring_reset_sw_state).
NetbufHeldOnce ==
  \A nb \in Netbufs :
    IF home[nb] = None THEN Holders(nb) = {}
    ELSE \E h \in Holders(nb) : Holders(nb) = {h}

\* The places a bounce slot can be: the pool, the refill, a mapped request.
SlotHolders(s) ==
  (IF s \in bounce_free THEN {<<"pool", 0>>} ELSE {})
    \cup (IF pending_slot = s THEN {<<"refill", 0>>} ELSE {})
    \cup {<<"id", id>> : id \in {i \in Ids : bounce_map[i] = s}}

\* Every bounce slot is in exactly one place, so none is lost and none is
\* given to two requests: "return a dropped netbuf bounce slot to the pool"
\* (the refill, the drop of a long packet and rx_one all move slots).
BounceAccounting ==
  \A s \in BounceSlots : \E h \in SlotHolders(s) : SlotHolders(s) = {h}

\* rx_one copies a bounced packet from the slot whose address the device was
\* given, and moves nothing for a packet that was not bounced, even when the
\* device completes a request twice.
RightSlot ==
  pc[Owner] = "polled" /\ got.nb # None => bounce_map[got.id] = got.target

\* What is delivered is one whole frame, all its fragments in order, first to
\* last: "the stack must not see half a packet, and the next packet must not
\* append to the stale chain".  The completions are well-formed; after a
\* fragment that does not fit its buffer nothing is promised.
WholeFrames ==
  out # <<>> /\ drops = 0 /\ spurious = 0 =>
    /\ out[1].info.first /\ out[Len(out)].info.last
    /\ \A i \in 1 .. Len(out) :
         /\ out[i].info.frame = out[1].info.frame
         /\ i > 1 => ~ out[i].info.first

\* A device that completes no request twice writes only into buffers the
\* driver still holds for it.
DmaTargetsHeld ==
  spurious = 0 /\ hw_valid /\ dev_live =>
    /\ \A w \in dev_work : bufs[w.req_id] = w.nb
    /\ \A s \in Unfetched : bufs[sq_virt[s].req_id] = sq_virt[s].nb

\* A frame the device has begun is received to its end, and a queue that ran
\* out of buffers gets new ones: the device never waits for ever for a buffer
\* (the refill before and after every poll), unless it completes a request
\* nobody made: an id past the ring stops the poll for good.
NeverStarves ==
  dev_live /\ frames < MaxFrames
    ~> (frames = MaxFrames /\ dev_left = 0) \/ spurious > 0
=============================================================================
