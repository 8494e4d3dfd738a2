----------------------------- MODULE EnaRxQueues ------------------------------
(***************************************************************************)
(* The receive queue as long as no core resets the device: proofs that the *)
(* device writes only into buffers the driver holds for it, and that the   *)
(* frames the driver puts together and delivers are whole, for any depth,  *)
(* any number of netbufs and bounce slots, frames of any length and any    *)
(* interleaving with the device.                                           *)
(***************************************************************************)
EXTENDS EnaRxProofs

\* Zenon proves a step, unless the step names another prover.
USE Zenon

-----------------------------------------------------------------------------
(* What a step may be *)

\* The ring has its type, and stays valid.
Steady ==
  /\ RingTypeOK /\ hw_valid = TRUE /\ dev_live = TRUE
  /\ db_val \in [Cpus -> Indices]
  /\ spurious \in Nat /\ drops \in Nat /\ dev_left \in Nat

\* A step of the owner that touches no queue.
Calm ==
  /\ UNCHANGED <<hw_valid, poolVars, sqVars, cqVars, cq_virt, devVars, feedVars>>
  /\ ring_lock' \in Cpus \cup {None} /\ db_val' \in [Cpus -> Indices]
  /\ pc'[Owner] = "dbWrite" =>
       (pc[Owner] = "dbWrite" /\ db_val' = db_val) \/ db_val'[Owner] = sq_tail
  /\ \/ UNCHANGED <<chain, got, dropped>> /\ (out' = out \/ out' = <<>>)
     \/ NothingReceived(Owner) \/ DropPacket(Owner) \/ TakePacket(Owner)
     \/ ChainFragment(Owner) \/ Deliver(Owner)

Reap == ReapStale(Owner) \/ ReapLong(Owner) \/ ReapOne(Owner)
Feed == Fetch \/ Spurious \/ \E kind \in {"ok", "long", "bad"} : Receive(kind)

\* Without a reset every step is a calm one, a submit, a doorbell, the read of
\* a completion or a step of the device.
LEMMA StepKinds ==
  ASSUME Resetters = {}, HeldTypeOK, Alone, Steady, [Next]_vars
  PROVE  Calm \/ SubmitOne(Owner) \/ DoorbellWrite(Owner) \/ Reap \/ Feed
<1> USE RxAssumption
<1>0. /\ pc \in [Cpus -> RxPcs] /\ db_val \in [Cpus -> Indices] /\ hw_valid = TRUE
      /\ ring_lock \in Cpus \cup {None} /\ sq_tail \in Indices
      /\ back \in [Cpus -> {"idle", "poll", "chain", "recovered"}]
  BY DEF HeldTypeOK, Steady, RingTypeOK
<1> USE DEF Goto, ringVars, poolVars, sqVars, cqVars, devVars, stackVars, refillVars,
            pollVars, rxVars
\* Most steps move the owner and leave what was received alone.
<1>1. ASSUME NEW to, to # "dbWrite", pc' = [pc EXCEPT ![Owner] = to],
             UNCHANGED <<hw_valid, poolVars, sqVars, cqVars, cq_virt, devVars, feedVars,
                         db_val, chain, got, dropped>>,
             ring_lock' \in Cpus \cup {None}, out' = out \/ out' = <<>>
      PROVE  Calm
  BY <1>0, <1>1 DEF Calm
<1>2. CASE UNCHANGED vars
  BY <1>0, <1>2 DEF vars, Calm
<1>3. ASSUME NEW c \in Cpus, CoreStep(c)
      PROVE  Calm \/ SubmitOne(Owner) \/ DoorbellWrite(Owner) \/ Reap
  <2>0. ASSUME pc[c] # "idle" PROVE c = Owner
    BY <2>0 DEF Alone
  <2>1. CASE Recount(c)
    BY <1>0, <1>1, <2>0, <2>1 DEF Recount
  <2>2. CASE RefillAlloc(c)
    BY <1>0, <1>1, <2>0, <2>2, ZenonT(30) DEF RefillAlloc
  <2>3. CASE RefillStop(c)
    BY <1>0, <1>1, <2>0, <2>3 DEF RefillStop
  <2>4. CASE SubmitCheck(c)
    BY <1>0, <1>1, <2>0, <2>4 DEF SubmitCheck
  <2>5. CASE SubmitRefused(c)
    BY <1>0, <2>5 DEF SubmitRefused
  <2>6. CASE SubmitBusy(c)
    BY <1>0, <1>1, <2>0, <2>6 DEF SubmitBusy, SubmitFails
  <2>7. CASE SubmitOne(c)
    BY <2>0, <2>7 DEF SubmitOne
  <2>8. CASE Posted(c)
    BY <1>0, <1>1, <2>0, <2>8 DEF Posted
  <2>9. CASE Doorbell(c)
    <3>1. /\ c = Owner
          /\ db_val' = [db_val EXCEPT ![Owner] = sq_tail]
          /\ UNCHANGED <<hw_valid, ring_lock, poolVars, sqVars, cqVars, cq_virt, devVars,
                         feedVars, chain, got, dropped, out>>
      BY <1>0, <2>0, <2>9 DEF Doorbell, PublishedTail
    <3>2. db_val' \in [Cpus -> Indices] /\ db_val'[Owner] = sq_tail
      BY <1>0, <3>1
    <3> QED BY <1>0, <3>1, <3>2 DEF Calm
  <2>10. CASE DoorbellWrite(c)
    BY <2>0, <2>10 DEF DoorbellWrite
  <2>11. CASE PollSkip(c)
    BY <1>0, <2>11 DEF PollSkip
  <2>12. CASE PollEnter(c)
    BY <1>0, <1>1, <2>0, <2>12 DEF PollEnter
  <2>13. CASE PollLock(c)
    BY <1>0, <1>1, <2>0, <2>13 DEF PollLock, Lock
  <2>14. CASE ReapStale(c) \/ ReapLong(c) \/ ReapOne(c)
    BY <2>0, <2>14, ZenonT(30) DEF ReapStale, ReapLong, ReapOne, Reaping, Reap
  <2>15. CASE ReapNone(c)
    BY <1>0, <1>1, <2>0, <2>15 DEF ReapNone, Unlock
  <2>16. CASE NothingReceived(c) \/ DropPacket(c) \/ TakePacket(c)
    <3>1. /\ c = Owner
          /\ \E to \in {"recount", "refill"} : pc' = [pc EXCEPT ![Owner] = to]
          /\ UNCHANGED <<hw_valid, ring_lock, poolVars, sqVars, cqVars, cq_virt, devVars,
                         feedVars, db_val>>
      BY <2>0, <2>16 DEF NothingReceived, DropPacket, TakePacket, CallRefill
    <3>2. pc'[Owner] # "dbWrite"
      BY <1>0, <3>1
    <3> QED BY <1>0, <2>16, <3>1, <3>2 DEF Calm
  <2>17. CASE ChainFragment(c) \/ Deliver(c)
    <3>1. /\ c = Owner
          /\ \E to \in {"poll", "idle"} : pc' = [pc EXCEPT ![Owner] = to]
          /\ UNCHANGED <<hw_valid, ring_lock, poolVars, sqVars, cqVars, cq_virt, devVars,
                         feedVars, db_val>>
      BY <2>0, <2>17 DEF ChainFragment, Deliver
    <3>2. pc'[Owner] # "dbWrite"
      BY <1>0, <3>1
    <3> QED BY <1>0, <2>17, <3>1, <3>2 DEF Calm
  <2>18. ~ (RecoverMark(c) \/ Invalidate(c) \/ ResetDevice(c) \/ CreateHw(c)
            \/ CreateSkipped(c) \/ Recovered(c))
    BY DEF Alone, RecoverPcs, RecoverMark, Invalidate, ResetDevice, CreateHw,
           CallRefill, CreateSkipped, Recovered
  <2> QED
    BY <1>3, <2>1, <2>2, <2>3, <2>4, <2>5, <2>6, <2>7, <2>8, <2>9, <2>10, <2>11, <2>12,
       <2>13, <2>14, <2>15, <2>16, <2>17, <2>18 DEF CoreStep
<1>4. ASSUME NEW c \in Cpus, RxOne(c) PROVE Calm
  BY <1>0, <1>1, <1>4 DEF RxOne, CallRefill
<1>5. ASSUME NEW c \in Cpus, RecoverBegin(c) PROVE FALSE
  BY <1>5 DEF RecoverBegin
<1>6. CASE StackFrees
  BY <1>0, <1>6 DEF StackFrees, Calm
<1> QED BY <1>2, <1>3, <1>4, <1>5, <1>6 DEF Next, Feed

-----------------------------------------------------------------------------
(* The ring keeps its type *)

\* A ring with its queues created is steady.
LEMMA SteadyInit == Init => Steady
<1> SUFFICES ASSUME Init PROVE Steady
  OBVIOUS
<1>1. 0 \in Ids /\ 0 \in 0 .. Depth /\ 0 \in Indices /\ 0 \in Phases /\ 1 \in Phases
  BY DepthAssumption, SMT DEF Ids, Indices, Phases
<1>2. RingTypeOK
  BY <1>1, AllIdsType, SMT DEF Init, RingInit, RingTypeOK
<1> QED BY <1>1, <1>2, SMT DEF Init, RingInit, Steady

\* Every step keeps the types, and the ring stays valid.
LEMMA SteadyStep ==
  ASSUME Resetters = {}, HeldTypeOK, Alone, Steady, [Next]_vars, HeldTypeOK'
  PROVE  Steady'
<1> USE RxAssumption
<1> USE DEF ringVars, poolVars, sqVars, cqVars, devVars, stackVars, refillVars, pollVars,
            feedVars, rxVars, restOfDriver
<1>0. /\ RingTypeOK /\ hw_valid = TRUE /\ dev_live = TRUE
      /\ db_val \in [Cpus -> Indices]
      /\ spurious \in Nat /\ drops \in Nat /\ dev_left \in Nat
  BY DEF Steady
<1>1. /\ free_req_ids' \in Seq(Ids) /\ req_allocated' \in [Ids -> BOOLEAN]
      /\ req_in_flight' \in [Ids -> BOOLEAN] /\ bufs' \in [Ids -> Netbufs \cup {None}]
      /\ cq_head' \in Indices /\ dev_cq_tail' \in Indices
  <2>1. \/ req_in_flight' = req_in_flight
        \/ \E id \in Ids, mark \in BOOLEAN :
             req_in_flight' = [req_in_flight EXCEPT ![id] = mark]
    BY StepKinds DEF Calm, SubmitOne, DoorbellWrite, Reap, Reaping, ReapStale, ReapLong,
       ReapOne, Feed, Fetch, Spurious, Receive
  <2>2. req_in_flight' \in [Ids -> BOOLEAN]
    BY <1>0, <2>1 DEF RingTypeOK
  <2> QED BY <2>2 DEF HeldTypeOK, PoolTypeOK
<1>2. CASE Calm
  BY <1>0, <1>1, <1>2 DEF Calm, Steady, RingTypeOK
<1>3. CASE SubmitOne(Owner)
  <2>1. PICK id \in Ids : SqPush(id, fresh[Owner])
    BY <1>3 DEF SubmitOne
  <2>2. /\ sq_tail' \in Indices /\ sq_phase' \in Phases
        /\ Slot(sq_tail) \in Ids
    BY <1>0, <2>1, IndexType DEF SqPush, RingTypeOK
  <2>3. fresh[Owner] \in Netbufs \cup {None}
    BY DEF HeldTypeOK
  <2>4. sq_virt' \in [Ids -> [req_id : Ids, nb : Netbufs \cup {None}, phase : Phases]]
    BY <1>0, <2>1, <2>2, <2>3, SMT DEF SqPush, RingTypeOK
  <2>5. UNCHANGED <<hw_valid, ring_lock, cqVars, cq_virt, devVars, db_val, feedVars>>
    BY <1>3 DEF SubmitOne
  <2> QED BY <1>0, <1>1, <2>2, <2>4, <2>5 DEF Steady, RingTypeOK
<1>4. CASE DoorbellWrite(Owner)
  <2>1. /\ dev_sq_db' = db_val[Owner] /\ db_val[Owner] \in Indices
        /\ db_val' = [db_val EXCEPT ![Owner] = 0]
        /\ UNCHANGED <<hw_valid, ring_lock, sqVars, cqVars, cq_virt, feedVars, dev_live,
                       dev_sq_head, dev_work, dev_cq_tail, dev_cq_phase>>
    BY <1>0, <1>4 DEF DoorbellWrite
  <2>2. db_val' \in [Cpus -> Indices]
    BY <1>0, <2>1, IndexType
  <2> QED BY <1>0, <1>1, <2>1, <2>2 DEF Steady, RingTypeOK
<1>5. CASE Reap
  <2>1. /\ CqAdvance
        /\ ring_lock' = ring_lock \/ ring_lock' = None
        /\ UNCHANGED <<hw_valid, sqVars, cq_virt, devVars, db_val, feedVars>>
    BY <1>5 DEF Reap, ReapStale, ReapLong, ReapOne, Unlock
  <2>2. cq_phase' \in Phases
    BY <1>0, <2>1, IndexType DEF CqAdvance, RingTypeOK
  <2> QED BY <1>0, <1>1, <2>1, <2>2 DEF Steady, RingTypeOK
<1>6. CASE Fetch
  <2>1. /\ dev_sq_head' = Succ(dev_sq_head)
        /\ dev_work' = dev_work \cup {[req_id |-> sq_virt[Slot(dev_sq_head)].req_id,
                                       nb |-> sq_virt[Slot(dev_sq_head)].nb]}
        /\ UNCHANGED <<hw_valid, ring_lock, sqVars, cqVars, cq_virt, db_val, feedVars,
                       dev_live, dev_sq_db, dev_cq_tail, dev_cq_phase>>
    BY <1>6 DEF Fetch, DevFetch
  <2>2. dev_sq_head' \in Indices /\ Slot(dev_sq_head) \in Ids
    BY <1>0, <2>1, IndexType DEF RingTypeOK
  <2>3. dev_work' \subseteq [req_id : Ids, nb : Netbufs \cup {None}]
    BY <1>0, <2>1, <2>2, SMT DEF RingTypeOK
  <2> QED BY <1>0, <1>1, <2>1, <2>2, <2>3 DEF Steady, RingTypeOK
<1>7. ASSUME NEW id \in 0 .. Depth, DevPost(id), dev_work' \subseteq dev_work,
             UNCHANGED restOfDriver, spurious' \in Nat, drops' \in Nat, dev_left' \in Nat
      PROVE  Steady'
  <2>1. /\ Slot(dev_cq_tail) \in Ids /\ dev_cq_phase' \in Phases
        /\ dev_cq_phase \in Phases
    BY <1>0, <1>7, IndexType DEF DevPost, RingTypeOK
  <2>2. cq_virt' \in [Ids -> [req_id : 0 .. Depth, phase : Phases]]
    BY <1>0, <1>7, <2>1, SMT DEF DevPost, RingTypeOK
  <2>3. UNCHANGED <<hw_valid, ring_lock, sqVars, db_val, dev_live, dev_sq_db,
                    dev_sq_head, cq_phase>>
    BY <1>7 DEF DevPost
  <2> QED BY <1>0, <1>1, <1>7, <2>1, <2>2, <2>3 DEF Steady, RingTypeOK
<1>8. CASE Spurious
  <2>1. PICK id \in OddIds : DevPost(id)
    BY <1>8 DEF Spurious
  <2>2. spurious' \in Nat /\ UNCHANGED <<restOfDriver, dev_work, dev_left, drops>>
    BY <1>0, <1>8, SMT DEF Spurious
  <2> QED BY <1>0, <1>7, <2>1, <2>2
<1>9. ASSUME NEW kind \in {"ok", "long", "bad"}, Receive(kind) PROVE Steady'
  <2>1. PICK w \in dev_work : DevPost(w.req_id) /\ dev_work' = dev_work \ {w}
    BY <1>9 DEF Receive, DevComplete
  <2>2. w.req_id \in 0 .. Depth
    BY <1>0, QueueType, IndexType
  <2>3. /\ spurious' \in Nat /\ drops' \in Nat /\ dev_left' \in Nat
        /\ UNCHANGED restOfDriver
    BY <1>0, <1>9, SMT DEF Receive
  <2> QED BY <1>7, <2>1, <2>2, <2>3
<1> QED
  BY <1>2, <1>3, <1>4, <1>5, <1>6, <1>8, <1>9, StepKinds DEF Feed

-----------------------------------------------------------------------------
(* The queues *)

\* Until the device completes something nobody asked for, the phases tell what
\* is new, everything queued belongs to a different request that is out, the
\* doorbell was given no tail past the driver's, and the slot of an id that is
\* checked out holds a netbuf.
Told == pc[Owner] = "dbWrite" => db_val[Owner] = sq_tail
FullIds == \A id \in Ids : req_allocated[id] => bufs[id] # None
Queued == spurious = 0 => PhasesTell /\ OnceQueued /\ Rung /\ Told /\ FullIds

LEMMA QueuedInit == Init => Queued
<1> SUFFICES ASSUME Init PROVE Queued
  OBVIOUS
<1>1. OnceQueued /\ PhasesTell /\ ToFetch = 0
  BY QueueInit DEF Init
<1>2. Ahead(0, 0) <= 0
  BY DepthAssumption, SMT DEF Ahead
<1>3. Rung /\ Told /\ FullIds
  BY <1>1, <1>2, RxAssumption DEF Rung, Told, FullIds, Init, RingInit
<1> QED BY <1>1, <1>3 DEF Queued

\* The owner writes a descriptor.
LEMMA SubmitQueued ==
  ASSUME HeldTypeOK, Control, PoolPartition, Steady, Queued, spurious = 0, SubmitOne(Owner)
  PROVE  PhasesTell' /\ OnceQueued' /\ Rung' /\ Told' /\ FullIds'
<1> USE RxAssumption
<1>0. /\ RingTypeOK /\ PhasesTell /\ OnceQueued /\ Rung /\ FullIds
      /\ pc \in [Cpus -> RxPcs] /\ PoolTypeOK
  BY DEF Steady, Queued, HeldTypeOK
<1>1. PICK id \in Ids :
        /\ ReqIdAlloc(id) /\ SqPush(id, fresh[Owner])
        /\ req_in_flight' = [req_in_flight EXCEPT ![id] = TRUE]
        /\ bufs' = [bufs EXCEPT ![id] = fresh[Owner]]
  BY DEF SubmitOne
<1>2. /\ UNCHANGED <<cq_head, cq_phase, cq_virt, dev_sq_db, dev_sq_head, dev_work,
                     dev_cq_tail, dev_cq_phase>>
      /\ pc' = [pc EXCEPT ![Owner] = "map"] /\ fresh[Owner] # None
  BY DEF SubmitOne, Goto, cqVars, devVars, Control
<1>3. ~ req_allocated[id] /\ req_allocated' = [req_allocated EXCEPT ![id] = TRUE]
  BY <1>0, <1>1, PoolAllocStep
<1>4. OnceQueued' /\ ToFetch' = ToFetch + 1
  BY <1>0, <1>1, <1>2, <1>3, QueuePush
<1>5. PhasesTell'
  BY <1>0, <1>2 DEF PhasesTell, ToRead, CqAt, PhaseAt
<1>6. Rung'
  <2>1. dev_sq_db \in Indices /\ dev_sq_head \in Indices
    BY <1>0 DEF RingTypeOK
  <2>2. Ahead(dev_sq_db, dev_sq_head) \in Nat /\ ToFetch \in Nat
    BY <1>0, <2>1, QueueType, DepthAssumption, SMT DEF Ahead, Indices
  <2>3. Ahead(dev_sq_db, dev_sq_head) <= ToFetch + 1
    BY <1>0, <2>2, SMT DEF Rung
  <2> QED BY <1>2, <1>4, <2>3 DEF Rung
<1>7. Told'
  BY <1>0, <1>2 DEF Told
<1>8. FullIds'
  <2>1. bufs \in [Ids -> Netbufs \cup {None}] /\ req_allocated \in [Ids -> BOOLEAN]
    BY <1>0 DEF PoolTypeOK
  <2> QED BY <1>0, <1>1, <1>2, <1>3, <2>1 DEF FullIds
<1> QED BY <1>4, <1>5, <1>6, <1>7, <1>8

\* The owner reads a completion: it is one of a request that is out and whose
\* slot is full, so it is not skipped.
LEMMA ReapQueued ==
  ASSUME HeldTypeOK, PoolPartition, Steady, Queued, spurious = 0, Reap
  PROVE  /\ PhasesTell' /\ OnceQueued' /\ Rung' /\ Told' /\ FullIds'
         /\ ~ ReapStale(Owner)
         /\ Cdesc.req_id \in Ids /\ bufs[Cdesc.req_id] # None
<1> USE RxAssumption
<1>0. /\ RingTypeOK /\ PhasesTell /\ OnceQueued /\ Rung /\ Told /\ FullIds
      /\ pc \in [Cpus -> RxPcs] /\ PoolTypeOK
  BY DEF Steady, Queued, HeldTypeOK
<1>1. PICK id \in Ids : id = Cdesc.req_id
  BY DEF Reap, ReapStale, ReapLong, ReapOne, Reaping
<1>2. /\ CdescReady /\ CqAdvance
      /\ UNCHANGED <<sq_tail, sq_virt, cq_virt, dev_sq_db, dev_sq_head, dev_work,
                     dev_cq_tail, dev_cq_phase, db_val>>
  BY DEF Reap, ReapStale, ReapLong, ReapOne, Reaping, sqVars, devVars, rxVars, refillVars
<1>3. \A x \in Ids : x # id => /\ req_allocated'[x] = req_allocated[x]
                               /\ req_in_flight'[x] = req_in_flight[x]
                               /\ bufs'[x] = bufs[x]
  <2>1. /\ bufs \in [Ids -> Netbufs \cup {None}] /\ req_allocated \in [Ids -> BOOLEAN]
        /\ req_in_flight \in [Ids -> BOOLEAN]
    BY <1>0 DEF RingTypeOK
  <2>2. CASE ReapStale(Owner)
    BY <2>2 DEF ReapStale, poolVars
  <2>3. CASE ReapLong(Owner)
    BY <1>1, <2>1, <2>3 DEF ReapLong, ReqIdFree
  <2>4. CASE ReapOne(Owner)
    BY <1>1, <2>1, <2>4 DEF ReapOne, ReqIdFree
  <2> QED BY <2>2, <2>3, <2>4 DEF Reap
<1>4. OnceQueued' /\ PhasesTell' /\ ToFetch' = ToFetch /\ Out(id)
  BY <1>0, <1>1, <1>2, <1>3, QueueRead
<1>5. ~ ReapStale(Owner)
  BY <1>1, <1>4 DEF ReapStale, Out
<1>6. Rung'
  BY <1>0, <1>2, <1>4 DEF Rung
<1>7. Told'
  <2>1. pc'[Owner] # "dbWrite"
    BY <1>0 DEF Reap, ReapStale, ReapLong, ReapOne, Reaping, Goto
  <2> QED BY <2>1 DEF Told
<1>8. ReqIdFree(id)
  BY <1>1, <1>5 DEF Reap, ReapLong, ReapOne
<1>9. req_allocated' = [req_allocated EXCEPT ![id] = FALSE]
  BY <1>0, <1>4, <1>8, PoolFreeStep DEF Out
<1>10. FullIds'
  <2>1. req_allocated \in [Ids -> BOOLEAN]
    BY <1>0 DEF PoolTypeOK
  <2> QED BY <1>0, <1>3, <1>9, <2>1 DEF FullIds
<1>11. bufs[id] # None
  BY <1>0, <1>4 DEF FullIds, Out
<1> QED BY <1>1, <1>4, <1>5, <1>6, <1>7, <1>10, <1>11

\* Every step keeps the queues.
LEMMA QueuedStep ==
  ASSUME Resetters = {}, HeldTypeOK, Control, PoolPartition, Alone, Steady, Queued,
         [Next]_vars
  PROVE  Queued'
<1> USE RxAssumption
<1> SUFFICES ASSUME spurious' = 0
             PROVE  PhasesTell' /\ OnceQueued' /\ Rung' /\ Told' /\ FullIds'
  BY DEF Queued
<1> USE DEF poolVars, sqVars, cqVars, devVars, refillVars, feedVars, restOfDriver
<1>0. /\ RingTypeOK /\ dev_live = TRUE /\ hw_valid = TRUE /\ pc \in [Cpus -> RxPcs]
      /\ spurious \in Nat
      /\ back \in [Cpus -> {"idle", "poll", "chain", "recovered"}]
      /\ db_val \in [Cpus -> Indices]
  BY DEF Steady, HeldTypeOK
<1>1. spurious = 0 /\ ~ Spurious
  <2>1. ~ Spurious
    <3>1. spurious + 1 # 0
      BY <1>0, SMT
    <3> QED BY <3>1 DEF Spurious
  <2> QED
    BY <2>1, StepKinds DEF Calm, SubmitOne, DoorbellWrite, Reap, ReapStale, ReapLong,
       ReapOne, Feed, Fetch, Receive, rxVars
<1>2. PhasesTell /\ OnceQueued /\ Rung /\ Told /\ FullIds
  BY <1>1 DEF Queued
<1>3. CASE Calm
  <2>1. /\ UNCHANGED <<poolVars, sqVars, cqVars, cq_virt, devVars>>
        /\ Told'
    BY <1>2, <1>3 DEF Calm, Told
  <2>2. OnceQueued' /\ ToFetch' = ToFetch
    BY <1>0, <1>2, <2>1, QueueFrame
  <2>3. PhasesTell' /\ FullIds'
    BY <1>2, <2>1 DEF PhasesTell, ToRead, CqAt, PhaseAt, FullIds
  <2>4. Rung'
    BY <1>2, <2>1, <2>2 DEF Rung
  <2> QED BY <2>1, <2>2, <2>3, <2>4
<1>4. CASE SubmitOne(Owner)
  BY <1>1, <1>4, SubmitQueued
<1>5. CASE DoorbellWrite(Owner)
  <2>1. /\ UNCHANGED <<poolVars, sqVars, cqVars, cq_virt, dev_sq_head, dev_work,
                       dev_cq_tail, dev_cq_phase>>
        /\ dev_sq_db' = sq_tail /\ pc'[Owner] # "dbWrite"
    BY <1>0, <1>2, <1>5 DEF DoorbellWrite, Goto, Told
  <2>2. OnceQueued' /\ ToFetch' = ToFetch /\ ToFetch \in Nat
    BY <1>0, <1>2, <2>1, QueueFrame, QueueType
  <2>3. PhasesTell' /\ FullIds' /\ Told'
    BY <1>2, <2>1 DEF PhasesTell, ToRead, CqAt, PhaseAt, FullIds, Told
  <2>4. Rung'
    <3>1. Ahead(dev_sq_db, dev_sq_head)' = ToFetch
      BY <2>1 DEF ToFetch
    <3>2. ToFetch <= ToFetch
      BY <2>2, SMT
    <3> QED BY <2>2, <3>1, <3>2 DEF Rung
  <2> QED BY <2>2, <2>3, <2>4
<1>6. CASE Reap
  BY <1>1, <1>6, ReapQueued
<1>7. CASE Fetch
  <2>1. /\ DevFetch
        /\ UNCHANGED <<sq_tail, sq_virt, cqVars, poolVars, pc, db_val, cq_virt, dev_cq_tail,
                       dev_cq_phase>>
    BY <1>7 DEF Fetch, DevFetch
  <2>2. ToFetch > 0 /\ Rung'
    BY <1>0, <1>2, <2>1, RungFetch
  <2>3. OnceQueued'
    BY <1>0, <1>2, <2>1, <2>2, QueueFetch
  <2>4. PhasesTell' /\ FullIds' /\ Told'
    BY <1>2, <2>1 DEF PhasesTell, ToRead, CqAt, PhaseAt, FullIds, Told
  <2> QED BY <2>2, <2>3, <2>4
<1>8. ASSUME NEW kind \in {"ok", "long", "bad"}, Receive(kind)
      PROVE  PhasesTell' /\ OnceQueued' /\ Rung' /\ Told' /\ FullIds'
  <2>1. PICK w \in dev_work : dev_work' = dev_work \ {w} /\ DevPost(w.req_id)
    BY <1>8 DEF Receive, DevComplete
  <2>2. UNCHANGED <<sqVars, cqVars, poolVars, pc, db_val>>
    BY <1>8 DEF Receive
  <2>3. OnceQueued' /\ PhasesTell' /\ ToFetch' = ToFetch
    BY <1>0, <1>2, <2>1, <2>2, QueuePost
  <2>4. Rung' /\ FullIds' /\ Told'
    BY <1>2, <2>1, <2>2, <2>3 DEF Rung, DevPost, FullIds, Told
  <2> QED BY <2>3, <2>4
<1> QED
  BY <1>1, <1>3, <1>4, <1>5, <1>6, <1>7, <1>8, StepKinds DEF Feed

\* The queues of a ring that is never reset.
RxQueueInv == HeldTypeOK /\ HeldInv /\ BounceInv /\ Steady /\ Queued

LEMMA RxQueueInvariant == Resetters = {} => (Spec => []RxQueueInv)
<1> SUFFICES ASSUME Resetters = {} PROVE Spec => []RxQueueInv
  OBVIOUS
<1>1. Spec => [](HeldTypeOK /\ HeldInv /\ BounceInv)
  BY BounceInvariant
<1>2. HeldTypeOK /\ HeldInv /\ BounceInv /\ HeldTypeOK' /\ Steady /\ Queued /\ [Next]_vars
        => Steady' /\ Queued'
  BY SteadyStep, QueuedStep DEF HeldInv, BounceInv
<1>3. Init => Steady /\ Queued
  BY SteadyInit, QueuedInit
<1> QED BY <1>1, <1>2, <1>3, PTL DEF Spec, RxQueueInv

\* As long as no core resets the device and the device completes only what it
\* was given, every descriptor it still has to fetch or to fill names a netbuf
\* that the driver holds in the tracking slot of that request: the device
\* never writes into a netbuf the stack or the heap has (ena_rx_submit_one,
\* ena_rx_doorbell, ena_rx_poll), for every depth of the ring, across any
\* number of wraps of the indices.
THEOREM RxDmaTargetsHeld == Resetters = {} => (Spec => []DmaTargetsHeld)
<1> SUFFICES ASSUME Resetters = {} PROVE Spec => []DmaTargetsHeld
  OBVIOUS
<1>1. RxQueueInv => DmaTargetsHeld
  <2> SUFFICES ASSUME RxQueueInv, spurious = 0
               PROVE  /\ \A w \in dev_work : bufs[w.req_id] = w.nb
                      /\ \A s \in Unfetched : bufs[sq_virt[s].req_id] = sq_virt[s].nb
    BY DEF DmaTargetsHeld
  <2>1. OnceQueued
    BY DEF RxQueueInv, Queued
  <2>2. ASSUME NEW s \in Unfetched PROVE bufs[sq_virt[s].req_id] = sq_virt[s].nb
    <3>1. PICK k \in 0 .. ToFetch - 1 : s = Slot(dev_sq_head + k)
      BY DEF Unfetched, ToFetch
    <3> QED BY <2>1, <3>1 DEF OnceQueued, SqAt
  <2> QED BY <2>1, <2>2 DEF OnceQueued
<1>2. Spec => []RxQueueInv
  BY RxQueueInvariant
<1> QED BY <1>1, <1>2, PTL

-----------------------------------------------------------------------------
(* The stream of fragments *)

\* A frame that is being written or put together is named by its number; 0
\* stands between two frames.  Where a completion leaves the stream, and which
\* completions fit where it stands:
After(info) == IF info.last THEN 0 ELSE info.frame
Fits(info, at) ==
  /\ info.kind = "ok" /\ info.frame > 0
  /\ info.first <=> at = 0
  /\ at # 0 => info.frame = at

\* Where the stream stands after the partial frame, after the packet in hand,
\* before the k-th completion the driver has not read, and at the device.
ChainAt   == IF chain = <<>> THEN 0 ELSE chain[1].info.frame
HandAt    == IF got.nb = None THEN ChainAt ELSE After(got.info)
InfoAt(k) == cq_info[Slot(cq_head + k)]
ReadAt(k) == IF k = 0 THEN HandAt ELSE After(InfoAt(k - 1))
DevAt     == IF dev_left = 0 THEN 0 ELSE frames

\* Fragments of one frame, from its first one on.
OneFrame(frags) ==
  frags # <<>> =>
    /\ frags[1].info.first /\ frags[1].info.frame > 0
    /\ \A i \in 1 .. Len(frags) :
         /\ frags[i].info.frame = frags[1].info.frame
         /\ i > 1 => ~ frags[i].info.first

\* The fragments in the partial frame, in hand and in the completion queue
\* follow each other up to where the device stands.
Stream ==
  /\ got.nb # None => Fits(got.info, ChainAt)
  /\ \A k \in 0 .. ToRead - 1 : Fits(InfoAt(k), ReadAt(k))
  /\ ReadAt(ToRead) = DevAt
  /\ dev_left > 0 => frames > 0
Framed ==
  /\ dropped = FALSE /\ OneFrame(chain)
  /\ OneFrame(out) /\ (out # <<>> => out[Len(out)].info.last)
Streamed == drops = 0 /\ spurious = 0 => Stream /\ Framed

LEMMA StreamedInit == Init => Streamed
<1> SUFFICES ASSUME Init PROVE Streamed
  OBVIOUS
<1>1. Ahead(0, 0) = 0 /\ (\A k \in 0 .. 0 - 1 : FALSE) /\ ~ (0 > 0)
  BY DepthAssumption, SMT DEF Ahead
<1>2. /\ ToRead = 0 /\ chain = <<>> /\ out = <<>> /\ dropped = FALSE /\ dev_left = 0
      /\ got.nb = None
  BY <1>1, SMT DEF Init, RingInit, ToRead, NoPkt
<1> QED BY <1>1, <1>2 DEF Streamed, Stream, Framed, OneFrame, ReadAt, HandAt, ChainAt, DevAt

\* A step that reads no completion and receives nothing keeps the stream when
\* it leaves it where it stands.
LEMMA StreamFrame ==
  ASSUME Stream, UNCHANGED <<cq_head, dev_cq_tail, cq_info, dev_left, frames>>,
         HandAt' = HandAt, (got.nb # None => Fits(got.info, ChainAt))'
  PROVE  Stream'
<1>1. ToRead' = ToRead
  BY DEF ToRead
<1>2. ASSUME NEW k PROVE InfoAt(k)' = InfoAt(k) /\ ReadAt(k)' = ReadAt(k)
  BY DEF InfoAt, ReadAt
<1>3. DevAt' = DevAt
  BY DEF DevAt
<1>4. ASSUME NEW k \in 0 .. ToRead - 1 PROVE Fits(InfoAt(k), ReadAt(k))'
  <2>1. Fits(InfoAt(k), ReadAt(k))
    BY DEF Stream
  <2> QED BY <1>2, <2>1 DEF Fits
<1>5. ReadAt(ToRead)' = DevAt'
  <2>1. ReadAt(ToRead)' = ReadAt(ToRead)
    BY <1>1 DEF ReadAt, InfoAt
  <2> QED BY <1>3, <2>1 DEF Stream
<1> QED BY <1>1, <1>4, <1>5 DEF Stream

\* A fragment that fits the partial frame makes it longer.
LEMMA FrameGrows ==
  ASSUME HeldTypeOK, got.nb # None, OneFrame(chain), Fits(got.info, ChainAt),
         NEW frags, frags = Append(chain, Fragment)
  PROVE  /\ OneFrame(frags) /\ frags # <<>>
         /\ frags[1].info.frame = got.info.frame /\ frags[Len(frags)].info = got.info
<1> DEFINE T == [nb : Netbufs, info : Infos]
<1>1. chain \in Seq(T) /\ got.info \in Infos /\ got.nb \in Netbufs
  BY SMT DEF HeldTypeOK
<1>2. Fragment \in T /\ Fragment.info = got.info
  BY <1>1, SMT DEF Fragment
<1>3. /\ frags # <<>> /\ Len(frags) = Len(chain) + 1 /\ Len(chain) \in Nat
      /\ \A i \in 1 .. Len(chain) : frags[i] = chain[i]
      /\ frags[Len(chain) + 1] = Fragment
      /\ chain = <<>> <=> Len(chain) = 0
  <2> HIDE DEF T
  <2> QED BY <1>1, <1>2, SMT
<1>4. OneFrame(frags) /\ frags[1].info.frame = got.info.frame
  <2>1. CASE chain = <<>>
    <3>1. /\ Len(frags) = 1 /\ frags[1].info = got.info
          /\ \A i \in 1 .. 1 : i = 1 /\ ~ (i > 1)
      BY <1>2, <1>3, <2>1, SMT
    <3>2. got.info.first /\ got.info.frame > 0
      BY <2>1 DEF Fits, ChainAt
    <3> QED BY <3>1, <3>2 DEF OneFrame
  <2>2. CASE chain # <<>>
    <3>1. /\ 1 \in 1 .. Len(chain) /\ frags[1] = chain[1]
          /\ \A i \in 1 .. Len(chain) + 1 : i \in 1 .. Len(chain) \/ i = Len(chain) + 1
          /\ ~ (0 > 0)
      BY <1>3, <2>2, SMT
    <3>2. ChainAt = chain[1].info.frame /\ ChainAt > 0 /\ chain[1].info.first
      BY <2>2 DEF OneFrame, ChainAt
    <3>3. got.info.frame = chain[1].info.frame /\ ~ got.info.first
      BY <3>1, <3>2 DEF Fits
    <3>4. ASSUME NEW i \in 1 .. Len(frags)
          PROVE  /\ frags[i].info.frame = frags[1].info.frame
                 /\ i > 1 => ~ frags[i].info.first
      <4>1. CASE i \in 1 .. Len(chain)
        <5>1. frags[i] = chain[i]
          BY <1>3, <4>1
        <5> QED BY <2>2, <3>1, <4>1, <5>1 DEF OneFrame
      <4>2. CASE i = Len(chain) + 1
        BY <1>2, <1>3, <3>1, <3>3, <4>2
      <4> QED BY <1>3, <3>1, <4>1, <4>2
    <3> QED BY <3>1, <3>2, <3>3, <3>4 DEF OneFrame
  <2> QED BY <2>1, <2>2
<1> QED BY <1>2, <1>3, <1>4

\* A fragment that does not end its frame is put at the end of the chain.
LEMMA ChainFragmentStream ==
  ASSUME HeldTypeOK, Control, Stream, Framed, ChainFragment(Owner)
  PROVE  HandAt' = HandAt /\ Framed' /\ got'.nb = None
<1>1. /\ ~ got.info.last /\ got.nb # None
      /\ chain' = Append(chain, Fragment) /\ got' = NoPkt /\ out' = out
      /\ dropped' = dropped
  BY DEF ChainFragment, StartsChain, ExtendsChain, Goto, Control, Between
<1>2. Fits(got.info, ChainAt) /\ OneFrame(chain)
  BY <1>1 DEF Stream, Framed
<1>3. OneFrame(chain') /\ chain' # <<>> /\ chain'[1].info.frame = got.info.frame
  BY <1>1, <1>2, FrameGrows
<1>4. got'.nb = None
  BY <1>1, SMT DEF NoPkt
<1>5. HandAt' = HandAt
  BY <1>1, <1>3, <1>4 DEF HandAt, ChainAt, After
<1> QED BY <1>1, <1>3, <1>4, <1>5 DEF Framed

\* The fragment that ends its frame completes what is delivered.
LEMMA DeliverStream ==
  ASSUME HeldTypeOK, Control, Stream, Framed, Deliver(Owner)
  PROVE  HandAt' = HandAt /\ Framed' /\ got'.nb = None
<1>1. /\ ~ (StartsChain \/ ExtendsChain) /\ got.nb # None
      /\ out' = Append(chain, Fragment) /\ got' = NoPkt /\ chain' = <<>>
      /\ dropped' = dropped
  BY DEF Deliver, Goto, Control, Between
<1>2. Fits(got.info, ChainAt) /\ OneFrame(chain)
  BY <1>1 DEF Stream, Framed
<1>3. got.info.last
  BY <1>1, <1>2 DEF StartsChain, ExtendsChain, Fits, ChainAt
<1>4. OneFrame(out') /\ out'[Len(out')].info = got.info
  BY <1>1, <1>2, FrameGrows
<1>5. got'.nb = None
  BY <1>1, SMT DEF NoPkt
<1>6. HandAt' = HandAt
  BY <1>1, <1>3, <1>5 DEF HandAt, ChainAt, After
<1> QED BY <1>1, <1>3, <1>4, <1>5, <1>6 DEF Framed, OneFrame

\* A step that touches no queue leaves the stream where it stands.
LEMMA CalmStream ==
  ASSUME HeldTypeOK, Control, Stream, Framed, Calm
  PROVE  Stream' /\ Framed'
<1>1. UNCHANGED <<cq_head, dev_cq_tail, cq_info, dev_left, frames>>
  BY DEF Calm, cqVars, devVars, feedVars
<1>2. CASE UNCHANGED <<chain, got, dropped>> /\ (out' = out \/ out' = <<>>)
  <2>1. HandAt' = HandAt /\ (got.nb # None => Fits(got.info, ChainAt))'
    BY <1>2 DEF HandAt, ChainAt, Stream, Fits
  <2>2. Framed'
    BY <1>2 DEF Framed, OneFrame
  <2> QED BY <1>1, <2>1, <2>2, StreamFrame
<1>3. CASE NothingReceived(Owner)
  <2>1. /\ got.nb = None /\ chain' = chain /\ got' = NoPkt /\ dropped' = FALSE
        /\ out' = out
    BY <1>3 DEF NothingReceived, KeptAfter, Framed
  <2>2. got'.nb = None
    BY <2>1, SMT DEF NoPkt
  <2>3. HandAt' = HandAt /\ (got.nb # None => Fits(got.info, ChainAt))' /\ Framed'
    BY <2>1, <2>2 DEF HandAt, ChainAt, Framed
  <2> QED BY <1>1, <2>3, StreamFrame
<1>4. CASE DropPacket(Owner)
  BY <1>4 DEF DropPacket, Stream, Fits
<1>5. CASE TakePacket(Owner)
  <2>1. chain' = chain /\ got' = got /\ dropped' = FALSE /\ out' = out
    BY <1>5 DEF TakePacket, KeptAfter, Framed
  <2>2. HandAt' = HandAt /\ (got.nb # None => Fits(got.info, ChainAt))' /\ Framed'
    BY <2>1 DEF HandAt, ChainAt, Stream, Fits, Framed
  <2> QED BY <1>1, <2>2, StreamFrame
<1>6. CASE ChainFragment(Owner)
  BY <1>1, <1>6, ChainFragmentStream, StreamFrame
<1>7. CASE Deliver(Owner)
  BY <1>1, <1>7, DeliverStream, StreamFrame
<1> QED BY <1>2, <1>3, <1>4, <1>5, <1>6, <1>7 DEF Calm

\* The completion the owner reads is the next fragment: it is never dropped,
\* and the stream stands after it.
LEMMA ReapStream ==
  ASSUME HeldTypeOK, Control, PoolPartition, Steady, Queued, spurious = 0, Stream, Framed,
         Reap
  PROVE  Stream' /\ Framed'
<1>0. /\ RingTypeOK /\ PhasesTell /\ cq_head \in Indices
      /\ CdescReady /\ CqAdvance
      /\ UNCHANGED <<cq_virt, dev_cq_tail, dev_cq_phase, cq_info, dev_left, frames>>
  BY DEF Steady, RingTypeOK, Queued, Reap, ReapStale, ReapLong, ReapOne, Reaping, devVars,
         feedVars, rxVars
<1>1. ToRead \in Nat /\ ToRead > 0 /\ ToRead' = ToRead - 1
  BY <1>0, ReadView
<1>2. /\ cq_head + 0 = cq_head /\ 0 \in 0 .. ToRead - 1
      /\ \A k \in 0 .. ToRead' - 1 : k \in Nat /\ k + 1 \in 0 .. ToRead - 1
      /\ ToRead' \in Nat /\ ToRead' + 1 = ToRead
      /\ \A k \in Nat : k + 1 # 0 /\ (k + 1) - 1 = k /\ (k # 0 => k - 1 \in Nat)
      /\ \A k \in Nat : k # 0 => cq_head + (k - 1) + 1 = cq_head + k
      /\ \A k \in Nat : cq_head + k + 1 = cq_head + (k + 1)
  BY <1>0, <1>1, SMT DEF Indices
<1>3. Info = InfoAt(0)
  BY <1>2 DEF Info, InfoAt
<1>4. Fits(InfoAt(0), HandAt)
  BY <1>2 DEF Stream, ReadAt
<1>5. ~ ReapLong(Owner) /\ ~ ReapStale(Owner)
  BY <1>3, <1>4, ReapQueued DEF ReapLong, TooLong, Fits
<1>6. ReapOne(Owner)
  BY <1>5 DEF Reap
<1>7. got.nb = None
  BY <1>6 DEF ReapOne, Reaping, Control, Between, RefillPcs
<1>8. got'.nb # None /\ got'.info = InfoAt(0)
  <2>1. got'.nb = bufs[Cdesc.req_id] /\ got'.info = Info
    BY <1>6, SMT DEF ReapOne
  <2> QED BY <1>3, <2>1, ReapQueued
<1>9. UNCHANGED <<chain, out, dropped>>
  BY <1>6 DEF ReapOne, stackVars
<1>10. ASSUME NEW k \in Nat PROVE InfoAt(k)' = InfoAt(k + 1)
  <2>1. Slot(Succ(cq_head) + k) = Slot(cq_head + k + 1)
    BY <1>0, Slots
  <2> QED BY <1>0, <1>2, <2>1 DEF InfoAt, CqAdvance
<1>11. ASSUME NEW k \in Nat PROVE ReadAt(k)' = ReadAt(k + 1)
  <2>1. ReadAt(k + 1) = After(InfoAt(k))
    BY <1>2 DEF ReadAt
  <2>2. CASE k = 0
    BY <1>8, <2>1, <2>2 DEF ReadAt, HandAt, After
  <2>3. CASE k # 0
    <3>1. PICK j \in Nat : j = k - 1 /\ j + 1 = k
      BY <2>3, SMT
    <3>2. InfoAt(j)' = InfoAt(k)
      BY <1>10, <3>1
    <3>3. ReadAt(k)' = After(InfoAt(j)')
      BY <2>3, <3>1 DEF ReadAt, After
    <3> QED BY <2>1, <3>2, <3>3
  <2> QED BY <2>2, <2>3
<1>12. (got.nb # None => Fits(got.info, ChainAt))'
  <2>1. HandAt = ChainAt /\ ChainAt' = ChainAt
    BY <1>7, <1>9 DEF HandAt, ChainAt
  <2> QED BY <1>4, <1>8, <2>1 DEF Fits
<1>13. ASSUME NEW k \in 0 .. ToRead' - 1 PROVE Fits(InfoAt(k), ReadAt(k))'
  <2>1. Fits(InfoAt(k + 1), ReadAt(k + 1))
    BY <1>2 DEF Stream
  <2>2. InfoAt(k)' = InfoAt(k + 1) /\ ReadAt(k)' = ReadAt(k + 1)
    BY <1>2, <1>10, <1>11
  <2> QED BY <2>1, <2>2 DEF Fits
<1>14. ReadAt(ToRead)' = DevAt'
  <2>1. PICK n \in Nat : n = ToRead' /\ n + 1 = ToRead
    BY <1>2
  <2>2. ReadAt(n)' = ReadAt(n + 1)
    BY <1>11
  <2>3. ReadAt(ToRead)' = ReadAt(n)'
    BY <2>1 DEF ReadAt, InfoAt
  <2>4. DevAt' = DevAt
    BY <1>0 DEF DevAt
  <2> QED BY <2>1, <2>2, <2>3, <2>4 DEF Stream
<1>15. Stream'
  BY <1>0, <1>12, <1>13, <1>14 DEF Stream
<1>16. Framed'
  BY <1>9 DEF Framed
<1> QED BY <1>15, <1>16

\* The device puts the next fragment behind everything the driver has not read.
LEMMA ReceiveStream ==
  ASSUME HeldTypeOK, Steady, Queued, spurious = 0, drops = 0, Stream, Framed,
         NEW kind \in {"ok", "long", "bad"}, Receive(kind), drops' = 0
  PROVE  Stream' /\ Framed'
<1>0. /\ RingTypeOK /\ PhasesTell /\ OnceQueued /\ cq_head \in Indices
      /\ dev_cq_tail \in Indices /\ frames \in Nat /\ dev_left \in Nat
      /\ cq_info \in [Ids -> Infos]
  BY DEF Steady, RingTypeOK, Queued, HeldTypeOK
<1>1. PICK w \in dev_work : dev_work' = dev_work \ {w} /\ DevPost(w.req_id)
  BY DEF Receive, DevComplete
<1>2. UNCHANGED <<sqVars, cqVars, poolVars, chain, out, got, dropped>>
  BY DEF Receive, restOfDriver, stackVars, pollVars
<1>3. ToRead \in Nat /\ ToRead < Depth /\ ToRead' = ToRead + 1
  BY <1>0, <1>1, <1>2, QueuePost, QueueType DEF sqVars, cqVars, poolVars
<1>4. kind = "ok"
  <2>1. drops + 1 # 0
    BY SMT
  <2> QED BY <2>1 DEF Receive
<1>5. PICK n \in IF dev_left = 0 THEN 1 .. MaxFrags ELSE {dev_left},
           info \in Infos :
        /\ info.first <=> dev_left = 0
        /\ info.frame = IF dev_left = 0 THEN frames + 1 ELSE frames
        /\ info.last <=> n = 1
        /\ info.kind = "ok"
        /\ frames' = info.frame /\ dev_left' = n - 1
        /\ cq_info' = [cq_info EXCEPT ![Slot(dev_cq_tail)] = info]
  <2>1. PICK n \in IF dev_left = 0 THEN 1 .. MaxFrags ELSE {dev_left} :
          LET frame == IF dev_left = 0 THEN frames + 1 ELSE frames IN
            /\ frames' = frame /\ dev_left' = n - 1
            /\ cq_info' = [cq_info EXCEPT ![Slot(dev_cq_tail)] =
                 [frame |-> frame, first |-> dev_left = 0, last |-> n = 1, kind |-> "ok"]]
    BY <1>4 DEF Receive, PutInfo
  <2> DEFINE info == [frame |-> IF dev_left = 0 THEN frames + 1 ELSE frames,
                      first |-> dev_left = 0, last |-> n = 1, kind |-> "ok"]
  <2>2. info \in Infos
    BY <1>0, SMT DEF Infos
  <2>3. /\ info.first <=> dev_left = 0
        /\ info.frame = IF dev_left = 0 THEN frames + 1 ELSE frames
        /\ info.last <=> n = 1
        /\ info.kind = "ok"
    OBVIOUS
  <2>4. /\ frames' = info.frame /\ dev_left' = n - 1
        /\ cq_info' = [cq_info EXCEPT ![Slot(dev_cq_tail)] = info]
    BY <2>1, <2>3
  <2> HIDE DEF info
  <2> QED BY <2>2, <2>3, <2>4
<1>6. /\ n \in Nat /\ n > 0
      /\ info.frame \in Nat /\ info.frame > 0
      /\ dev_left' = 0 <=> info.last
      /\ dev_left # 0 => frames # 0
  BY <1>0, <1>5, RxAssumption, SMT DEF Stream
<1>7. Fits(info, DevAt) /\ DevAt' = After(info)
  <2>1. info.frame # 0
    BY <1>6, SMT
  <2> QED BY <1>5, <1>6, <2>1 DEF Fits, DevAt, After
<1>8. ASSUME NEW k \in 0 .. ToRead - 1 PROVE InfoAt(k)' = InfoAt(k)
  <2>1. k \in Ids /\ ToRead \in Ids /\ k # ToRead /\ k \in Nat
    BY <1>3, DepthAssumption, SMT DEF Ids
  <2>2. /\ Slot(cq_head + k) \in Ids
        /\ \A l \in Ids : Slot(cq_head + k) = Slot(cq_head + l) => k = l
    BY <1>0, <2>1, Slots, ZenonT(30)
  <2>3. Slot(cq_head + ToRead) = Slot(dev_cq_tail)
    BY <1>0, Slots DEF ToRead
  <2>4. Slot(cq_head + k) # Slot(dev_cq_tail)
    BY <2>1, <2>2, <2>3
  <2> QED BY <1>0, <1>2, <1>5, <2>2, <2>4 DEF InfoAt, cqVars
<1>9. PICK m \in Nat : m = ToRead
  BY <1>3
<1>10. InfoAt(m)' = info
  <2>1. Slot(cq_head + m) = Slot(dev_cq_tail) /\ Slot(dev_cq_tail) \in Ids
    BY <1>0, <1>9, Slots, IndexType DEF ToRead
  <2> QED BY <1>0, <1>2, <1>5, <2>1 DEF InfoAt, cqVars
<1>11. HandAt' = HandAt
  BY <1>2 DEF HandAt, ChainAt
<1>12. ASSUME NEW k \in 0 .. m PROVE ReadAt(k)' = ReadAt(k)
  <2>1. k = 0 \/ k - 1 \in 0 .. ToRead - 1
    BY <1>9, SMT
  <2>2. CASE k = 0
    BY <1>11, <2>2 DEF ReadAt
  <2>3. CASE k # 0
    <3>1. PICK j \in 0 .. ToRead - 1 : j = k - 1
      BY <2>1, <2>3
    <3>2. InfoAt(j)' = InfoAt(j)
      BY <1>8
    <3>3. ReadAt(k)' = After(InfoAt(j)') /\ ReadAt(k) = After(InfoAt(j))
      BY <2>3, <3>1 DEF ReadAt, After
    <3> QED BY <3>2, <3>3
  <2> QED BY <2>2, <2>3
<1>13. /\ m \in 0 .. m /\ m + 1 # 0 /\ (m + 1) - 1 = m
       /\ \A k \in 0 .. ToRead' - 1 : k \in 0 .. m /\ (k \in 0 .. ToRead - 1 \/ k = m)
  BY <1>3, <1>9, SMT
<1>14. ReadAt(m) = DevAt
  BY <1>9 DEF Stream
<1>15. ASSUME NEW k \in 0 .. ToRead' - 1 PROVE Fits(InfoAt(k), ReadAt(k))'
  <2>1. ReadAt(k)' = ReadAt(k)
    BY <1>12, <1>13
  <2>2. CASE k \in 0 .. ToRead - 1
    <3>1. Fits(InfoAt(k), ReadAt(k))
      BY <2>2 DEF Stream
    <3> QED BY <1>8, <2>1, <2>2, <3>1 DEF Fits
  <2>3. CASE k = m
    BY <1>7, <1>10, <1>14, <2>1, <2>3 DEF Fits
  <2> QED BY <1>13, <2>2, <2>3
<1>16. ReadAt(ToRead)' = DevAt'
  <2>1. PICK l : l = m + 1
    OBVIOUS
  <2>2. ReadAt(l)' = After(InfoAt(m)')
    BY <1>13, <2>1 DEF ReadAt, After
  <2>3. ReadAt(ToRead)' = ReadAt(l)'
    BY <1>3, <1>9, <2>1 DEF ReadAt, InfoAt
  <2> QED BY <1>7, <1>10, <2>2, <2>3
<1>17. (got.nb # None => Fits(got.info, ChainAt))'
  BY <1>2 DEF Stream, Fits, ChainAt
<1>18. Stream'
  BY <1>5, <1>6, <1>15, <1>16, <1>17 DEF Stream
<1>19. Framed'
  BY <1>2 DEF Framed
<1> QED BY <1>18, <1>19

\* Every step keeps the stream.
LEMMA StreamedStep ==
  ASSUME Resetters = {}, HeldTypeOK, HeldInv, Alone, Steady, Queued, Streamed, [Next]_vars
  PROVE  Streamed'
<1> USE DEF cqVars, devVars, feedVars, stackVars, pollVars, refillVars, rxVars, restOfDriver
<1> SUFFICES ASSUME drops' = 0, spurious' = 0 PROVE Stream' /\ Framed'
  BY DEF Streamed
<1>0. spurious \in Nat /\ drops \in Nat /\ Control /\ PoolPartition
  BY DEF Steady, HeldInv
<1>1. ~ Spurious
  <2>1. spurious + 1 # 0
    BY <1>0, SMT
  <2> QED BY <2>1 DEF Spurious
<1>2. drops = 0 /\ spurious = 0
  <2>1. drops + 1 # 0
    BY <1>0, SMT
  <2> QED
    BY <1>1, <2>1, StepKinds DEF Calm, SubmitOne, DoorbellWrite, Reap, ReapStale, ReapLong,
       ReapOne, Feed, Fetch, Receive
<1>3. Stream /\ Framed
  BY <1>2 DEF Streamed
<1>4. CASE Calm
  BY <1>0, <1>3, <1>4, CalmStream
<1>5. CASE SubmitOne(Owner) \/ DoorbellWrite(Owner) \/ Fetch
  <2>1. UNCHANGED <<cq_head, dev_cq_tail, cq_info, dev_left, frames, chain, got, dropped,
                    out>>
    BY <1>5 DEF SubmitOne, DoorbellWrite, Fetch, DevFetch
  <2>2. HandAt' = HandAt /\ (got.nb # None => Fits(got.info, ChainAt))' /\ Framed'
    BY <1>3, <2>1 DEF HandAt, ChainAt, Stream, Fits, Framed
  <2> QED BY <1>3, <2>1, <2>2, StreamFrame
<1>6. CASE Reap
  BY <1>0, <1>2, <1>3, <1>6, ReapStream
<1>7. ASSUME NEW kind \in {"ok", "long", "bad"}, Receive(kind) PROVE Stream' /\ Framed'
  BY <1>2, <1>3, <1>7, ReceiveStream
<1> QED BY <1>1, <1>4, <1>5, <1>6, <1>7, StepKinds DEF Feed

\* As long as no core resets the device and the device completes what it was
\* given with fragments that fit their buffers, every packet the driver
\* delivers is one frame from its first fragment to its last: the order of the
\* completion queue, the packet in hand across a refill and the partial frame
\* kept between two calls never mix two frames nor lose a fragment
\* (ena_rx_poll, ena_netdev_rx_one), for frames of any number of fragments.
THEOREM RxFramesWhole == Resetters = {} => (Spec => []WholeFrames)
<1> SUFFICES ASSUME Resetters = {} PROVE Spec => []WholeFrames
  OBVIOUS
<1>1. Spec => []RxQueueInv
  BY RxQueueInvariant
<1>2. RxQueueInv /\ Streamed /\ [Next]_vars => Streamed'
  BY StreamedStep DEF RxQueueInv, BounceInv
<1>3. Init => Streamed
  BY StreamedInit
<1>4. Streamed => WholeFrames
  BY DEF Streamed, Framed, OneFrame, WholeFrames
<1> QED BY <1>1, <1>2, <1>3, <1>4, PTL DEF Spec
=============================================================================
