----------------------------- MODULE EnaTxProofs -----------------------------
(***************************************************************************)
(* Proofs about the transmit path, for every number of cores, netbufs and  *)
(* bounce slots and every depth: the accounting and the refinement of      *)
(* NetbufCustody with any number of resets and of completions nobody asked *)
(* for, the queues, the slots and the place of the release between two     *)
(* recoveries.                                                             *)
(***************************************************************************)
EXTENDS EnaTx, EnaRingProofs

\* Zenon proves a step, unless the step names another prover.
USE Zenon

USE NoneAssumption

-----------------------------------------------------------------------------
(* Type correctness *)

ForeignEntry == [req_id : Ids, owner_cpu : Cpus \cup {None}]

\* Taking an entry out of the deferred array leaves an array of entries.
LEMMA DropForeignType ==
  ASSUME tx_foreign \in Seq(ForeignEntry), NEW i \in 1 .. Len(tx_foreign)
  PROVE  /\ tx_foreign[i].req_id \in Ids
         /\ Len(tx_foreign) - 1 \in Nat
         /\ DropForeign(i) \in Seq(ForeignEntry)
         /\ Len(DropForeign(i)) = Len(tx_foreign) - 1
<1> DEFINE n == Len(tx_foreign) - 1
<1>1. n \in Nat
  BY SMT
<1>2. \A j \in 1 .. Len(tx_foreign) : tx_foreign[j] \in ForeignEntry
  BY SMT
<1>3. DropForeign(i) \in [1 .. n -> ForeignEntry]
  BY <1>1, <1>2, SMT DEF DropForeign
<1>4. tx_foreign[i].req_id \in Ids
  BY <1>2 DEF ForeignEntry
<1> QED BY <1>1, <1>3, <1>4, SMT

\* Every step keeps the state of the transmit path in its type.
LEMMA TypeStep == TypeOK /\ [Next]_vars => TypeOK'
<1> SUFFICES ASSUME TypeOK, [Next]_vars PROVE TypeOK'
  OBVIOUS
<1> USE DEF TypeOK, RingTypeOK, Goto, Pcs, ringVars, poolVars, sqVars, cqVars,
            devVars, txVars, bounceVars, coreVars, boundVars
<1>1. ASSUME UNCHANGED vars PROVE TypeOK'
  BY <1>1 DEF vars
<1>2. ASSUME NEW c \in Cpus, CoreStep(c) PROVE TypeOK'
  <2>1. CASE PollSkip(c)
    BY <2>1 DEF PollSkip, AfterPoll
  <2>2. CASE PollEnter(c)
    BY <2>2 DEF PollEnter
  <2>3. CASE PollLock(c)
    BY <2>3 DEF PollLock, Lock
  <2>4. CASE DrainOne(c)
    <3>1. PICK i \in 1 .. Len(tx_foreign) :
            /\ ReqIdFree(tx_foreign[i].req_id)
            /\ tx_foreign' = DropForeign(i)
            /\ home' = [nb \in Netbufs |->
                          IF nb = bufs[tx_foreign[i].req_id]
                          THEN None ELSE home[nb]]
      BY <2>4 DEF DrainOne
    <3>2. tx_foreign[i].req_id \in Ids
      BY DropForeignType DEF ForeignEntry
    <3>3. tx_foreign' \in Seq([req_id : Ids, owner_cpu : Cpus \cup {None}])
      BY <3>1, DropForeignType DEF ForeignEntry
    <3>4. /\ free_req_ids' \in Seq(Ids)
          /\ req_allocated' \in [Ids -> BOOLEAN]
          /\ bufs' \in [Ids -> Netbufs \cup {None}]
      BY <3>1, <3>2, ReqIdFreeType DEF PoolTypeOK
    <3>5. home' \in [Netbufs -> Cpus \cup {None}]
      BY <3>1
    <3>6. UNCHANGED <<hw_valid, ring_lock, req_in_flight, sqVars, cqVars,
                     cq_virt, devVars, tx_owner_cpu, bounceVars,
                     recover_active, pc, coreVars, cleaned, boundVars>>
      BY <2>4 DEF DrainOne
    <3> QED BY <3>3, <3>4, <3>5, <3>6
  <2>5. CASE ReapStale(c)
    BY <2>5, IndexType DEF ReapStale, CqAdvance
  <2>6. CASE ReapOne(c)
    <3> DEFINE id == Cdesc.req_id
    <3>1. id \in Ids
      BY <2>6 DEF ReapOne, Reaping
    <3>a. /\ req_in_flight' = [req_in_flight EXCEPT ![id] = FALSE]
          /\ ReclaimSlot(id) /\ CqAdvance /\ cleaned' = cleaned + 1
      BY <2>6 DEF ReapOne
    <3> DEFINE Kept ==
          /\ tx_foreign' \in Seq([req_id : Ids, owner_cpu : Cpus \cup {None}])
          /\ free_req_ids' \in Seq(Ids)
          /\ req_allocated' \in [Ids -> BOOLEAN]
          /\ bufs' \in [Ids -> Netbufs \cup {None}]
          /\ home' \in [Netbufs -> Cpus \cup {None}]
    <3>b. ASSUME Stages(c, id) PROVE Kept
      <4>1. /\ tx_foreign' = Append(tx_foreign, [req_id |-> id,
                                                 owner_cpu |-> tx_owner_cpu])
            /\ UNCHANGED <<free_req_ids, req_allocated, bufs, home>>
        BY <2>6, <3>b DEF ReapOne, StageForeign
      <4> HIDE DEF id
      <4> QED BY <4>1, <3>1, SMT
    <3>c. ASSUME ~ Stages(c, id) PROVE Kept
      <4>1. /\ home' = [nb \in Netbufs |->
                          IF nb = bufs[id] /\ ~ StageDrops(c, id)
                          THEN None ELSE home[nb]]
            /\ ReqIdFree(id) /\ UNCHANGED tx_foreign
        BY <2>6, <3>c DEF ReapOne
      <4> HIDE DEF id
      <4>2. home' \in [Netbufs -> Cpus \cup {None}]
        BY <4>1
      <4> QED BY <4>1, <4>2, <3>1, ReqIdFreeType DEF PoolTypeOK
    <3> HIDE DEF id
    <3>2. /\ req_in_flight' \in [Ids -> BOOLEAN]
          /\ bounce_map' \in [Ids -> BounceSlots \cup {None}]
          /\ bounce_free' \subseteq BounceSlots
      BY <3>a, <3>1 DEF ReclaimSlot
    <3>d. /\ cq_head' \in Indices /\ cq_phase' \in Phases
          /\ cleaned' \in Nat
      BY <3>a, IndexType, SMT DEF CqAdvance
    <3>3. Kept
      BY <3>b, <3>c
    <3>4. UNCHANGED <<hw_valid, ring_lock, sqVars, cq_virt, devVars,
                     tx_owner_cpu, recover_active, pc, coreVars, boundVars>>
      BY <2>6 DEF ReapOne
    <3> QED BY <3>2, <3>3, <3>4, <3>d
  <2>7. CASE PollUnlock(c)
    BY <2>7 DEF PollUnlock, Unlock, AfterPoll
  <2>8. ASSUME SendFails(c) PROVE TypeOK'
    BY <2>8 DEF SendFails
  <2>9. CASE SendRefused(c) \/ SubmitBusy(c)
    BY <2>8, <2>9 DEF SendRefused, SubmitBusy
  <2>10. CASE SendDirect(c)
    BY <2>10 DEF SendDirect
  <2>11. CASE SendBounced(c)
    BY <2>11, SMT DEF SendBounced
  <2>12. CASE Submit(c)
    <3>1. PICK id \in Ids :
            /\ ReqIdAlloc(id) /\ SqPush(id, pkt[c])
            /\ bufs' = [bufs EXCEPT ![id] = pkt[c]]
            /\ req_in_flight' = [req_in_flight EXCEPT ![id] = TRUE]
            /\ req_id' = [req_id EXCEPT ![c] = id]
      BY <2>12 DEF Submit
    <3>2. /\ free_req_ids' \in Seq(Ids)
          /\ req_allocated' \in [Ids -> BOOLEAN]
          /\ bufs' \in [Ids -> Netbufs \cup {None}]
          /\ req_in_flight' \in [Ids -> BOOLEAN]
          /\ req_id' \in [Cpus -> Ids \cup {None}]
      BY <3>1, SMT DEF ReqIdAlloc
    <3>3. /\ sq_tail' \in Indices /\ sq_phase' \in Phases
          /\ sq_virt' \in [Ids -> [req_id : Ids, nb : Netbufs \cup {None},
                                   phase : Phases]]
      BY <3>1, IndexType DEF SqPush
    <3>4. /\ tx_owner_cpu' \in Cpus \cup {None}
          /\ pkt' \in [Cpus -> Netbufs \cup {None}]
          /\ pc' \in [Cpus -> Pcs]
          /\ UNCHANGED <<hw_valid, ring_lock, cqVars, cq_virt, devVars,
                         tx_foreign, bounceVars, recover_active, slot, db_val,
                         cleaned, home, boundVars>>
      BY <2>12 DEF Submit
    <3> QED BY <3>2, <3>3, <3>4
  <2>13. CASE Doorbell(c)
    BY <2>13 DEF Doorbell, PublishedTail
  <2>14. CASE DoorbellWrite(c)
    <3>1. dev_sq_db' \in Indices /\ db_val' \in [Cpus -> Indices]
      BY <2>14, IndexType, SMT DEF DoorbellWrite
    <3>2. /\ pc' \in [Cpus -> Pcs]
          /\ UNCHANGED <<hw_valid, ring_lock, poolVars, sqVars, cqVars, cq_virt,
                         dev_live, dev_sq_head, dev_work, dev_cq_tail,
                         dev_cq_phase, txVars, bounceVars, recover_active, pkt,
                         slot, req_id, cleaned, home, boundVars>>
      BY <2>14 DEF DoorbellWrite
    <3> QED BY <3>1, <3>2
  <2>15. CASE MapSlot(c)
    BY <2>15 DEF MapSlot
  <2>16. CASE RecoverMark(c)
    BY <2>16 DEF RecoverMark
  <2>17. CASE InvalidateLock(c)
    BY <2>17 DEF InvalidateLock, Lock
  <2>18. CASE Invalidate(c)
    <3>1. /\ free_req_ids' \in Seq(Ids)
          /\ sq_tail' \in Indices /\ cq_head' \in Indices
          /\ sq_phase' \in Phases /\ cq_phase' \in Phases
          /\ bufs' \in [Ids -> Netbufs \cup {None}]
          /\ req_in_flight' \in [Ids -> BOOLEAN]
          /\ req_allocated' \in [Ids -> BOOLEAN]
          /\ hw_valid' \in BOOLEAN
          /\ UNCHANGED <<sq_virt, cq_virt>>
      BY <2>18, AllIdsType, IndexType DEF Invalidate, ResetSwState, MarkInvalid,
         FreshMarks,
                                             Phases
    <3>2. /\ home' \in [Netbufs -> Cpus \cup {None}]
          /\ tx_foreign' \in Seq([req_id : Ids, owner_cpu : Cpus \cup {None}])
          /\ pc' \in [Cpus -> Pcs]
          /\ ring_lock' \in Cpus \cup {None}
          /\ UNCHANGED <<devVars, tx_owner_cpu, bounceVars, recover_active,
                         coreVars, cleaned, boundVars>>
      BY <2>18, SMT DEF Invalidate, Unlock, DropSlots, ClearForeign
    <3> QED BY <3>1, <3>2
  <2>19. CASE ResetDevice(c)
    BY <2>19 DEF ResetDevice, DevReset
  <2>20. CASE CreateHw(c)
    BY <2>20, IndexType DEF CreateHw, DevCreate, Phases
  <2>21. CASE RecoverFails(c)
    BY <2>21 DEF RecoverFails
  <2> QED
    BY <1>2, <2>1, <2>2, <2>3, <2>4, <2>5, <2>6, <2>7, <2>9, <2>10, <2>11,
       <2>12, <2>13, <2>14, <2>15, <2>16, <2>17, <2>18, <2>19, <2>20, <2>21
       DEF CoreStep
<1>3. ASSUME NEW c \in Cpus, CallPoll(c) PROVE TypeOK'
  BY <1>3 DEF CallPoll
<1>4. ASSUME NEW c \in Cpus, RecoverBegin(c) PROVE TypeOK'
  BY <1>4, SMT DEF RecoverBegin
<1>5. ASSUME NEW c \in Cpus, NEW nb \in Netbufs, TxOne(c, nb) PROVE TypeOK'
  BY <1>5, SMT DEF TxOne
<1>6. ASSUME Fetch PROVE TypeOK'
  <2>1. sq_virt[Slot(dev_sq_head)] \in [req_id : Ids,
                                        nb : Netbufs \cup {None},
                                        phase : Phases]
    BY IndexType
  <2> DEFINE d == sq_virt[Slot(dev_sq_head)]
             w == [req_id |-> d.req_id, nb |-> d.nb]
  <2>4. w \in [req_id : Ids, nb : Netbufs \cup {None}]
    BY <2>1
  <2>5. /\ dev_work' = dev_work \cup {w}
        /\ dev_sq_head' = Succ(dev_sq_head)
        /\ UNCHANGED <<dev_live, dev_sq_db, dev_cq_tail, dev_cq_phase, cq_virt>>
    BY <1>6 DEF Fetch, DevFetch
  <2> HIDE DEF w
  <2>2. /\ dev_work' \subseteq [req_id : Ids, nb : Netbufs \cup {None}]
        /\ dev_sq_head' \in Indices
        /\ UNCHANGED <<dev_live, dev_sq_db, dev_cq_tail, dev_cq_phase, cq_virt>>
    BY <2>4, <2>5, IndexType
  <2>3. UNCHANGED <<restOfDriver, spurious>>
    BY <1>6 DEF Fetch
  <2> QED BY <2>2, <2>3 DEF restOfDriver
<1>7. ASSUME NEW id \in 0 .. Depth, DevPost(id)
      PROVE  /\ cq_virt' \in [Ids -> [req_id : 0 .. Depth, phase : Phases]]
             /\ dev_cq_tail' \in Indices /\ dev_cq_phase' \in Phases
  BY <1>7, IndexType DEF DevPost
<1>8. ASSUME Complete PROVE TypeOK'
  <2>1. PICK w \in dev_work : dev_work' = dev_work \ {w} /\ DevPost(w.req_id)
    BY <1>8 DEF Complete, DevComplete
  <2>0. w.req_id \in Ids
    OBVIOUS
  <2>2. w.req_id \in 0 .. Depth
    BY <2>0, IndexType
  <2>3. UNCHANGED <<restOfDriver, spurious, dev_live, dev_sq_db, dev_sq_head>>
    <3>1. UNCHANGED <<restOfDriver, spurious>>
      BY <1>8 DEF Complete
    <3>2. UNCHANGED <<dev_live, dev_sq_db, dev_sq_head>>
      BY <2>1 DEF DevPost
    <3> QED BY <3>1, <3>2
  <2> QED BY <1>7, <2>1, <2>2, <2>3 DEF restOfDriver
<1>9. ASSUME Spurious PROVE TypeOK'
  <2>1. PICK id \in 0 .. Depth : DevPost(id)
    BY <1>9 DEF Spurious
  <2>2. /\ UNCHANGED <<restOfDriver, dev_work>>
        /\ spurious' = spurious + 1
    BY <1>9 DEF Spurious
  <2>4. spurious' \in Nat
    BY <2>2, SMT
  <2>3. UNCHANGED <<dev_live, dev_sq_db, dev_sq_head>>
    BY <2>1 DEF DevPost
  <2> QED BY <1>7, <2>1, <2>2, <2>3, <2>4 DEF restOfDriver
<1>10. CASE Next
  <2> HIDE DEF TypeOK
  <2> QED BY <1>10, <1>2, <1>3, <1>4, <1>5, <1>6, <1>8, <1>9 DEF Next
<1> QED BY <1>1, <1>10

\* A fresh ring and idle cores have their types.
LEMMA TypeInit == Init => TypeOK
<1> SUFFICES ASSUME Init PROVE TypeOK
  OBVIOUS
<1>1. /\ AllIds \in Seq(Ids)
      /\ <<>> \in Seq([req_id : Ids, owner_cpu : Cpus \cup {None}])
      /\ 0 \in Ids /\ 0 \in 0 .. Depth /\ 0 \in Phases /\ 1 \in Phases
  BY AllIdsType, DepthAssumption, SMT DEF Ids, Phases
<1>2. RingTypeOK
  BY <1>1, IndexType DEF Init, RingInit, RingTypeOK
<1> QED BY <1>1, <1>2, IndexType DEF Init, TypeOK, Pcs

\* The type invariant of the transmit path.
THEOREM TypeCorrect == Spec => []TypeOK
  BY TypeInit, TypeStep, PTL DEF Spec

-----------------------------------------------------------------------------
(* The deferred releases *)

ForeignDistinct ==
  \A i, j \in 1 .. Len(tx_foreign) :
    i # j => tx_foreign[i].req_id # tx_foreign[j].req_id

\* Taking one entry out of the deferred array removes exactly its id.
LEMMA DropForeignStep ==
  ASSUME tx_foreign \in Seq(ForeignEntry), ForeignDistinct,
         NEW i \in 1 .. Len(tx_foreign), tx_foreign' = DropForeign(i)
  PROVE  /\ ForeignDistinct'
         /\ ForeignIds' = ForeignIds \ {tx_foreign[i].req_id}
<1> DEFINE n == Len(tx_foreign)
<1>1. n \in Nat /\ n - 1 \in Nat /\ Len(tx_foreign') = n - 1 /\ n \in 1 .. n
  BY DropForeignType, SMT
<1>2. \A j \in 1 .. n - 1 :
        tx_foreign'[j] = IF j = i THEN tx_foreign[n] ELSE tx_foreign[j]
  BY DEF DropForeign
<1>3. ForeignDistinct'
  BY <1>1, <1>2, SMT DEF ForeignDistinct
<1>4. ASSUME NEW x \in ForeignIds' PROVE x \in ForeignIds \ {tx_foreign[i].req_id}
  <2>1. PICK j \in 1 .. n - 1 : x = tx_foreign'[j].req_id
    BY <1>1, <1>4 DEF ForeignIds
  <2>2. CASE j = i
    BY <2>1, <2>2, <1>1, <1>2, SMT DEF ForeignIds, ForeignDistinct
  <2>3. CASE j # i
    BY <2>1, <2>3, <1>1, <1>2, SMT DEF ForeignIds, ForeignDistinct
  <2> QED BY <2>2, <2>3
<1>5. ASSUME NEW x \in ForeignIds \ {tx_foreign[i].req_id} PROVE x \in ForeignIds'
  <2>1. PICK j \in 1 .. n : x = tx_foreign[j].req_id
    BY DEF ForeignIds
  <2>2. j # i
    BY <2>1
  <2>3. CASE j = n
    <3>1. i \in 1 .. n - 1 /\ tx_foreign'[i] = tx_foreign[n]
      BY <2>2, <2>3, <1>1, <1>2, SMT
    <3> QED BY <3>1, <2>1, <2>3, <1>1 DEF ForeignIds
  <2>4. CASE j # n
    <3>1. j \in 1 .. n - 1 /\ tx_foreign'[j] = tx_foreign[j]
      BY <2>2, <2>4, <1>1, <1>2, SMT
    <3> QED BY <3>1, <2>1, <1>1 DEF ForeignIds
  <2> QED BY <2>3, <2>4
<1> QED BY <1>3, <1>4, <1>5

\* Deferring the release of a new id adds exactly that id.
LEMMA AppendForeignStep ==
  ASSUME tx_foreign \in Seq(ForeignEntry), ForeignDistinct,
         NEW e \in ForeignEntry, e.req_id \notin ForeignIds,
         tx_foreign' = Append(tx_foreign, e)
  PROVE  /\ ForeignDistinct'
         /\ ForeignIds' = ForeignIds \cup {e.req_id}
<1> DEFINE n == Len(tx_foreign)
<1>1. /\ n \in Nat /\ Len(tx_foreign') = n + 1 /\ n + 1 \in 1 .. n + 1
      /\ tx_foreign'[n + 1] = e
      /\ \A j \in 1 .. n : j \in 1 .. n + 1 /\ tx_foreign'[j] = tx_foreign[j]
  BY SMT
<1>2. \A j \in 1 .. n : tx_foreign[j].req_id # e.req_id
  BY DEF ForeignIds
<1>3. \A j \in 1 .. n + 1 : j # n + 1 => j \in 1 .. n
  BY <1>1, SMT
<1> HIDE DEF n
<1>4. ForeignDistinct'
  BY <1>1, <1>2, <1>3, SMT DEF ForeignDistinct, n
<1>5. ASSUME NEW x \in ForeignIds' PROVE x \in ForeignIds \cup {e.req_id}
  BY <1>1, <1>3, <1>5 DEF ForeignIds, n
<1>6. ASSUME NEW x \in ForeignIds \cup {e.req_id} PROVE x \in ForeignIds'
  BY <1>1, <1>6 DEF ForeignIds, n
<1> QED BY <1>4, <1>5, <1>6

\* A request in flight leaves room in the deferred array.
LEMMA ForeignRoom ==
  ASSUME TypeOK, RequestAccounting, NEW id \in Ids, req_in_flight[id]
  PROVE  Len(tx_foreign) < Depth
<1> DEFINE f == [i \in 1 .. Len(tx_foreign) |-> tx_foreign[i].req_id]
<1>1. Len(tx_foreign) \in Nat
  BY SMT DEF TypeOK
<1>2. \A i \in 1 .. Len(tx_foreign) : f[i] \in Ids /\ f[i] # id
  <2> SUFFICES ASSUME NEW i \in 1 .. Len(tx_foreign)
               PROVE  tx_foreign[i].req_id \in Ids /\ tx_foreign[i].req_id # id
    OBVIOUS
  <2>1. tx_foreign[i].req_id \in Ids
    BY DropForeignType DEF TypeOK, ForeignEntry
  <2>2. tx_foreign[i].req_id \in ForeignIds
    BY DEF ForeignIds
  <2> QED BY <2>1, <2>2 DEF RequestAccounting
<1>3. \A i, j \in 1 .. Len(tx_foreign) : i # j => f[i] # f[j]
  BY DEF RequestAccounting
<1> HIDE DEF f
<1> QED BY <1>1, <1>2, <1>3, Pigeon

-----------------------------------------------------------------------------
(* Ownership of requests and netbufs *)

\* Where a core owns the packet it was asked to send: from the call until the
\* submit succeeds or the send fails.
PktInv ==
  \A c \in Cpus :
    /\ pc[c] \in {"send", "submit"} => pkt[c] # None
    /\ pc[c] \notin {"poll", "pollLock", "reap", "send", "submit"}
         => pkt[c] = None

\* The inductive invariant, next to the type invariant.
Accounting ==
  PoolPartition /\ RequestAccounting /\ NetbufOwnedOnce /\ PktInv

\* A step that touches no request keeps the accounting of requests.
LEMMA RequestFrame ==
  ASSUME RequestAccounting,
         UNCHANGED <<req_allocated, req_in_flight, bufs, tx_foreign>>
  PROVE  RequestAccounting'
<1>1. ForeignIds' = ForeignIds
  BY DEF ForeignIds
<1> QED BY <1>1 DEF RequestAccounting

\* A step that moves no netbuf keeps their ownership.
LEMMA NetbufFrame ==
  ASSUME NetbufOwnedOnce, UNCHANGED <<bufs, home, pkt>>
  PROVE  NetbufOwnedOnce'
  BY DEF NetbufOwnedOnce

\* After an id with a netbuf went back to the pool and its netbuf to the
\* heap, every other netbuf still has its one holder.
LEMMA NetbufReleased ==
  ASSUME TypeOK, NetbufOwnedOnce, NEW id \in Ids, bufs[id] # None,
         bufs' = [bufs EXCEPT ![id] = None],
         home' = [nb \in Netbufs |-> IF nb = bufs[id] THEN None ELSE home[nb]],
         pkt' = pkt
  PROVE  NetbufOwnedOnce'
<1>1. bufs \in [Ids -> Netbufs \cup {None}] /\ pkt \in [Cpus -> Netbufs \cup {None}]
  BY DEF TypeOK, RingTypeOK
<1>2. \A x \in Ids : bufs'[x] # None =>
        x # id /\ bufs'[x] = bufs[x] /\ bufs[x] # bufs[id] /\ bufs[x] \in Netbufs
  <2>1. \A x \in Ids : x # id => bufs[x] # bufs[id]
    BY DEF NetbufOwnedOnce
  <2> QED BY <2>1, <1>1
<1>3. \A c \in Cpus : pkt[c] # None => pkt[c] # bufs[id] /\ pkt[c] \in Netbufs
  BY <1>1 DEF NetbufOwnedOnce
<1>4. \A x \in Ids : bufs'[x] # None =>
        /\ home'[bufs'[x]] # None
        /\ \A other \in Ids \ {x} : bufs'[other] # bufs'[x]
        /\ \A c \in Cpus : pkt'[c] # bufs'[x]
  BY <1>1, <1>2, SMT DEF NetbufOwnedOnce
<1>5. \A c \in Cpus : pkt'[c] # None =>
        /\ home'[pkt'[c]] = c
        /\ \A d \in Cpus \ {c} : pkt'[d] # pkt'[c]
  BY <1>3 DEF NetbufOwnedOnce
<1>6. ASSUME NEW nb \in Netbufs, home'[nb] # None
      PROVE  (\E x \in Ids : bufs'[x] = nb) \/ (\E c \in Cpus : pkt'[c] = nb)
  <2>1. nb # bufs[id] /\ home[nb] # None
    BY <1>6
  <2>2. CASE \E x \in Ids : bufs[x] = nb
    <3>1. PICK x \in Ids : bufs[x] = nb
      BY <2>2
    <3>2. bufs'[x] = nb
      BY <3>1, <2>1, <1>1
    <3> QED BY <3>2
  <2>3. CASE \E c \in Cpus : pkt[c] = nb
    BY <2>3
  <2> QED BY <2>1, <2>2, <2>3 DEF NetbufOwnedOnce
<1> QED BY <1>4, <1>5, <1>6 DEF NetbufOwnedOnce

\* Draining a deferred release (ena_tx_poll_completions) keeps the accounting.
LEMMA DrainOneStep ==
  ASSUME TypeOK, Accounting, NEW c \in Cpus, DrainOne(c)
  PROVE  Accounting'
<1> USE DEF Accounting
<1>1. PICK i \in 1 .. Len(tx_foreign) :
        /\ ReqIdFree(tx_foreign[i].req_id)
        /\ tx_foreign' = DropForeign(i)
        /\ home' = [nb \in Netbufs |-> IF nb = bufs[tx_foreign[i].req_id]
                                      THEN None ELSE home[nb]]
        /\ UNCHANGED <<req_in_flight, pc, pkt>>
  BY DEF DrainOne, coreVars
<1> DEFINE id == tx_foreign[i].req_id
<1>2. tx_foreign \in Seq(ForeignEntry) /\ id \in Ids /\ id \in ForeignIds
  BY DropForeignType DEF TypeOK, ForeignEntry, ForeignIds
<1>3. req_allocated[id] /\ bufs[id] # None /\ ~ req_in_flight[id]
  BY <1>2 DEF RequestAccounting
<1>4. ForeignDistinct' /\ ForeignIds' = ForeignIds \ {id}
  BY <1>1, <1>2, DropForeignStep DEF RequestAccounting, ForeignDistinct
<1> HIDE DEF id
<1>5. /\ PoolPartition'
      /\ req_allocated' = [req_allocated EXCEPT ![id] = FALSE]
      /\ bufs' = [bufs EXCEPT ![id] = None]
  BY <1>1, <1>2, <1>3, PoolFreeStep, ZenonT(30) DEF id, TypeOK, RingTypeOK, PoolTypeOK
<1>6. NetbufOwnedOnce'
  BY <1>1, <1>2, <1>3, <1>5, NetbufReleased, ZenonT(30) DEF id
<1>7. RequestAccounting'
  BY <1>1, <1>2, <1>3, <1>4, <1>5, ZenonT(30) DEF RequestAccounting, ForeignDistinct,
     TypeOK,
     RingTypeOK
<1>8. PktInv'
  BY <1>1 DEF PktInv
<1> QED BY <1>5, <1>6, <1>7, <1>8

\* Reaping a completion, freed here or deferred, keeps the accounting.
LEMMA ReapOneStep ==
  ASSUME TypeOK, Accounting, NEW c \in Cpus, ReapOne(c)
  PROVE  Accounting'
<1> USE DEF Accounting
<1> DEFINE id == Cdesc.req_id
<1>1. /\ id \in Ids /\ req_in_flight[id]
      /\ req_in_flight' = [req_in_flight EXCEPT ![id] = FALSE]
      /\ UNCHANGED <<pc, pkt>>
  BY DEF ReapOne, Reaping, coreVars
<1>2. ASSUME Stages(c, id)
      PROVE  /\ tx_foreign' = Append(tx_foreign, [req_id |-> id,
                                                  owner_cpu |-> tx_owner_cpu])
             /\ UNCHANGED <<free_req_ids, req_allocated, bufs, home>>
  BY <1>2, ZenonT(30) DEF ReapOne, StageForeign
<1>3. ASSUME ~ Stages(c, id)
      PROVE  /\ home' = [nb \in Netbufs |->
                           IF nb = bufs[id] /\ ~ StageDrops(c, id)
                           THEN None ELSE home[nb]]
             /\ ReqIdFree(id)
             /\ UNCHANGED tx_foreign
  BY <1>3, ZenonT(30) DEF ReapOne
<1> HIDE DEF id
<1>4. req_allocated[id] /\ bufs[id] # None /\ id \notin ForeignIds
  BY <1>1 DEF RequestAccounting
<1>5. ~ StageDrops(c, id)
  <2>1. Len(tx_foreign) < Depth
    BY <1>1, ForeignRoom
  <2>2. Len(tx_foreign) \in Nat
    BY SMT DEF TypeOK
  <2> QED BY <2>1, <2>2, DepthAssumption, SMT DEF StageDrops
<1>6. PktInv'
  BY <1>1 DEF PktInv
<1>7. CASE Stages(c, id)
  <2> DEFINE e == [req_id |-> id, owner_cpu |-> tx_owner_cpu]
  <2>1. e \in ForeignEntry /\ e.req_id = id /\ tx_foreign \in Seq(ForeignEntry)
    BY <1>1 DEF ForeignEntry, TypeOK
  <2>2. ForeignDistinct' /\ ForeignIds' = ForeignIds \cup {id}
    <3> HIDE DEF e
    <3>1. tx_foreign' = Append(tx_foreign, e)
      BY <1>2, <1>7 DEF e
    <3>2. ForeignDistinct
      BY DEF RequestAccounting, ForeignDistinct
    <3> QED BY <2>1, <3>1, <3>2, <1>4, AppendForeignStep
  <2>3. RequestAccounting'
    <3>1. /\ req_in_flight \in [Ids -> BOOLEAN]
          /\ UNCHANGED <<req_allocated, bufs>>
      BY <1>2, <1>7 DEF TypeOK, RingTypeOK
    <3>2. ASSUME NEW x \in Ids
          PROVE  /\ req_allocated'[x] <=> bufs'[x] # None
                 /\ req_allocated'[x] <=> (req_in_flight'[x] \/ x \in ForeignIds')
                 /\ ~ (req_in_flight'[x] /\ x \in ForeignIds')
      <4>1. CASE x = id
        BY <4>1, <3>1, <1>1, <1>4, <2>2
      <4>2. CASE x # id
        <5>1. /\ req_in_flight'[x] = req_in_flight[x]
              /\ x \in ForeignIds' <=> x \in ForeignIds
          BY <4>2, <3>1, <1>1, <2>2
        <5> QED BY <5>1, <3>1 DEF RequestAccounting
      <4> QED BY <4>1, <4>2
    <3> QED BY <3>2, <2>2 DEF RequestAccounting, ForeignDistinct
  <2>4. PoolPartition' /\ NetbufOwnedOnce'
    BY <1>1, <1>2, <1>7, PoolFrame, NetbufFrame
  <2> QED BY <2>3, <2>4, <1>6
<1>8. CASE ~ Stages(c, id)
  <2>1. /\ PoolPartition'
        /\ req_allocated' = [req_allocated EXCEPT ![id] = FALSE]
        /\ bufs' = [bufs EXCEPT ![id] = None]
    BY <1>1, <1>3, <1>4, <1>8, PoolFreeStep DEF TypeOK, RingTypeOK, PoolTypeOK
  <2>2. home' = [nb \in Netbufs |-> IF nb = bufs[id] THEN None ELSE home[nb]]
    BY <1>3, <1>5, <1>8
  <2>3. NetbufOwnedOnce'
    BY <1>1, <1>4, <2>1, <2>2, NetbufReleased
  <2>4. ForeignIds' = ForeignIds /\ tx_foreign' = tx_foreign
    BY <1>3, <1>8 DEF ForeignIds
  <2>5. RequestAccounting'
    BY <1>1, <1>4, <2>1, <2>4 DEF RequestAccounting, TypeOK, RingTypeOK
  <2> QED BY <2>1, <2>3, <2>5, <1>6
<1> QED BY <1>7, <1>8

\* A netbuf handed to ena_netdev_tx_one is held by the sending core.
LEMMA TxOneStep ==
  ASSUME TypeOK, Accounting, NEW c \in Cpus, NEW nb \in Netbufs, TxOne(c, nb)
  PROVE  Accounting'
<1> USE DEF Accounting
<1>1. /\ home[nb] = None /\ pc[c] = "idle"
      /\ home' = [home EXCEPT ![nb] = c]
      /\ pkt' = [pkt EXCEPT ![c] = nb]
      /\ pc' = [pc EXCEPT ![c] = "poll"]
      /\ UNCHANGED <<free_req_ids, req_allocated, req_in_flight, bufs, tx_foreign>>
  BY DEF TxOne, Goto, ringVars, poolVars, txVars
<1>2. /\ bufs \in [Ids -> Netbufs \cup {None}] /\ pkt \in [Cpus -> Netbufs \cup {None}]
      /\ home \in [Netbufs -> Cpus \cup {None}] /\ pc \in [Cpus -> Pcs]
  BY DEF TypeOK, RingTypeOK
<1>3. pkt[c] = None
  BY <1>1 DEF PktInv
<1>4. /\ \A id \in Ids : bufs[id] # nb
      /\ \A d \in Cpus : pkt[d] # nb
  BY <1>1, SMT DEF NetbufOwnedOnce
<1>5. NetbufOwnedOnce'
  <2>1. \A id \in Ids : bufs'[id] # None =>
          /\ home'[bufs'[id]] # None
          /\ \A other \in Ids \ {id} : bufs'[other] # bufs'[id]
          /\ \A d \in Cpus : pkt'[d] # bufs'[id]
    BY <1>1, <1>2, <1>4, SMT DEF NetbufOwnedOnce
  <2>2. \A d \in Cpus : pkt'[d] # None =>
          /\ home'[pkt'[d]] = d
          /\ \A o \in Cpus \ {d} : pkt'[o] # pkt'[d]
    BY <1>1, <1>2, <1>4, SMT DEF NetbufOwnedOnce
  <2>3. \A b \in Netbufs : home'[b] # None =>
          (\E id \in Ids : bufs'[id] = b) \/ (\E d \in Cpus : pkt'[d] = b)
    BY <1>1, <1>2, <1>3, SMT DEF NetbufOwnedOnce
  <2> QED BY <2>1, <2>2, <2>3 DEF NetbufOwnedOnce
<1>6. PktInv'
  BY <1>1, <1>2 DEF PktInv
<1>7. PoolPartition' /\ RequestAccounting'
  BY <1>1, PoolFrame, RequestFrame
<1> QED BY <1>5, <1>6, <1>7

\* A send that fails gives its netbuf back to the caller.
LEMMA SendFailsStep ==
  ASSUME TypeOK, Accounting, NEW c \in Cpus, pc[c] \in {"send", "submit"},
         SendFails(c)
  PROVE  Accounting'
<1> USE DEF Accounting
<1>1. /\ home' = [home EXCEPT ![pkt[c]] = None]
      /\ pkt' = [pkt EXCEPT ![c] = None]
      /\ pc' = [pc EXCEPT ![c] = "idle"]
      /\ UNCHANGED <<free_req_ids, req_allocated, req_in_flight, bufs, tx_foreign>>
  BY DEF SendFails, ringVars, poolVars, txVars
<1>2. /\ bufs \in [Ids -> Netbufs \cup {None}] /\ pkt \in [Cpus -> Netbufs \cup {None}]
      /\ home \in [Netbufs -> Cpus \cup {None}] /\ pc \in [Cpus -> Pcs]
  BY DEF TypeOK, RingTypeOK
<1>3. pkt[c] \in Netbufs
  BY <1>2 DEF PktInv
<1>4. NetbufOwnedOnce'
  <2>1. \A id \in Ids : bufs'[id] # None =>
          /\ home'[bufs'[id]] # None
          /\ \A other \in Ids \ {id} : bufs'[other] # bufs'[id]
          /\ \A d \in Cpus : pkt'[d] # bufs'[id]
    BY <1>1, <1>2, <1>3, SMT DEF NetbufOwnedOnce
  <2>2. \A d \in Cpus : pkt'[d] # None =>
          /\ home'[pkt'[d]] = d
          /\ \A o \in Cpus \ {d} : pkt'[o] # pkt'[d]
    BY <1>1, <1>2, <1>3, SMT DEF NetbufOwnedOnce
  <2>3. \A b \in Netbufs : home'[b] # None =>
          (\E id \in Ids : bufs'[id] = b) \/ (\E d \in Cpus : pkt'[d] = b)
    BY <1>1, <1>2, <1>3, SMT DEF NetbufOwnedOnce
  <2> QED BY <2>1, <2>2, <2>3 DEF NetbufOwnedOnce
<1>5. PktInv'
  BY <1>1, <1>2 DEF PktInv
<1>6. PoolPartition' /\ RequestAccounting'
  BY <1>1, PoolFrame, RequestFrame
<1> QED BY <1>4, <1>5, <1>6

\* ena_tx_submit moves a netbuf from the core to the slot of a new request.
LEMMA SubmitStep ==
  ASSUME TypeOK, Accounting, NEW c \in Cpus, Submit(c)
  PROVE  Accounting'
<1> USE DEF Accounting
<1>1. PICK id \in Ids :
        /\ pc[c] = "submit" /\ pc' = [pc EXCEPT ![c] = "doorbell"]
        /\ ReqIdAlloc(id)
        /\ bufs' = [bufs EXCEPT ![id] = pkt[c]]
        /\ req_in_flight' = [req_in_flight EXCEPT ![id] = TRUE]
        /\ pkt' = [pkt EXCEPT ![c] = None]
        /\ UNCHANGED <<tx_foreign, home>>
  BY DEF Submit, Goto
<1>2. /\ PoolPartition' /\ ~ req_allocated[id]
      /\ req_allocated' = [req_allocated EXCEPT ![id] = TRUE]
  BY <1>1, PoolAllocStep DEF TypeOK, RingTypeOK, PoolTypeOK
<1>3. /\ bufs \in [Ids -> Netbufs \cup {None}] /\ pkt \in [Cpus -> Netbufs \cup {None}]
      /\ home \in [Netbufs -> Cpus \cup {None}] /\ pc \in [Cpus -> Pcs]
      /\ req_in_flight \in [Ids -> BOOLEAN] /\ req_allocated \in [Ids -> BOOLEAN]
  BY DEF TypeOK, RingTypeOK
<1>4. bufs[id] = None /\ ~ req_in_flight[id] /\ id \notin ForeignIds
  BY <1>2 DEF RequestAccounting
<1>5. pkt[c] \in Netbufs /\ home[pkt[c]] = c
  BY <1>1, <1>3, SMT DEF PktInv, NetbufOwnedOnce
<1>6. NetbufOwnedOnce'
  <2>1. \A x \in Ids : bufs'[x] # None =>
          /\ home'[bufs'[x]] # None
          /\ \A other \in Ids \ {x} : bufs'[other] # bufs'[x]
          /\ \A d \in Cpus : pkt'[d] # bufs'[x]
    <3>1. /\ \A x \in Ids : bufs'[x] = IF x = id THEN pkt[c] ELSE bufs[x]
          /\ \A d \in Cpus : pkt'[d] = IF d = c THEN None ELSE pkt[d]
          /\ home' = home
      BY <1>1, <1>3
    <3>2. \A x \in Ids : bufs[x] # pkt[c]
      BY <1>5 DEF NetbufOwnedOnce
    <3>3. \A d \in Cpus : d # c => pkt[d] # pkt[c]
      BY <1>5 DEF NetbufOwnedOnce
    <3>4. ASSUME NEW x \in Ids, bufs'[x] # None
          PROVE  /\ home'[bufs'[x]] # None
                 /\ \A other \in Ids \ {x} : bufs'[other] # bufs'[x]
                 /\ \A d \in Cpus : pkt'[d] # bufs'[x]
      <4>1. CASE x = id
        BY <4>1, <3>1, <3>2, <3>3, <1>5
      <4>2. CASE x # id
        <5>1. /\ bufs'[x] = bufs[x] /\ bufs[x] # None
              /\ home[bufs[x]] # None
              /\ \A other \in Ids \ {x} : bufs[other] # bufs[x]
              /\ \A d \in Cpus : pkt[d] # bufs[x]
          BY <4>2, <3>1, <3>4 DEF NetbufOwnedOnce
        <5>2. bufs[x] # pkt[c]
          BY <3>2
        <5> QED BY <5>1, <5>2, <3>1
      <4> QED BY <4>1, <4>2
    <3> QED BY <3>4
  <2>2. \A d \in Cpus : pkt'[d] # None =>
          /\ home'[pkt'[d]] = d
          /\ \A o \in Cpus \ {d} : pkt'[o] # pkt'[d]
    BY <1>1, <1>3, SMT DEF NetbufOwnedOnce
  <2>3. ASSUME NEW b \in Netbufs, home'[b] # None
        PROVE  (\E x \in Ids : bufs'[x] = b) \/ (\E d \in Cpus : pkt'[d] = b)
    <3>1. CASE b = pkt[c]
      BY <3>1, <1>1, <1>3
    <3>2. CASE b # pkt[c]
      <4>1. CASE \E x \in Ids : bufs[x] = b
        <5>1. PICK x \in Ids : bufs[x] = b
          BY <4>1
        <5>2. bufs'[x] = b
          BY <5>1, <1>1, <1>3, <1>4
        <5> QED BY <5>2
      <4>2. CASE \E d \in Cpus : pkt[d] = b
        <5>1. PICK d \in Cpus : pkt[d] = b
          BY <4>2
        <5>2. pkt'[d] = b
          BY <5>1, <3>2, <1>1, <1>3
        <5> QED BY <5>2
      <4> QED BY <4>1, <4>2, <2>3, <1>1 DEF NetbufOwnedOnce
    <3> QED BY <3>1, <3>2
  <2> QED BY <2>1, <2>2, <2>3 DEF NetbufOwnedOnce
<1>7. RequestAccounting'
  <2>1. ForeignIds' = ForeignIds
    BY <1>1 DEF ForeignIds
  <2> QED BY <1>1, <1>2, <1>3, <1>4, <1>5, <2>1, SMT DEF RequestAccounting
<1>8. PktInv'
  BY <1>1, <1>3 DEF PktInv
<1> QED BY <1>2, <1>6, <1>7, <1>8

\* ena_ring_reset_sw_state empties slots, pool and deferred array together.
LEMMA InvalidateStep ==
  ASSUME TypeOK, Accounting, NEW c \in Cpus, Invalidate(c)
  PROVE  Accounting'
<1> USE DEF Accounting
<1>1. /\ pc[c] = "resetSw" /\ pc' = [pc EXCEPT ![c] = "devReset"]
      /\ free_req_ids' = AllIds
      /\ req_allocated' = [id \in Ids |-> FALSE]
      /\ req_in_flight' = [id \in Ids |-> FALSE]
      /\ bufs' = [id \in Ids |-> None]
      /\ home' = [nb \in Netbufs |->
                    IF \E id \in Ids : bufs[id] = nb THEN None ELSE home[nb]]
      /\ tx_foreign' = <<>>
      /\ pkt' = pkt
  BY DEF Invalidate, Goto, ResetSwState, FreshMarks, DropSlots,
         ClearForeign, coreVars
<1>2. /\ bufs \in [Ids -> Netbufs \cup {None}] /\ pkt \in [Cpus -> Netbufs \cup {None}]
      /\ pc \in [Cpus -> Pcs]
  BY DEF TypeOK, RingTypeOK
<1>3. PoolPartition'
  BY <1>1, FreshPool, ZenonT(30) DEF PoolPartition
<1>4. RequestAccounting'
  <2>0. tx_foreign' = <<>>
    BY <1>1, ZenonT(30)
  <2>1. ForeignIds' = {} /\ Len(tx_foreign') = 0
    <3>1. Len(tx_foreign') = 0 /\ 1 .. 0 = {}
      BY <2>0, SMT
    <3> QED BY <3>1 DEF ForeignIds
  <2>2. \A id \in Ids : ~ req_allocated'[id] /\ ~ req_in_flight'[id]
                         /\ bufs'[id] = None
    BY <1>1
  <2>3. \A i, j \in 1 .. Len(tx_foreign') :
          i # j => tx_foreign'[i].req_id # tx_foreign'[j].req_id
    BY <2>1, SMT
  <2> QED BY <2>1, <2>2, <2>3 DEF RequestAccounting
<1>5. NetbufOwnedOnce'
  <2>1. ASSUME NEW d \in Cpus, pkt[d] # None
        PROVE  /\ home'[pkt[d]] = d
               /\ \A o \in Cpus \ {d} : pkt[o] # pkt[d]
    <3>0. pkt[d] \in Netbufs
      BY <1>2, <2>1
    <3>1. pkt[d] \in Netbufs /\ \A id \in Ids : bufs[id] # pkt[d]
      BY <3>0, <2>1 DEF NetbufOwnedOnce
    <3>2. home'[pkt[d]] = home[pkt[d]]
      BY <1>1, <3>1
    <3> QED BY <2>1, <3>2 DEF NetbufOwnedOnce
  <2>2. \A b \in Netbufs : home'[b] # None => \E d \in Cpus : pkt'[d] = b
    BY <1>1 DEF NetbufOwnedOnce
  <2> QED BY <1>1, <2>1, <2>2, ZenonT(30) DEF NetbufOwnedOnce
<1>6. PktInv'
  BY <1>1, <1>2 DEF PktInv
<1> QED BY <1>3, <1>4, <1>5, <1>6

\* Every step of the transmit path keeps the accounting.
LEMMA AccountingStep == TypeOK /\ Accounting /\ [Next]_vars => Accounting'
<1> SUFFICES ASSUME TypeOK, Accounting, [Next]_vars PROVE Accounting'
  OBVIOUS
<1> DEFINE Kept == UNCHANGED <<free_req_ids, req_allocated, req_in_flight, bufs,
                               tx_foreign, home, pkt>>
<1>0. pc \in [Cpus -> Pcs] /\ pkt \in [Cpus -> Netbufs \cup {None}]
  BY DEF TypeOK
<1>k. ASSUME Kept, PktInv' PROVE Accounting'
  BY <1>k, PoolFrame, RequestFrame, NetbufFrame DEF Accounting
<1>s. ASSUME Kept, pc' = pc PROVE Accounting'
  BY <1>k, <1>s DEF Accounting, PktInv
<1> USE DEF Goto, ringVars, poolVars, txVars, coreVars
<1>1. ASSUME UNCHANGED vars PROVE Accounting'
  BY <1>1, <1>s DEF vars
<1>2. ASSUME NEW c \in Cpus, CoreStep(c) PROVE Accounting'
  <2>1. CASE PollSkip(c)
    <3>1. Kept
      BY <2>1 DEF PollSkip, AfterPoll
    <3>2. PktInv'
      BY <2>1, <3>1, <1>0 DEF PollSkip, AfterPoll, PktInv, Accounting
    <3> QED BY <3>1, <3>2, <1>k
  <2>2. CASE PollEnter(c)
    <3>1. Kept
      BY <2>2 DEF PollEnter
    <3>2. PktInv'
      BY <2>2, <3>1, <1>0 DEF PollEnter, PktInv, Accounting
    <3> QED BY <3>1, <3>2, <1>k
  <2>3. CASE PollLock(c)
    <3>1. Kept
      BY <2>3 DEF PollLock
    <3>2. PktInv'
      BY <2>3, <3>1, <1>0 DEF PollLock, PktInv, Accounting
    <3> QED BY <3>1, <3>2, <1>k
  <2>4. CASE ReapStale(c)
    BY <2>4, <1>s, ZenonT(30) DEF ReapStale
  <2>5. CASE PollUnlock(c)
    <3>1. Kept
      BY <2>5 DEF PollUnlock, AfterPoll
    <3>2. PktInv'
      BY <2>5, <3>1, <1>0 DEF PollUnlock, AfterPoll, PktInv, Accounting
    <3> QED BY <3>1, <3>2, <1>k
  <2>6. CASE SendDirect(c)
    <3>1. Kept
      BY <2>6 DEF SendDirect
    <3>2. PktInv'
      BY <2>6, <3>1, <1>0 DEF SendDirect, PktInv, Accounting
    <3> QED BY <3>1, <3>2, <1>k
  <2>7. CASE SendBounced(c)
    <3>1. Kept
      BY <2>7 DEF SendBounced
    <3>2. PktInv'
      BY <2>7, <3>1, <1>0 DEF SendBounced, PktInv, Accounting
    <3> QED BY <3>1, <3>2, <1>k
  <2>8. CASE Doorbell(c)
    <3>1. Kept
      BY <2>8 DEF Doorbell
    <3>2. PktInv'
      BY <2>8, <3>1, <1>0 DEF Doorbell, PktInv, Accounting
    <3> QED BY <3>1, <3>2, <1>k
  <2>9. CASE DoorbellWrite(c)
    <3>1. Kept
      BY <2>9 DEF DoorbellWrite
    <3>2. PktInv'
      BY <2>9, <3>1, <1>0 DEF DoorbellWrite, PktInv, Accounting
    <3> QED BY <3>1, <3>2, <1>k
  <2>10. CASE MapSlot(c)
    <3>1. Kept
      BY <2>10 DEF MapSlot
    <3>2. PktInv'
      BY <2>10, <3>1, <1>0 DEF MapSlot, PktInv, Accounting
    <3> QED BY <3>1, <3>2, <1>k
  <2>11. CASE RecoverMark(c)
    <3>1. Kept
      BY <2>11 DEF RecoverMark
    <3>2. PktInv'
      BY <2>11, <3>1, <1>0 DEF RecoverMark, PktInv, Accounting
    <3> QED BY <3>1, <3>2, <1>k
  <2>12. CASE InvalidateLock(c)
    <3>1. Kept
      BY <2>12 DEF InvalidateLock
    <3>2. PktInv'
      BY <2>12, <3>1, <1>0 DEF InvalidateLock, PktInv, Accounting
    <3> QED BY <3>1, <3>2, <1>k
  <2>13. CASE ResetDevice(c)
    <3>1. Kept
      BY <2>13 DEF ResetDevice
    <3>2. PktInv'
      BY <2>13, <3>1, <1>0 DEF ResetDevice, PktInv, Accounting
    <3> QED BY <3>1, <3>2, <1>k
  <2>14. CASE CreateHw(c)
    <3>1. Kept
      BY <2>14 DEF CreateHw
    <3>2. PktInv'
      BY <2>14, <3>1, <1>0 DEF CreateHw, PktInv, Accounting
    <3> QED BY <3>1, <3>2, <1>k
  <2>15. CASE RecoverFails(c)
    <3>1. Kept
      BY <2>15 DEF RecoverFails
    <3>2. PktInv'
      BY <2>15, <3>1, <1>0 DEF RecoverFails, PktInv, Accounting
    <3> QED BY <3>1, <3>2, <1>k
  <2>16. CASE DrainOne(c)
    BY <2>16, DrainOneStep
  <2>17. CASE ReapOne(c)
    BY <2>17, ReapOneStep
  <2>18. CASE Submit(c)
    BY <2>18, SubmitStep
  <2>19. CASE Invalidate(c)
    BY <2>19, InvalidateStep
  <2>20. CASE SendRefused(c) \/ SubmitBusy(c)
    BY <2>20, SendFailsStep DEF SendRefused, SubmitBusy
  <2> HIDE DEF Kept
  <2> QED BY <1>2, <2>1, <2>2, <2>3, <2>4, <2>5, <2>6, <2>7, <2>8, <2>9,
             <2>10, <2>11, <2>12, <2>13, <2>14, <2>15, <2>16, <2>17, <2>18, <2>19, <2>20
          DEF CoreStep
<1>3. ASSUME NEW c \in Cpus, CallPoll(c) \/ RecoverBegin(c) PROVE Accounting'
  <2>1. Kept
    BY <1>3 DEF CallPoll, RecoverBegin
  <2>2. PktInv'
    BY <1>3, <2>1, <1>0 DEF CallPoll, RecoverBegin, PktInv, Accounting
  <2> QED BY <2>1, <2>2, <1>k
<1>4. ASSUME NEW c \in Cpus, NEW nb \in Netbufs, TxOne(c, nb) PROVE Accounting'
  BY <1>4, TxOneStep
<1>5. ASSUME Fetch \/ Complete \/ Spurious PROVE Accounting'
  BY <1>5, <1>s DEF Fetch, Complete, Spurious, restOfDriver
<1> QED BY <1>1, <1>2, <1>3, <1>4, <1>5 DEF Next

\* A fresh ring accounts for every id and holds no netbuf.
LEMMA AccountingInit == Init => Accounting
<1> SUFFICES ASSUME Init PROVE Accounting
  OBVIOUS
<1>1. PoolPartition
  BY FreshPool DEF Init, RingInit, PoolPartition
<1>2. RequestAccounting
  <2>0. tx_foreign = <<>>
    BY DEF Init
  <2>1. ForeignIds = {} /\ Len(tx_foreign) = 0
    <3>1. Len(tx_foreign) = 0 /\ 1 .. 0 = {}
      BY <2>0, SMT
    <3> QED BY <3>1 DEF ForeignIds
  <2>2. \A id \in Ids : ~ req_allocated[id] /\ ~ req_in_flight[id]
                         /\ bufs[id] = None
    BY DEF Init, RingInit
  <2>3. \A i, j \in 1 .. Len(tx_foreign) :
          i # j => tx_foreign[i].req_id # tx_foreign[j].req_id
    BY <2>1, SMT
  <2> QED BY <2>1, <2>2, <2>3 DEF RequestAccounting
<1>4. NetbufOwnedOnce
  BY DEF Init, RingInit, NetbufOwnedOnce
<1>3. PktInv
  BY DEF Init, PktInv
<1> QED BY <1>1, <1>2, <1>3, <1>4 DEF Accounting

\* Types and accounting hold in every reachable state of the transmit path.
LEMMA AccountingInvariant == Spec => [](TypeOK /\ Accounting)
<1>1. TypeOK /\ Accounting /\ [Next]_vars => (TypeOK /\ Accounting)'
  BY TypeStep, AccountingStep
<1> QED BY TypeInit, AccountingInit, <1>1, PTL DEF Spec

\* No request id is ever handed to two requests and none is lost, whatever
\* the cores, the resets and the device's completions do (ena_ring_req_id_alloc
\* and ena_ring_req_id_free).
THEOREM PoolCorrect == Spec => []PoolPartition
<1>1. TypeOK /\ Accounting => PoolPartition
  BY DEF Accounting
<1> QED BY <1>1, AccountingInvariant, PTL

\* An id that is checked out is in flight or deferred, and never both.
THEOREM RequestsAccounted == Spec => []RequestAccounting
<1>1. TypeOK /\ Accounting => RequestAccounting
  BY DEF Accounting
<1> QED BY <1>1, AccountingInvariant, PTL

\* The transmit path neither leaks a netbuf nor holds one twice, through any
\* number of resets.
THEOREM NetbufsOwnedOnce == Spec => []NetbufOwnedOnce
<1>1. TypeOK /\ Accounting => NetbufOwnedOnce
  BY DEF Accounting
<1> QED BY <1>1, AccountingInvariant, PTL

\* The array of deferred releases never runs out: the branch of
\* ena_tx_stage_foreign_free that drops a buffer is dead.
THEOREM ForeignNeverFull == Spec => []ForeignHasRoom
<1>1. TypeOK /\ Accounting => ForeignHasRoom
  BY ForeignRoom DEF Accounting, ForeignHasRoom
<1> QED BY <1>1, AccountingInvariant, PTL

-----------------------------------------------------------------------------
(* The transmit path implements NetbufCustody: seen through the netbufs in
   its tracking slots, every step is one of the abstract specification.    *)

CustodyStep == [Custody!Next]_(Custody!custody)

\* A step that moves no netbuf is a stutter of the abstract queue.
LEMMA Stutter ==
  ASSUME UNCHANGED <<bufs, home>>
  PROVE  CustodyStep
<1>1. InRing' = InRing
  BY DEF InRing
<1> QED BY <1>1 DEF CustodyStep, Custody!custody

\* Emptying the slot of a request and freeing its netbuf is one release.
LEMMA ReleaseStep ==
  ASSUME TypeOK, NetbufOwnedOnce, NEW id \in Ids, bufs[id] # None,
         bufs' = [bufs EXCEPT ![id] = None],
         home' = [nb \in Netbufs |-> IF nb = bufs[id] THEN None ELSE home[nb]]
  PROVE  CustodyStep
<1>1. bufs \in [Ids -> Netbufs \cup {None}] /\ bufs[id] \in Netbufs
  BY DEF TypeOK, RingTypeOK
<1>2. \A x \in Ids : x # id => bufs[x] # bufs[id]
  BY DEF NetbufOwnedOnce
<1>3. \A nb \in Netbufs :
        (\E x \in Ids : bufs'[x] = nb)
          <=> (\E x \in Ids : bufs[x] = nb) /\ nb # bufs[id]
  BY <1>1, <1>2, NoneAssumption
<1>4. InRing' = InRing \ {bufs[id]} /\ bufs[id] \in InRing
  BY <1>1, <1>3 DEF InRing
<1>5. home' = Custody!Freed({bufs[id]})
  BY DEF Custody!Freed
<1>6. Custody!Release(bufs[id])
  BY <1>4, <1>5 DEF Custody!Release
<1> QED BY <1>1, <1>6 DEF CustodyStep, Custody!Next

\* The drain of a deferred release frees one netbuf.
LEMMA DrainOneCustody ==
  ASSUME TypeOK, Accounting, NEW c \in Cpus, DrainOne(c)
  PROVE  CustodyStep
<1>1. PICK i \in 1 .. Len(tx_foreign) :
        /\ ReqIdFree(tx_foreign[i].req_id)
        /\ home' = [nb \in Netbufs |-> IF nb = bufs[tx_foreign[i].req_id]
                                      THEN None ELSE home[nb]]
  BY DEF DrainOne
<1> DEFINE id == tx_foreign[i].req_id
<1>2. id \in Ids /\ id \in ForeignIds
  BY DropForeignType DEF TypeOK, ForeignEntry, ForeignIds
<1>3. bufs[id] # None
  BY <1>2 DEF Accounting, RequestAccounting
<1>4. bufs' = [bufs EXCEPT ![id] = None]
  BY <1>1 DEF ReqIdFree
<1> HIDE DEF id
<1> QED BY <1>1, <1>2, <1>3, <1>4, ReleaseStep DEF Accounting, id

\* A reaped completion frees its netbuf, or defers that and moves nothing.
LEMMA ReapOneCustody ==
  ASSUME TypeOK, Accounting, NEW c \in Cpus, ReapOne(c)
  PROVE  CustodyStep
<1> DEFINE id == Cdesc.req_id
<1>1. id \in Ids /\ req_in_flight[id]
  BY DEF ReapOne, Reaping
<1>2. bufs[id] # None
  BY <1>1 DEF Accounting, RequestAccounting
<1>3. ~ StageDrops(c, id)
  <2>1. Len(tx_foreign) < Depth
    BY <1>1, ForeignRoom DEF Accounting
  <2>2. Len(tx_foreign) \in Nat
    BY SMT DEF TypeOK
  <2> QED BY <2>1, <2>2, DepthAssumption, SMT DEF StageDrops
<1>4. CASE Stages(c, id)
  BY <1>4, Stutter DEF ReapOne, StageForeign
<1>5. CASE ~ Stages(c, id)
  <2>1. /\ bufs' = [bufs EXCEPT ![id] = None]
        /\ home' = [nb \in Netbufs |->
                      IF nb = bufs[id] /\ ~ StageDrops(c, id) THEN None ELSE home[nb]]
    BY <1>5 DEF ReapOne, ReqIdFree
  <2>2. home' = [nb \in Netbufs |-> IF nb = bufs[id] THEN None ELSE home[nb]]
    BY <2>1, <1>3
  <2> QED BY <1>1, <1>2, <2>1, <2>2, ReleaseStep DEF Accounting
<1> QED BY <1>4, <1>5

\* ena_netdev_tx_one takes a netbuf that nobody holds.
LEMMA TxOneCustody ==
  ASSUME TypeOK, Accounting, NEW c \in Cpus, NEW nb \in Netbufs, TxOne(c, nb)
  PROVE  CustodyStep
<1>1. home[nb] = None /\ home' = [home EXCEPT ![nb] = c] /\ bufs' = bufs
  BY DEF TxOne, ringVars, poolVars
<1>2. InRing' = InRing
  BY <1>1 DEF InRing
<1>3. nb \notin InRing
  BY <1>1, NoneAssumption DEF InRing, Accounting, NetbufOwnedOnce
<1>4. Custody!Take(c, nb)
  BY <1>1, <1>2, <1>3 DEF Custody!Take
<1> QED BY <1>4 DEF CustodyStep, Custody!Next

\* A core that owns the packet it sends holds it outside the slots.
LEMMA SenderHolds ==
  ASSUME TypeOK, Accounting, NEW c \in Cpus, pc[c] \in {"send", "submit"}
  PROVE  pkt[c] \in Netbufs /\ Custody!WithSender(pkt[c])
<1>1. pkt[c] \in Netbufs /\ pkt[c] # None
  BY DEF TypeOK, Accounting, PktInv
<1>2. home[pkt[c]] = c /\ \A id \in Ids : bufs[id] # pkt[c]
  BY <1>1 DEF Accounting, NetbufOwnedOnce
<1> QED BY <1>1, <1>2, NoneAssumption DEF InRing, Custody!WithSender

\* A send that fails leaves the netbuf to its sender, who frees it.
LEMMA SendFailsCustody ==
  ASSUME TypeOK, Accounting, NEW c \in Cpus, pc[c] \in {"send", "submit"},
         SendFails(c)
  PROVE  CustodyStep
<1>1. home' = [home EXCEPT ![pkt[c]] = None] /\ bufs' = bufs
  BY DEF SendFails, ringVars, poolVars
<1>2. home \in [Netbufs -> Cpus \cup {None}]
  BY DEF TypeOK
<1>3. InRing' = InRing
  BY <1>1 DEF InRing
<1>4. home' = Custody!Freed({pkt[c]})
  BY <1>1, <1>2, SenderHolds DEF Custody!Freed
<1>5. Custody!Return(pkt[c])
  BY <1>3, <1>4, SenderHolds DEF Custody!Return
<1> QED BY <1>5, SenderHolds DEF CustodyStep, Custody!Next

\* ena_tx_submit puts the netbuf into an empty slot.
LEMMA SubmitCustody ==
  ASSUME TypeOK, Accounting, NEW c \in Cpus, Submit(c)
  PROVE  CustodyStep
<1>1. PICK id \in Ids :
        /\ pc[c] = "submit" /\ ReqIdAlloc(id)
        /\ bufs' = [bufs EXCEPT ![id] = pkt[c]]
        /\ home' = home
  BY DEF Submit, Goto
<1>2. ~ req_allocated[id]
  BY <1>1, PoolAllocStep DEF Accounting, TypeOK, RingTypeOK, PoolTypeOK
<1>3. bufs[id] = None /\ bufs \in [Ids -> Netbufs \cup {None}]
  BY <1>2 DEF Accounting, RequestAccounting, TypeOK, RingTypeOK
<1>4. pkt[c] \in Netbufs /\ Custody!WithSender(pkt[c])
  BY <1>1, SenderHolds
<1>5. \A nb \in Netbufs :
        (\E x \in Ids : bufs'[x] = nb)
          <=> (\E x \in Ids : bufs[x] = nb) \/ nb = pkt[c]
  BY <1>1, <1>3, NoneAssumption
<1>6. InRing' = InRing \cup {pkt[c]}
  BY <1>4, <1>5 DEF InRing
<1>7. Custody!Accept(pkt[c])
  BY <1>1, <1>4, <1>6 DEF Custody!Accept
<1> QED BY <1>4, <1>7 DEF CustodyStep, Custody!Next

\* The reset frees every netbuf in a slot.
LEMMA InvalidateCustody ==
  ASSUME NEW c \in Cpus, Invalidate(c)
  PROVE  CustodyStep
<1>1. /\ bufs' = [id \in Ids |-> None]
      /\ home' = [nb \in Netbufs |->
                    IF \E id \in Ids : bufs[id] = nb THEN None ELSE home[nb]]
  BY DEF Invalidate, ResetSwState, DropSlots
<1>2. InRing' = {}
  BY <1>1, NoneAssumption DEF InRing
<1>3. home' = Custody!Freed(InRing)
  BY <1>1 DEF InRing, Custody!Freed
<1> QED BY <1>2, <1>3 DEF CustodyStep, Custody!Next, Custody!ReleaseAll

\* Every step of the transmit path is a step of the abstract queue.
LEMMA CustodyNext == TypeOK /\ Accounting /\ [Next]_vars => CustodyStep
<1> SUFFICES ASSUME TypeOK, Accounting, [Next]_vars PROVE CustodyStep
  OBVIOUS
<1> USE DEF ringVars, poolVars
<1>1. CASE UNCHANGED vars
  BY <1>1, Stutter DEF vars
<1>2. ASSUME NEW c \in Cpus, CoreStep(c) PROVE CustodyStep
  <2>1. CASE PollSkip(c) \/ PollEnter(c) \/ PollLock(c) \/ ReapStale(c) \/ PollUnlock(c)
    BY <2>1, Stutter DEF PollSkip, PollEnter, PollLock, ReapStale, PollUnlock
  <2>2. CASE SendDirect(c) \/ SendBounced(c) \/ Doorbell(c) \/ DoorbellWrite(c)
             \/ MapSlot(c)
    BY <2>2, Stutter DEF SendDirect, SendBounced, Doorbell, DoorbellWrite, MapSlot
  <2>3. CASE RecoverMark(c) \/ InvalidateLock(c) \/ ResetDevice(c) \/ CreateHw(c)
             \/ RecoverFails(c)
    BY <2>3, Stutter DEF RecoverMark, InvalidateLock, ResetDevice, CreateHw,
       RecoverFails
  <2>4. CASE DrainOne(c)
    BY <2>4, DrainOneCustody
  <2>5. CASE ReapOne(c)
    BY <2>5, ReapOneCustody
  <2>6. CASE Submit(c)
    BY <2>6, SubmitCustody
  <2>7. CASE Invalidate(c)
    BY <2>7, InvalidateCustody
  <2>8. CASE SendRefused(c) \/ SubmitBusy(c)
    BY <2>8, SendFailsCustody DEF SendRefused, SubmitBusy
  <2> QED BY <1>2, <2>1, <2>2, <2>3, <2>4, <2>5, <2>6, <2>7, <2>8 DEF CoreStep
<1>3. ASSUME NEW c \in Cpus, CallPoll(c) \/ RecoverBegin(c) PROVE CustodyStep
  BY <1>3, Stutter DEF CallPoll, RecoverBegin
<1>4. ASSUME NEW c \in Cpus, NEW nb \in Netbufs, TxOne(c, nb) PROVE CustodyStep
  BY <1>4, TxOneCustody
<1>5. CASE Fetch \/ Complete \/ Spurious
  BY <1>5, Stutter DEF Fetch, Complete, Spurious, restOfDriver
<1> QED BY <1>1, <1>2, <1>3, <1>4, <1>5 DEF Next

\* A fresh ring holds no netbuf.
LEMMA CustodyInit == Init => Custody!Init
<1> SUFFICES ASSUME Init PROVE Custody!Init
  OBVIOUS
<1>1. home = [nb \in Netbufs |-> None] /\ bufs = [id \in Ids |-> None]
  BY DEF Init, RingInit
<1>2. InRing = {}
  BY <1>1, NoneAssumption DEF InRing
<1> QED BY <1>1, <1>2 DEF Custody!Init

\* The transmit path implements the abstract queue: through concurrent sends
\* and polls, deferred releases, failed sends and resets, every netbuf is
\* taken, returned, accepted and freed by single steps, each legal in the
\* abstract specification.
THEOREM TxKeepsCustody == Spec => KeepsCustody
<1>1. Spec => [](TypeOK /\ Accounting) /\ [][Next]_vars /\ Init
  BY AccountingInvariant, PTL DEF Spec
<1>2. TypeOK /\ Accounting /\ [Next]_vars => [Custody!Next]_(Custody!custody)
  BY CustodyNext DEF CustodyStep
<1> QED BY <1>1, <1>2, CustodyInit, PTL DEF KeepsCustody, Custody!Spec

-----------------------------------------------------------------------------
(* The transmit path between two recoveries: its two queues never overrun, a
   request is released only after the device is done with it, no bounce slot
   is lost, and a buffer is freed on the core that allocated it.  They hold
   for any depth, any number of sends and any interleaving with the device,
   and each names what it needs of the cores. *)

\* A transmit queue that belongs to one core, as the netdev layer hands out
\* its queues.
OneSender == \A a, b \in Senders : a = b

\* Where a core is inside a recovery, and inside a send of its own.
Recovering == {"recover", "invalidate", "resetSw", "devReset", "createHw"}
Sending    == {"send", "submit", "doorbell", "dbWrite", "map"}

-----------------------------------------------------------------------------
(* Who does what *)

\* Without a recovery the ring stays valid, and only a core that transmits is
\* ever inside a send.
Roles ==
  /\ hw_valid = TRUE /\ dev_live = TRUE
  /\ \A c \in Cpus :
       /\ pc[c] \notin Recovering
       /\ pkt[c] # None => c \in Senders
       /\ pc[c] \in Sending => c \in Senders

LEMMA RolesInit == Init => Roles
  BY DEF Init, RingInit, Roles, Recovering, Sending

LEMMA RolesStep ==
  ASSUME Resetters = {}, TypeOK, Roles, [Next]_vars
  PROVE  Roles'
<1> USE DEF Goto, ringVars, poolVars, sqVars, cqVars, devVars, txVars, bounceVars,
            coreVars, boundVars
<1>1. pc \in [Cpus -> Pcs] /\ pkt \in [Cpus -> Netbufs \cup {None}]
  BY DEF TypeOK
<1>2. CASE UNCHANGED vars
  BY <1>2 DEF vars, Roles
<1>3. ASSUME NEW c \in Cpus,
             NEW to, pc' = [pc EXCEPT ![c] = to], to \notin Recovering,
             to \in Sending => c \in Senders,
             UNCHANGED <<hw_valid, dev_live>>,
             \A d \in Cpus : pkt'[d] # None => pkt[d] # None \/ (d = c /\ c \in Senders)
      PROVE  Roles'
  BY <1>1, <1>3 DEF Roles
<1>4. ASSUME NEW c \in Cpus, CoreStep(c) PROVE Roles'
  <2>0. /\ pc[c] \notin Recovering /\ (pc[c] \in Sending => c \in Senders)
        /\ (pkt[c] # None => c \in Senders)
    BY DEF Roles
  <2>1. CASE PollSkip(c)
    BY <1>3, <2>0, <2>1 DEF PollSkip, AfterPoll, Recovering, Sending
  <2>2. CASE PollEnter(c)
    BY <1>3, <2>2 DEF PollEnter, Recovering, Sending
  <2>3. CASE PollLock(c)
    BY <1>3, <2>3 DEF PollLock, Recovering, Sending
  <2>4. CASE DrainOne(c) \/ ReapStale(c) \/ ReapOne(c)
    <3>1. UNCHANGED <<pc, pkt, hw_valid, dev_live>>
      BY <2>4 DEF DrainOne, ReapStale, ReapOne
    <3> QED BY <3>1 DEF Roles
  <2>5. CASE PollUnlock(c)
    BY <1>3, <2>0, <2>5 DEF PollUnlock, AfterPoll, Recovering, Sending
  <2>6. CASE SendRefused(c) \/ SubmitBusy(c)
    <3>1. SendFails(c)
      BY <2>6 DEF SendRefused, SubmitBusy
    <3>2. \A d \in Cpus : pkt'[d] # None => pkt[d] # None
      BY <1>1, <3>1 DEF SendFails
    <3> QED BY <1>3, <3>1, <3>2 DEF SendFails, Recovering, Sending
  <2>7. CASE SendDirect(c)
    BY <1>3, <2>0, <2>7 DEF SendDirect, Recovering, Sending
  <2>8. CASE SendBounced(c)
    BY <1>3, <2>0, <2>8 DEF SendBounced, Recovering, Sending
  <2>9. CASE Submit(c)
    <3>1. \A d \in Cpus : pkt'[d] # None => pkt[d] # None
      BY <1>1, <2>9 DEF Submit
    <3> QED BY <1>3, <2>0, <2>9, <3>1 DEF Submit, Recovering, Sending
  <2>10. CASE Doorbell(c)
    BY <1>3, <2>0, <2>10 DEF Doorbell, Recovering, Sending
  <2>11. CASE DoorbellWrite(c)
    BY <1>3, <2>0, <2>11 DEF DoorbellWrite, Recovering, Sending
  <2>12. CASE MapSlot(c)
    BY <1>3, <2>12 DEF MapSlot, Recovering, Sending
  <2>13. CASE \/ RecoverMark(c) \/ InvalidateLock(c) \/ Invalidate(c)
              \/ ResetDevice(c) \/ CreateHw(c) \/ RecoverFails(c)
    <3>1. pc[c] \in Recovering
      BY <2>13 DEF RecoverMark, InvalidateLock, Invalidate, ResetDevice, CreateHw,
                   RecoverFails, Recovering
    <3> QED BY <2>0, <3>1
  <2> QED
    BY <1>4, <2>1, <2>2, <2>3, <2>4, <2>5, <2>6, <2>7, <2>8, <2>9, <2>10, <2>11,
       <2>12, <2>13 DEF CoreStep
<1>5. ASSUME NEW c \in Cpus, CallPoll(c) PROVE Roles'
  BY <1>3, <1>5 DEF CallPoll, Recovering, Sending
<1>6. ASSUME NEW c \in Cpus, NEW nb \in Netbufs, TxOne(c, nb) PROVE Roles'
  <2>1. c \in Senders /\ pkt' = [pkt EXCEPT ![c] = nb]
    BY <1>6 DEF TxOne
  <2>2. \A d \in Cpus : pkt'[d] # None => pkt[d] # None \/ (d = c /\ c \in Senders)
    BY <1>1, <2>1
  <2> QED BY <1>3, <1>6, <2>2 DEF TxOne, Recovering, Sending
<1>7. CASE Fetch \/ Complete \/ Spurious
  <2>1. UNCHANGED <<hw_valid, dev_live, pc, pkt>>
    BY <1>7 DEF Fetch, Complete, Spurious, DevFetch, DevComplete, DevPost, restOfDriver
  <2> QED BY <2>1 DEF Roles
<1>8. ASSUME NEW c \in Cpus, RecoverBegin(c) PROVE FALSE
  BY <1>8 DEF RecoverBegin
<1> QED BY <1>2, <1>4, <1>5, <1>6, <1>7, <1>8 DEF Next

-----------------------------------------------------------------------------
(* The queues *)

\* What the phase bits, the descriptors and the doorbell say of each other
\* while the device completes only what it was given.
QueueInv ==
  /\ spurious = 0
  /\ PhasesTell /\ OnceQueued /\ Rung
  /\ \A c \in Cpus : pc[c] = "dbWrite" => db_val[c] = sq_tail

LEMMA QueueInvInit == Init => QueueInv
<1> SUFFICES ASSUME Init PROVE QueueInv
  OBVIOUS
<1>1. RingInit /\ spurious = 0 /\ \A c \in Cpus : pc[c] = "idle"
  BY DEF Init
<1>2. PhasesTell /\ OnceQueued /\ ToFetch = 0
  BY <1>1, QueueInit
<1>3. Ahead(dev_sq_db, dev_sq_head) = ToFetch /\ ToFetch <= ToFetch
  BY <1>1, <1>2, SMT DEF RingInit, ToFetch
<1> QED BY <1>1, <1>2, <1>3 DEF QueueInv, Rung

\* A step that touches neither queue, no request that is out and no doorbell
\* keeps all of it.
LEMMA QueueInvFrame ==
  ASSUME TypeOK, QueueInv,
         UNCHANGED <<sq_tail, sq_virt, cq_head, cq_phase, cq_virt, dev_sq_db,
                     dev_sq_head, dev_work, dev_cq_tail, dev_cq_phase, spurious>>,
         \A x \in Ids : Out(x) =>
           /\ req_allocated'[x] = req_allocated[x]
           /\ req_in_flight'[x] = req_in_flight[x]
           /\ bufs'[x] = bufs[x],
         \A c \in Cpus : pc'[c] = "dbWrite" =>
           (pc[c] = "dbWrite" /\ db_val'[c] = db_val[c]) \/ db_val'[c] = sq_tail
  PROVE  QueueInv'
<1>1. RingTypeOK
  BY DEF TypeOK
<1>2. OnceQueued' /\ ToFetch' = ToFetch /\ ToRead' = ToRead
  BY <1>1, QueueFrame DEF QueueInv
<1>3. PhasesTell'
  <2>1. /\ \A k \in Ids : PhaseAt(k)' = PhaseAt(k) /\ CqAt(k)' = CqAt(k)
        /\ PhaseAt(ToRead)' = PhaseAt(ToRead)
    BY <1>2 DEF PhaseAt, CqAt
  <2> QED BY <1>2, <2>1 DEF PhasesTell, QueueInv
<1>4. Rung'
  BY <1>2 DEF Rung, QueueInv
<1>5. \A c \in Cpus : pc'[c] = "dbWrite" => db_val'[c] = sq_tail'
  BY DEF QueueInv
<1> QED BY <1>2, <1>3, <1>4, <1>5 DEF QueueInv

\* The submit of the only sender: no other core has a doorbell to write.
LEMMA SubmitQueues ==
  ASSUME OneSender, TypeOK, Accounting, Roles, QueueInv, NEW c \in Cpus, Submit(c)
  PROVE  QueueInv'
<1>1. PICK id \in Ids :
        /\ ReqIdAlloc(id) /\ SqPush(id, pkt[c])
        /\ bufs' = [bufs EXCEPT ![id] = pkt[c]]
        /\ req_in_flight' = [req_in_flight EXCEPT ![id] = TRUE]
  BY DEF Submit
<1>2. /\ pc' = [pc EXCEPT ![c] = "doorbell"] /\ pc[c] = "submit"
      /\ UNCHANGED <<cq_head, cq_phase, cq_virt, dev_sq_db, dev_sq_head, dev_work,
                     dev_cq_tail, dev_cq_phase, spurious, db_val>>
  BY DEF Submit, Goto, cqVars, devVars, boundVars
<1>3. RingTypeOK /\ pc \in [Cpus -> Pcs]
  BY DEF TypeOK
<1>4. ~ req_allocated[id] /\ req_allocated' = [req_allocated EXCEPT ![id] = TRUE]
  <2>1. /\ free_req_ids \in Seq(Ids) /\ free_req_ids # <<>>
        /\ id = Head(free_req_ids)
        /\ req_allocated' = [req_allocated EXCEPT ![id] = TRUE]
    BY <1>1, <1>3 DEF ReqIdAlloc, RingTypeOK
  <2>2. 1 \in 1 .. Len(free_req_ids) /\ id = free_req_ids[1]
    BY <2>1, SMT
  <2> QED BY <2>1, <2>2 DEF Accounting, PoolPartition
<1>5. /\ OnceQueued' /\ ToFetch < Depth /\ ToFetch' = ToFetch + 1
      /\ ToRead' = ToRead
  BY <1>1, <1>2, <1>3, <1>4, QueuePush DEF QueueInv
<1>6. PhasesTell'
  <2>1. /\ \A k \in Ids : PhaseAt(k)' = PhaseAt(k) /\ CqAt(k)' = CqAt(k)
        /\ PhaseAt(ToRead)' = PhaseAt(ToRead)
    BY <1>2, <1>5 DEF PhaseAt, CqAt
  <2> QED BY <1>2, <1>5, <2>1 DEF PhasesTell, QueueInv
<1>7. Rung'
  <2>1. Ahead(dev_sq_db, dev_sq_head) \in Nat /\ ToFetch \in Nat
    BY <1>3, DepthAssumption, SMT DEF RingTypeOK, Indices, Ahead, ToFetch
  <2>2. Ahead(dev_sq_db, dev_sq_head) <= ToFetch + 1
    BY <2>1, SMT DEF QueueInv, Rung
  <2> QED BY <1>2, <1>5, <2>2 DEF Rung
<1>8. ASSUME NEW d \in Cpus PROVE pc'[d] # "dbWrite"
  <2>1. d # c => pc[d] # "dbWrite"
    BY <1>2 DEF Roles, Sending, OneSender
  <2> QED BY <1>2, <1>3, <2>1
<1> QED BY <1>2, <1>5, <1>6, <1>7, <1>8 DEF QueueInv

\* The completion that is read takes its request out of the queue.
LEMMA ReapQueues ==
  ASSUME TypeOK, Accounting, QueueInv, NEW c \in Cpus, ReapOne(c)
  PROVE  QueueInv' /\ ~ DeviceHolds(Cdesc.req_id)
<1>1. /\ Reaping(c) /\ CqAdvance
      /\ req_in_flight' = [req_in_flight EXCEPT ![Cdesc.req_id] = FALSE]
      /\ UNCHANGED <<pc, db_val, sq_tail, sq_virt, cq_virt, dev_sq_db, dev_sq_head,
                     dev_work, dev_cq_tail, dev_cq_phase, spurious>>
  BY DEF ReapOne, sqVars, devVars, coreVars, boundVars
<1>2. RingTypeOK
  BY DEF TypeOK
<1>3. CdescReady /\ Cdesc.req_id \in Ids
  BY <1>1 DEF Reaping
<1>4. PICK id \in Ids : id = Cdesc.req_id
  BY <1>3
<1>5. \/ UNCHANGED <<req_allocated, bufs>>
      \/ ReqIdFree(id)
  BY <1>4 DEF ReapOne, StageForeign
<1>6. /\ req_allocated \in [Ids -> BOOLEAN] /\ req_in_flight \in [Ids -> BOOLEAN]
      /\ bufs \in [Ids -> Netbufs \cup {None}]
  BY <1>2 DEF RingTypeOK
<1>7. \A x \in Ids : x # id =>
        /\ req_allocated'[x] = req_allocated[x]
        /\ req_in_flight'[x] = req_in_flight[x]
        /\ bufs'[x] = bufs[x]
  BY <1>1, <1>4, <1>5, <1>6, ZenonT(30) DEF ReqIdFree
<1>8. /\ OnceQueued' /\ PhasesTell' /\ ToFetch' = ToFetch
      /\ ~ DeviceHolds(Cdesc.req_id)
  BY <1>1, <1>2, <1>3, <1>4, <1>7, QueueRead DEF QueueInv
<1>9. Rung'
  BY <1>1, <1>8 DEF Rung, QueueInv
<1> QED BY <1>1, <1>8, <1>9 DEF QueueInv

\* Every completion that is read is one of a request in flight.
LEMMA NoStaleCompletion ==
  ASSUME TypeOK, QueueInv, NEW c \in Cpus, ReapStale(c)
  PROVE  FALSE
<1>1. /\ CdescReady /\ ~ req_in_flight[Cdesc.req_id] /\ CqAdvance
      /\ UNCHANGED <<sq_tail, sq_virt, cq_virt, dev_sq_head, dev_work, dev_cq_tail,
                     dev_cq_phase, req_allocated, req_in_flight, bufs>>
  BY DEF ReapStale, Reaping, sqVars, devVars, poolVars
<1>2. RingTypeOK
  BY DEF TypeOK
<1>3. Out(Cdesc.req_id)
  BY <1>1, <1>2, QueueRead DEF QueueInv
<1> QED BY <1>1, <1>3 DEF Out

LEMMA QueueInvStep ==
  ASSUME Resetters = {}, MaxSpurious = 0, OneSender, TypeOK, Accounting, Roles,
         QueueInv, [Next]_vars
  PROVE  QueueInv'
<1> USE DEF Goto, ringVars, poolVars, sqVars, cqVars, devVars, txVars, bounceVars,
            coreVars, boundVars
<1>1. /\ RingTypeOK /\ pc \in [Cpus -> Pcs] /\ db_val \in [Cpus -> Indices]
      /\ hw_valid = TRUE /\ dev_live = TRUE
  BY DEF TypeOK, Roles
<1>2. CASE UNCHANGED vars
  BY <1>2, QueueInvFrame DEF vars
\* A step that moves its core and leaves the ring and the doorbells alone.
<1>3. ASSUME NEW c \in Cpus, NEW to, to # "dbWrite", pc' = [pc EXCEPT ![c] = to],
             UNCHANGED <<poolVars, sqVars, cqVars, cq_virt, devVars, db_val, spurious>>
      PROVE  QueueInv'
  <2>1. \A d \in Cpus : pc'[d] = "dbWrite" => pc[d] = "dbWrite" /\ db_val'[d] = db_val[d]
    BY <1>1, <1>3
  <2> QED BY <1>3, <2>1, QueueInvFrame
<1>4. ASSUME NEW c \in Cpus, CoreStep(c) PROVE QueueInv'
  <2>1. CASE PollSkip(c)
    BY <1>3, <2>1 DEF PollSkip, AfterPoll
  <2>2. CASE PollEnter(c)
    BY <1>3, <2>2 DEF PollEnter
  <2>3. CASE PollLock(c)
    BY <1>3, <2>3 DEF PollLock
  <2>4. CASE DrainOne(c)
    <3>1. PICK i \in 1 .. Len(tx_foreign) : ReqIdFree(tx_foreign[i].req_id)
      BY <2>4 DEF DrainOne
    <3>2. /\ tx_foreign[i].req_id \in ForeignIds
          /\ tx_foreign[i].req_id \in Ids
      BY DropForeignType DEF TypeOK, ForeignEntry, ForeignIds
    <3>3. PICK id \in Ids : id = tx_foreign[i].req_id
      BY <3>2
    <3>4. ~ req_in_flight[id]
      BY <3>2, <3>3 DEF Accounting, RequestAccounting
    <3>5. UNCHANGED <<req_in_flight, sqVars, cqVars, cq_virt, devVars, pc, db_val,
                      spurious>>
      BY <2>4 DEF DrainOne
    <3>6. \A x \in Ids : x # id =>
            req_allocated'[x] = req_allocated[x] /\ bufs'[x] = bufs[x]
      BY <1>1, <3>1, <3>3 DEF ReqIdFree, RingTypeOK
    <3>7. \A x \in Ids : Out(x) =>
            /\ req_allocated'[x] = req_allocated[x]
            /\ req_in_flight'[x] = req_in_flight[x]
            /\ bufs'[x] = bufs[x]
      BY <3>4, <3>5, <3>6 DEF Out
    <3> QED BY <3>5, <3>7, QueueInvFrame
  <2>5. CASE ReapStale(c)
    BY <2>5, NoStaleCompletion
  <2>6. CASE ReapOne(c)
    BY <2>6, ReapQueues
  <2>7. CASE PollUnlock(c)
    BY <1>3, <2>7 DEF PollUnlock, AfterPoll
  <2>8. CASE SendRefused(c) \/ SubmitBusy(c)
    BY <1>3, <2>8 DEF SendRefused, SubmitBusy, SendFails
  <2>9. CASE SendDirect(c)
    BY <1>3, <2>9 DEF SendDirect
  <2>10. CASE SendBounced(c)
    BY <1>3, <2>10 DEF SendBounced
  <2>11. CASE Submit(c)
    BY <2>11, SubmitQueues
  <2>12. CASE Doorbell(c)
    <3>1. /\ pc' = [pc EXCEPT ![c] = "dbWrite"]
          /\ db_val' = [db_val EXCEPT ![c] = sq_tail]
          /\ UNCHANGED <<poolVars, sqVars, cqVars, cq_virt, devVars, spurious>>
      BY <1>1, <2>12 DEF Doorbell, PublishedTail
    <3>2. \A d \in Cpus : pc'[d] = "dbWrite" =>
            (pc[d] = "dbWrite" /\ db_val'[d] = db_val[d]) \/ db_val'[d] = sq_tail
      BY <1>1, <3>1
    <3> QED BY <3>1, <3>2, QueueInvFrame
  <2>13. CASE DoorbellWrite(c)
    <3>1. /\ pc[c] = "dbWrite" /\ pc' = [pc EXCEPT ![c] = "map"]
          /\ dev_sq_db' = db_val[c] /\ db_val' = [db_val EXCEPT ![c] = 0]
          /\ UNCHANGED <<poolVars, sqVars, cqVars, cq_virt, dev_sq_head, dev_work,
                         dev_cq_tail, dev_cq_phase, spurious>>
      BY <1>1, <2>13 DEF DoorbellWrite
    <3>2. dev_sq_db' = sq_tail
      BY <3>1 DEF QueueInv
    <3>3. OnceQueued' /\ ToFetch' = ToFetch /\ ToRead' = ToRead
      BY <1>1, <3>1, QueueFrame DEF QueueInv
    <3>4. PhasesTell'
      <4>1. /\ \A k \in Ids : PhaseAt(k)' = PhaseAt(k) /\ CqAt(k)' = CqAt(k)
            /\ PhaseAt(ToRead)' = PhaseAt(ToRead)
        BY <3>1, <3>3 DEF PhaseAt, CqAt
      <4> QED BY <3>1, <3>3, <4>1 DEF PhasesTell, QueueInv
    <3>5. Rung'
      <4>1. Ahead(dev_sq_db, dev_sq_head)' = ToFetch'
        BY <3>1, <3>2 DEF ToFetch
      <4>2. ToFetch' = ToFetch /\ ToFetch <= ToFetch
        BY <1>1, <3>3, QueueType, SMT
      <4> QED BY <4>1, <4>2 DEF Rung
    <3>6. \A d \in Cpus : pc'[d] = "dbWrite" => pc[d] = "dbWrite" /\ db_val'[d] = db_val[d]
      BY <1>1, <3>1
    <3> QED BY <3>1, <3>3, <3>4, <3>5, <3>6 DEF QueueInv
  <2>14. CASE MapSlot(c)
    BY <1>3, <2>14 DEF MapSlot
  <2>15. CASE \/ RecoverMark(c) \/ InvalidateLock(c) \/ Invalidate(c)
              \/ ResetDevice(c) \/ CreateHw(c) \/ RecoverFails(c)
    <3>1. pc[c] \in Recovering
      BY <2>15 DEF RecoverMark, InvalidateLock, Invalidate, ResetDevice, CreateHw,
                   RecoverFails, Recovering
    <3> QED BY <3>1 DEF Roles
  <2> QED
    BY <1>4, <2>1, <2>2, <2>3, <2>4, <2>5, <2>6, <2>7, <2>8, <2>9, <2>10, <2>11,
       <2>12, <2>13, <2>14, <2>15 DEF CoreStep
<1>5. ASSUME NEW c \in Cpus, CallPoll(c) PROVE QueueInv'
  BY <1>3, <1>5 DEF CallPoll
<1>6. ASSUME NEW c \in Cpus, NEW nb \in Netbufs, TxOne(c, nb) PROVE QueueInv'
  BY <1>3, <1>6 DEF TxOne
<1>7. CASE Fetch
  <2>1. /\ DevFetch
        /\ UNCHANGED <<poolVars, sqVars, cqVars, pc, db_val, spurious>>
    BY <1>7 DEF Fetch, restOfDriver
  <2>2. ToFetch > 0 /\ Rung'
    BY <1>1, <2>1, RungFetch DEF QueueInv
  <2>3. OnceQueued' /\ ToRead' = ToRead
    BY <1>1, <2>1, <2>2, QueueFetch DEF QueueInv
  <2>4. PhasesTell'
    <3>1. UNCHANGED <<cq_virt, dev_cq_tail, dev_cq_phase>>
      BY <2>1 DEF DevFetch
    <3>2. /\ \A k \in Ids : PhaseAt(k)' = PhaseAt(k) /\ CqAt(k)' = CqAt(k)
          /\ PhaseAt(ToRead)' = PhaseAt(ToRead)
      BY <2>1, <2>3, <3>1 DEF PhaseAt, CqAt
    <3> QED BY <2>3, <3>1, <3>2 DEF PhasesTell, QueueInv
  <2> QED BY <2>1, <2>2, <2>3, <2>4 DEF QueueInv
<1>8. CASE Complete
  <2>1. UNCHANGED <<poolVars, sqVars, cqVars, pc, db_val, spurious>>
    BY <1>8 DEF Complete, restOfDriver
  <2>2. PICK w \in dev_work : dev_work' = dev_work \ {w} /\ DevPost(w.req_id)
    BY <1>8 DEF Complete, DevComplete
  <2>3. OnceQueued' /\ PhasesTell' /\ ToFetch' = ToFetch
    BY <1>1, <2>1, <2>2, QueuePost DEF QueueInv
  <2>4. Rung'
    BY <2>2, <2>3 DEF Rung, QueueInv, DevPost
  <2> QED BY <2>1, <2>3, <2>4 DEF QueueInv
<1>9. CASE Spurious
  BY <1>9, SMT DEF Spurious, QueueInv
<1>10. ASSUME NEW c \in Cpus, RecoverBegin(c) PROVE FALSE
  BY <1>10 DEF RecoverBegin
<1> QED BY <1>2, <1>4, <1>5, <1>6, <1>7, <1>8, <1>9, <1>10 DEF Next

LEMMA QueueInvariant ==
  Resetters = {} /\ MaxSpurious = 0 /\ OneSender
    => (Spec => [](TypeOK /\ Accounting /\ Roles /\ QueueInv))
<1> SUFFICES ASSUME Resetters = {}, MaxSpurious = 0, OneSender
             PROVE  Spec => [](TypeOK /\ Accounting /\ Roles /\ QueueInv)
  OBVIOUS
<1>1. TypeOK /\ Accounting /\ Roles /\ QueueInv /\ [Next]_vars => Roles' /\ QueueInv'
  BY RolesStep, QueueInvStep
<1> QED BY <1>1, AccountingInvariant, RolesInit, QueueInvInit, PTL DEF Spec

\* Neither queue overruns: ena_tx_submit never writes over a descriptor the
\* device has not fetched and the device never writes over a completion the
\* driver has not read, although sq_tail is never compared with a head.  It
\* takes one sending core, no recovery and a device that completes what it
\* was given: a second core could write an old tail long after the first has
\* moved it once round, and a recovery leaves old completions in memory.
THEOREM QueuesHold ==
  Resetters = {} /\ MaxSpurious = 0 /\ OneSender => (Spec => []QueuesNeverOverrun)
<1>1. TypeOK /\ QueueInv => QueuesNeverOverrun
  BY DEF QueueInv, OnceQueued, PhasesTell, QueuesNeverOverrun, ToFetch, ToRead
<1> SUFFICES ASSUME Resetters = {}, MaxSpurious = 0, OneSender
             PROVE  Spec => []QueuesNeverOverrun
  OBVIOUS
<1>2. Spec => [](TypeOK /\ Accounting /\ Roles /\ QueueInv)
  BY QueueInvariant
<1> QED BY <1>1, <1>2, PTL

\* Without a recovery only the completion a poll reads ends a flight.
LEMMA FlightEnds ==
  ASSUME TypeOK, Roles, [Next]_vars, NEW id \in Ids,
         req_in_flight[id], ~ req_in_flight'[id]
  PROVE  \E c \in Cpus : ReapOne(c) /\ id = Cdesc.req_id
<1> USE DEF Goto, ringVars, poolVars
<1>1. req_in_flight \in [Ids -> BOOLEAN]
  BY DEF TypeOK, RingTypeOK
<1>2. CASE UNCHANGED vars
  BY <1>2 DEF vars
<1>3. ASSUME NEW c \in Cpus, CoreStep(c) PROVE ReapOne(c) /\ id = Cdesc.req_id
  <2>1. CASE \/ PollSkip(c) \/ PollEnter(c) \/ PollLock(c) \/ DrainOne(c)
             \/ ReapStale(c) \/ PollUnlock(c) \/ SendRefused(c) \/ SendDirect(c)
             \/ SendBounced(c) \/ SubmitBusy(c)
             \/ Doorbell(c) \/ DoorbellWrite(c) \/ MapSlot(c)
    <3>1. UNCHANGED req_in_flight
      BY <2>1 DEF PollSkip, PollEnter, PollLock, DrainOne, ReapStale, PollUnlock,
         SendRefused, SendDirect, SendBounced, SubmitBusy, SendFails, Doorbell,
         DoorbellWrite, MapSlot
    <3> QED BY <3>1
  <2>2. CASE Submit(c)
    BY <1>1, <2>2 DEF Submit
  <2>3. CASE ReapOne(c)
    BY <1>1, <2>3 DEF ReapOne
  <2>4. CASE \/ RecoverMark(c) \/ InvalidateLock(c) \/ Invalidate(c)
             \/ ResetDevice(c) \/ CreateHw(c) \/ RecoverFails(c)
    <3>1. pc[c] \in Recovering
      BY <2>4 DEF RecoverMark, InvalidateLock, Invalidate, ResetDevice, CreateHw,
                  RecoverFails, Recovering
    <3> QED BY <3>1 DEF Roles
  <2> QED BY <1>3, <2>1, <2>2, <2>3, <2>4 DEF CoreStep
<1>4. ASSUME NEW c \in Cpus, CallPoll(c) \/ RecoverBegin(c) PROVE FALSE
  BY <1>4 DEF CallPoll, RecoverBegin
<1>5. ASSUME NEW c \in Cpus, NEW nb \in Netbufs, TxOne(c, nb) PROVE FALSE
  BY <1>5 DEF TxOne
<1>6. CASE Fetch \/ Complete \/ Spurious
  BY <1>6 DEF Fetch, Complete, Spurious, restOfDriver
<1> QED BY <1>2, <1>3, <1>4, <1>5, <1>6 DEF Next

\* A request is released only after the device is done with it: no descriptor
\* of its id is left to fetch or in work when ena_tx_poll_completions puts
\* the id back, so the next submit cannot hand the device a live buffer twice.
THEOREM ReleasedAfterCompletion ==
  Resetters = {} /\ MaxSpurious = 0 /\ OneSender => (Spec => CompletedBeforeRelease)
<1> SUFFICES ASSUME Resetters = {}, MaxSpurious = 0, OneSender
             PROVE  Spec => CompletedBeforeRelease
  OBVIOUS
<1> DEFINE Held == \A id \in Ids :
             req_in_flight[id] /\ ~ req_in_flight'[id] /\ hw_valid' => ~ DeviceHolds(id)
<1>1. TypeOK /\ Accounting /\ Roles /\ QueueInv /\ [Next]_vars => [Held]_vars
  <2> SUFFICES ASSUME TypeOK, Accounting, Roles, QueueInv, [Next]_vars,
                      NEW id \in Ids, req_in_flight[id], ~ req_in_flight'[id]
               PROVE  ~ DeviceHolds(id)
    OBVIOUS
  <2>1. PICK c \in Cpus : ReapOne(c) /\ id = Cdesc.req_id
    BY FlightEnds
  <2>2. ~ DeviceHolds(Cdesc.req_id)
    BY <2>1, ReapQueues
  <2> QED BY <2>1, <2>2
<1>2. Spec => [](TypeOK /\ Accounting /\ Roles /\ QueueInv)
  BY QueueInvariant
<1>3. Spec => [][Held]_vars
  <2> HIDE DEF Held
  <2> QED BY <1>1, <1>2, PTL DEF Spec
<1> QED BY <1>3 DEF CompletedBeforeRelease

-----------------------------------------------------------------------------
(* The bounce slots *)

\* The rest of a send, between the submit and the mapping of its slot.
Submitted == {"doorbell", "dbWrite", "map"}

\* A slot that is mapped belongs to a request in flight, and a core that has
\* submitted and not yet mapped its slot has a request in flight without one.
BounceInv ==
  /\ \A id \in Ids : bounce_map[id] # None => req_in_flight[id]
  /\ \A c \in Cpus : pc[c] \in Submitted =>
       /\ req_id[c] \in Ids /\ req_in_flight[req_id[c]]
       /\ bounce_map[req_id[c]] = None
  /\ \A c \in Cpus : slot[c] # None => pc[c] = "submit" \/ pc[c] \in Submitted

LEMMA BounceInit == Init => BounceInv /\ BounceAccounting
  BY DEF Init, RingInit, BounceInv, BounceAccounting, Submitted

\* A step of a core that moves no slot, no mapping and no flight.
LEMMA BounceFrame ==
  ASSUME TypeOK, BounceInv, BounceAccounting, NEW c \in Cpus,
         NEW to, pc' = [pc EXCEPT ![c] = to],
         UNCHANGED <<bounce_free, bounce_map, req_in_flight, slot, req_id>>,
         to \in Submitted <=> pc[c] \in Submitted,
         pc[c] = "submit" => to = "submit"
  PROVE  BounceInv' /\ BounceAccounting'
<1>1. pc \in [Cpus -> Pcs]
  BY DEF TypeOK
<1>2. /\ \A d \in Cpus : pc'[d] \in Submitted <=> pc[d] \in Submitted
      /\ \A d \in Cpus : pc[d] = "submit" => pc'[d] = "submit"
  BY <1>1
<1> QED BY <1>2 DEF BounceInv, BounceAccounting

\* The slot of the completed request goes back to the pool.
LEMMA ReapBounce ==
  ASSUME \A a, b \in Cpus : a = b, TypeOK, BounceInv, BounceAccounting,
         NEW c \in Cpus, ReapOne(c)
  PROVE  BounceInv' /\ BounceAccounting'
<1>1. PICK id \in Ids : id = Cdesc.req_id
  BY DEF ReapOne, Reaping
<1>2. /\ pc[c] = "reap"
      /\ req_in_flight' = [req_in_flight EXCEPT ![id] = FALSE]
      /\ bounce_map' = [bounce_map EXCEPT ![id] = None]
      /\ bounce_free' = IF bounce_map[id] = None
                        THEN bounce_free ELSE bounce_free \cup {bounce_map[id]}
      /\ UNCHANGED <<pc, slot, req_id>>
  BY <1>1 DEF ReapOne, Reaping, ReclaimSlot, coreVars
<1>3. /\ req_in_flight \in [Ids -> BOOLEAN]
      /\ bounce_map \in [Ids -> BounceSlots \cup {None}]
  BY DEF TypeOK, RingTypeOK
<1>4. \A x \in Ids : x # id =>
        req_in_flight'[x] = req_in_flight[x] /\ bounce_map'[x] = bounce_map[x]
  BY <1>2, <1>3
<1>5. bounce_map'[id] = None
  BY <1>2, <1>3
<1>6. \A d \in Cpus : pc[d] \notin Submitted
  BY <1>2 DEF Submitted
<1>7. BounceInv'
  BY <1>2, <1>4, <1>5, <1>6 DEF BounceInv
<1>8. ASSUME NEW s \in BounceSlots, s \notin bounce_free', \A d \in Cpus : slot'[d] # s
      PROVE  \E x \in Ids : bounce_map'[x] = s /\ req_in_flight'[x]
  <2>1. s \notin bounce_free /\ \A d \in Cpus : slot[d] # s
    BY <1>2, <1>8
  <2>2. PICK x \in Ids : bounce_map[x] = s /\ req_in_flight[x]
    BY <2>1 DEF BounceAccounting
  <2>3. x # id
    BY <1>2, <1>8, <2>2, TxAssumption
  <2> QED BY <1>4, <2>2, <2>3
<1> QED BY <1>7, <1>8 DEF BounceAccounting

\* A send that fails gives its slot back.
LEMMA SendFailsBounce ==
  ASSUME TypeOK, BounceInv, BounceAccounting, NEW c \in Cpus, SendFails(c)
  PROVE  BounceInv' /\ BounceAccounting'
<1>1. /\ pc' = [pc EXCEPT ![c] = "idle"]
      /\ slot' = [slot EXCEPT ![c] = None]
      /\ bounce_free' = IF slot[c] = None THEN bounce_free ELSE bounce_free \cup {slot[c]}
      /\ UNCHANGED <<bounce_map, req_in_flight, req_id>>
  BY DEF SendFails, ringVars, poolVars
<1>2. pc \in [Cpus -> Pcs] /\ slot \in [Cpus -> BounceSlots \cup {None}]
  BY DEF TypeOK
<1>3. /\ pc'[c] = "idle" /\ slot'[c] = None
      /\ \A d \in Cpus : d # c => pc'[d] = pc[d] /\ slot'[d] = slot[d]
  BY <1>1, <1>2
<1>4. BounceInv'
  BY <1>1, <1>3 DEF BounceInv, Submitted
<1>5. ASSUME NEW s \in BounceSlots, s \notin bounce_free', \A d \in Cpus : slot'[d] # s
      PROVE  \E x \in Ids : bounce_map'[x] = s /\ req_in_flight'[x]
  <2>1. slot[c] # s /\ s \notin bounce_free
    BY <1>1, <1>5, TxAssumption
  <2>2. \A d \in Cpus : slot[d] # s
    BY <1>3, <1>5, <2>1
  <2> QED BY <1>1, <2>1, <2>2 DEF BounceAccounting
<1> QED BY <1>4, <1>5 DEF BounceAccounting

\* A low-memory packet takes a slot out of the pool.
LEMMA BouncedBounce ==
  ASSUME TypeOK, BounceInv, BounceAccounting, NEW c \in Cpus, SendBounced(c)
  PROVE  BounceInv' /\ BounceAccounting'
<1>1. PICK s \in bounce_free :
        /\ pc[c] = "send" /\ pc' = [pc EXCEPT ![c] = "submit"]
        /\ slot' = [slot EXCEPT ![c] = s]
        /\ bounce_free' = bounce_free \ {s}
        /\ UNCHANGED <<bounce_map, req_in_flight, req_id>>
  BY DEF SendBounced, Goto, ringVars, poolVars
<1>2. /\ pc \in [Cpus -> Pcs] /\ slot \in [Cpus -> BounceSlots \cup {None}]
      /\ bounce_free \subseteq BounceSlots
  BY DEF TypeOK
<1>3. /\ pc'[c] = "submit" /\ slot'[c] = s /\ slot[c] = None
      /\ \A d \in Cpus : d # c => pc'[d] = pc[d] /\ slot'[d] = slot[d]
  BY <1>1, <1>2 DEF BounceInv, Submitted
<1>4. BounceInv'
  BY <1>1, <1>3 DEF BounceInv, Submitted
<1>5. ASSUME NEW t \in BounceSlots, t \notin bounce_free', \A d \in Cpus : slot'[d] # t
      PROVE  \E x \in Ids : bounce_map'[x] = t /\ req_in_flight'[x]
  <2>1. t # s
    BY <1>3, <1>5
  <2>2. t \notin bounce_free
    BY <1>1, <1>5, <2>1
  <2>3. \A d \in Cpus : slot[d] # t
    BY <1>3, <1>5, TxAssumption
  <2> QED BY <1>1, <2>2, <2>3 DEF BounceAccounting
<1> QED BY <1>4, <1>5 DEF BounceAccounting

\* The submit takes an id that has no slot mapped.
LEMMA SubmitBounce ==
  ASSUME \A a, b \in Cpus : a = b, TypeOK, Accounting, BounceInv, BounceAccounting,
         NEW c \in Cpus, Submit(c)
  PROVE  BounceInv' /\ BounceAccounting'
<1>1. PICK id \in Ids :
        /\ ReqIdAlloc(id)
        /\ pc' = [pc EXCEPT ![c] = "doorbell"]
        /\ req_in_flight' = [req_in_flight EXCEPT ![id] = TRUE]
        /\ req_id' = [req_id EXCEPT ![c] = id]
        /\ UNCHANGED <<bounce_free, bounce_map, slot>>
  BY DEF Submit, Goto, bounceVars
<1>2. /\ pc \in [Cpus -> Pcs] /\ req_id \in [Cpus -> Ids \cup {None}]
      /\ req_in_flight \in [Ids -> BOOLEAN] /\ free_req_ids \in Seq(Ids)
  BY DEF TypeOK, RingTypeOK
<1>3. bounce_map[id] = None
  <2>1. free_req_ids # <<>> /\ id = Head(free_req_ids)
    BY <1>1 DEF ReqIdAlloc
  <2>2. 1 \in 1 .. Len(free_req_ids) /\ id = free_req_ids[1]
    BY <1>2, <2>1, SMT
  <2>3. ~ req_allocated[id]
    BY <2>2 DEF Accounting, PoolPartition
  <2>4. ~ req_in_flight[id]
    BY <2>3 DEF Accounting, RequestAccounting
  <2> QED BY <2>4 DEF BounceInv
<1>4. /\ pc'[c] = "doorbell" /\ req_id'[c] = id /\ req_in_flight'[id]
      /\ \A x \in Ids : req_in_flight[x] => req_in_flight'[x]
  BY <1>1, <1>2
<1>5. BounceInv'
  <2>1. \A x \in Ids : bounce_map'[x] # None => req_in_flight'[x]
    BY <1>1, <1>4 DEF BounceInv
  <2>2. ASSUME NEW d \in Cpus
        PROVE  /\ req_id'[d] \in Ids /\ req_in_flight'[req_id'[d]]
               /\ bounce_map'[req_id'[d]] = None /\ pc'[d] \in Submitted
    <3>1. d = c
      OBVIOUS
    <3> QED BY <1>1, <1>3, <1>4, <3>1 DEF Submitted
  <2> QED BY <2>1, <2>2 DEF BounceInv
<1>6. BounceAccounting'
  BY <1>1, <1>4 DEF BounceAccounting
<1> QED BY <1>5, <1>6

\* The slot is tied to the request it was taken for.
LEMMA MapBounce ==
  ASSUME \A a, b \in Cpus : a = b, TypeOK, BounceInv, BounceAccounting,
         NEW c \in Cpus, MapSlot(c)
  PROVE  BounceInv' /\ BounceAccounting'
<1>1. /\ pc[c] = "map" /\ pc' = [pc EXCEPT ![c] = "idle"]
      /\ bounce_map' = IF slot[c] = None THEN bounce_map
                       ELSE [bounce_map EXCEPT ![req_id[c]] = slot[c]]
      /\ slot' = [slot EXCEPT ![c] = None]
      /\ UNCHANGED <<bounce_free, req_in_flight>>
  BY DEF MapSlot, Goto, ringVars, poolVars
<1>2. /\ pc \in [Cpus -> Pcs] /\ slot \in [Cpus -> BounceSlots \cup {None}]
      /\ bounce_map \in [Ids -> BounceSlots \cup {None}]
  BY DEF TypeOK
<1>3. PICK id \in Ids : id = req_id[c] /\ req_in_flight[id] /\ bounce_map[id] = None
  BY <1>1 DEF BounceInv, Submitted
<1>4. /\ pc'[c] = "idle" /\ slot'[c] = None
      /\ \A x \in Ids : x # id => bounce_map'[x] = bounce_map[x]
      /\ bounce_map'[id] = slot[c]
  BY <1>1, <1>2, <1>3
<1>5. BounceInv'
  BY <1>1, <1>3, <1>4, ZenonT(30) DEF BounceInv, Submitted
<1>6. ASSUME NEW s \in BounceSlots, s \notin bounce_free
      PROVE  \E x \in Ids : bounce_map'[x] = s /\ req_in_flight'[x]
  <2>1. CASE slot[c] = s
    BY <1>1, <1>3, <1>4, <2>1
  <2>2. CASE slot[c] # s
    <3>1. PICK x \in Ids : bounce_map[x] = s /\ req_in_flight[x]
      BY <1>6, <2>2 DEF BounceAccounting
    <3>2. x # id
      BY <1>3, <3>1, TxAssumption
    <3> QED BY <1>1, <1>4, <3>1, <3>2
  <2> QED BY <2>1, <2>2
<1> QED BY <1>1, <1>5, <1>6 DEF BounceAccounting

LEMMA BounceStep ==
  ASSUME \A a, b \in Cpus : a = b, Resetters = {}, TypeOK, Accounting, Roles,
         BounceInv, BounceAccounting, [Next]_vars
  PROVE  BounceInv' /\ BounceAccounting'
<1> DEFINE Good == BounceInv' /\ BounceAccounting'
<1> USE DEF Goto, ringVars, poolVars, bounceVars, coreVars
<1>1. ASSUME UNCHANGED <<pc, bounce_free, bounce_map, req_in_flight, slot, req_id>>
      PROVE  Good
  BY <1>1 DEF BounceInv, BounceAccounting
<1>2. CASE UNCHANGED vars
  BY <1>1, <1>2 DEF vars
<1>3. ASSUME NEW c \in Cpus, CoreStep(c) PROVE Good
  <2> HIDE DEF Good
  <2>0. Good <=> BounceInv' /\ BounceAccounting'
    BY DEF Good
  <2>1. CASE PollSkip(c)
    BY <2>0, <2>1, BounceFrame DEF PollSkip, AfterPoll, Submitted
  <2>2. CASE PollEnter(c)
    BY <2>0, <2>2, BounceFrame DEF PollEnter, Submitted
  <2>3. CASE PollLock(c)
    BY <2>0, <2>3, BounceFrame DEF PollLock, Submitted
  <2>4. CASE DrainOne(c) \/ ReapStale(c)
    BY <1>1, <2>4 DEF DrainOne, ReapStale
  <2>5. CASE ReapOne(c)
    BY <2>0, <2>5, ReapBounce
  <2>6. CASE PollUnlock(c)
    BY <2>0, <2>6, BounceFrame DEF PollUnlock, AfterPoll, Submitted
  <2>7. CASE SendRefused(c) \/ SubmitBusy(c)
    BY <2>0, <2>7, SendFailsBounce DEF SendRefused, SubmitBusy
  <2>8. CASE SendDirect(c)
    BY <2>0, <2>8, BounceFrame DEF SendDirect, Submitted
  <2>9. CASE SendBounced(c)
    BY <2>0, <2>9, BouncedBounce
  <2>10. CASE Submit(c)
    BY <2>0, <2>10, SubmitBounce
  <2>11. CASE Doorbell(c)
    BY <2>0, <2>11, BounceFrame DEF Doorbell, Submitted
  <2>12. CASE DoorbellWrite(c)
    BY <2>0, <2>12, BounceFrame DEF DoorbellWrite, Submitted
  <2>13. CASE MapSlot(c)
    BY <2>0, <2>13, MapBounce
  <2>14. CASE \/ RecoverMark(c) \/ InvalidateLock(c) \/ Invalidate(c)
              \/ ResetDevice(c) \/ CreateHw(c) \/ RecoverFails(c)
    <3>1. pc[c] \in Recovering
      BY <2>14 DEF RecoverMark, InvalidateLock, Invalidate, ResetDevice, CreateHw,
                   RecoverFails, Recovering
    <3> QED BY <3>1 DEF Roles
  <2> QED
    BY <1>3, <2>1, <2>2, <2>3, <2>4, <2>5, <2>6, <2>7, <2>8, <2>9, <2>10, <2>11,
       <2>12, <2>13, <2>14 DEF CoreStep
<1>4. ASSUME NEW c \in Cpus, CallPoll(c) PROVE Good
  BY <1>4, BounceFrame DEF CallPoll, Submitted
<1>5. ASSUME NEW c \in Cpus, NEW nb \in Netbufs, TxOne(c, nb) PROVE Good
  BY <1>5, BounceFrame DEF TxOne, Submitted
<1>6. CASE Fetch \/ Complete \/ Spurious
  BY <1>1, <1>6 DEF Fetch, Complete, Spurious, restOfDriver
<1>7. ASSUME NEW c \in Cpus, RecoverBegin(c) PROVE FALSE
  BY <1>7 DEF RecoverBegin
<1> QED BY <1>2, <1>3, <1>4, <1>5, <1>6, <1>7 DEF Next

\* No bounce slot is ever lost, whatever fails and however often the ring
\* wraps, and even when the device repeats completions: each is in the pool,
\* with the core that is sending from it, or mapped to a request in flight
\* (ena_netdev_tx_one, ena_netdev_txq_reclaim_slot).  It takes a queue that
\* one core sends and polls on: a second core could reap the request between
\* its doorbell and the mapping of its slot; and a recovery clears the
\* requests and keeps the mappings.
THEOREM NoBounceSlotLost ==
  Resetters = {} /\ (\A a, b \in Cpus : a = b) => (Spec => []BounceAccounting)
<1> SUFFICES ASSUME Resetters = {}, \A a, b \in Cpus : a = b
             PROVE  Spec => []BounceAccounting
  OBVIOUS
<1>1. TypeOK /\ Accounting /\ Roles /\ BounceInv /\ BounceAccounting /\ [Next]_vars
        => Roles' /\ BounceInv' /\ BounceAccounting'
  BY RolesStep, BounceStep
<1> QED BY <1>1, AccountingInvariant, RolesInit, BounceInit, PTL DEF Spec

-----------------------------------------------------------------------------
(* Where a buffer is freed *)

\* A poll holds the lock, and all that waits in the ring came from the cores
\* that send.
SenderInv ==
  /\ \A c \in Cpus : pc[c] = "reap" => ring_lock = c
  /\ \A id \in Ids : bufs[id] # None =>
       home[bufs[id]] \in Senders /\ tx_owner_cpu \in Senders
  /\ \A i \in 1 .. Len(tx_foreign) : tx_foreign[i].owner_cpu \in Senders

\* What FreedOnItsCore says of one step.
FreedHere ==
  \A id \in Ids : bufs[id] # None /\ bufs'[id] = None => ring_lock = home[bufs[id]]

LEMMA SenderInit == Init => SenderInv
<1> SUFFICES ASSUME Init PROVE SenderInv
  OBVIOUS
<1>1. Len(<<>>) = 0 /\ \A i \in 1 .. 0 : FALSE
  BY SMT
<1>2. \A id \in Ids : bufs[id] = None
  BY DEF Init, RingInit
<1> QED BY <1>1, <1>2 DEF Init, SenderInv

\* A step that leaves the lock and the slots alone.
LEMMA SenderFrame ==
  ASSUME TypeOK, SenderInv, NEW c \in Cpus,
         NEW to, to # "reap", pc' = [pc EXCEPT ![c] = to],
         UNCHANGED <<ring_lock, bufs, tx_owner_cpu, tx_foreign>>,
         \A id \in Ids : bufs[id] # None => home'[bufs[id]] = home[bufs[id]]
  PROVE  SenderInv' /\ FreedHere
<1>1. pc \in [Cpus -> Pcs]
  BY DEF TypeOK
<1>2. \A d \in Cpus : pc'[d] = "reap" => pc[d] = "reap"
  BY <1>1
<1> QED BY <1>2 DEF SenderInv, FreedHere

\* Emptying one slot, on the core its buffer came from.
LEMMA SenderRelease ==
  ASSUME OneSender, TypeOK, NetbufOwnedOnce, SenderInv, NEW c \in Cpus, c \in Senders,
         ring_lock = c, NEW id \in Ids, bufs' = [bufs EXCEPT ![id] = None],
         home' = [nb \in Netbufs |-> IF nb = bufs[id] THEN None ELSE home[nb]]
  PROVE  /\ FreedHere
         /\ \A x \in Ids : bufs'[x] # None => home'[bufs'[x]] \in Senders
         /\ \A x \in Ids : bufs'[x] # None => tx_owner_cpu \in Senders
<1>1. bufs \in [Ids -> Netbufs \cup {None}]
  BY DEF TypeOK, RingTypeOK
<1>2. /\ bufs'[id] = None
      /\ \A x \in Ids : x # id => bufs'[x] = bufs[x]
  BY <1>1
<1>3. FreedHere
  BY <1>2 DEF FreedHere, SenderInv, OneSender
<1>4. ASSUME NEW x \in Ids, bufs'[x] # None
      PROVE  home'[bufs'[x]] \in Senders /\ tx_owner_cpu \in Senders
  <2>1. x # id /\ bufs'[x] = bufs[x] /\ bufs[x] # None /\ bufs[x] \in Netbufs
    BY <1>1, <1>2, <1>4
  <2>2. bufs[x] # bufs[id]
    BY <2>1 DEF NetbufOwnedOnce
  <2> QED BY <2>1, <2>2 DEF SenderInv
<1> QED BY <1>3, <1>4

\* The drain frees what was deferred to its core.
LEMMA DrainSender ==
  ASSUME OneSender, TypeOK, Accounting, SenderInv, NEW c \in Cpus, DrainOne(c)
  PROVE  SenderInv' /\ FreedHere
<1>1. PICK i \in 1 .. Len(tx_foreign) :
        /\ pc[c] = "reap" /\ NextForeign(c, i)
        /\ home' = [nb \in Netbufs |-> IF nb = bufs[tx_foreign[i].req_id]
                                       THEN None ELSE home[nb]]
        /\ ReqIdFree(tx_foreign[i].req_id)
        /\ tx_foreign' = DropForeign(i)
        /\ UNCHANGED <<ring_lock, tx_owner_cpu, pc>>
  BY DEF DrainOne
<1>2. PICK id \in Ids : id = tx_foreign[i].req_id
  BY DropForeignType DEF TypeOK, ForeignEntry
<1>3. c \in Senders /\ ring_lock = c
  BY <1>1 DEF NextForeign, SenderInv
<1>4. /\ bufs' = [bufs EXCEPT ![id] = None]
      /\ home' = [nb \in Netbufs |-> IF nb = bufs[id] THEN None ELSE home[nb]]
  BY <1>1, <1>2 DEF ReqIdFree
<1>5. /\ FreedHere
      /\ \A x \in Ids : bufs'[x] # None => home'[bufs'[x]] \in Senders
      /\ \A x \in Ids : bufs'[x] # None => tx_owner_cpu \in Senders
  BY <1>3, <1>4, SenderRelease DEF Accounting
<1>6. \A k \in 1 .. Len(tx_foreign') : tx_foreign'[k].owner_cpu \in Senders
  <2> DEFINE n == Len(tx_foreign)
  <2>0. tx_foreign \in Seq(ForeignEntry)
    BY DEF TypeOK, ForeignEntry
  <2>1. /\ n \in Nat /\ n \in 1 .. n /\ Len(tx_foreign') = n - 1
        /\ \A k \in 1 .. n - 1 : k \in 1 .. n
    <3>1. Len(tx_foreign') = n - 1
      BY <1>1, <2>0, DropForeignType
    <3> QED BY <2>0, <3>1, SMT
  <2>2. \A k \in 1 .. n - 1 :
          tx_foreign'[k] = IF k = i THEN tx_foreign[n] ELSE tx_foreign[k]
    BY <1>1 DEF DropForeign
  <2> HIDE DEF n
  <2>3. \A k \in 1 .. n : tx_foreign[k].owner_cpu \in Senders
    BY DEF SenderInv, n
  <2> QED BY <2>1, <2>2, <2>3
<1> QED BY <1>1, <1>5, <1>6 DEF SenderInv

\* A completion is freed by the sender, or deferred to it: the array never
\* runs full, so nothing is dropped.
LEMMA ReapSender ==
  ASSUME OneSender, TypeOK, Accounting, SenderInv, NEW c \in Cpus, ReapOne(c)
  PROVE  SenderInv' /\ FreedHere
<1>1. PICK id \in Ids : id = Cdesc.req_id
  BY DEF ReapOne, Reaping
<1>2. pc[c] = "reap" /\ req_in_flight[id] /\ UNCHANGED <<pc, ring_lock, tx_owner_cpu>>
  BY <1>1 DEF ReapOne, Reaping
<1>3. bufs[id] # None /\ Len(tx_foreign) < Depth /\ ring_lock = c
  BY <1>2, ForeignRoom DEF Accounting, RequestAccounting, SenderInv
<1>4. CASE Stages(c, id)
  <2>1. /\ tx_foreign' = Append(tx_foreign, [req_id |-> id, owner_cpu |-> tx_owner_cpu])
        /\ UNCHANGED <<bufs, home>>
    BY <1>1, <1>4 DEF ReapOne, StageForeign
  <2>2. tx_owner_cpu \in Senders
    BY <1>3 DEF SenderInv
  <2>3. tx_foreign \in Seq(ForeignEntry)
    BY DEF TypeOK, ForeignEntry
  <2>4. \A k \in 1 .. Len(tx_foreign') :
          \/ k \in 1 .. Len(tx_foreign) /\ tx_foreign'[k] = tx_foreign[k]
          \/ tx_foreign'[k] = [req_id |-> id, owner_cpu |-> tx_owner_cpu]
    BY <2>1, <2>3, SMT
  <2>5. \A k \in 1 .. Len(tx_foreign') : tx_foreign'[k].owner_cpu \in Senders
    BY <2>2, <2>4, SMT DEF SenderInv
  <2> QED BY <1>2, <2>1, <2>5 DEF SenderInv, FreedHere
<1>5. CASE ~ Stages(c, id)
  <2>1. c = tx_owner_cpu
    <3>1. ~ (Len(tx_foreign) < Depth /\ c # tx_owner_cpu)
      BY <1>3, <1>5 DEF Stages
    <3> QED BY <1>3, <3>1
  <2>2. ~ StageDrops(c, id)
    BY <2>1 DEF StageDrops
  <2>3. /\ bufs' = [bufs EXCEPT ![id] = None]
        /\ home' = [nb \in Netbufs |-> IF nb = bufs[id] THEN None ELSE home[nb]]
        /\ UNCHANGED tx_foreign
    BY <1>1, <1>5, <2>2 DEF ReapOne, ReqIdFree
  <2>4. c \in Senders
    BY <1>3, <2>1 DEF SenderInv
  <2>5. /\ FreedHere
        /\ \A x \in Ids : bufs'[x] # None => home'[bufs'[x]] \in Senders
        /\ \A x \in Ids : bufs'[x] # None => tx_owner_cpu \in Senders
    BY <1>3, <2>3, <2>4, SenderRelease DEF Accounting
  <2> QED BY <1>2, <2>3, <2>5 DEF SenderInv
<1> QED BY <1>4, <1>5

\* The submit puts a buffer of its own core into a slot.
LEMMA SubmitSender ==
  ASSUME TypeOK, Accounting, Roles, SenderInv, NEW c \in Cpus, Submit(c)
  PROVE  SenderInv' /\ FreedHere
<1>1. PICK id \in Ids :
        /\ pc[c] = "submit" /\ pc' = [pc EXCEPT ![c] = "doorbell"]
        /\ bufs' = [bufs EXCEPT ![id] = pkt[c]]
        /\ tx_owner_cpu' = c
        /\ UNCHANGED <<ring_lock, tx_foreign, home>>
  BY DEF Submit, Goto
<1>2. /\ pc \in [Cpus -> Pcs] /\ bufs \in [Ids -> Netbufs \cup {None}]
      /\ c \in Senders /\ pkt[c] # None /\ home[pkt[c]] = c
  BY <1>1 DEF TypeOK, RingTypeOK, Roles, Sending, Accounting, PktInv, NetbufOwnedOnce
<1>3. /\ bufs'[id] = pkt[c]
      /\ \A x \in Ids : x # id => bufs'[x] = bufs[x]
      /\ \A d \in Cpus : pc'[d] = "reap" => pc[d] = "reap"
  BY <1>1, <1>2
<1>4. FreedHere
  BY <1>2, <1>3 DEF FreedHere
<1>5. \A x \in Ids : bufs'[x] # None => home'[bufs'[x]] \in Senders
  BY <1>1, <1>2, <1>3 DEF SenderInv
<1> QED BY <1>1, <1>2, <1>3, <1>4, <1>5 DEF SenderInv

LEMMA SenderStep ==
  ASSUME Resetters = {}, OneSender, TypeOK, Accounting, Roles, SenderInv, [Next]_vars
  PROVE  SenderInv' /\ FreedHere
<1> DEFINE Good == SenderInv' /\ FreedHere
<1> USE DEF Goto, ringVars, poolVars, txVars
<1>1. ASSUME UNCHANGED <<pc, ring_lock, bufs, tx_owner_cpu, tx_foreign, home>>
      PROVE  Good
  BY <1>1 DEF SenderInv, FreedHere
<1>0. bufs \in [Ids -> Netbufs \cup {None}] /\ NetbufOwnedOnce
  BY DEF TypeOK, RingTypeOK, Accounting
<1>2. CASE UNCHANGED vars
  BY <1>1, <1>2 DEF vars
<1>3. ASSUME NEW c \in Cpus, CoreStep(c) PROVE Good
  <2> HIDE DEF Good
  <2>0. Good <=> SenderInv' /\ FreedHere
    BY DEF Good
  <2>1. CASE PollSkip(c)
    BY <2>0, <2>1, SenderFrame DEF PollSkip, AfterPoll
  <2>2. CASE PollEnter(c)
    BY <2>0, <2>2, SenderFrame DEF PollEnter
  <2>3. CASE PollLock(c)
    <3>1. /\ pc' = [pc EXCEPT ![c] = "reap"] /\ ring_lock = None /\ ring_lock' = c
          /\ UNCHANGED <<bufs, tx_owner_cpu, tx_foreign, home>>
      BY <2>3 DEF PollLock, Lock
    <3>2. pc \in [Cpus -> Pcs] /\ \A d \in Cpus : pc[d] # "reap"
      BY <3>1, NoneAssumption DEF TypeOK, SenderInv
    <3>3. \A d \in Cpus : pc'[d] = "reap" => ring_lock' = d
      BY <3>1, <3>2
    <3> QED BY <2>0, <3>1, <3>3 DEF SenderInv, FreedHere
  <2>4. CASE DrainOne(c)
    BY <2>0, <2>4, DrainSender
  <2>5. CASE ReapStale(c)
    BY <1>1, <2>5 DEF ReapStale
  <2>6. CASE ReapOne(c)
    BY <2>0, <2>6, ReapSender
  <2>7. CASE PollUnlock(c)
    <3>1. /\ pc' = [pc EXCEPT ![c] = AfterPoll(c)] /\ ring_lock = c
          /\ UNCHANGED <<bufs, tx_owner_cpu, tx_foreign, home>>
      BY <2>7 DEF PollUnlock, Unlock
    <3>2. pc \in [Cpus -> Pcs] /\ AfterPoll(c) # "reap"
      BY DEF TypeOK, AfterPoll
    <3>3. \A d \in Cpus : pc'[d] # "reap"
      BY <3>1, <3>2 DEF SenderInv
    <3> QED BY <2>0, <3>1, <3>3 DEF SenderInv, FreedHere
  <2>8. CASE SendRefused(c) \/ SubmitBusy(c)
    <3>1. SendFails(c)
      BY <2>8 DEF SendRefused, SubmitBusy
    <3>2. /\ pc' = [pc EXCEPT ![c] = "idle"] /\ home' = [home EXCEPT ![pkt[c]] = None]
          /\ UNCHANGED <<ring_lock, bufs, tx_owner_cpu, tx_foreign>>
      BY <3>1 DEF SendFails
    <3>3. \A id \in Ids : bufs[id] # None => bufs[id] \in Netbufs /\ bufs[id] # pkt[c]
      BY <1>0 DEF NetbufOwnedOnce
    <3>4. \A id \in Ids : bufs[id] # None => home'[bufs[id]] = home[bufs[id]]
      BY <3>2, <3>3 DEF TypeOK
    <3> QED BY <2>0, <3>2, <3>4, SenderFrame
  <2>9. CASE SendDirect(c)
    BY <2>0, <2>9, SenderFrame DEF SendDirect
  <2>10. CASE SendBounced(c)
    BY <2>0, <2>10, SenderFrame DEF SendBounced
  <2>11. CASE Submit(c)
    BY <2>0, <2>11, SubmitSender
  <2>12. CASE Doorbell(c)
    BY <2>0, <2>12, SenderFrame DEF Doorbell
  <2>13. CASE DoorbellWrite(c)
    BY <2>0, <2>13, SenderFrame DEF DoorbellWrite
  <2>14. CASE MapSlot(c)
    BY <2>0, <2>14, SenderFrame DEF MapSlot
  <2>15. CASE \/ RecoverMark(c) \/ InvalidateLock(c) \/ Invalidate(c)
              \/ ResetDevice(c) \/ CreateHw(c) \/ RecoverFails(c)
    <3>1. pc[c] \in Recovering
      BY <2>15 DEF RecoverMark, InvalidateLock, Invalidate, ResetDevice, CreateHw,
                   RecoverFails, Recovering
    <3> QED BY <3>1 DEF Roles
  <2> QED
    BY <1>3, <2>1, <2>2, <2>3, <2>4, <2>5, <2>6, <2>7, <2>8, <2>9, <2>10, <2>11,
       <2>12, <2>13, <2>14, <2>15 DEF CoreStep
<1>4. ASSUME NEW c \in Cpus, CallPoll(c) PROVE Good
  BY <1>4, SenderFrame DEF CallPoll
<1>5. ASSUME NEW c \in Cpus, NEW nb \in Netbufs, TxOne(c, nb) PROVE Good
  <2>1. /\ pc' = [pc EXCEPT ![c] = "poll"] /\ home' = [home EXCEPT ![nb] = c]
        /\ home[nb] = None
        /\ UNCHANGED <<ring_lock, bufs, tx_owner_cpu, tx_foreign>>
    BY <1>5 DEF TxOne
  <2>2. \A id \in Ids : bufs[id] # None => bufs[id] \in Netbufs /\ bufs[id] # nb
    BY <1>0, <2>1, ZenonT(30) DEF NetbufOwnedOnce
  <2>3. \A id \in Ids : bufs[id] # None => home'[bufs[id]] = home[bufs[id]]
    BY <2>1, <2>2 DEF TypeOK
  <2> QED BY <2>1, <2>3, SenderFrame
<1>6. CASE Fetch \/ Complete \/ Spurious
  BY <1>1, <1>6 DEF Fetch, Complete, Spurious, restOfDriver
<1>7. ASSUME NEW c \in Cpus, RecoverBegin(c) PROVE FALSE
  BY <1>7 DEF RecoverBegin
<1> QED BY <1>2, <1>3, <1>4, <1>5, <1>6, <1>7 DEF Next

\* Whichever core reaps a completion, the buffer is freed by the core whose
\* heap it came from, under the ring lock: the others defer it, the deferred
\* array never runs full and the owner drains it (ena_tx_poll_completions,
\* ena_tx_stage_foreign_free, ena_tx_drain_foreign_frees).  It takes one
\* sending core, because the ring remembers only the core of the last submit,
\* and no recovery, which frees what the slots hold on its own core.
THEOREM BuffersFreedAtHome ==
  Resetters = {} /\ OneSender => (Spec => FreedOnItsCore)
<1> SUFFICES ASSUME Resetters = {}, OneSender PROVE Spec => FreedOnItsCore
  OBVIOUS
<1>1. TypeOK /\ Accounting /\ Roles /\ SenderInv /\ [Next]_vars
        => Roles' /\ SenderInv' /\ [FreedHere]_vars
  BY RolesStep, SenderStep
<1>2. Spec => [][FreedHere]_vars
  BY <1>1, AccountingInvariant, RolesInit, SenderInit, PTL DEF Spec
<1> QED BY <1>2 DEF FreedOnItsCore, FreedHere
=============================================================================
