----------------------------- MODULE EnaRxProofs -----------------------------
(***************************************************************************)
(* Proofs about the receive path, for every number of cores, netbufs and   *)
(* bounce slots, every depth, frames of any length, and any number of      *)
(* resets and of completions nobody asked for.                             *)
(***************************************************************************)
EXTENDS EnaRx, EnaRingProofs

\* Zenon proves a step, unless the step names another prover.
USE Zenon

USE NoneAssumption

-----------------------------------------------------------------------------
(* The inductive invariant *)

RefillPcs  == {"recount", "refill", "check", "submit", "map", "doorbell", "dbWrite"}
PollPcs    == {"poll", "pollLock", "reap", "polled", "chain"}
RecoverPcs == {"recover", "invalidate", "devReset", "createHw", "recovered"}
RxPcs      == {"idle"} \cup RefillPcs \cup PollPcs \cup RecoverPcs
Infos      == [frame : Nat, first : BOOLEAN, last : BOOLEAN,
               kind : {"ok", "long", "bad"}]

\* The types of what holds netbufs and of what decides where they go.
HeldTypeOK ==
  /\ PoolTypeOK
  /\ cq_head \in Indices /\ dev_cq_tail \in Indices
  /\ cq_info \in [Ids -> Infos] /\ frames \in Nat
  /\ pc \in [Cpus -> RxPcs]
  /\ back \in [Cpus -> {"idle", "poll", "chain", "recovered"}]
  /\ fresh \in [Cpus -> Netbufs \cup {None}]
  /\ home \in [Netbufs -> Cpus \cup {None}]
  /\ got \in [nb : Netbufs \cup {None}, id : Ids,
              target : BounceSlots \cup {None}, info : Infos]
  /\ chain \in Seq([nb : Netbufs, info : Infos])
  /\ dma \in [Cpus -> BounceSlots \cup {None}]
  /\ target \in [Ids -> BounceSlots \cup {None}]
  /\ bounce_free \subseteq BounceSlots /\ pending_slot \in BounceSlots \cup {None}
  /\ bounce_map \in [Ids -> BounceSlots \cup {None}]
  /\ req_id \in [Cpus -> Ids \cup {None}]

\* Only the owner polls; a core holds a netbuf between the allocation of the
\* refill and its submit; a packet is between the poll and the frame.
Between(c) == pc[c] = "chain" \/ (pc[c] \in RefillPcs /\ back[c] = "chain")
Control ==
  /\ \A c \in Cpus :
       /\ pc[c] \in PollPcs => c = Owner
       /\ pc[c] \in RefillPcs /\ back[c] # "recovered" => c = Owner
       /\ fresh[c] # None <=> pc[c] \in {"check", "submit"}
       /\ pc[c] = "map" => req_id[c] \in Ids
  /\ got.nb # None => pc[Owner] = "polled" \/ Between(Owner)
  /\ Between(Owner) => got.nb # None

\* The netbufs in the tracking slots, in refills, and in the poll.
SlotBufs   == {bufs[id] : id \in Ids} \ {None}
RefillBufs == {fresh[c] : c \in Cpus} \ {None}
PollBuf    == {got.nb} \ {None}

Allocated  == {nb \in Netbufs : home[nb] # None}

\* Each place holds a netbuf once; the five places are disjoint, and what they
\* hold is what is allocated.
SlotsDistinct   == \A i, j \in Ids : bufs[i] # None /\ bufs[i] = bufs[j] => i = j
RefillsDistinct == \A c, d \in Cpus : fresh[c] # None /\ fresh[c] = fresh[d] => c = d
ChainDistinct   == \A i, j \in 1 .. Len(chain) : chain[i].nb = chain[j].nb => i = j
Places ==
  /\ SlotBufs \cap (RefillBufs \cup NetbufsOf(chain) \cup PollBuf \cup stack) = {}
  /\ RefillBufs \cap (NetbufsOf(chain) \cup PollBuf \cup stack) = {}
  /\ NetbufsOf(chain) \cap (PollBuf \cup stack) = {}
  /\ PollBuf \cap stack = {}
  /\ Allocated =
       SlotBufs \cup RefillBufs \cup NetbufsOf(chain) \cup PollBuf \cup stack
Held == SlotsDistinct /\ RefillsDistinct /\ ChainDistinct /\ Places

\* A free id tracks no netbuf.
FreeIdsEmpty == \A id \in Ids : ~ req_allocated[id] => bufs[id] = None

HeldInv == Control /\ Held /\ PoolPartition /\ FreeIdsEmpty

-----------------------------------------------------------------------------
(* Type correctness *)

\* A first value of what the refill, the poll and the device hand on.
LEMMA Defaults ==
  /\ NoInfo \in Infos
  /\ NoPkt \in [nb : Netbufs \cup {None}, id : Ids,
               target : BounceSlots \cup {None}, info : Infos]
  /\ 0 \in Ids
  BY DepthAssumption, SMT DEF NoInfo, NoPkt, Infos, Ids

\* Every step keeps the types.
LEMMA TypeStep == HeldTypeOK /\ Control /\ [Next]_vars => HeldTypeOK'
<1> SUFFICES ASSUME HeldTypeOK, Control, [Next]_vars PROVE HeldTypeOK'
  OBVIOUS
<1> USE DEF HeldTypeOK, PoolTypeOK, Goto, ringVars, poolVars, cqVars, devVars, bounceVars,
            stackVars, refillVars, pollVars, feedVars, rxVars
<1>1. ASSUME UNCHANGED vars PROVE HeldTypeOK'
  BY <1>1 DEF vars
<1>2. ASSUME NEW c \in Cpus, CoreStep(c) PROVE HeldTypeOK'
  <2>1. CASE Recount(c)
    BY <2>1 DEF Recount, RxPcs, RefillPcs, PollPcs, RecoverPcs
  <2>2. CASE RefillAlloc(c)
    BY <2>2, SMT DEF RefillAlloc, RxPcs, RefillPcs, PollPcs, RecoverPcs
  <2>3. CASE RefillStop(c)
    BY <2>3 DEF RefillStop, RxPcs, RefillPcs, PollPcs, RecoverPcs
  <2>4. CASE SubmitCheck(c)
    BY <2>4 DEF SubmitCheck, RxPcs, RefillPcs, PollPcs, RecoverPcs
  <2>5. CASE SubmitRefused(c)
    BY <2>5 DEF SubmitRefused, SubmitFails, Free, GiveBack, SlotSet, RxPcs, RefillPcs,
       PollPcs, RecoverPcs
  <2>6. CASE SubmitBusy(c)
    BY <2>6 DEF SubmitBusy, SubmitFails, Free, GiveBack, SlotSet, RxPcs, RefillPcs,
       PollPcs, RecoverPcs
  <2>7. CASE SubmitOne(c)
    BY <2>7, SMT DEF SubmitOne, ReqIdAlloc, RxPcs, RefillPcs, PollPcs, RecoverPcs
  <2>8. CASE Posted(c)
    BY <2>8 DEF Posted, MapSlot, RxPcs, RefillPcs, PollPcs, RecoverPcs
  <2>9. CASE Doorbell(c)
    BY <2>9 DEF Doorbell, RxPcs, RefillPcs, PollPcs, RecoverPcs
  <2>10. CASE DoorbellWrite(c)
    BY <2>10 DEF DoorbellWrite, RxPcs, RefillPcs, PollPcs, RecoverPcs
  <2>11. CASE PollSkip(c)
    BY <2>11 DEF PollSkip, CallRefill, RxPcs, RefillPcs, PollPcs, RecoverPcs
  <2>12. CASE PollEnter(c)
    BY <2>12 DEF PollEnter, RxPcs, RefillPcs, PollPcs, RecoverPcs
  <2>13. CASE PollLock(c)
    BY <2>13 DEF PollLock, RxPcs, RefillPcs, PollPcs, RecoverPcs
  <2>14. CASE ReapStale(c)
    BY <2>14, IndexType DEF ReapStale, CqAdvance, RxPcs, RefillPcs, PollPcs, RecoverPcs
  <2>15. CASE ReapLong(c)
    <3> DEFINE id == Cdesc.req_id
    <3>1. /\ id \in Ids /\ ReqIdFree(id) /\ CqAdvance
          /\ GiveBack(bounce_map[id])
          /\ bounce_map' = [bounce_map EXCEPT ![id] = None]
          /\ Free({bufs[id]})
          /\ UNCHANGED <<devVars, pending_slot, stackVars, pc, refillVars, got,
                         target, feedVars>>
      BY <2>15 DEF ReapLong, Reaping
    <3> HIDE DEF id
    <3>2. PoolTypeOK'
      BY <3>1, ReqIdFreeType DEF HeldTypeOK
    <3>3. cq_head' \in Indices
      BY <3>1, IndexType DEF CqAdvance
    <3>4. /\ bounce_free' \subseteq BounceSlots
          /\ bounce_map' \in [Ids -> BounceSlots \cup {None}]
          /\ home' \in [Netbufs -> Cpus \cup {None}]
      BY <3>1 DEF GiveBack, SlotSet, Free
    <3> QED BY <3>1, <3>2, <3>3, <3>4
  <2>16. CASE ReapOne(c)
    <3> DEFINE id == Cdesc.req_id
    <3>1. /\ id \in Ids /\ ReqIdFree(id) /\ CqAdvance
          /\ pc' = [pc EXCEPT ![c] = "polled"]
          /\ got' = [nb |-> bufs[id], id |-> id, target |-> target[id],
                     info |-> Info]
          /\ UNCHANGED <<devVars, bounceVars, stackVars, home, refillVars,
                         target, feedVars>>
      BY <2>16 DEF ReapOne, Reaping
    <3> HIDE DEF id
    <3>2. PoolTypeOK'
      BY <3>1, ReqIdFreeType DEF HeldTypeOK
    <3>3. cq_head' \in Indices /\ Info \in Infos
      BY <3>1, IndexType DEF CqAdvance, Info
    <3>4. /\ got' \in [nb : Netbufs \cup {None}, id : Ids,
                       target : BounceSlots \cup {None}, info : Infos]
          /\ pc' \in [Cpus -> RxPcs]
      BY <3>1, <3>3 DEF RxPcs, PollPcs
    <3> QED BY <3>1, <3>2, <3>3, <3>4
  <2>17. CASE ReapNone(c)
    BY <2>17 DEF ReapNone, RxPcs, RefillPcs, PollPcs, RecoverPcs
  <2>18. CASE NothingReceived(c)
    BY <2>18, Defaults, SMT DEF NothingReceived, CallRefill, KeptAfter, Free, RxPcs,
       RefillPcs,
       PollPcs, RecoverPcs
  <2>19. CASE DropPacket(c)
    BY <2>19, Defaults, SMT DEF DropPacket, CallRefill, UnmapSlot, GiveBack, SlotSet, Free,
       RxPcs, RefillPcs, PollPcs, RecoverPcs
  <2>20. CASE TakePacket(c)
    BY <2>20, Defaults, SMT DEF TakePacket, CallRefill, UnmapSlot, GiveBack, SlotSet, Free,
       KeptAfter, RxPcs, RefillPcs, PollPcs, RecoverPcs
  <2>21. CASE ChainFragment(c)
    <3>1. got.nb \in Netbufs
      BY <2>21 DEF ChainFragment, Control, Between, PollPcs
    <3>2. chain' \in Seq([nb : Netbufs, info : Infos])
      BY <2>21, <3>1, SMT DEF ChainFragment, Fragment
    <3> QED BY <2>21, <3>2, Defaults DEF ChainFragment, RxPcs, RefillPcs, PollPcs,
               RecoverPcs
  <2>22. CASE Deliver(c)
    BY <2>22, Defaults, SMT DEF Deliver, RxPcs, RefillPcs, PollPcs, RecoverPcs
  <2>23. CASE RecoverMark(c)
    BY <2>23 DEF RecoverMark, RxPcs, RefillPcs, PollPcs, RecoverPcs
  <2>24. CASE Invalidate(c)
    BY <2>24, AllIdsType, IndexType DEF Invalidate, ResetSwState, FreshMarks, ReleaseSlots,
       Free, RxPcs, RefillPcs, PollPcs, RecoverPcs
  <2>25. CASE ResetDevice(c)
    BY <2>25 DEF ResetDevice, DevReset, RxPcs, RefillPcs, PollPcs, RecoverPcs
  <2>26. CASE CreateHw(c)
    BY <2>26, IndexType DEF CreateHw, CallRefill, DevCreate, RxPcs, RefillPcs, PollPcs,
       RecoverPcs
  <2>27. CASE CreateSkipped(c)
    BY <2>27 DEF CreateSkipped, RxPcs, RefillPcs, PollPcs, RecoverPcs
  <2>28. CASE Recovered(c)
    BY <2>28 DEF Recovered, RxPcs, RefillPcs, PollPcs, RecoverPcs
  <2> QED
    BY <1>2, <2>1, <2>2, <2>3, <2>4, <2>5, <2>6, <2>7, <2>8, <2>9, <2>10, <2>11, <2>12,
       <2>13, <2>14, <2>15, <2>16, <2>17, <2>18, <2>19, <2>20, <2>21, <2>22, <2>23, <2>24,
       <2>25, <2>26, <2>27, <2>28, ZenonT(30) DEF CoreStep
<1>3. ASSUME NEW c \in Cpus, RxOne(c) PROVE HeldTypeOK'
  BY <1>3 DEF RxOne, CallRefill, RxPcs, RefillPcs, PollPcs, RecoverPcs
<1>4. ASSUME NEW c \in Cpus, RecoverBegin(c) PROVE HeldTypeOK'
  BY <1>4 DEF RecoverBegin, RxPcs, RefillPcs, PollPcs, RecoverPcs
<1>5. ASSUME StackFrees PROVE HeldTypeOK'
  BY <1>5, SMT DEF StackFrees, Free
<1>6. ASSUME Fetch PROVE HeldTypeOK'
  BY <1>6 DEF Fetch, DevFetch, restOfDriver
<1>7. ASSUME Spurious PROVE HeldTypeOK'
  BY <1>7, IndexType, Defaults, SMT DEF Spurious, DevPost, PutInfo, restOfDriver
<1>8. ASSUME NEW kind \in {"ok", "long", "bad"}, Receive(kind) PROVE HeldTypeOK'
  BY <1>8, IndexType, SMT DEF Receive, DevComplete, DevPost, PutInfo, restOfDriver, Infos
<1>9. CASE Next
  <2> HIDE DEF HeldTypeOK
  <2> QED BY <1>9, <1>2, <1>3, <1>4, <1>5, <1>6, <1>7, <1>8 DEF Next
<1> QED BY <1>1, <1>9

-----------------------------------------------------------------------------
(* Control *)

\* Every step keeps the owner the only poller, and a netbuf in hand exactly
\* where the refill and the poll have one.
LEMMA ControlStep == HeldTypeOK /\ Control /\ [Next]_vars => Control'
<1> SUFFICES ASSUME HeldTypeOK, Control, [Next]_vars PROVE Control'
  OBVIOUS
<1> USE RxAssumption
<1>0. /\ pc \in [Cpus -> RxPcs] /\ fresh \in [Cpus -> Netbufs \cup {None}]
      /\ back \in [Cpus -> {"idle", "poll", "chain", "recovered"}]
      /\ req_id \in [Cpus -> Ids \cup {None}]
  BY DEF HeldTypeOK
<1> USE DEF Control, Between, Goto, refillVars, pollVars, rxVars, PollPcs, RefillPcs
<1>1. ASSUME UNCHANGED vars PROVE Control'
  BY <1>1, ZenonT(30) DEF vars
<1>2. ASSUME NEW c \in Cpus, CoreStep(c) PROVE Control'
  <2>1. CASE Recount(c)
    BY <1>0, <2>1 DEF Recount
  <2>2. CASE RefillAlloc(c)
    BY <1>0, <2>2, SMT DEF RefillAlloc
  <2>3. CASE RefillStop(c)
    BY <1>0, <2>3 DEF RefillStop
  <2>4. CASE SubmitCheck(c)
    BY <1>0, <2>4 DEF SubmitCheck
  <2>5. CASE SubmitRefused(c)
    BY <1>0, <2>5 DEF SubmitRefused, SubmitFails
  <2>6. CASE SubmitBusy(c)
    BY <1>0, <2>6 DEF SubmitBusy, SubmitFails
  <2>7. CASE SubmitOne(c)
    BY <1>0, <2>7, SMT DEF SubmitOne
  <2>8. CASE Posted(c)
    BY <1>0, <2>8 DEF Posted
  <2>9. CASE Doorbell(c)
    BY <1>0, <2>9 DEF Doorbell
  <2>10. CASE DoorbellWrite(c)
    BY <1>0, <2>10, SMT DEF DoorbellWrite
  <2>11. CASE PollSkip(c)
    BY <1>0, <2>11 DEF PollSkip, CallRefill
  <2>12. CASE PollEnter(c)
    BY <1>0, <2>12 DEF PollEnter
  <2>13. CASE PollLock(c)
    BY <1>0, <2>13 DEF PollLock
  <2>14. CASE ReapStale(c)
    BY <1>0, <2>14 DEF ReapStale
  <2>15. CASE ReapLong(c)
    BY <1>0, <2>15 DEF ReapLong
  <2>16. CASE ReapOne(c)
    BY <1>0, <2>16, ZenonT(30) DEF ReapOne, TooLong, Reaping
  <2>17. CASE ReapNone(c)
    BY <1>0, <2>17 DEF ReapNone
  <2>18. CASE NothingReceived(c)
    BY <1>0, <2>18 DEF NothingReceived, CallRefill, NoPkt
  <2>19. CASE DropPacket(c)
    BY <1>0, <2>19 DEF DropPacket, CallRefill, NoPkt
  <2>20. CASE TakePacket(c)
    BY <1>0, <2>20 DEF TakePacket, CallRefill
  <2>21. CASE ChainFragment(c)
    BY <1>0, <2>21 DEF ChainFragment, NoPkt
  <2>22. CASE Deliver(c)
    BY <1>0, <2>22 DEF Deliver, NoPkt
  <2>23. CASE RecoverMark(c)
    BY <1>0, <2>23 DEF RecoverMark
  <2>24. CASE Invalidate(c)
    BY <1>0, <2>24 DEF Invalidate
  <2>25. CASE ResetDevice(c)
    BY <1>0, <2>25 DEF ResetDevice
  <2>26. CASE CreateHw(c)
    BY <1>0, <2>26 DEF CreateHw, CallRefill
  <2>27. CASE CreateSkipped(c)
    BY <1>0, <2>27 DEF CreateSkipped
  <2>28. CASE Recovered(c)
    BY <1>0, <2>28 DEF Recovered
  <2> QED
    BY <1>2, <2>1, <2>2, <2>3, <2>4, <2>5, <2>6, <2>7, <2>8, <2>9, <2>10, <2>11, <2>12,
       <2>13, <2>14, <2>15, <2>16, <2>17, <2>18, <2>19, <2>20, <2>21, <2>22, <2>23, <2>24,
       <2>25, <2>26, <2>27, <2>28, Zenon DEF CoreStep
<1>3. ASSUME NEW c \in Cpus, RxOne(c) \/ RecoverBegin(c) PROVE Control'
  BY <1>0, <1>3, SMT DEF RxOne, CallRefill, RecoverBegin
<1>4. ASSUME StackFrees \/ Fetch \/ Spurious PROVE Control'
  BY <1>4, ZenonT(30) DEF StackFrees, Fetch, Spurious, restOfDriver
<1>5. ASSUME NEW kind \in {"ok", "long", "bad"}, Receive(kind) PROVE Control'
  BY <1>5 DEF Receive, restOfDriver
<1>6. CASE Next
  <2> HIDE DEF Control
  <2> QED BY <1>6, <1>2, <1>3, <1>4, <1>5 DEF Next
<1> QED BY <1>1, <1>6

-----------------------------------------------------------------------------
(* The places that hold netbufs *)

\* A request gets a netbuf.
LEMMA SlotTaken ==
  ASSUME HeldTypeOK, SlotsDistinct, NEW id \in Ids, bufs[id] = None,
         NEW nb \in Netbufs \ SlotBufs, bufs' = [bufs EXCEPT ![id] = nb]
  PROVE  SlotBufs' = SlotBufs \cup {nb} /\ SlotsDistinct'
<1>1. /\ bufs \in [Ids -> Netbufs \cup {None}]
      /\ \A x \in Ids : bufs'[x] = IF x = id THEN nb ELSE bufs[x]
  BY DEF HeldTypeOK, PoolTypeOK
<1>2. \A x \in Ids : bufs[x] # nb
  BY DEF SlotBufs
<1> QED BY <1>1, <1>2, SMT DEF SlotBufs, SlotsDistinct

\* A request gives its netbuf up, or had none.
LEMMA SlotCleared ==
  ASSUME HeldTypeOK, SlotsDistinct, NEW id \in Ids,
         bufs' = [bufs EXCEPT ![id] = None]
  PROVE  SlotBufs' = SlotBufs \ {bufs[id]} /\ SlotsDistinct'
<1>1. /\ bufs \in [Ids -> Netbufs \cup {None}]
      /\ \A x \in Ids : bufs'[x] = IF x = id THEN None ELSE bufs[x]
  BY DEF HeldTypeOK, PoolTypeOK
<1>2. \A x \in Ids : bufs[x] # None /\ bufs[x] = bufs[id] => x = id
  BY DEF SlotsDistinct
<1> QED BY <1>1, <1>2, SMT DEF SlotBufs, SlotsDistinct

\* A refill allocates a netbuf.
LEMMA RefillTaken ==
  ASSUME HeldTypeOK, RefillsDistinct, NEW c \in Cpus, fresh[c] = None,
         NEW nb \in Netbufs \ RefillBufs, fresh' = [fresh EXCEPT ![c] = nb]
  PROVE  RefillBufs' = RefillBufs \cup {nb} /\ RefillsDistinct'
<1>1. /\ fresh \in [Cpus -> Netbufs \cup {None}]
      /\ \A d \in Cpus : fresh'[d] = IF d = c THEN nb ELSE fresh[d]
  BY DEF HeldTypeOK
<1>2. \A d \in Cpus : fresh[d] # nb
  BY DEF RefillBufs
<1> QED BY <1>1, <1>2, SMT DEF RefillBufs, RefillsDistinct

\* A refill hands its netbuf on.
LEMMA RefillCleared ==
  ASSUME HeldTypeOK, RefillsDistinct, NEW c \in Cpus,
         fresh' = [fresh EXCEPT ![c] = None]
  PROVE  RefillBufs' = RefillBufs \ {fresh[c]} /\ RefillsDistinct'
<1>1. /\ fresh \in [Cpus -> Netbufs \cup {None}]
      /\ \A d \in Cpus : fresh'[d] = IF d = c THEN None ELSE fresh[d]
  BY DEF HeldTypeOK
<1>2. \A d \in Cpus : fresh[d] # None /\ fresh[d] = fresh[c] => d = c
  BY DEF RefillsDistinct
<1> QED BY <1>1, <1>2, SMT DEF RefillBufs, RefillsDistinct

\* The netbufs of a frame with one more fragment.
LEMMA ChainGrows ==
  ASSUME HeldTypeOK, NEW f \in [nb : Netbufs, info : Infos]
  PROVE  /\ NetbufsOf(Append(chain, f)) = NetbufsOf(chain) \cup {f.nb}
         /\ ChainDistinct /\ f.nb \notin NetbufsOf(chain) /\ chain' = Append(chain, f)
              => ChainDistinct'
<1> DEFINE g == Append(chain, f)
           n == Len(chain)
<1>1. /\ chain \in Seq([nb : Netbufs, info : Infos]) /\ n \in Nat
  BY SMT DEF HeldTypeOK
<1>2. /\ Len(g) = n + 1 /\ g[n + 1] = f
      /\ \A i \in 1 .. n : g[i] = chain[i]
      /\ \A i \in 1 .. n + 1 : i \in 1 .. n \/ i = n + 1
      /\ n + 1 \in 1 .. n + 1 /\ \A i \in 1 .. n : i \in 1 .. n + 1
  BY <1>1, SMT
<1> HIDE DEF g, n
<1>3. NetbufsOf(g) = NetbufsOf(chain) \cup {f.nb}
  BY <1>2 DEF NetbufsOf, n
<1>4. ASSUME ChainDistinct, f.nb \notin NetbufsOf(chain), chain' = g
      PROVE  ChainDistinct'
  <2>1. \A i \in 1 .. n : chain[i].nb # f.nb
    BY <1>4 DEF NetbufsOf, n
  <2>2. \A i, j \in 1 .. n : chain[i].nb = chain[j].nb => i = j
    BY <1>4 DEF ChainDistinct, n
  <2>3. \A i, j \in 1 .. n + 1 : g[i].nb = g[j].nb => i = j
    BY <1>2, <2>1, <2>2
  <2> QED BY <1>2, <1>4, <2>3 DEF ChainDistinct
<1> QED BY <1>3, <1>4 DEF g

\* An empty frame.
LEMMA NoChain ==
  /\ NetbufsOf(<<>>) = {}
  /\ chain' = <<>> => ChainDistinct'
<1>1. Len(<<>>) = 0 /\ 1 .. 0 = {}
  BY SMT
<1> QED BY <1>1 DEF NetbufsOf, ChainDistinct

\* The heap after a free, and after an allocation.
LEMMA HeapStep ==
  ASSUME HeldTypeOK
  PROVE  /\ \A S : Free(S) => Allocated' = Allocated \ S
         /\ \A nb \in Netbufs, c \in Cpus :
              home' = [home EXCEPT ![nb] = c] => Allocated' = Allocated \cup {nb}
         /\ home' = home => Allocated' = Allocated
         /\ SlotBufs \subseteq Netbufs /\ RefillBufs \subseteq Netbufs
         /\ PollBuf \subseteq Netbufs
  BY SMT DEF HeldTypeOK, PoolTypeOK, Free, Allocated, SlotBufs, RefillBufs, PollBuf

\* A step that leaves the places alone.
LEMMA PlacesFrame ==
  /\ bufs' = bufs => SlotBufs' = SlotBufs /\ (SlotsDistinct => SlotsDistinct')
  /\ fresh' = fresh => RefillBufs' = RefillBufs /\ (RefillsDistinct => RefillsDistinct')
  /\ chain' = chain => NetbufsOf(chain)' = NetbufsOf(chain)
                       /\ (ChainDistinct => ChainDistinct')
  /\ got' = got => PollBuf' = PollBuf
  BY DEF SlotBufs, SlotsDistinct, RefillBufs, RefillsDistinct, NetbufsOf,
     ChainDistinct,
         PollBuf

\* Requests are created and released with their netbuf.
Requests == PoolPartition /\ FreeIdsEmpty

\* ena_netbuf_alloc_helper: a free netbuf goes to the refill.
LEMMA RefillAllocStep ==
  ASSUME HeldTypeOK, HeldInv, NEW c \in Cpus, RefillAlloc(c)
  PROVE  Held' /\ Requests'
<1>1. PICK nb \in Netbufs :
        /\ home[nb] = None /\ pc[c] = "refill"
        /\ home' = [home EXCEPT ![nb] = c]
        /\ fresh' = [fresh EXCEPT ![c] = nb]
        /\ UNCHANGED <<free_req_ids, req_allocated, bufs, chain, stack, got>>
  BY DEF RefillAlloc, Goto, ringVars, poolVars, stackVars, pollVars
<1>2. fresh[c] = None /\ nb \notin Allocated
  BY <1>1 DEF HeldInv, Control, Allocated
<1>3. RefillBufs' = RefillBufs \cup {nb} /\ RefillsDistinct'
  BY <1>1, <1>2, RefillTaken DEF HeldInv, Held, Places
<1>4. Allocated' = Allocated \cup {nb}
  BY <1>1, HeapStep
<1>5. Places'
  BY <1>1, <1>2, <1>3, <1>4, PlacesFrame, SMT DEF HeldInv, Held, Places
<1>6. Requests'
  BY <1>1, PoolFrame DEF HeldInv, Requests, FreeIdsEmpty
<1> QED BY <1>1, <1>3, <1>5, <1>6, PlacesFrame, ZenonT(30) DEF HeldInv, Held

\* A failed submit frees the netbuf of the refill.
LEMMA SubmitFailsStep ==
  ASSUME HeldTypeOK, HeldInv, NEW c \in Cpus, SubmitFails(c)
  PROVE  Held' /\ Requests'
<1>1. /\ Free({fresh[c]})
      /\ fresh' = [fresh EXCEPT ![c] = None]
      /\ UNCHANGED <<free_req_ids, req_allocated, bufs, chain, stack, got>>
  BY DEF SubmitFails, ringVars, poolVars, stackVars, pollVars
<1>2. RefillBufs' = RefillBufs \ {fresh[c]} /\ RefillsDistinct'
  BY <1>1, RefillCleared DEF HeldInv, Held
<1>3. Allocated' = Allocated \ {fresh[c]}
  BY <1>1, HeapStep
<1>4. fresh[c] = None \/ fresh[c] \in RefillBufs
  BY DEF RefillBufs
<1>5. None \notin Allocated
  BY DEF Allocated
<1>6. Places'
  BY <1>1, <1>2, <1>3, <1>4, <1>5, PlacesFrame DEF HeldInv, Held, Places
<1>7. Requests'
  BY <1>1, PoolFrame DEF HeldInv, Requests, FreeIdsEmpty
<1> QED BY <1>1, <1>2, <1>6, <1>7, PlacesFrame DEF HeldInv, Held

\* ena_rx_submit_one moves the netbuf of the refill to a new request.
LEMMA SubmitOneStep ==
  ASSUME HeldTypeOK, HeldInv, NEW c \in Cpus, SubmitOne(c)
  PROVE  Held' /\ Requests'
<1>1. PICK id \in Ids :
        /\ pc[c] = "submit"
        /\ ReqIdAlloc(id)
        /\ bufs' = [bufs EXCEPT ![id] = fresh[c]]
        /\ fresh' = [fresh EXCEPT ![c] = None]
        /\ UNCHANGED <<chain, stack, got, home>>
  BY ZenonT(30) DEF SubmitOne, Goto, stackVars, pollVars
<1>2. /\ PoolPartition' /\ ~ req_allocated[id]
      /\ req_allocated' = [req_allocated EXCEPT ![id] = TRUE]
  BY <1>1, PoolAllocStep DEF HeldTypeOK, HeldInv
<1>3. bufs[id] = None
  BY <1>2 DEF HeldInv, FreeIdsEmpty
<1>4. /\ fresh[c] \in Netbufs /\ fresh[c] \in RefillBufs
      /\ fresh[c] \notin SlotBufs
  BY <1>1, SMT DEF HeldInv, Control, HeldTypeOK, RefillBufs, Held, Places
<1>5. SlotBufs' = SlotBufs \cup {fresh[c]} /\ SlotsDistinct'
  BY <1>1, <1>3, <1>4, SlotTaken DEF HeldInv, Held
<1>6. RefillBufs' = RefillBufs \ {fresh[c]} /\ RefillsDistinct'
  BY <1>1, RefillCleared DEF HeldInv, Held
<1>7. Places'
  <2>1. /\ Allocated' = Allocated /\ NetbufsOf(chain)' = NetbufsOf(chain)
        /\ PollBuf' = PollBuf /\ stack' = stack
    BY <1>1, HeapStep, PlacesFrame
  <2> QED BY <1>4, <1>5, <1>6, <2>1, SMT DEF HeldInv, Held, Places
<1>8. FreeIdsEmpty'
  BY <1>1, <1>2 DEF HeldTypeOK, PoolTypeOK, HeldInv, FreeIdsEmpty
<1> QED BY <1>1, <1>2, <1>5, <1>6, <1>7, <1>8, PlacesFrame DEF HeldInv, Held, Requests

\* An id that is given back, or that was never checked out, tracks nothing.
LEMMA ReleaseStep ==
  ASSUME HeldTypeOK, HeldInv, NEW id \in Ids, ReqIdFree(id)
  PROVE  /\ Requests'
         /\ SlotBufs' = SlotBufs \ {bufs[id]} /\ SlotsDistinct'
<1>1. bufs' = [bufs EXCEPT ![id] = None]
  BY DEF ReqIdFree
<1>2. SlotBufs' = SlotBufs \ {bufs[id]} /\ SlotsDistinct'
  BY <1>1, SlotCleared DEF HeldInv, Held
<1>3. CASE req_allocated[id]
  <2>1. PoolPartition' /\ req_allocated' = [req_allocated EXCEPT ![id] = FALSE]
    BY <1>3, PoolFreeStep DEF HeldTypeOK, HeldInv
  <2>2. FreeIdsEmpty'
    BY <1>1, <2>1 DEF HeldTypeOK, PoolTypeOK, HeldInv, FreeIdsEmpty
  <2> QED BY <1>2, <2>1, <2>2 DEF Requests
<1>4. CASE ~ req_allocated[id]
  <2>1. UNCHANGED <<free_req_ids, req_allocated>>
    BY <1>4 DEF ReqIdFree, Releasable
  <2>2. FreeIdsEmpty'
    BY <1>1, <2>1 DEF HeldTypeOK, PoolTypeOK, HeldInv, FreeIdsEmpty
  <2> QED BY <1>2, <2>1, <2>2, PoolFrame DEF HeldInv, Requests
<1> QED BY <1>3, <1>4

\* A completion that is too long frees its netbuf with its request.
LEMMA ReapLongStep ==
  ASSUME HeldTypeOK, HeldInv, NEW c \in Cpus, ReapLong(c)
  PROVE  Held' /\ Requests'
<1> DEFINE id == Cdesc.req_id
<1>1. /\ id \in Ids /\ ReqIdFree(id) /\ Free({bufs[id]})
      /\ UNCHANGED <<fresh, chain, stack, got>>
  BY DEF ReapLong, Reaping, stackVars, refillVars
<1> HIDE DEF id
<1>2. /\ Requests' /\ SlotBufs' = SlotBufs \ {bufs[id]} /\ SlotsDistinct'
  BY <1>1, ReleaseStep
<1>3. Allocated' = Allocated \ {bufs[id]}
  BY <1>1, HeapStep
<1>4. (bufs[id] = None \/ bufs[id] \in SlotBufs) /\ None \notin Allocated
  BY <1>1 DEF SlotBufs, Allocated
<1>5. Places'
  BY <1>1, <1>2, <1>3, <1>4, PlacesFrame, ZenonT(30) DEF HeldInv, Held, Places
<1> QED BY <1>1, <1>2, <1>5, PlacesFrame DEF HeldInv, Held

\* An accepted completion moves its netbuf from the slot to the poll.
LEMMA ReapOneStep ==
  ASSUME HeldTypeOK, HeldInv, NEW c \in Cpus, ReapOne(c)
  PROVE  Held' /\ Requests'
<1> DEFINE id == Cdesc.req_id
<1>1. /\ id \in Ids /\ ReqIdFree(id) /\ bufs[id] # None /\ pc[c] = "reap"
      /\ got' = [nb |-> bufs[id], id |-> id, target |-> target[id],
                 info |-> Info]
      /\ UNCHANGED <<fresh, chain, stack, home>>
  BY ZenonT(30) DEF ReapOne, Reaping, TooLong, Goto, stackVars, refillVars
<1> HIDE DEF id
<1>2. /\ Requests' /\ SlotBufs' = SlotBufs \ {bufs[id]} /\ SlotsDistinct'
  BY <1>1, ReleaseStep
<1>3. PollBuf = {} /\ PollBuf' = {bufs[id]} /\ bufs[id] \in SlotBufs
  <2>1. c = Owner /\ got.nb = None
    BY <1>1, ZenonT(30) DEF HeldInv, Control, Between, PollPcs, RefillPcs
  <2> QED BY <1>1, <2>1 DEF PollBuf, SlotBufs
<1>4. Places'
  <2>1. /\ Allocated' = Allocated /\ NetbufsOf(chain)' = NetbufsOf(chain)
        /\ RefillBufs' = RefillBufs /\ stack' = stack
    BY <1>1, HeapStep, PlacesFrame
  <2> QED BY <1>2, <1>3, <2>1, SMT DEF HeldInv, Held, Places
<1> QED BY <1>1, <1>2, <1>4, PlacesFrame DEF HeldInv, Held

\* What the drop of a partial frame leaves, whether there is one or not.
LEMMA DroppedChain ==
  ASSUME Held, chain' = KeptAfter(chain)
  PROVE  /\ NetbufsOf(chain)' = NetbufsOf(chain) \ DroppedFrags
         /\ DroppedFrags \subseteq NetbufsOf(chain)
         /\ ChainDistinct'
<1>1. CASE dropped
  <2>1. NetbufsOf(chain)' = {}
    BY <1>1, NoChain DEF KeptAfter, NetbufsOf
  <2> QED BY <1>1, <2>1, NoChain DEF KeptAfter, DroppedFrags
<1>2. CASE ~ dropped
  BY <1>2, PlacesFrame DEF KeptAfter, DroppedFrags, Held
<1> QED BY <1>1, <1>2

\* rx_one without a packet may drop the partial frame.
LEMMA NothingReceivedStep ==
  ASSUME HeldTypeOK, HeldInv, NEW c \in Cpus, NothingReceived(c)
  PROVE  Held' /\ Requests'
<1>1. /\ got.nb = None /\ got' = NoPkt
      /\ chain' = KeptAfter(chain) /\ Free(DroppedFrags)
      /\ UNCHANGED <<free_req_ids, req_allocated, bufs, fresh, stack>>
  BY DEF NothingReceived, CallRefill, ringVars, poolVars
<1>2. /\ NetbufsOf(chain)' = NetbufsOf(chain) \ DroppedFrags
      /\ DroppedFrags \subseteq NetbufsOf(chain) /\ ChainDistinct'
  BY <1>1, DroppedChain DEF HeldInv
<1>3. Allocated' = Allocated \ DroppedFrags
  BY <1>1, HeapStep
<1>4. PollBuf = {} /\ PollBuf' = {}
  BY <1>1 DEF PollBuf, NoPkt
<1>5. Places'
  BY <1>1, <1>2, <1>3, <1>4, PlacesFrame DEF HeldInv, Held, Places
<1>6. Requests'
  BY <1>1, PoolFrame DEF HeldInv, Requests, FreeIdsEmpty
<1> QED BY <1>1, <1>2, <1>5, <1>6, PlacesFrame DEF HeldInv, Held

\* A packet that fails the checks is freed with its frame.
LEMMA DropPacketStep ==
  ASSUME HeldTypeOK, HeldInv, NEW c \in Cpus, DropPacket(c)
  PROVE  Held' /\ Requests'
<1>1. /\ got.nb # None /\ got' = NoPkt
      /\ chain' = <<>> /\ Free({got.nb} \cup NetbufsOf(chain))
      /\ UNCHANGED <<free_req_ids, req_allocated, bufs, fresh, stack>>
  BY DEF DropPacket, CallRefill, ringVars, poolVars
<1>2. NetbufsOf(chain)' = {} /\ ChainDistinct'
  BY <1>1, NoChain DEF NetbufsOf
<1>3. Allocated' = Allocated \ ({got.nb} \cup NetbufsOf(chain))
  BY <1>1, HeapStep
<1>4. PollBuf = {got.nb} /\ PollBuf' = {}
  BY <1>1 DEF PollBuf, NoPkt
<1>5. Places'
  BY <1>1, <1>2, <1>3, <1>4, PlacesFrame, ZenonT(30) DEF HeldInv, Held, Places
<1>6. Requests'
  BY <1>1, PoolFrame DEF HeldInv, Requests, FreeIdsEmpty
<1> QED BY <1>1, <1>2, <1>5, <1>6, PlacesFrame DEF HeldInv, Held

\* A packet that is taken ends the partial frame a drop broke.
LEMMA TakePacketStep ==
  ASSUME HeldTypeOK, HeldInv, NEW c \in Cpus, TakePacket(c)
  PROVE  Held' /\ Requests'
<1>1. /\ chain' = KeptAfter(chain) /\ Free(DroppedFrags)
      /\ UNCHANGED <<free_req_ids, req_allocated, bufs, fresh, stack, got>>
  BY DEF TakePacket, CallRefill, ringVars, poolVars
<1>2. /\ NetbufsOf(chain)' = NetbufsOf(chain) \ DroppedFrags
      /\ DroppedFrags \subseteq NetbufsOf(chain) /\ ChainDistinct'
  BY <1>1, DroppedChain DEF HeldInv
<1>3. Allocated' = Allocated \ DroppedFrags
  BY <1>1, HeapStep
<1>4. Places'
  BY <1>1, <1>2, <1>3, PlacesFrame DEF HeldInv, Held, Places
<1>5. Requests'
  BY <1>1, PoolFrame DEF HeldInv, Requests, FreeIdsEmpty
<1> QED BY <1>1, <1>2, <1>4, <1>5, PlacesFrame DEF HeldInv, Held

\* A fragment that is not the last joins the frame.
LEMMA ChainFragmentStep ==
  ASSUME HeldTypeOK, HeldInv, NEW c \in Cpus, ChainFragment(c)
  PROVE  Held' /\ Requests'
<1>1. /\ pc[c] = "chain" /\ got' = NoPkt /\ chain' = Append(chain, Fragment)
      /\ UNCHANGED <<free_req_ids, req_allocated, bufs, fresh, stack, home>>
  BY DEF ChainFragment, Goto, ringVars, poolVars, refillVars
<1>2. got.nb \in Netbufs /\ Fragment \in [nb : Netbufs, info : Infos]
      /\ Fragment.nb = got.nb
  BY <1>1 DEF HeldInv, Control, Between, PollPcs, HeldTypeOK, Fragment
<1>3. PollBuf = {got.nb} /\ PollBuf' = {}
  BY <1>1, <1>2, ZenonT(30) DEF PollBuf, NoPkt
<1>4. /\ NetbufsOf(chain)' = NetbufsOf(chain) \cup {got.nb} /\ ChainDistinct'
  <2>1. got.nb \notin NetbufsOf(chain)
    BY <1>3 DEF HeldInv, Held, Places
  <2>2. NetbufsOf(chain)' = NetbufsOf(Append(chain, Fragment))
    BY <1>1 DEF NetbufsOf
  <2> QED BY <1>1, <1>2, <2>1, <2>2, ChainGrows, ZenonT(30) DEF HeldInv, Held
<1>5. Places'
  BY <1>1, <1>3, <1>4, HeapStep, PlacesFrame DEF HeldInv, Held, Places
<1>6. Requests'
  BY <1>1, PoolFrame DEF HeldInv, Requests, FreeIdsEmpty
<1> QED BY <1>1, <1>4, <1>5, <1>6, PlacesFrame DEF HeldInv, Held

\* rx_one hands the whole frame to the stack.
LEMMA DeliverStep ==
  ASSUME HeldTypeOK, HeldInv, NEW c \in Cpus, Deliver(c)
  PROVE  Held' /\ Requests'
<1>1. /\ pc[c] = "chain" /\ got' = NoPkt /\ chain' = <<>>
      /\ stack' = stack \cup NetbufsOf(Append(chain, Fragment))
      /\ UNCHANGED <<free_req_ids, req_allocated, bufs, fresh, home>>
  BY DEF Deliver, Goto, ringVars, poolVars, refillVars
<1>2. got.nb \in Netbufs /\ Fragment \in [nb : Netbufs, info : Infos]
      /\ Fragment.nb = got.nb
  BY <1>1 DEF HeldInv, Control, Between, PollPcs, HeldTypeOK, Fragment
<1>3. PollBuf = {got.nb} /\ PollBuf' = {}
  BY <1>1, <1>2, ZenonT(30) DEF PollBuf, NoPkt
<1>4. /\ NetbufsOf(chain)' = {} /\ ChainDistinct'
      /\ stack' = stack \cup NetbufsOf(chain) \cup {got.nb}
  BY <1>1, <1>2, ChainGrows, NoChain, SMT DEF NetbufsOf
<1>5. Places'
  BY <1>1, <1>3, <1>4, HeapStep, PlacesFrame DEF HeldInv, Held, Places
<1>6. Requests'
  BY <1>1, PoolFrame DEF HeldInv, Requests, FreeIdsEmpty
<1> QED BY <1>1, <1>4, <1>5, <1>6, PlacesFrame DEF HeldInv, Held

\* The stack frees a netbuf of its own.
LEMMA StackFreesStep ==
  ASSUME HeldTypeOK, HeldInv, StackFrees
  PROVE  Held' /\ Requests'
<1>1. PICK nb \in stack :
        /\ stack' = stack \ {nb} /\ Free({nb})
        /\ UNCHANGED <<free_req_ids, req_allocated, bufs, fresh, chain, got>>
  BY DEF StackFrees, ringVars, poolVars, refillVars, pollVars
<1>2. Allocated' = Allocated \ {nb}
  BY <1>1, HeapStep
<1>3. Places'
  BY <1>1, <1>2, PlacesFrame DEF HeldInv, Held, Places
<1>4. Requests'
  BY <1>1, PoolFrame DEF HeldInv, Requests, FreeIdsEmpty
<1> QED BY <1>1, <1>3, <1>4, PlacesFrame DEF HeldInv, Held

\* The reset frees the netbufs of all requests and makes a fresh pool.
LEMMA InvalidateStep ==
  ASSUME HeldTypeOK, HeldInv, NEW c \in Cpus, Invalidate(c)
  PROVE  Held' /\ Requests'
<1>1. /\ bufs' = [id \in Ids |-> None] /\ free_req_ids' = AllIds
      /\ req_allocated' = [id \in Ids |-> FALSE]
      /\ Free({bufs[id] : id \in Ids})
      /\ UNCHANGED <<fresh, chain, stack, got>>
  BY DEF Invalidate, ResetSwState, FreshMarks, ReleaseSlots, refillVars,
         stackVars, pollVars
<1>2. /\ SlotBufs' = {} /\ SlotsDistinct' /\ FreeIdsEmpty'
  BY <1>1 DEF SlotBufs, SlotsDistinct, FreeIdsEmpty
<1>3. Allocated' = Allocated \ SlotBufs
  <2>1. Allocated' = Allocated \ {bufs[id] : id \in Ids}
    BY <1>1, HeapStep
  <2>2. None \notin Allocated
    BY DEF Allocated
  <2> QED BY <2>1, <2>2 DEF SlotBufs
<1>4. PoolPartition'
  BY <1>1, FreshPool DEF PoolPartition
<1>5. Places'
  BY <1>1, <1>2, <1>3, PlacesFrame DEF HeldInv, Held, Places
<1> QED BY <1>1, <1>2, <1>4, <1>5, PlacesFrame DEF HeldInv, Held, Requests

\* Steps that move no netbuf and no request.
LEMMA HeldFrame ==
  ASSUME HeldTypeOK, HeldInv,
         UNCHANGED <<free_req_ids, req_allocated, bufs, fresh, chain, stack, got, home>>
  PROVE  Held' /\ Requests'
<1>1. Places'
  BY PlacesFrame, HeapStep DEF HeldInv, Held, Places
<1>2. Requests'
  BY PoolFrame DEF HeldInv, Requests, FreeIdsEmpty
<1> QED BY <1>1, <1>2, PlacesFrame DEF HeldInv, Held

-----------------------------------------------------------------------------
(* The theorems about netbufs and requests *)

\* Every step keeps what is held where.
LEMMA HeldStep ==
  ASSUME HeldTypeOK, HeldInv, [Next]_vars
  PROVE  HeldTypeOK' /\ HeldInv'
<1> USE DEF Goto, ringVars, poolVars, stackVars, refillVars, pollVars, rxVars
<1>1. ASSUME UNCHANGED vars PROVE Held' /\ Requests'
  BY <1>1, HeldFrame DEF vars
<1>2. ASSUME NEW c \in Cpus, CoreStep(c) PROVE Held' /\ Requests'
  <2>1. CASE Recount(c)
    BY <2>1, HeldFrame DEF Recount
  <2>2. CASE RefillStop(c)
    BY <2>2, HeldFrame DEF RefillStop
  <2>3. CASE SubmitCheck(c)
    BY <2>3, HeldFrame DEF SubmitCheck
  <2>4. CASE Posted(c)
    BY <2>4, HeldFrame DEF Posted
  <2>5. CASE Doorbell(c)
    BY <2>5, HeldFrame DEF Doorbell
  <2>6. CASE DoorbellWrite(c)
    BY <2>6, HeldFrame DEF DoorbellWrite
  <2>7. CASE PollSkip(c)
    BY <2>7, HeldFrame DEF PollSkip, CallRefill
  <2>8. CASE PollEnter(c)
    BY <2>8, HeldFrame DEF PollEnter
  <2>9. CASE PollLock(c)
    BY <2>9, HeldFrame DEF PollLock
  <2>10. CASE ReapStale(c)
    BY <2>10, HeldFrame DEF ReapStale
  <2>11. CASE ReapNone(c)
    BY <2>11, HeldFrame DEF ReapNone
  <2>12. CASE RecoverMark(c)
    BY <2>12, HeldFrame DEF RecoverMark
  <2>13. CASE ResetDevice(c)
    BY <2>13, HeldFrame DEF ResetDevice
  <2>14. CASE CreateHw(c)
    BY <2>14, HeldFrame DEF CreateHw, CallRefill
  <2>15. CASE CreateSkipped(c)
    BY <2>15, HeldFrame DEF CreateSkipped
  <2>16. CASE Recovered(c)
    BY <2>16, HeldFrame DEF Recovered
  <2>17. CASE RefillAlloc(c)
    BY <2>17, RefillAllocStep
  <2>18. CASE SubmitRefused(c)
    BY <2>18, SubmitFailsStep DEF SubmitRefused
  <2>19. CASE SubmitBusy(c)
    BY <2>19, SubmitFailsStep DEF SubmitBusy
  <2>20. CASE SubmitOne(c)
    BY <2>20, SubmitOneStep
  <2>21. CASE ReapLong(c)
    BY <2>21, ReapLongStep
  <2>22. CASE ReapOne(c)
    BY <2>22, ReapOneStep
  <2>23. CASE NothingReceived(c)
    BY <2>23, NothingReceivedStep
  <2>24. CASE DropPacket(c)
    BY <2>24, DropPacketStep
  <2>25. CASE TakePacket(c)
    BY <2>25, TakePacketStep
  <2>26. CASE ChainFragment(c)
    BY <2>26, ChainFragmentStep
  <2>27. CASE Deliver(c)
    BY <2>27, DeliverStep
  <2>28. CASE Invalidate(c)
    BY <2>28, InvalidateStep
  <2> QED
    BY <1>2, <2>1, <2>2, <2>3, <2>4, <2>5, <2>6, <2>7, <2>8, <2>9, <2>10, <2>11, <2>12,
       <2>13, <2>14, <2>15, <2>16, <2>17, <2>18, <2>19, <2>20, <2>21, <2>22, <2>23, <2>24,
       <2>25, <2>26, <2>27, <2>28, Zenon DEF CoreStep
<1>3. ASSUME NEW c \in Cpus, RxOne(c) \/ RecoverBegin(c) PROVE Held' /\ Requests'
  BY <1>3, HeldFrame DEF RxOne, CallRefill, RecoverBegin
<1>4. ASSUME Fetch \/ Spurious PROVE Held' /\ Requests'
  BY <1>4, HeldFrame DEF Fetch, Spurious, restOfDriver
<1>5. ASSUME NEW kind \in {"ok", "long", "bad"}, Receive(kind)
      PROVE  Held' /\ Requests'
  BY <1>5, HeldFrame DEF Receive, restOfDriver
<1>6. Held' /\ Requests'
  BY <1>1, <1>2, <1>3, <1>4, <1>5, StackFreesStep DEF Next
<1>7. HeldTypeOK' /\ Control'
  BY TypeStep, ControlStep DEF HeldInv
<1> QED BY <1>6, <1>7 DEF HeldInv, Requests

\* A queue whose requests are free and a heap that is empty.
LEMMA HeldInit == Init => HeldTypeOK /\ HeldInv
<1> SUFFICES ASSUME Init PROVE HeldTypeOK /\ HeldInv
  OBVIOUS
<1>1. PoolTypeOK /\ PoolPartition /\ FreeIdsEmpty
  BY AllIdsType, FreshPool DEF Init, RingInit, PoolTypeOK, PoolPartition, FreeIdsEmpty
<1>2. HeldTypeOK
  <2>1. /\ cq_head = 0 /\ dev_cq_tail = 0 /\ frames = 0 /\ chain = <<>> /\ got = NoPkt
        /\ bounce_free = BounceSlots /\ pending_slot = None
    BY DEF Init, RingInit
  <2>2. /\ cq_info \in [Ids -> Infos] /\ pc \in [Cpus -> RxPcs]
        /\ back \in [Cpus -> {"idle", "poll", "chain", "recovered"}]
    BY Defaults DEF Init, RxPcs
  <2>3. /\ fresh \in [Cpus -> Netbufs \cup {None}] /\ home \in [Netbufs -> Cpus \cup {None}]
        /\ req_id \in [Cpus -> Ids \cup {None}] /\ dma \in [Cpus -> BounceSlots \cup {None}]
        /\ target \in [Ids -> BounceSlots \cup {None}]
        /\ bounce_map \in [Ids -> BounceSlots \cup {None}]
    BY DEF Init
  <2>4. 0 \in Nat /\ <<>> \in Seq([nb : Netbufs, info : Infos])
    BY SMT
  <2> QED BY <1>1, <2>1, <2>2, <2>3, <2>4, Defaults, IndexType DEF HeldTypeOK
<1>3. Control
  BY RxAssumption
  DEF Init, Control, Between, NoPkt, PollPcs, RefillPcs
<1>4. SlotsDistinct /\ RefillsDistinct /\ SlotBufs = {} /\ RefillBufs = {}
      /\ PollBuf = {} /\ Allocated = {} /\ stack = {}
  BY ZenonT(30) DEF Init, RingInit, SlotsDistinct, RefillsDistinct, SlotBufs, RefillBufs,
     PollBuf,
         Allocated, NoPkt
<1>5. ChainDistinct /\ NetbufsOf(chain) = {}
  BY NoChain, SMT DEF Init, ChainDistinct
<1> QED BY <1>1, <1>2, <1>3, <1>4, <1>5 DEF HeldInv, Held, Places

\* The netbufs and the requests are accounted for in every state.
LEMMA HeldInvariant == Spec => [](HeldTypeOK /\ HeldInv)
<1>1. HeldTypeOK /\ HeldInv /\ [Next]_vars => (HeldTypeOK /\ HeldInv)'
  BY HeldStep
<1> QED BY HeldInit, <1>1, PTL DEF Spec

\* What the places hold is what the holders of a netbuf are counted from.
LEMMA HeldGivesOnce == HeldTypeOK /\ HeldInv => NetbufHeldOnce
<1> SUFFICES ASSUME HeldTypeOK, HeldInv, NEW nb \in Netbufs
             PROVE  IF home[nb] = None THEN Holders(nb) = {}
                    ELSE \E h \in Holders(nb) : Holders(nb) = {h}
  BY DEF NetbufHeldOnce
<1> DEFINE S == {i \in Ids : bufs[i] = nb}
           R == {d \in Cpus : fresh[d] = nb}
           C == {j \in 1 .. Len(chain) : chain[j].nb = nb}
<1>1. /\ (nb \in SlotBufs <=> S # {}) /\ (nb \in RefillBufs <=> R # {})
      /\ (nb \in NetbufsOf(chain) <=> C # {}) /\ (nb \in PollBuf <=> got.nb = nb)
      /\ (nb \in Allocated <=> home[nb] # None)
  BY DEF SlotBufs, RefillBufs, NetbufsOf, PollBuf, Allocated
<1>2. /\ \A x, y \in S : x = y
      /\ \A x, y \in R : x = y
      /\ \A x, y \in C : x = y
  BY DEF HeldInv, Held, SlotsDistinct, RefillsDistinct, ChainDistinct
<1>3. Holders(nb) =
        {<<"slot", id>> : id \in S} \cup {<<"refill", c>> : c \in R}
          \cup {<<"chain", i>> : i \in C}
          \cup (IF got.nb = nb THEN {<<"poll", 0>>} ELSE {})
          \cup (IF nb \in stack THEN {<<"stack", 0>>} ELSE {})
  BY DEF Holders
<1> HIDE DEF S, R, C
<1>4. CASE home[nb] = None
  <2>1. S = {} /\ R = {} /\ C = {} /\ got.nb # nb /\ nb \notin stack
    BY <1>1, <1>4 DEF HeldInv, Held, Places
  <2> QED BY <1>3, <1>4, <2>1, SMT
<1>5. CASE home[nb] # None
  <2>0. nb \in SlotBufs \/ nb \in RefillBufs \/ nb \in NetbufsOf(chain)
        \/ nb \in PollBuf \/ nb \in stack
    BY <1>1, <1>5 DEF HeldInv, Held, Places
  <2>1. CASE nb \in SlotBufs
    <3>0. PICK x : x \in S
      BY <1>1, <2>1
    <3>1. S = {x}
      BY <1>2, <3>0
    <3>2. R = {} /\ C = {} /\ got.nb # nb /\ nb \notin stack
      BY <1>1, <2>1 DEF HeldInv, Held, Places
    <3>3. Holders(nb) = {<<"slot", x>>}
      BY <1>3, <3>1, <3>2
    <3> QED BY <1>5, <3>3
  <2>2. CASE nb \in RefillBufs
    <3>0. PICK x : x \in R
      BY <1>1, <2>2
    <3>1. R = {x}
      BY <1>2, <3>0
    <3>2. S = {} /\ C = {} /\ got.nb # nb /\ nb \notin stack
      BY <1>1, <2>2 DEF HeldInv, Held, Places
    <3>3. Holders(nb) = {<<"refill", x>>}
      BY <1>3, <3>1, <3>2
    <3> QED BY <1>5, <3>3
  <2>3. CASE nb \in NetbufsOf(chain)
    <3>0. PICK x : x \in C
      BY <1>1, <2>3
    <3>1. C = {x}
      BY <1>2, <3>0
    <3>2. S = {} /\ R = {} /\ got.nb # nb /\ nb \notin stack
      BY <1>1, <2>3 DEF HeldInv, Held, Places
    <3>3. Holders(nb) = {<<"chain", x>>}
      BY <1>3, <3>1, <3>2
    <3> QED BY <1>5, <3>3
  <2>4. CASE nb \in PollBuf
    <3>1. S = {} /\ R = {} /\ C = {} /\ got.nb = nb /\ nb \notin stack
      BY <1>1, <2>4 DEF HeldInv, Held, Places
    <3>2. Holders(nb) = {<<"poll", 0>>}
      BY <1>3, <3>1
    <3> QED BY <1>5, <3>2
  <2>5. CASE nb \in stack
    <3>1. S = {} /\ R = {} /\ C = {} /\ got.nb # nb
      BY <1>1, <2>5 DEF HeldInv, Held, Places
    <3>2. Holders(nb) = {<<"stack", 0>>}
      BY <1>3, <3>1, <2>5
    <3> QED BY <1>5, <3>2
  <2> QED BY <2>0, <2>1, <2>2, <2>3, <2>4, <2>5, ZenonT(30)
<1> QED BY <1>4, <1>5

\* In every state of the receive path a netbuf that is allocated is held in
\* exactly one place and a free one in none: refill, poll, reassembly, drop,
\* delivery and reset neither leak a netbuf nor hand one out twice
\* (ena_rx_refill, ena_rx_poll, ena_netdev_rx_one, ena_netdev_rxq_drop_chain,
\* ena_ring_reset_sw_state).
THEOREM RxNetbufsHeldOnce == Spec => []NetbufHeldOnce
  BY HeldInvariant, HeldGivesOnce, PTL

\* The request-id pool of the receive ring is a partition of the ids: each is
\* free once or checked out, whatever a reset interrupts
\* (ena_ring_req_id_alloc, ena_ring_req_id_free, ena_ring_reset_sw_state).
THEOREM RxPoolCorrect == Spec => []PoolPartition
<1>1. HeldInv => PoolPartition
  BY DEF HeldInv
<1> QED BY HeldInvariant, <1>1, PTL

-----------------------------------------------------------------------------
(* The bounce slots, when no core resets the device: a reset leaves the      *)
(* slots of the requests it forgets mapped, and the next request to get one  *)
(* of these ids overwrites the mapping.                                      *)

Alone ==
  \A c \in Cpus : /\ pc[c] # "idle" => c = Owner
                  /\ pc[c] \notin RecoverPcs /\ back[c] # "recovered"

\* The request a submit has made and the refill has not mapped yet, and the
\* packet whose request is gone and whose slot is still mapped.
Unmapped(id) == pc[Owner] = "map" /\ req_id[Owner] = id
InHand(id)   == pc[Owner] = "polled" /\ got.nb # None /\ got.id = id

\* The slot of the refill, from its allocation to its mapping, is the one the
\* descriptor points to.
PendingSlot ==
  /\ pending_slot # None => pc[Owner] \in {"check", "submit", "map"}
  /\ dma[Owner] # None => pc[Owner] \in {"check", "submit"}
  /\ pc[Owner] \in {"check", "submit"} => dma[Owner] = pending_slot
  /\ pc[Owner] = "map" =>
       /\ target[req_id[Owner]] = pending_slot
       /\ req_allocated[req_id[Owner]] /\ bounce_map[req_id[Owner]] = None

\* A slot is mapped for a posted request, or for the packet in hand, and it is
\* the one the device was given.
MappedSlots ==
  \A id \in Ids :
    /\ bounce_map[id] # None => (req_allocated[id] /\ ~ Unmapped(id)) \/ InHand(id)
    /\ req_allocated[id] /\ ~ Unmapped(id) => bounce_map[id] = target[id]
    /\ InHand(id) => ~ req_allocated[id] /\ bounce_map[id] = got.target

\* The slots in the pool, in the refill and in the map.
MapSlots == {bounce_map[id] : id \in Ids} \ {None}
MapsDistinct ==
  \A i, j \in Ids : bounce_map[i] # None /\ bounce_map[i] = bounce_map[j] => i = j
SlotPlaces ==
  /\ bounce_free \cap (SlotSet(pending_slot) \cup MapSlots) = {}
  /\ SlotSet(pending_slot) \cap MapSlots = {}
  /\ BounceSlots = bounce_free \cup SlotSet(pending_slot) \cup MapSlots

BounceInv == Alone /\ PendingSlot /\ MappedSlots /\ MapsDistinct /\ SlotPlaces

\* Without a reset only the owner of the queue is active, and it never is in
\* the recovery.
LEMMA AloneStep ==
  ASSUME Resetters = {}, HeldTypeOK, Alone, [Next]_vars
  PROVE  Alone'
<1> USE RxAssumption DEF Alone, Goto, refillVars, rxVars, RecoverPcs
<1>0. /\ pc \in [Cpus -> RxPcs]
      /\ back \in [Cpus -> {"idle", "poll", "chain", "recovered"}]
  BY DEF HeldTypeOK
<1>1. ASSUME UNCHANGED vars PROVE Alone'
  BY <1>1 DEF vars
<1>2. ASSUME NEW c \in Cpus, CoreStep(c) PROVE Alone'
  <2>1. CASE Recount(c)
    BY <1>0, <2>1 DEF Recount
  <2>2. CASE RefillAlloc(c)
    BY <1>0, <2>2, SMT DEF RefillAlloc
  <2>3. CASE RefillStop(c)
    BY <1>0, <2>3 DEF RefillStop
  <2>4. CASE SubmitCheck(c)
    BY <1>0, <2>4 DEF SubmitCheck
  <2>5. CASE SubmitRefused(c)
    BY <1>0, <2>5 DEF SubmitRefused, SubmitFails
  <2>6. CASE SubmitBusy(c)
    BY <1>0, <2>6 DEF SubmitBusy, SubmitFails
  <2>7. CASE SubmitOne(c)
    BY <1>0, <2>7, SMT DEF SubmitOne
  <2>8. CASE Posted(c)
    BY <1>0, <2>8 DEF Posted
  <2>9. CASE Doorbell(c)
    BY <1>0, <2>9 DEF Doorbell
  <2>10. CASE DoorbellWrite(c)
    BY <1>0, <2>10 DEF DoorbellWrite
  <2>11. CASE PollSkip(c)
    BY <1>0, <2>11 DEF PollSkip, CallRefill
  <2>12. CASE PollEnter(c)
    BY <1>0, <2>12, ZenonT(30) DEF PollEnter
  <2>13. CASE PollLock(c)
    BY <1>0, <2>13 DEF PollLock
  <2>14. CASE ReapStale(c)
    BY <1>0, <2>14 DEF ReapStale
  <2>15. CASE ReapLong(c)
    BY <1>0, <2>15, ZenonT(30) DEF ReapLong
  <2>16. CASE ReapOne(c)
    BY <1>0, <2>16 DEF ReapOne
  <2>17. CASE ReapNone(c)
    BY <1>0, <2>17 DEF ReapNone
  <2>18. CASE NothingReceived(c)
    BY <1>0, <2>18 DEF NothingReceived, CallRefill
  <2>19. CASE DropPacket(c)
    BY <1>0, <2>19, ZenonT(30) DEF DropPacket, CallRefill
  <2>20. CASE TakePacket(c)
    BY <1>0, <2>20 DEF TakePacket, CallRefill
  <2>21. CASE ChainFragment(c)
    BY <1>0, <2>21 DEF ChainFragment
  <2>22. CASE Deliver(c)
    BY <1>0, <2>22 DEF Deliver
  <2>23. CASE RecoverMark(c)
    BY <1>0, <2>23 DEF RecoverMark
  <2>24. CASE Invalidate(c)
    BY <1>0, <2>24 DEF Invalidate
  <2>25. CASE ResetDevice(c)
    BY <1>0, <2>25 DEF ResetDevice
  <2>26. CASE CreateHw(c)
    BY <1>0, <2>26 DEF CreateHw, CallRefill
  <2>27. CASE CreateSkipped(c)
    BY <1>0, <2>27 DEF CreateSkipped
  <2>28. CASE Recovered(c)
    BY <1>0, <2>28 DEF Recovered
  <2> QED
    BY <1>2, <2>1, <2>2, <2>3, <2>4, <2>5, <2>6, <2>7, <2>8, <2>9, <2>10, <2>11, <2>12,
       <2>13, <2>14, <2>15, <2>16, <2>17, <2>18, <2>19, <2>20, <2>21, <2>22, <2>23, <2>24,
       <2>25, <2>26, <2>27, <2>28, Zenon DEF CoreStep
<1>3. ASSUME NEW c \in Cpus, RxOne(c) \/ RecoverBegin(c) PROVE Alone'
  BY <1>0, <1>3, ZenonT(30) DEF RxOne, CallRefill, RecoverBegin
<1>4. ASSUME StackFrees \/ Fetch \/ Spurious PROVE Alone'
  BY <1>4, ZenonT(30) DEF StackFrees, Fetch, Spurious, restOfDriver
<1>5. ASSUME NEW kind \in {"ok", "long", "bad"}, Receive(kind) PROVE Alone'
  BY <1>5 DEF Receive, restOfDriver
<1>6. CASE Next
  <2> HIDE DEF Alone
  <2> QED BY <1>6, <1>2, <1>3, <1>4, <1>5 DEF Next
<1> QED BY <1>1, <1>6

\* A request gets a slot, or none.
LEMMA MapTaken ==
  ASSUME HeldTypeOK, MapsDistinct, NEW id \in Ids, bounce_map[id] = None,
         NEW s \in BounceSlots \cup {None}, s \notin MapSlots,
         bounce_map' = [bounce_map EXCEPT ![id] = s]
  PROVE  MapSlots' = MapSlots \cup SlotSet(s) /\ MapsDistinct'
<1>1. \A x \in Ids : bounce_map'[x] = IF x = id THEN s ELSE bounce_map[x]
  BY DEF HeldTypeOK
<1>2. \A x \in Ids : bounce_map[x] # None => bounce_map[x] # s
  BY DEF MapSlots
<1> QED BY <1>1, <1>2, SMT DEF MapSlots, MapsDistinct, SlotSet

\* A request gives its slot back.
LEMMA MapCleared ==
  ASSUME HeldTypeOK, MapsDistinct, NEW id \in Ids,
         bounce_map' = [bounce_map EXCEPT ![id] = None]
  PROVE  MapSlots' = MapSlots \ {bounce_map[id]} /\ MapsDistinct'
<1>1. \A x \in Ids : bounce_map'[x] = IF x = id THEN None ELSE bounce_map[x]
  BY DEF HeldTypeOK
<1>2. \A x \in Ids : bounce_map[x] # None /\ bounce_map[x] = bounce_map[id] => x = id
  BY DEF MapsDistinct
<1> QED BY <1>1, <1>2, SMT DEF MapSlots, MapsDistinct

\* A slot that goes from the map to the pool.
LEMMA SlotReturned ==
  ASSUME HeldTypeOK, MapsDistinct, SlotPlaces, NEW id \in Ids,
         GiveBack(bounce_map[id]), bounce_map' = [bounce_map EXCEPT ![id] = None],
         UNCHANGED pending_slot
  PROVE  SlotPlaces' /\ MapsDistinct'
<1>1. MapSlots' = MapSlots \ {bounce_map[id]} /\ MapsDistinct'
  BY MapCleared, ZenonT(30)
<1>2. SlotSet(bounce_map[id]) \subseteq MapSlots
      /\ (bounce_map[id] # None => SlotSet(bounce_map[id]) = {bounce_map[id]})
      /\ None \notin MapSlots
  BY DEF SlotSet, MapSlots
<1>3. bounce_free' = bounce_free \cup SlotSet(bounce_map[id])
      /\ SlotSet(pending_slot)' = SlotSet(pending_slot)
  BY DEF GiveBack, SlotSet
<1> QED BY <1>1, <1>2, <1>3 DEF SlotPlaces, SlotSet

\* Steps that move no slot: the core stays in, or stays out of, the parts of
\* the refill and of the poll that have one in hand.
Quiet ==
  /\ UNCHANGED <<bounce_free, bounce_map, pending_slot, target, req_allocated,
                 dma, req_id>>
  /\ pc'[Owner] = "map" <=> pc[Owner] = "map"
  /\ pc'[Owner] \in {"check", "submit"} <=> pc[Owner] \in {"check", "submit"}
  /\ pc'[Owner] = "polled" /\ got'.nb # None <=> pc[Owner] = "polled" /\ got.nb # None
  /\ pc[Owner] = "polled" /\ got.nb # None => got' = got

\* What the steps below show of the bounce slots.
SlotsKept == PendingSlot /\ MappedSlots /\ MapsDistinct /\ SlotPlaces

\* A quiet step keeps them.
LEMMA BounceFrame ==
  ASSUME BounceInv, Quiet
  PROVE  SlotsKept'
<1>1. PendingSlot'
  BY ZenonT(30) DEF BounceInv, Quiet, PendingSlot
<1>2. MappedSlots'
  BY ZenonT(30) DEF BounceInv, Quiet, MappedSlots, Unmapped, InHand
<1>3. MapsDistinct' /\ SlotPlaces'
  BY DEF BounceInv, Quiet, MapsDistinct, SlotPlaces, MapSlots, SlotSet
<1> QED BY <1>1, <1>2, <1>3 DEF SlotsKept

\* The refill takes a slot out of the pool for a netbuf in low memory.
LEMMA RefillAllocSlots ==
  ASSUME HeldTypeOK, HeldInv, BounceInv, NEW c \in Cpus, RefillAlloc(c)
  PROVE  SlotsKept'
<1>1. /\ pc[c] = "refill" /\ pc' = [pc EXCEPT ![c] = "check"]
      /\ UNCHANGED <<bounce_map, target, req_allocated, req_id, got>>
  BY DEF RefillAlloc, Goto, ringVars, poolVars, pollVars
<1>2. c = Owner
  BY <1>1, ZenonT(30) DEF BounceInv, Alone
<1>3. /\ pc'[Owner] = "check" /\ pc[Owner] = "refill"
      /\ pending_slot = None /\ dma[Owner] = None
  BY <1>1, <1>2, ZenonT(30) DEF HeldTypeOK, BounceInv, PendingSlot
<1>4. MappedSlots' /\ MapsDistinct' /\ MapSlots' = MapSlots
  BY <1>1, <1>3 DEF BounceInv, MappedSlots, MapsDistinct, MapSlots, Unmapped, InHand
<1>5. \/ UNCHANGED <<bounce_free, pending_slot, dma>>
      \/ \E s \in bounce_free : /\ bounce_free' = bounce_free \ {s}
                                /\ pending_slot' = s
                                /\ dma' = [dma EXCEPT ![c] = s]
  BY DEF RefillAlloc
<1>6. CASE UNCHANGED <<bounce_free, pending_slot, dma>>
  <2>1. PendingSlot'
    BY <1>3, <1>6 DEF PendingSlot
  <2>2. SlotPlaces'
    BY <1>4, <1>6 DEF BounceInv, SlotPlaces, SlotSet
  <2> QED BY <1>4, <2>1, <2>2 DEF SlotsKept
<1>7. ASSUME NEW s \in bounce_free, bounce_free' = bounce_free \ {s},
             pending_slot' = s, dma' = [dma EXCEPT ![c] = s]
      PROVE  SlotsKept'
  <2>1. s # None
    BY RxAssumption DEF HeldTypeOK
  <2>2. PendingSlot'
    BY <1>2, <1>3, <1>7, ZenonT(30) DEF HeldTypeOK, PendingSlot
  <2>3. SlotSet(pending_slot) = {} /\ SlotSet(pending_slot)' = {s}
    BY <1>3, <1>7, <2>1 DEF SlotSet
  <2>4. SlotPlaces'
    BY <1>4, <1>7, <2>3 DEF BounceInv, SlotPlaces
  <2> QED BY <1>4, <2>2, <2>4 DEF SlotsKept
<1> QED BY <1>5, <1>6, <1>7

\* A failed submit gives the slot of the refill back.
LEMMA SubmitFailsSlots ==
  ASSUME HeldTypeOK, HeldInv, BounceInv, NEW c \in Cpus,
         pc[c] \in {"check", "submit"}, SubmitFails(c)
  PROVE  SlotsKept'
<1>1. /\ pc' = [pc EXCEPT ![c] = "doorbell"]
      /\ dma' = [dma EXCEPT ![c] = None]
      /\ GiveBack(pending_slot) /\ pending_slot' = None
      /\ UNCHANGED <<bounce_map, target, req_allocated, req_id, got>>
  BY DEF SubmitFails, ringVars, poolVars, pollVars
<1>2. c = Owner
  BY ZenonT(30) DEF BounceInv, Alone
<1>3. pc'[Owner] = "doorbell" /\ dma'[Owner] = None
  BY <1>1, <1>2, ZenonT(30) DEF HeldTypeOK
<1>4. MappedSlots' /\ MapsDistinct' /\ MapSlots' = MapSlots
  BY <1>1, <1>2, <1>3, ZenonT(30)
  DEF BounceInv, MappedSlots, MapsDistinct, MapSlots, Unmapped, InHand
<1>5. PendingSlot'
  BY <1>1, <1>3, ZenonT(30) DEF PendingSlot
<1>6. SlotPlaces'
  BY <1>1, <1>4 DEF BounceInv, SlotPlaces, SlotSet, GiveBack
<1> QED BY <1>4, <1>5, <1>6 DEF SlotsKept

\* The submit makes the request; its slot is not mapped yet.
LEMMA SubmitOneSlots ==
  ASSUME HeldTypeOK, HeldInv, BounceInv, NEW c \in Cpus, SubmitOne(c)
  PROVE  SlotsKept'
<1>1. PICK id \in Ids :
        /\ pc[c] = "submit" /\ pc' = [pc EXCEPT ![c] = "map"]
        /\ ReqIdAlloc(id)
        /\ target' = [target EXCEPT ![id] = dma[c]]
        /\ req_id' = [req_id EXCEPT ![c] = id]
        /\ dma' = [dma EXCEPT ![c] = None]
        /\ UNCHANGED <<bounce_free, bounce_map, pending_slot, got>>
  BY ZenonT(30) DEF SubmitOne, Goto, bounceVars, pollVars
<1>2. c = Owner
  BY <1>1, ZenonT(30) DEF BounceInv, Alone
<1>3. /\ ~ req_allocated[id]
      /\ req_allocated' = [req_allocated EXCEPT ![id] = TRUE]
  BY <1>1, PoolAllocStep, ZenonT(30) DEF HeldTypeOK, HeldInv
<1>4. /\ pc[Owner] = "submit" /\ pc'[Owner] = "map" /\ dma'[Owner] = None
      /\ req_id'[Owner] = id /\ target'[id] = pending_slot /\ req_allocated'[id]
      /\ \A x \in Ids \ {id} : /\ target'[x] = target[x]
                              /\ req_allocated'[x] = req_allocated[x]
  BY <1>1, <1>2, <1>3, ZenonT(30) DEF HeldTypeOK, PoolTypeOK, BounceInv, PendingSlot
<1>5. bounce_map[id] = None
  BY <1>3, <1>4, ZenonT(30) DEF BounceInv, MappedSlots, InHand
<1>6. PendingSlot'
  BY <1>1, <1>4, <1>5, ZenonT(30) DEF PendingSlot
<1>7. MappedSlots'
  BY <1>1, <1>4, <1>5, ZenonT(30) DEF BounceInv, MappedSlots, Unmapped, InHand
<1>8. MapsDistinct' /\ SlotPlaces'
  BY <1>1 DEF BounceInv, MapsDistinct, SlotPlaces, MapSlots, SlotSet
<1> QED BY <1>6, <1>7, <1>8 DEF SlotsKept

\* After the submit the pending slot is tied to the request.
LEMMA PostedSlots ==
  ASSUME HeldTypeOK, HeldInv, BounceInv, NEW c \in Cpus, Posted(c)
  PROVE  SlotsKept'
<1> DEFINE id == req_id[Owner]
<1>1. /\ pc[c] = "map" /\ pc' = [pc EXCEPT ![c] = "refill"]
      /\ bounce_map' = [bounce_map EXCEPT ![req_id[c]] = pending_slot]
      /\ pending_slot' = None
      /\ UNCHANGED <<bounce_free, target, req_allocated, dma, got>>
  BY DEF Posted, Goto, MapSlot, ringVars, poolVars, pollVars
<1>2. c = Owner
  BY <1>1, ZenonT(30) DEF BounceInv, Alone
<1>3. /\ pc[Owner] = "map" /\ pc'[Owner] = "refill" /\ id \in Ids
      /\ target[id] = pending_slot /\ req_allocated[id] /\ bounce_map[id] = None
      /\ dma[Owner] = None /\ pending_slot \in BounceSlots \cup {None}
  BY <1>1, <1>2, ZenonT(30) DEF HeldTypeOK, HeldInv, Control, BounceInv, PendingSlot
<1> HIDE DEF id
<1>4. \A x \in Ids : bounce_map'[x] = IF x = id THEN pending_slot ELSE bounce_map[x]
  BY <1>1, <1>2, <1>3, ZenonT(30) DEF HeldTypeOK, id
<1>5. PendingSlot'
  BY <1>1, <1>3, ZenonT(30) DEF PendingSlot
<1>6. MappedSlots'
  <2>1. \A x \in Ids : (Unmapped(x) <=> x = id) /\ ~ Unmapped(x)' /\ ~ InHand(x)
                       /\ ~ InHand(x)'
    BY <1>3, ZenonT(30) DEF Unmapped, InHand, id
  <2> QED BY <1>1, <1>3, <1>4, <2>1, ZenonT(30) DEF BounceInv, MappedSlots
<1>7. pending_slot \notin MapSlots
  BY ZenonT(30) DEF BounceInv, SlotPlaces, SlotSet, MapSlots
<1>8. MapSlots' = MapSlots \cup SlotSet(pending_slot) /\ MapsDistinct'
  BY <1>1, <1>2, <1>3, <1>7, MapTaken, ZenonT(30) DEF BounceInv, id
<1>9. SlotPlaces'
  BY <1>1, <1>8 DEF BounceInv, SlotPlaces, SlotSet
<1> QED BY <1>5, <1>6, <1>8, <1>9 DEF SlotsKept

\* The id of a long completion goes with its slot.
LEMMA ReapLongSlots ==
  ASSUME HeldTypeOK, HeldInv, BounceInv, NEW c \in Cpus, ReapLong(c)
  PROVE  SlotsKept'
<1> DEFINE id == Cdesc.req_id
<1>1. /\ id \in Ids /\ pc[c] = "reap" /\ ReqIdFree(id)
      /\ GiveBack(bounce_map[id])
      /\ bounce_map' = [bounce_map EXCEPT ![id] = None]
      /\ UNCHANGED <<pending_slot, pc, dma, req_id, got, target>>
  BY ZenonT(30) DEF ReapLong, Reaping, refillVars
<1> HIDE DEF id
<1>2. pc[Owner] = "reap"
  BY <1>1, ZenonT(30) DEF BounceInv, Alone
<1>3. /\ ~ req_allocated'[id]
      /\ \A x \in Ids \ {id} : req_allocated'[x] = req_allocated[x]
  <2>1. CASE req_allocated[id]
    <3>1. req_allocated' = [req_allocated EXCEPT ![id] = FALSE]
      BY <1>1, <2>1, PoolFreeStep DEF HeldTypeOK, HeldInv
    <3> QED BY <1>1, <3>1 DEF HeldTypeOK, PoolTypeOK
  <2>2. CASE ~ req_allocated[id]
    BY <1>1, <2>2 DEF ReqIdFree, Releasable
  <2> QED BY <2>1, <2>2
<1>4. /\ bounce_map'[id] = None
      /\ \A x \in Ids \ {id} : bounce_map'[x] = bounce_map[x]
  BY <1>1 DEF HeldTypeOK
<1>5. PendingSlot'
  BY <1>1, <1>2, ZenonT(30) DEF BounceInv, PendingSlot
<1>6. MappedSlots'
  BY <1>1, <1>2, <1>3, <1>4 DEF BounceInv, MappedSlots, Unmapped, InHand
<1>7. MapsDistinct' /\ SlotPlaces'
  BY <1>1, SlotReturned, ZenonT(30) DEF BounceInv
<1> QED BY <1>5, <1>6, <1>7 DEF SlotsKept

\* The id of an accepted completion goes back; its slot stays mapped for the
\* packet in hand.
LEMMA ReapOneSlots ==
  ASSUME HeldTypeOK, HeldInv, BounceInv, NEW c \in Cpus, ReapOne(c)
  PROVE  SlotsKept'
<1> DEFINE id == Cdesc.req_id
<1>1. /\ id \in Ids /\ pc[c] = "reap" /\ pc' = [pc EXCEPT ![c] = "polled"]
      /\ bufs[id] # None /\ ReqIdFree(id)
      /\ got' = [nb |-> bufs[id], id |-> id, target |-> target[id], info |-> Info]
      /\ UNCHANGED <<bounce_free, bounce_map, pending_slot, dma, req_id, target>>
  BY DEF ReapOne, Reaping, TooLong, Goto, bounceVars, refillVars
<1> HIDE DEF id
<1>2. c = Owner
  BY <1>1, ZenonT(30) DEF BounceInv, Alone
<1>3. /\ pc[Owner] = "reap" /\ pc'[Owner] = "polled"
      /\ got'.nb # None /\ got'.id = id /\ got'.target = target[id]
  BY <1>1, <1>2, ZenonT(30) DEF HeldTypeOK
<1>4. req_allocated[id]
  BY <1>1, ZenonT(30) DEF HeldInv, FreeIdsEmpty
<1>5. /\ ~ req_allocated'[id]
      /\ \A x \in Ids \ {id} : req_allocated'[x] = req_allocated[x]
  <2>1. req_allocated' = [req_allocated EXCEPT ![id] = FALSE]
    BY <1>1, <1>4, PoolFreeStep, ZenonT(30) DEF HeldTypeOK, HeldInv
  <2> QED BY <1>1, <2>1, ZenonT(30) DEF HeldTypeOK, PoolTypeOK
<1>6. PendingSlot'
  BY <1>1, <1>3, ZenonT(30) DEF BounceInv, PendingSlot
<1>7. MappedSlots'
  BY <1>1, <1>3, <1>4, <1>5, ZenonT(30) DEF BounceInv, MappedSlots, Unmapped, InHand
<1>8. MapsDistinct' /\ SlotPlaces'
  <2>1. UNCHANGED <<bounce_free, bounce_map, pending_slot>>
    BY <1>1
  <2>2. MapsDistinct /\ SlotPlaces
    BY DEF BounceInv
  <2>3. MapSlots' = MapSlots /\ SlotSet(pending_slot)' = SlotSet(pending_slot)
    BY <2>1 DEF MapSlots, SlotSet
  <2> QED BY <2>1, <2>2, <2>3 DEF MapsDistinct, SlotPlaces
<1> QED BY <1>6, <1>7, <1>8 DEF SlotsKept

\* rx_one gives the slot of the packet in hand back.
LEMMA UnmapSlots ==
  ASSUME HeldTypeOK, HeldInv, BounceInv, NEW c \in Cpus,
         DropPacket(c) \/ TakePacket(c)
  PROVE  SlotsKept'
<1> DEFINE id == got.id
<1>1. /\ pc[c] = "polled" /\ got.nb # None
      /\ pc' = [pc EXCEPT ![c] = IF ToRefill = 0 THEN "recount" ELSE "refill"]
      /\ GiveBack(bounce_map[id])
      /\ bounce_map' = [bounce_map EXCEPT ![id] = None]
      /\ UNCHANGED <<pending_slot, dma, req_id, target, req_allocated>>
  BY DEF DropPacket, TakePacket, CallRefill, Goto, UnmapSlot, ringVars, poolVars
<1>2. c = Owner /\ id \in Ids
  BY <1>1 DEF BounceInv, Alone, HeldTypeOK
<1>3. pc[Owner] = "polled" /\ pc'[Owner] \in {"recount", "refill"} /\ InHand(id)
  BY <1>1, <1>2 DEF HeldTypeOK, InHand
<1>4. \A x \in Ids : InHand(x) <=> x = id
  BY <1>1, <1>3 DEF InHand
<1> HIDE DEF id
<1>5. ~ req_allocated[id]
  BY <1>2, <1>3 DEF BounceInv, MappedSlots
<1>6. /\ bounce_map'[id] = None
      /\ \A x \in Ids \ {id} : bounce_map'[x] = bounce_map[x]
  BY <1>1, <1>2, ZenonT(30) DEF HeldTypeOK
<1>7. PendingSlot'
  BY <1>1, <1>3, ZenonT(30) DEF BounceInv, PendingSlot
<1>8. MappedSlots'
  <2>1. \A x \in Ids : ~ Unmapped(x) /\ ~ Unmapped(x)' /\ ~ InHand(x)'
    BY <1>3 DEF Unmapped, InHand
  <2> QED BY <1>1, <1>4, <1>5, <1>6, <2>1, ZenonT(30) DEF BounceInv, MappedSlots
<1>9. MapsDistinct' /\ SlotPlaces'
  BY <1>1, <1>2, SlotReturned DEF BounceInv
<1> QED BY <1>7, <1>8, <1>9 DEF SlotsKept

-----------------------------------------------------------------------------
(* The theorems about bounce slots *)

\* Every step keeps the slots accounted for.
LEMMA BounceStep ==
  ASSUME Resetters = {}, HeldTypeOK, HeldInv, BounceInv, [Next]_vars
  PROVE  BounceInv'
<1>0. /\ pc \in [Cpus -> RxPcs] /\ Owner \in Cpus /\ Alone
      /\ back \in [Cpus -> {"idle", "poll", "chain", "recovered"}]
      /\ got.nb # None => pc[Owner] = "polled" \/ Between(Owner)
  BY RxAssumption DEF HeldTypeOK, HeldInv, Control, BounceInv
<1> USE DEF Goto, ringVars, poolVars, bounceVars, stackVars, refillVars, pollVars, rxVars
<1>1. ASSUME UNCHANGED vars PROVE SlotsKept'
  <2>1. Quiet
    BY <1>1, ZenonT(30) DEF vars, Quiet
  <2> QED BY <2>1, BounceFrame
<1>2. ASSUME NEW c \in Cpus, CoreStep(c) PROVE SlotsKept'
  <2>1. ASSUME Recount(c) PROVE Quiet
    BY <1>0, <2>1 DEF Recount, Quiet, Alone, Between, PollPcs, RefillPcs, RecoverPcs
  <2>2. ASSUME RefillStop(c) PROVE Quiet
    BY <1>0, <2>2, ZenonT(30) DEF RefillStop, Quiet, Alone, Between, PollPcs, RefillPcs,
       RecoverPcs
  <2>3. ASSUME SubmitCheck(c) PROVE Quiet
    BY <1>0, <2>3 DEF SubmitCheck, Quiet, Alone, Between, PollPcs, RefillPcs, RecoverPcs
  <2>4. ASSUME Doorbell(c) PROVE Quiet
    BY <1>0, <2>4 DEF Doorbell, Quiet, Alone, Between, PollPcs, RefillPcs, RecoverPcs
  <2>5. ASSUME DoorbellWrite(c) PROVE Quiet
    BY <1>0, <2>5, ZenonT(30) DEF DoorbellWrite, Quiet, Alone, Between, PollPcs, RefillPcs,
       RecoverPcs
  <2>6. ASSUME PollSkip(c) PROVE Quiet
    BY <1>0, <2>6, ZenonT(30) DEF PollSkip, Quiet, Alone, Between, PollPcs, RefillPcs,
       RecoverPcs, CallRefill
  <2>7. ASSUME PollEnter(c) PROVE Quiet
    BY <1>0, <2>7 DEF PollEnter, Quiet, Alone, Between, PollPcs, RefillPcs, RecoverPcs
  <2>8. ASSUME PollLock(c) PROVE Quiet
    BY <1>0, <2>8, ZenonT(30) DEF PollLock, Quiet, Alone, Between, PollPcs, RefillPcs,
       RecoverPcs
  <2>9. ASSUME ReapStale(c) PROVE Quiet
    BY <1>0, <2>9, ZenonT(30) DEF ReapStale, Quiet, Alone, Between, PollPcs, RefillPcs,
       RecoverPcs, Reaping
  <2>10. ASSUME ReapNone(c) PROVE Quiet
    BY <1>0, <2>10, ZenonT(30) DEF ReapNone, Quiet, Alone, Between, PollPcs, RefillPcs,
       RecoverPcs
  <2>11. ASSUME NothingReceived(c) PROVE Quiet
    BY <1>0, <2>11, ZenonT(30) DEF NothingReceived, Quiet, Alone, Between, PollPcs,
       RefillPcs, RecoverPcs, CallRefill, NoPkt
  <2>12. ASSUME ChainFragment(c) PROVE Quiet
    BY <1>0, <2>12, ZenonT(30) DEF ChainFragment, Quiet, Alone, Between, PollPcs,
       RefillPcs, RecoverPcs, NoPkt
  <2>13. ASSUME Deliver(c) PROVE Quiet
    BY <1>0, <2>13 DEF Deliver, Quiet, Alone, Between, PollPcs, RefillPcs,
       RecoverPcs, NoPkt
  <2>14. CASE RefillAlloc(c)
    BY <2>14, RefillAllocSlots
  <2>15. CASE SubmitRefused(c)
    BY <2>15, SubmitFailsSlots DEF SubmitRefused
  <2>16. CASE SubmitBusy(c)
    BY <2>16, SubmitFailsSlots DEF SubmitBusy
  <2>17. CASE SubmitOne(c)
    BY <2>17, SubmitOneSlots
  <2>18. CASE Posted(c)
    BY <2>18, PostedSlots
  <2>19. CASE ReapLong(c)
    BY <2>19, ReapLongSlots
  <2>20. CASE ReapOne(c)
    BY <2>20, ReapOneSlots
  <2>21. CASE DropPacket(c)
    BY <2>21, UnmapSlots
  <2>22. CASE TakePacket(c)
    BY <2>22, UnmapSlots
  <2>23. ~ (RecoverMark(c) \/ Invalidate(c) \/ ResetDevice(c) \/ CreateHw(c)
            \/ CreateSkipped(c) \/ Recovered(c))
    BY <1>0 DEF Alone, RecoverPcs, RecoverMark, Invalidate, ResetDevice, CreateHw,
                CallRefill, CreateSkipped, Recovered
  <2> QED
    BY <1>2, BounceFrame, <2>1, <2>2, <2>3, <2>4, <2>5, <2>6, <2>7, <2>8, <2>9, <2>10,
       <2>11, <2>12, <2>13, <2>14, <2>15, <2>16, <2>17, <2>18, <2>19, <2>20, <2>21, <2>22,
       <2>23 DEF CoreStep
<1>3. ASSUME NEW c \in Cpus, RxOne(c) \/ RecoverBegin(c) PROVE SlotsKept'
  <2>1. Quiet
    BY <1>0, <1>3, ZenonT(30) DEF RxOne, CallRefill, RecoverBegin, Quiet, Between, RefillPcs
  <2> QED BY <2>1, BounceFrame
<1>4. ASSUME StackFrees \/ Fetch \/ Spurious PROVE SlotsKept'
  <2>1. Quiet
    BY <1>4 DEF StackFrees, Fetch, Spurious, restOfDriver, Quiet
  <2> QED BY <2>1, BounceFrame
<1>5. ASSUME NEW kind \in {"ok", "long", "bad"}, Receive(kind) PROVE SlotsKept'
  <2>1. Quiet
    BY <1>5 DEF Receive, restOfDriver, Quiet
  <2> QED BY <2>1, BounceFrame
<1>6. SlotsKept'
  BY <1>1, <1>2, <1>3, <1>4, <1>5 DEF Next
<1>7. Alone'
  BY <1>0, AloneStep
<1> QED BY <1>6, <1>7 DEF BounceInv, SlotsKept

\* All slots are in the pool at first.
LEMMA BounceInit == Init => BounceInv
<1> SUFFICES ASSUME Init PROVE BounceInv
  OBVIOUS
<1>1. MapSlots = {} /\ SlotSet(pending_slot) = {} /\ bounce_free = BounceSlots
  BY DEF Init, MapSlots, SlotSet
<1>2. Alone /\ PendingSlot /\ MappedSlots /\ MapsDistinct
  BY RxAssumption DEF Init, RingInit, Alone, RecoverPcs, PendingSlot, MappedSlots,
     MapsDistinct,
         Unmapped, InHand
<1> QED BY <1>1, <1>2 DEF BounceInv, SlotPlaces

\* The slots are accounted for in every state, when no core resets the device.
LEMMA BounceInvariant == Resetters = {} => (Spec => [](HeldTypeOK /\ HeldInv /\ BounceInv))
<1> SUFFICES ASSUME Resetters = {}
             PROVE  Spec => [](HeldTypeOK /\ HeldInv /\ BounceInv)
  OBVIOUS
<1>1. HeldTypeOK /\ HeldInv /\ BounceInv /\ [Next]_vars
        => (HeldTypeOK /\ HeldInv /\ BounceInv)'
  BY HeldStep, BounceStep
<1>2. Init => HeldTypeOK /\ HeldInv /\ BounceInv
  BY HeldInit, BounceInit
<1> QED BY <1>1, <1>2, PTL DEF Spec

\* The three places of a slot are what its holders are counted from.
LEMMA PlacesGiveAccounting == BounceInv => BounceAccounting
<1> SUFFICES ASSUME BounceInv, NEW s \in BounceSlots
             PROVE  \E h \in SlotHolders(s) : SlotHolders(s) = {h}
  BY DEF BounceAccounting
<1> DEFINE M == {i \in Ids : bounce_map[i] = s}
<1>1. /\ s # None
      /\ s \in MapSlots <=> M # {}
      /\ s \in SlotSet(pending_slot) <=> pending_slot = s
      /\ \A x, y \in M : x = y
  BY RxAssumption DEF BounceInv, MapsDistinct, MapSlots, SlotSet
<1>2. SlotHolders(s) =
        (IF s \in bounce_free THEN {<<"pool", 0>>} ELSE {})
          \cup (IF pending_slot = s THEN {<<"refill", 0>>} ELSE {})
          \cup {<<"id", id>> : id \in M}
  BY DEF SlotHolders
<1> HIDE DEF M
<1>3. CASE s \in bounce_free
  <2>1. pending_slot # s /\ M = {}
    BY <1>1, <1>3 DEF BounceInv, SlotPlaces
  <2>2. SlotHolders(s) = {<<"pool", 0>>}
    BY <1>2, <1>3, <2>1
  <2> QED BY <2>2
<1>4. CASE pending_slot = s
  <2>1. s \notin bounce_free /\ M = {}
    BY <1>1, <1>4 DEF BounceInv, SlotPlaces
  <2>2. SlotHolders(s) = {<<"refill", 0>>}
    BY <1>2, <1>4, <2>1
  <2> QED BY <2>2
<1>5. CASE s \in MapSlots
  <2>1. s \notin bounce_free /\ pending_slot # s
    BY <1>1, <1>5 DEF BounceInv, SlotPlaces
  <2>2. PICK x : x \in M
    BY <1>1, <1>5
  <2>3. M = {x}
    BY <1>1, <2>2
  <2>4. SlotHolders(s) = {<<"id", x>>}
    BY <1>2, <2>1, <2>3
  <2> QED BY <2>4
<1> QED BY <1>1, <1>3, <1>4, <1>5 DEF BounceInv, SlotPlaces

\* As long as no core resets the device, every bounce slot of the receive pool
\* is free, with the refill, or mapped for one request, and nowhere else: the
\* refill and its failures, dropped, long and repeated completions and the
\* copy out of the slot never lose a slot nor map it twice
\* (ena_netbuf_alloc_helper, ena_rx_refill, ena_rx_poll, ena_netdev_rx_one).
THEOREM RxSlotsAccounted == Resetters = {} => (Spec => []BounceAccounting)
<1> SUFFICES ASSUME Resetters = {} PROVE Spec => []BounceAccounting
  OBVIOUS
<1>1. Spec => [](HeldTypeOK /\ HeldInv /\ BounceInv)
  BY BounceInvariant
<1> QED BY <1>1, PlacesGiveAccounting, PTL

\* As long as no core resets the device, a packet is copied out of the slot
\* whose address its descriptor gave the device, although the id is given back
\* before the copy (ena_rx_poll, ena_netdev_rx_one).
THEOREM RxCopiesRightSlot == Resetters = {} => (Spec => []RightSlot)
<1> SUFFICES ASSUME Resetters = {} PROVE Spec => []RightSlot
  OBVIOUS
<1>1. Spec => [](HeldTypeOK /\ HeldInv /\ BounceInv)
  BY BounceInvariant
<1>2. HeldTypeOK /\ BounceInv => RightSlot
  BY DEF HeldTypeOK, BounceInv, MappedSlots, InHand, RightSlot
<1> QED BY <1>1, <1>2, PTL
=============================================================================
