------------------------------ MODULE EnaQueues ------------------------------
(***************************************************************************)
(* The life of the IO queues: configure, the creation of the hardware      *)
(* queues at start with its rollback, their destruction at stop and at     *)
(* teardown, and their re-creation after a device reset (ena_datapath.c,   *)
(* ena_netdev.c, ena_admin.c).  Every admin command is one step and may be *)
(* refused, answered with unusable offsets, or time out; a timeout runs    *)
(* the whole recovery inside the command that met it, so the program is    *)
(* kept as one call stack per core.                                        *)
(*                                                                         *)
(* Left out: the LLQ branch of ena_ring_create_hw (ena_init_config_llq     *)
(* never enables it) and the MSI-X vector of a queue.                      *)
(***************************************************************************)
EXTENDS Naturals, Sequences, FiniteSets, SequencesExt

CONSTANTS
  Cpus,
  Ctl,          \* the core that configures, starts and stops the device
  None,
  TxCounts, RxCounts,  \* queue counts the application asks for
  DevQueues,    \* SQ (and CQ) numbers the device has
  Faults,       \* what may go wrong, see Fault
  MaxFaults,    \* how often
  MaxCalls      \* bound on the calls of the netdev operations

\* The kinds the properties have to tell apart: a command the device refuses,
\* one that times out, a start that leaves a queue without a ring, and a start
\* with rings that have been used since they were configured.
Special    == {"reject", "timeout", "hole", "restart"}
FaultKinds == {"bad_offset", "nomem", "reset_fails", "fatal"}
                \cup Special

ASSUME QueuesAssumption ==
  /\ Ctl \in Cpus /\ None \notin Cpus
  /\ TxCounts \subseteq Nat \ {0} /\ RxCounts \subseteq Nat \ {0}
  /\ Faults \subseteq FaultKinds
  /\ {MaxFaults, MaxCalls, DevQueues} \subseteq Nat

VARIABLES
  state,           \* uk_netdev state
  num, cap,        \* num_tx_rings/num_rx_rings, and what the arrays hold
  ring,            \* the software rings
  adapter,         \* adapter->state: up, error, or gone after the teardown
  recover_active,
  stk,             \* call stack of each core, innermost call first
  ret,             \* result of the last create or destroy
  dev_cq, dev_sq,  \* queues on the device
  dev_rss,         \* SQs the indirection table names
  faults,          \* how many faults so far, and whether one was of a special kind
  calls

drv  == <<state, num, cap, ring, adapter, recover_active>>
dev  == <<dev_cq, dev_sq, dev_rss>>
vars == <<drv, stk, ret, dev, faults, calls>>

MaxQueues == Max(TxCounts \cup RxCounts)
Rings     == {"tx", "rx"} \X (0 .. MaxQueues - 1)
QIdx      == 0 .. DevQueues - 1

\* A ring as ena_ring_alloc leaves it.  hw_valid is set there, before any
\* queue exists; moved says that the indices are no longer the first ones.
FreshRing == [hw_valid |-> TRUE, sq_idx |-> 0, cq_idx |-> 0, moved |-> FALSE]
Exists(r) == ring[r] # None

\* The rings of one direction below the configured count, in index order.
Listed(dir)  == [i \in 1 .. num[dir] |-> <<dir, i - 1>>]
Present(seq) == SelectSeq(seq, Exists)

Init ==
  /\ state = "unconfigured"
  /\ num = [tx |-> 0, rx |-> 0] /\ cap = [tx |-> 0, rx |-> 0]
  /\ ring = [r \in Rings |-> None]
  /\ adapter = "up" /\ recover_active = FALSE
  /\ stk = [c \in Cpus |-> <<>>]
  /\ ret = [c \in Cpus |-> TRUE]
  /\ dev_cq = [i \in QIdx |-> None] /\ dev_sq = [i \in QIdx |-> None]
  /\ dev_rss = {}
  /\ faults = [n |-> 0, seen |-> {}] /\ calls = 0

-----------------------------------------------------------------------------
(* The call stack *)

Frame(f, at, cur, todo) ==
  [f |-> f, at |-> at, cur |-> cur, todo |-> todo, made |-> {}]
Idle(c)        == stk[c] = <<>>
Top(c)         == Head(stk[c])
\* A core inside an operation on a ring that has been freed is not followed
\* any further: what it does is undefined.
In(c, f, at)   == /\ ~ Idle(c) /\ Top(c).f = f /\ Top(c).at = at
                  /\ Top(c).cur \in {None} \cup {r \in Rings : Exists(r)}
Goto(c, fr)    == stk' = [stk EXCEPT ![c] = <<fr>> \o Tail(@)]
At(c, at)      == [Top(c) EXCEPT !.at = at]
Call(c, fr, callee) == stk' = [stk EXCEPT ![c] = <<callee, fr>> \o Tail(@)]
Return(c, ok)  == /\ stk' = [stk EXCEPT ![c] = Tail(@)]
                  /\ ret' = [ret EXCEPT ![c] = ok]

(* Admin commands *)

FaultOf(ks) == /\ ks # {} /\ ks \subseteq Faults /\ faults.n < MaxFaults
               /\ faults' = [n |-> faults.n + 1,
                             seen |-> faults.seen \cup (ks \cap Special)]
Fault(k)  == FaultOf({k})
NoFault   == UNCHANGED faults

\* ena_admin_exec_cmd returns an error without an effect on the device: the
\* adapter is in ENA_STATE_ERROR, or the device answers with a bad status,
\* which it must when it cannot do what the command asks.
CmdRefused(c, at, must) ==
  /\ \/ adapter = "error" /\ NoFault
     \/ adapter = "up" /\ must /\ NoFault
     \/ adapter = "up" /\ Fault("reject")
  /\ Goto(c, At(c, at))
  /\ UNCHANGED <<drv, ret, dev, calls>>

\* The command times out: the recovery runs before the caller sees the error.
CmdTimesOut(c, at) ==
  /\ adapter = "up" /\ Fault("timeout")
  /\ Call(c, At(c, at), Frame("recover", "begin", None, <<>>))
  /\ UNCHANGED <<drv, ret, dev, calls>>

CmdFails(c, at, must) == CmdRefused(c, at, must) \/ CmdTimesOut(c, at)

\* A doorbell or unmask offset outside BAR0: the queue exists, and the driver
\* takes it down again.
Offsets(c, good, bad) ==
  \/ NoFault /\ Goto(c, At(c, good))
  \/ Fault("bad_offset") /\ Goto(c, At(c, bad))

-----------------------------------------------------------------------------
(* ena_ring_create_hw *)

CreateCq(c) ==
  /\ In(c, "create", "cq")
  /\ LET r == Top(c).cur IN
       \/ /\ adapter = "up"
          /\ \E i \in {j \in QIdx : dev_cq[j] = None} :
               /\ dev_cq' = [dev_cq EXCEPT ![i] = [ring |-> r, freed |-> FALSE]]
               /\ ring' = [ring EXCEPT ![r].cq_idx = i]
          /\ Offsets(c, "sq", "undo_cq")
          /\ UNCHANGED <<state, num, cap, adapter, recover_active, ret, dev_sq,
                         dev_rss, calls>>
       \/ CmdFails(c, "failed", None \notin Range(dev_cq))

\* The device refuses an SQ whose CQ does not exist.
CreateSq(c) ==
  /\ In(c, "create", "sq")
  /\ LET r == Top(c).cur
         q == ring[r].cq_idx
     IN \/ /\ adapter = "up" /\ dev_cq[q] # None
           /\ \E i \in {j \in QIdx : dev_sq[j] = None} :
                /\ dev_sq' = [dev_sq EXCEPT ![i] = [ring |-> r, cq |-> q,
                                            freed |-> FALSE, moved |-> FALSE]]
                /\ ring' = [ring EXCEPT ![r].sq_idx = i]
           /\ Offsets(c, "created", "undo_sq")
           /\ UNCHANGED <<state, num, cap, adapter, recover_active, ret,
                          dev_cq, dev_rss, calls>>
        \/ CmdFails(c, "undo_cq", dev_cq[q] = None \/ None \notin Range(dev_sq))

Created(c) ==
  /\ In(c, "create", "created")
  /\ ring' = [ring EXCEPT ![Top(c).cur].hw_valid = TRUE]
  /\ Return(c, TRUE)
  /\ UNCHANGED <<state, num, cap, adapter, recover_active, dev, faults, calls>>

CreateFailed(c) ==
  /\ In(c, "create", "failed")
  /\ Return(c, FALSE)
  /\ UNCHANGED <<drv, dev, faults, calls>>

\* What DESTROY_SQ and DESTROY_CQ do to the device: a number that names no
\* queue, and a CQ an SQ still uses, are refused.
SqGone(i) == [dev_sq EXCEPT ![i] = None]
CqUsed(i) == \E j \in QIdx : dev_sq[j] # None /\ dev_sq[j].cq = i
CqGone(i) == IF CqUsed(i) THEN dev_cq ELSE [dev_cq EXCEPT ![i] = None]

\* ena_admin_destroy_sq and ena_admin_destroy_cq, sent with the indices the
\* ring holds at that moment.
DestroySqCmd(c, at) ==
  \/ /\ adapter = "up" /\ NoFault
     /\ dev_sq' = SqGone(ring[Top(c).cur].sq_idx)
     /\ Goto(c, At(c, at))
     /\ UNCHANGED <<drv, ret, dev_cq, dev_rss, calls>>
  \/ adapter = "error" /\ CmdRefused(c, at, FALSE)
  \/ CmdTimesOut(c, at)

DestroyCqCmd(c, at) ==
  \/ /\ adapter = "up" /\ NoFault
     /\ dev_cq' = CqGone(ring[Top(c).cur].cq_idx)
     /\ Goto(c, At(c, at))
     /\ UNCHANGED <<drv, ret, dev_sq, dev_rss, calls>>
  \/ adapter = "error" /\ CmdRefused(c, at, FALSE)
  \/ CmdTimesOut(c, at)

UndoSq(c) == In(c, "create", "undo_sq") /\ DestroySqCmd(c, "undo_cq")
UndoCq(c) == In(c, "create", "undo_cq") /\ DestroyCqCmd(c, "failed")

(* ena_ring_destroy_hw *)

DestroySq(c) == In(c, "destroy", "sq") /\ DestroySqCmd(c, "cq")
DestroyCq(c) == In(c, "destroy", "cq") /\ DestroyCqCmd(c, "destroyed")

\* The queue numbers and the indices stay in the ring.
Destroyed(c) ==
  /\ In(c, "destroy", "destroyed")
  /\ ring' = [ring EXCEPT ![Top(c).cur].hw_valid = FALSE]
  /\ Return(c, TRUE)
  /\ UNCHANGED <<state, num, cap, adapter, recover_active, dev, faults, calls>>

-----------------------------------------------------------------------------
(* RSS: the table names the SQ of each receive queue; a missing ring is     *)
(* named by its queue id.                                                   *)

\* Mutant: the entries hold CQ numbers.
RssTableByCq ==
  {IF Exists(<<"rx", q>>) THEN ring[<<"rx", q>>].cq_idx ELSE q :
     q \in 0 .. num.rx - 1}

RssTable ==
  {IF Exists(<<"rx", q>>) THEN ring[<<"rx", q>>].sq_idx ELSE q :
     q \in 0 .. num.rx - 1}

\* ena_rss_configure, skipped for a single receive queue; its error is only
\* logged by the callers.
RssConfigure(c, at) ==
  \/ /\ num.rx <= 1 /\ NoFault
     /\ Goto(c, At(c, at)) /\ UNCHANGED <<drv, ret, dev, calls>>
  \/ /\ num.rx > 1 /\ adapter = "up" /\ NoFault
     /\ dev_rss' = RssTable
     /\ Goto(c, At(c, at)) /\ UNCHANGED <<drv, ret, dev_cq, dev_sq, calls>>
  \/ num.rx > 1 /\ CmdFails(c, at, FALSE)

\* ena_rx_refill of receive queue 0 moves the driver's index and the device's.
Rx0 == <<"rx", 0>>
Moves(r) == /\ ring' = [ring EXCEPT ![r].moved = TRUE]
            /\ dev_sq' = IF dev_sq[ring[r].sq_idx] = None THEN dev_sq
                         ELSE [dev_sq EXCEPT ![ring[r].sq_idx].moved = TRUE]

(* ena_adapter_reset_and_recover, ena_adapter_recover_io_rings *)

RecoverSkip(c) ==
  /\ In(c, "recover", "begin") /\ recover_active
  /\ stk' = [stk EXCEPT ![c] = Tail(@)]
  /\ UNCHANGED <<drv, ret, dev, faults, calls>>

\* Mutant: the rings stay valid through the reset.
ResetRingStaysValid(r) == FreshRing

\* Mutant: the reset keeps the indices of the rings.
ResetRingKeepsIndices(r) ==
  [ring[r] EXCEPT !.hw_valid = FALSE, !.sq_idx = 0, !.cq_idx = 0]

\* ena_ring_reset_sw_state
ResetRing(r) == [FreshRing EXCEPT !.hw_valid = FALSE]

\* The test of recover_active and the store to it are two steps.
RecoverBegin(c) ==
  /\ In(c, "recover", "begin") /\ ~ recover_active
  /\ Goto(c, At(c, "mark"))
  /\ UNCHANGED <<drv, ret, dev, faults, calls>>

RecoverMark(c) ==
  /\ In(c, "recover", "mark")
  /\ recover_active' = TRUE /\ adapter' = "error"
  /\ ring' = [r \in Rings |-> IF Exists(r) /\ r[2] < num[r[1]]
                              THEN ResetRing(r) ELSE ring[r]]
  /\ Goto(c, At(c, "reset"))
  /\ UNCHANGED <<state, num, cap, ret, dev, faults, calls>>

ClearFlag == recover_active' = FALSE

\* The reset deletes every queue and setting.  When it does not finish, the
\* adapter stays in error and no queue is re-created.
ResetDevice(c) ==
  /\ In(c, "recover", "reset")
  /\ dev_cq' = [i \in QIdx |-> None] /\ dev_sq' = [i \in QIdx |-> None]
  /\ dev_rss' = {}
  /\ \/ /\ NoFault /\ adapter' = "up" /\ UNCHANGED recover_active
        /\ Goto(c, [At(c, "next") EXCEPT !.todo = Listed("tx") \o Listed("rx")])
     \/ /\ Fault("reset_fails") /\ ClearFlag /\ UNCHANGED adapter
        /\ stk' = [stk EXCEPT ![c] = Tail(@)]
  /\ UNCHANGED <<state, num, cap, ring, ret, calls>>

NeedsQueues(r) == Exists(r) /\ ~ ring[r].hw_valid

RecoverNext(c) ==
  /\ In(c, "recover", "next")
  /\ LET rest == SelectSeq(Top(c).todo, NeedsQueues) IN
       IF rest = <<>> THEN Goto(c, At(c, "features"))
       ELSE Call(c, [At(c, "made") EXCEPT !.cur = Head(rest), !.todo = Tail(rest)],
                 Frame("create", "cq", Head(rest), <<>>))
  /\ UNCHANGED <<drv, ret, dev, faults, calls>>

RecoverMade(c) ==
  /\ In(c, "recover", "made")
  /\ LET fr == Top(c) IN
       /\ Goto(c, [At(c, "next") EXCEPT
                     !.made = IF ret[c] THEN @ \cup {fr.cur} ELSE @])
       /\ IF ret[c] /\ fr.cur = Rx0 THEN Moves(Rx0) ELSE UNCHANGED <<ring, dev_sq>>
  /\ UNCHANGED <<state, num, cap, adapter, recover_active, ret, dev_cq, dev_rss,
                 faults, calls>>

\* ena_init_reapply_device_features, when a queue was re-created.
RecoverFeatures(c) ==
  /\ In(c, "recover", "features")
  /\ \/ Top(c).made # {} /\ RssConfigure(c, "done")
     \/ /\ Top(c).made = {} /\ Goto(c, At(c, "done"))
        /\ UNCHANGED <<drv, ret, dev, faults, calls>>

RecoverDone(c) ==
  /\ In(c, "recover", "done")
  /\ ClearFlag
  /\ stk' = [stk EXCEPT ![c] = Tail(@)]
  /\ UNCHANGED <<state, num, cap, ring, adapter, ret, dev, faults, calls>>

\* A FATAL_ERROR event met by a core that polls the running device.
FatalEvent(c) ==
  /\ Idle(c) /\ state = "running" /\ adapter = "up" /\ Fault("fatal")
  /\ stk' = [stk EXCEPT ![c] = <<Frame("recover", "begin", None, <<>>)>>]
  /\ UNCHANGED <<drv, ret, dev, calls>>

-----------------------------------------------------------------------------
(* The netdev operations *)

Operation(c, from) ==
  /\ c = Ctl /\ Idle(c) /\ state \in from
  /\ calls < MaxCalls /\ calls' = calls + 1

\* ena_netdev_configure: the arrays are allocated once, the counts follow
\* every call.
Configure(c, tx, rx) ==
  /\ Operation(c, {"unconfigured", "configured"})
  /\ LET held == [tx |-> IF cap.tx = 0 THEN tx ELSE cap.tx,
                  rx |-> IF cap.rx = 0 THEN rx ELSE cap.rx]
     IN \/ /\ NoFault /\ state' = "configured"
           /\ num' = [tx |-> tx, rx |-> rx] /\ cap' = held
        \/ /\ cap.tx = 0 /\ Fault("nomem") /\ UNCHANGED state
           /\ num' = [num EXCEPT !.rx = rx]
           /\ cap' = [cap EXCEPT !.rx = held.rx]
  /\ UNCHANGED <<ring, adapter, recover_active, stk, ret, dev>>

\* ena_ring_free of a set of rings: what the device still does with their
\* memory is done with freed memory.
DevAfterFree(q, rs) ==
  [i \in QIdx |-> IF q[i] # None /\ q[i].ring \in rs
                  THEN [q[i] EXCEPT !.freed = TRUE] ELSE q[i]]
RingFree(rs) == /\ dev_cq' = DevAfterFree(dev_cq, rs)
                /\ dev_sq' = DevAfterFree(dev_sq, rs)

\* Mutant: a queue may be configured while the device runs.
QueueStatesLoose == {"configured", "running"}
QueueStates == {"configured"}

\* ena_netdev_rxq_configure, ena_netdev_txq_configure: the previous ring goes
\* first; an allocation that fails leaves the queue without a ring.
QueueConfigure(c, r) ==
  /\ Operation(c, QueueStates) /\ r[2] < num[r[1]]
  /\ RingFree({r} \cap {s \in Rings : Exists(s)})
  /\ \/ NoFault /\ ring' = [ring EXCEPT ![r] = FreshRing]
     \/ Fault("nomem") /\ ring' = [ring EXCEPT ![r] = None]
  /\ UNCHANGED <<state, num, cap, adapter, recover_active, stk, ret, dev_rss>>

\* ena_netdev_start checks the state only.  The application is expected to have
\* configured every queue, and to configure them anew after a stop.
Start(c) ==
  /\ Operation(c, {"configured"})
  /\ LET all   == Listed("tx") \o Listed("rx")
         moved == \E i \in 1 .. Len(all) : Exists(all[i]) /\ ring[all[i]].moved
         odd   == {k \in {"hole", "restart"} :
                     IF k = "hole" THEN Present(all) # all ELSE moved}
     IN /\ FaultOf(odd) \/ (odd = {} /\ NoFault)
        /\ stk' = [stk EXCEPT ![c] = <<Frame("start", "next", None, all)>>]
  /\ UNCHANGED <<drv, ret, dev>>

\* The first n listed rings of a direction, as the rollback loop counts them.
FirstOf(dir, n) == Present(SubSeq(Listed(dir), 1, n))
MadeIn(fr, dir) == Cardinality({r \in fr.made : r[1] = dir})

\* Mutant: only the receive queues are rolled back.
RollbackRxOnly(fr) == FirstOf("rx", MadeIn(fr, "rx"))

\* err_rollback: as many rings as were created, counted from index 0.
Rollback(fr) == FirstOf("rx", MadeIn(fr, "rx")) \o FirstOf("tx", MadeIn(fr, "tx"))

StartNext(c) ==
  /\ In(c, "start", "next")
  /\ LET rest == Present(Top(c).todo) IN
       IF rest = <<>> THEN Goto(c, At(c, "refill"))
       ELSE Call(c, [At(c, "made") EXCEPT !.cur = Head(rest), !.todo = Tail(rest)],
                 Frame("create", "cq", Head(rest), <<>>))
  /\ UNCHANGED <<drv, ret, dev, faults, calls>>

StartMade(c) ==
  /\ In(c, "start", "made")
  /\ LET fr == Top(c) IN
       IF ret[c] THEN Goto(c, [At(c, "next") EXCEPT !.made = @ \cup {fr.cur}])
       ELSE Goto(c, Frame("rollback", "next", None, Rollback(fr)))
  /\ UNCHANGED <<drv, ret, dev, faults, calls>>

StartRefill(c) ==
  /\ In(c, "start", "refill")
  /\ IF Exists(Rx0) THEN Moves(Rx0) ELSE UNCHANGED <<ring, dev_sq>>
  /\ Goto(c, At(c, "rss"))
  /\ UNCHANGED <<state, num, cap, adapter, recover_active, ret, dev_cq, dev_rss,
                 faults, calls>>

StartRss(c) == In(c, "start", "rss") /\ RssConfigure(c, "done")

Started(c) ==
  /\ In(c, "start", "done")
  /\ state' = "running"
  /\ stk' = [stk EXCEPT ![c] = Tail(@)]
  /\ UNCHANGED <<num, cap, ring, adapter, recover_active, ret, dev, faults, calls>>

\* ena_netdev_stop, ena_netdev_teardown: the queues of every listed ring are
\* destroyed, whether or not the ring has any.
AllRings == Present(Listed("rx") \o Listed("tx"))

Stop(c) ==
  /\ Operation(c, {"running"})
  /\ stk' = [stk EXCEPT ![c] = <<Frame("stop", "next", None, AllRings)>>]
  /\ UNCHANGED <<drv, ret, dev, faults>>

Teardown(c) ==
  /\ Operation(c, {"unconfigured", "configured", "running"})
  /\ stk' = [stk EXCEPT ![c] = <<Frame("teardown", "next", None, AllRings)>>]
  /\ UNCHANGED <<drv, ret, dev, faults>>

DestroyNext(c) ==
  /\ \E f \in {"rollback", "stop", "teardown"} : In(c, f, "next")
  /\ LET rest == Top(c).todo IN
       IF rest = <<>> THEN Goto(c, At(c, "done"))
       ELSE Call(c, [Top(c) EXCEPT !.todo = Tail(rest)],
                 Frame("destroy", "sq", Head(rest), <<>>))
  /\ UNCHANGED <<drv, ret, dev, faults, calls>>

RolledBack(c) ==
  /\ In(c, "rollback", "done")
  /\ stk' = [stk EXCEPT ![c] = Tail(@)]
  /\ UNCHANGED <<drv, ret, dev, faults, calls>>

Stopped(c) ==
  /\ In(c, "stop", "done")
  /\ state' = "configured"
  /\ stk' = [stk EXCEPT ![c] = Tail(@)]
  /\ UNCHANGED <<num, cap, ring, adapter, recover_active, ret, dev, faults, calls>>

\* ena_netdev_cleanup_adapter_rings walks the listed rings; ena_admin_fini
\* ends the admin queue.
TornDown(c) ==
  /\ In(c, "teardown", "done")
  /\ LET listed == {r \in Rings : Exists(r) /\ r[2] < num[r[1]]} IN
       /\ RingFree(listed)
       /\ ring' = [r \in Rings |-> IF r \in listed THEN None ELSE ring[r]]
  /\ state' = "gone" /\ adapter' = "gone"
  /\ num' = [tx |-> 0, rx |-> 0] /\ cap' = [tx |-> 0, rx |-> 0]
  /\ stk' = [stk EXCEPT ![c] = Tail(@)]
  /\ UNCHANGED <<recover_active, ret, dev_rss, faults, calls>>

\* Packets move the indices on both sides.
Traffic(r) ==
  /\ state = "running" /\ Exists(r) /\ ring[r].hw_valid /\ ~ ring[r].moved
  /\ Moves(r)
  /\ UNCHANGED <<state, num, cap, adapter, recover_active, stk, ret, dev_cq,
                 dev_rss, faults, calls>>

Create(c)  == \/ CreateCq(c) \/ CreateSq(c) \/ Created(c) \/ CreateFailed(c)
              \/ UndoSq(c) \/ UndoCq(c)
Destroy(c) == DestroySq(c) \/ DestroyCq(c) \/ Destroyed(c)
Recover(c) == \/ FatalEvent(c) \/ RecoverSkip(c) \/ RecoverBegin(c) \/ RecoverMark(c)
              \/ ResetDevice(c) \/ RecoverNext(c) \/ RecoverMade(c)
              \/ RecoverFeatures(c) \/ RecoverDone(c)
Netdev(c)  == \/ \E tx \in TxCounts, rx \in RxCounts : Configure(c, tx, rx)
              \/ \E r \in Rings : QueueConfigure(c, r)
              \/ Start(c) \/ StartNext(c) \/ StartMade(c) \/ StartRefill(c)
              \/ StartRss(c) \/ Started(c)
              \/ Stop(c) \/ Teardown(c) \/ DestroyNext(c)
              \/ RolledBack(c) \/ Stopped(c) \/ TornDown(c)

Next == \/ \E c \in Cpus : Create(c) \/ Destroy(c) \/ Recover(c) \/ Netdev(c)
        \/ \E r \in Rings : Traffic(r)

Spec == Init /\ [][Next]_vars

-----------------------------------------------------------------------------
(* Properties *)

Quiet == \A c \in Cpus : Idle(c)
Live(q) == {i \in QIdx : q[i] # None}
Valid == {r \in Rings : Exists(r) /\ ring[r].hw_valid}

\* While the device runs and no operation is in progress, a ring the driver
\* calls valid has a submission queue of its own on the device, attached to
\* the completion queue the ring polls: however often creations failed, were
\* rolled back or were repeated by the recovery (ena_ring_create_hw).
RingsHaveQueues ==
  state = "running" /\ Quiet =>
    \A r \in Valid : LET s == dev_sq[ring[r].sq_idx] IN
      s # None /\ s.ring = r /\ s.cq = ring[r].cq_idx
      /\ dev_cq[s.cq] # None /\ dev_cq[s.cq].ring = r

\* Between operations the device has no queue that the driver has lost: a
\* failed start, a stop and a partly failed recovery leave exactly the queues
\* of the valid rings of a running device (start_rings_hw, stop_rings_hw).
\* Not promised once a command timed out inside an operation, which re-creates
\* queues behind it, or a start met a queue without a ring.
NoOrphans ==
  Quiet /\ faults.seen \cap {"timeout", "hole"} = {} => LET keep == IF state = "running" THEN Valid ELSE {} IN
    /\ Live(dev_sq) = {ring[r].sq_idx : r \in keep}
    /\ Live(dev_cq) = {ring[r].cq_idx : r \in keep}

\* The device never has a queue in memory that the driver has freed
\* (ena_ring_free at a reconfiguration or the teardown), with the exceptions
\* of NoOrphans.
DmaMemoryHeld ==
  faults.seen \cap {"timeout", "hole"} = {} =>
    /\ \A i \in Live(dev_sq) : ~ dev_sq[i].freed
    /\ \A i \in Live(dev_cq) : ~ dev_cq[i].freed

\* A running ring and the queue behind it agree on whether they are at their
\* first index: both start at 0 with phase 1, after a start and after a
\* recovery (ena_ring_reset_sw_state, CREATE_SQ), unless the application
\* started rings it had used before.
InStep ==
  state = "running" /\ Quiet /\ "restart" \notin faults.seen =>
    \A r \in Valid : dev_sq[ring[r].sq_idx] # None
                     => dev_sq[ring[r].sq_idx].moved = ring[r].moved

\* With all receive rings valid, the indirection table of a running device
\* names their submission queues and no others, also when the recovery has
\* given the queues new numbers (ena_rss_set_ind_table).  A refused table
\* command is only logged and leaves the table of the last start.
RssNamesLiveQueues ==
  state = "running" /\ Quiet /\ "reject" \notin faults.seen
  /\ {r \in Rings : r[1] = "rx"} \subseteq Valid =>
    \A i \in dev_rss : dev_sq[i] # None /\ dev_sq[i].ring[1] = "rx"
=============================================================================
