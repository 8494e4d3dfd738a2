---------------------------- MODULE McWorkerProofs ----------------------------
(***************************************************************************)
(* The interrupt setup leaves everything in place or nothing, for any       *)
(* number of vectors; a core never halts over packets that raise no         *)
(* interrupt, for any clients, packets and interleaving of device,          *)
(* interrupt handler and worker; and every request that is read is answered *)
(* with one whole response, however it is cut into pieces.                  *)
(***************************************************************************)
EXTENDS McWorker, Integers, WellFoundedInduction, TLAPS

\* Zenon proves a step, unless the step names another prover.
USE Zenon

\* What the setup has done so far, at each of its places.
SetupInv ==
  /\ setup.at \in {"probe", "find", "arm", "unroll", "fini", "done"}
  /\ setup.i \in Nat /\ num_irq_vectors \in Nat
  /\ setup.at = "probe" =>
       ~ armed /\ num_irq_vectors = 0 /\ registered = {} /\ intr_mask = 1
  /\ setup.at = "find" =>
       /\ ~ armed /\ num_irq_vectors > 0 /\ intr_mask = 0
       /\ setup.i = 0 /\ registered = {}
  /\ setup.at = "arm" =>
       /\ ~ armed /\ num_irq_vectors > 0 /\ intr_mask = 0
       /\ setup.i <= num_irq_vectors /\ registered = 0 .. setup.i - 1
  /\ setup.at = "unroll" =>
       ~ armed /\ num_irq_vectors > 0 /\ registered = 0 .. setup.i - 1
  /\ setup.at = "fini" => ~ armed /\ registered = {} /\ num_irq_vectors > 0
  /\ SetupAllOrNothing

HasVector == armed /\ Q + 1 < num_irq_vectors /\ unmask_db

\* From the unmask write of mc_idle_sleep to the end of the halt: what waits
\* has raised an interrupt, and a queue that is masked has one under way.
WakeInv ==
  pc \in {"cli", "halt"} /\ HasVector => (Waiting => msi) /\ (cq_masked => msi)

\* The worker starts when the setup is over.
StartInv == setup.at # "done" => pc = "start"

IInv == SetupInv /\ WakeInv /\ StartInv

\* A fresh adapter has no vectors.
LEMMA IInvInit == Init => IInv
  BY SMT DEF Init, IntrInit, IInv, SetupInv, SetupAllOrNothing, WakeInv, StartInv

\* A step that leaves the vectors alone keeps what the setup has done.
LEMMA SetupFrame ==
  ASSUME SetupInv,
         UNCHANGED <<setup, num_irq_vectors, registered, armed, intr_mask>>
  PROVE  SetupInv'
  BY DEF SetupInv, SetupAllOrNothing

\* Every step of ena_intr_setup keeps the invariant.
LEMMA SetupStepInv == IInv /\ SetupStep => IInv'
<1> SUFFICES ASSUME IInv, SetupStep PROVE IInv'
  OBVIOUS
<1>0. SetupInv /\ StartInv /\ UNCHANGED pc
  BY DEF IInv, SetupStep, workerVars
<1>1. setup.at # "done" /\ pc = "start"
  BY <1>0 DEF SetupStep, Setup, SetupProbe, SetupFind, SetupVector, SetupArmed,
     SetupUnroll, SetupFini, StartInv
<1>2. WakeInv' /\ StartInv'
  BY <1>0, <1>1 DEF WakeInv, StartInv
<1>3. CASE SetupProbe
  <2>1. CASE Goto("done", 0) /\ UNCHANGED <<num_irq_vectors, masked, intr_mask>>
    <3>1. /\ ~ armed' /\ num_irq_vectors' = 0 /\ registered' = {} /\ intr_mask' = 1
          /\ setup' = [at |-> "done", i |-> 0]
      BY <1>0, <1>3, <2>1 DEF SetupProbe, Goto, SetupInv
    <3> QED BY <1>2, <3>1 DEF SetupInv, SetupAllOrNothing, IInv
  <2>2. ASSUME NEW count \in Probed \ {0},
               num_irq_vectors' = (IF count > ENA_MAX_MSIX_VECTORS
                                   THEN ENA_MAX_MSIX_VECTORS ELSE count),
               intr_mask' = 0, Goto("find", 0)
        PROVE  SetupInv'
    <3>1. num_irq_vectors' \in Nat /\ num_irq_vectors' > 0
      BY <2>2, IntrAssumption, SMT DEF Probed
    <3>2. registered' = {} /\ ~ armed' /\ setup' = [at |-> "find", i |-> 0]
      BY <1>0, <1>3, <2>2 DEF SetupProbe, SetupInv, Goto
    <3> QED BY <2>2, <3>1, <3>2 DEF SetupInv, SetupAllOrNothing
  <2> QED BY <1>2, <1>3, <2>1, <2>2 DEF SetupProbe, MsixInit, IInv
<1>find. CASE SetupFind
  <2>1. /\ ~ armed' /\ registered' = {} /\ intr_mask' = 0
        /\ num_irq_vectors' \in Nat /\ num_irq_vectors' > 0
    BY <1>0, <1>find DEF SetupFind, SetupInv
  <2>2. 0 .. 0 - 1 = {}
    BY SMT
  <2>3. CASE Goto("arm", 0)
    BY <1>2, <2>1, <2>2, <2>3, SMT DEF SetupInv, SetupAllOrNothing, Goto, IInv
  <2>4. CASE Goto("fini", 0)
    BY <1>2, <2>1, <2>4 DEF SetupInv, SetupAllOrNothing, Goto, IInv
  <2> QED BY <1>find, <2>3, <2>4 DEF SetupFind
<1>4. CASE SetupVector
  <2>1. /\ setup.i < num_irq_vectors /\ registered = 0 .. setup.i - 1
        /\ setup.i \in Nat /\ num_irq_vectors \in Nat /\ num_irq_vectors > 0
        /\ ~ armed' /\ intr_mask' = 0 /\ num_irq_vectors' = num_irq_vectors
    BY <1>0, <1>4 DEF SetupVector, SetupInv
  <2>2. CASE registered' = registered \cup {setup.i} /\ Goto("arm", setup.i + 1)
    <3>1. registered' = 0 .. (setup.i + 1) - 1
      BY <2>1, <2>2, SMT
    <3> QED BY <1>2, <2>1, <2>2, <3>1, SMT DEF SetupInv, SetupAllOrNothing, Goto, IInv
  <2>3. CASE Goto("unroll", setup.i) /\ UNCHANGED registered
    BY <1>2, <2>1, <2>3 DEF SetupInv, SetupAllOrNothing, Goto, IInv
  <2> QED BY <1>4, <2>2, <2>3 DEF SetupVector
<1>5. CASE SetupArmed
  BY <1>0, <1>2, <1>5 DEF SetupArmed, SetupInv, SetupAllOrNothing, Goto, IInv
<1>6. CASE SetupUnroll
  <2>1. /\ registered = 0 .. setup.i - 1 /\ setup.i \in Nat /\ ~ armed'
        /\ registered' = {v \in registered : v > setup.i - 1}
        /\ setup' = [at |-> "fini", i |-> 0] /\ num_irq_vectors' \in Nat
        /\ num_irq_vectors' > 0
    BY <1>0, <1>6 DEF SetupUnroll, UnrollFrom, SetupInv, Goto
  <2>2. registered' = {}
    BY <2>1, SMT
  <2> QED BY <1>2, <2>1, <2>2 DEF SetupInv, SetupAllOrNothing, IInv
<1>7. CASE SetupFini
  BY <1>0, <1>2, <1>7 DEF SetupFini, MaskAll, SetupInv, SetupAllOrNothing, Goto, IInv
<1> QED BY <1>3, <1>find, <1>4, <1>5, <1>6, <1>7 DEF SetupStep, Setup

\* Steps of the worker that touch no interrupt state and do not sleep.
LEMMA AwakeStep ==
  ASSUME IInv, UNCHANGED intrVars, setup.at = "done", pc' \notin {"cli", "halt"}
  PROVE  IInv'
<1>1. SetupInv'
  BY SetupFrame DEF IInv, intrVars
<1> QED BY <1>1 DEF IInv, WakeInv, StartInv, intrVars

\* The unmask write of a queue vector leaves the rest of the setup alone.
LEMMA RearmFrame ==
  ASSUME NEW waiting, RearmCq(waiting)
  PROVE  UNCHANGED <<setup, num_irq_vectors, registered, armed, intr_mask, unmask_db>>
<1>1. 0 \notin (IF Q + 1 < num_irq_vectors THEN {Q + 1} ELSE {})
  BY IntrAssumption, SMT
<1> QED BY <1>1 DEF RearmCq, UnmaskVectors

\* Where the places of the worker lead.
LEMMA ReadableGoes ==
  ASSUME NEW fd, NEW from, Readable(fd, from), pc \notin {"cli", "halt"}
  PROVE  pc' \notin {"cli", "halt"}
  BY DEF Readable, Continue

\* Every step of the worker keeps the invariant.
LEMMA WorkerStepInv == IInv /\ Worker => IInv'
<1> SUFFICES ASSUME IInv, Worker PROVE IInv'
  OBVIOUS
<1>1. CASE Start
  <2>1. setup.at = "done" /\ pc' = "drive"
    BY <1>1 DEF Start, At
  <2>2. UNCHANGED <<setup, num_irq_vectors, registered, armed>>
    BY <1>1 DEF Start
  <2>3. intr_mask' = intr_mask
    <3>1. CASE num_irq_vectors = 0
      <4>1. 0 \notin (0 .. num_irq_vectors - 1) \cap 0 .. num_irq_vectors - 1
        BY <3>1, SMT
      <4> QED BY <1>1, <4>1 DEF Start, UnmaskVectors
    <3>2. CASE num_irq_vectors # 0
      <4>1. intr_mask = 0
        BY <2>1, <3>2 DEF IInv, SetupInv, SetupAllOrNothing
      <4> QED BY <1>1, <4>1 DEF Start, UnmaskVectors
    <3> QED BY <3>1, <3>2
  <2>4. SetupInv'
    BY <2>2, <2>3, SetupFrame DEF IInv
  <2> QED BY <2>1, <2>2, <2>4 DEF IInv, WakeInv, StartInv
<1>2. CASE Drive
  <2>1. setup.at = "done" /\ pc' = "epoll"
    BY <1>2 DEF Drive, At
  <2>2. UNCHANGED <<setup, num_irq_vectors, registered, armed, intr_mask>>
    BY <1>2, RearmFrame DEF Drive, intrVars
  <2>3. SetupInv'
    BY <2>2, SetupFrame DEF IInv
  <2> QED BY <2>1, <2>2, <2>3 DEF IInv, WakeInv, StartInv
<1>3. CASE EpollWait \/ Accept \/ Retry \/ Tick \/ Timer
  <2>1. /\ setup.at = "done" /\ UNCHANGED intrVars
        /\ pc' \in {"events", "send", "tick", "drive", "rearm"}
    BY <1>3 DEF EpollWait, Accept, Retry, Tick, Timer, At
  <2> QED BY <2>1, AwakeStep
<1>4. ASSUME NEW e \in todo, Handle(e) PROVE IInv'
  <2>1. setup.at = "done" /\ UNCHANGED intrVars /\ pc = "events"
    BY <1>4 DEF Handle, At
  <2>2. pc' \notin {"cli", "halt"}
    BY <1>4, <2>1, ReadableGoes DEF Handle
  <2> QED BY <2>1, <2>2, AwakeStep
<1>5. CASE Send \/ SendAgain \/ SendDone
  <2>1. setup.at = "done" /\ UNCHANGED intrVars /\ pc \in {"send", "again", "sent"}
    BY <1>5 DEF Send, SendAgain, SendDone, At
  <2>2. pc' \notin {"cli", "halt"}
    BY <1>5, <2>1, ReadableGoes DEF Send, SendAgain, SendDone, Continue
  <2> QED BY <2>1, <2>2, AwakeStep
<1>6. CASE Rearm
  <2>1. setup.at = "done" /\ pc' = "cli" /\ RearmCq(Waiting) /\ rxq' = rxq
    BY <1>6 DEF Rearm, At
  <2>2. UNCHANGED <<setup, num_irq_vectors, registered, armed, intr_mask, unmask_db>>
    BY <2>1, RearmFrame
  <2>3. SetupInv'
    BY <2>2, SetupFrame DEF IInv
  <2>4. ASSUME HasVector PROVE (Waiting' => msi') /\ (cq_masked' => msi')
    <3>1. Q + 1 \in {Q + 1} \cap 0 .. num_irq_vectors - 1
      BY <2>4, IntrAssumption, SMT DEF HasVector, IInv, SetupInv
    <3>2. Signal(Waiting)
      BY <2>1, <2>4, <3>1 DEF RearmCq, UnmaskVectors, HasVector
    <3>3. CASE Waiting
      BY <2>4, <3>2, <3>3 DEF Signal, HasVector
    <3>4. CASE ~ Waiting
      BY <2>1, <3>2, <3>4 DEF Signal, Waiting
    <3> QED BY <3>3, <3>4
  <2>5. WakeInv'
    BY <2>2, <2>4 DEF WakeInv, HasVector
  <2> QED BY <2>1, <2>2, <2>3, <2>5 DEF IInv, StartInv
<1>7. CASE DisableIrq
  <2>1. setup.at = "done" /\ pc = "cli" /\ UNCHANGED <<intrVars, rxq>>
    BY <1>7 DEF DisableIrq, At
  <2>2. SetupInv'
    BY <2>1, SetupFrame DEF IInv, intrVars
  <2> QED BY <2>1, <2>2 DEF IInv, WakeInv, StartInv, HasVector, Waiting, intrVars
<1> QED BY <1>1, <1>2, <1>3, <1>4, <1>5, <1>6, <1>7 DEF Worker

\* A packet that arrives raises an interrupt unless the queue is masked.
LEMMA NetworkStepInv == IInv /\ Network => IInv'
<1> SUFFICES ASSUME IInv, NEW c, NEW kind, Arrive(c, kind) PROVE IInv'
  BY DEF Network, Connect, Talk, Ack
<1>1. /\ UNCHANGED <<setup, num_irq_vectors, registered, armed, intr_mask,
                     unmask_db, pc>>
      /\ Posted
  BY DEF Arrive
<1>2. SetupInv'
  BY <1>1, SetupFrame DEF IInv
<1>3. ASSUME pc \in {"cli", "halt"}, HasVector PROVE msi'
  <2>1. cq_masked => msi
    BY <1>3 DEF IInv, WakeInv
  <2> QED BY <1>1, <1>3, <2>1 DEF Posted, HasVector
<1> QED BY <1>1, <1>2, <1>3 DEF IInv, WakeInv, StartInv, HasVector

\* The handler unmasks the queue again, and what waits is signalled again.
LEMMA InterruptStepInv == IInv /\ Interrupt => IInv'
<1> SUFFICES ASSUME IInv, Interrupt PROVE IInv'
  OBVIOUS
<1>1. /\ OnFire(Waiting) /\ rxq' = rxq
      /\ pc' = IF pc = "halt" THEN "drive" ELSE pc
      /\ UNCHANGED <<setup, num_irq_vectors, registered, armed, intr_mask, unmask_db>>
  BY DEF Interrupt, OnFire
<1>2. SetupInv'
  BY <1>1, SetupFrame DEF IInv
<1>3. ASSUME HasVector PROVE (Waiting' => msi') /\ (cq_masked' => msi')
  BY <1>1, <1>3 DEF OnFire, HasVector, Waiting
<1>4. StartInv'
  BY <1>1 DEF IInv, StartInv
<1> QED BY <1>1, <1>2, <1>3, <1>4 DEF IInv, WakeInv, HasVector

\* The invariant holds in every reachable state.
LEMMA IInvHolds == Spec => []IInv
<1>1. IInv /\ [Next]_vars => IInv'
  <2> SUFFICES ASSUME IInv, [Next]_vars PROVE IInv'
    OBVIOUS
  <2>1. CASE UNCHANGED vars
    BY <2>1 DEF IInv, SetupInv, SetupAllOrNothing, WakeInv, HasVector, Waiting,
       StartInv, vars, intrVars, workerVars
  <2> QED BY <2>1, SetupStepInv, WorkerStepInv, NetworkStepInv, InterruptStepInv
          DEF Next
<1> QED BY IInvInit, <1>1, PTL DEF Spec

\* The interrupt setup ends with every vector in place or with none, wherever
\* it failed and however many vectors there are.
THEOREM SetupAtomic == Spec => []SetupAllOrNothing
<1>1. IInv => SetupAllOrNothing
  BY DEF IInv, SetupInv
<1> QED BY <1>1, IInvHolds, PTL

\* A core that halts while packets wait has an interrupt on its way, whenever
\* they arrived: before the unmask write, between it and the halt, around an
\* interrupt handler that ran in that window, or in the halt.
THEOREM WakeupNotLost == Spec => []NoLostWakeup
<1>1. IInv => NoLostWakeup
  BY DEF IInv, WakeInv, NoLostWakeup, HasVector
<1> QED BY <1>1, IInvHolds, PTL

-----------------------------------------------------------------------------
(* Every request is answered once *)

Sockets == [st : {"none", "backlog", "open", "zombie", "gone"}, fd : Nat,
            data : {"no", "keep", "close"}, fin : BOOLEAN, rst : BOOLEAN,
            ev : BOOLEAN, unacked : Int, left : BOOLEAN]
Kinds == {"syn", "keep", "close", "fin", "rst", "ack"}
Packets == [c : Conns, kind : Kinds]

SocketTypeOK ==
  /\ conn \in [Conns -> Sockets] /\ rxq \in Seq(Packets)
  /\ resp_pending \in [Tracked -> Nat] /\ owed \in [Tracked -> Nat]

\* A descriptor names one open socket.
FdsDistinct == \A c, d \in Conns : IsOpen(conn, c) /\ IsOpen(conn, d) /\ c # d
                                   => conn[c].fd # conn[d].fd

\* A connection request that waits is for a connection that does not exist.
SynFresh == \A i \in 1 .. Len(rxq) :
              rxq[i].kind = "syn" => conn[rxq[i].c].st = "none"

\* An event not handled yet is the listener's or that of an open socket.
EventsOpen == \A e \in todo :
                \/ e = Listener
                \/ e.c \in Conns /\ IsOpen(conn, e.c) /\ e = [c |-> e.c, hup |-> e.hup]

\* Two events are of two connections.
EventsDistinct == \A e, f \in todo : e.c = f.c => e = f

\* A response is pending on open sockets only, and sent to one whose event
\* has been taken.
PendingOpen == \A fd \in Tracked : resp_pending[fd] # 0 => Open(fd) # {}
AtSend == pc \in {"send", "again", "sent"}
SendingOpen ==
  AtSend => /\ cur.fd \in Tracked /\ Open(cur.fd) # {}
            /\ \A e \in todo : e = Listener \/ conn[e.c].fd # cur.fd

\* The retry loop runs when all events are handled.
RetryLast == pc = "retry" \/ (AtSend /\ cur.from # "events") => todo = {}

AnswerInv == /\ FdsDistinct /\ SynFresh /\ EventsOpen /\ EventsDistinct
             /\ PendingOpen /\ SendingOpen /\ RetryLast /\ OneAnswerEach

\* Induction over the naturals.
LEMMA SetInduction ==
  ASSUME NEW S, 0 \in S, \A n \in Nat : n \in S => n + 1 \in S
  PROVE  Nat \subseteq S
<1> DEFINE R == OpToRel(<, Nat)
<1>1. IsWellFoundedOn(R, Nat)
  BY NatLessThanWellFounded DEF OpToRel
<1>2. R = {ss \in Nat \X Nat : ss[1] < ss[2]}
  BY DEF OpToRel
<1> HIDE DEF R
<1>3. ASSUME NEW n \in Nat, n \notin S PROVE FALSE
  <2> DEFINE T == Nat \ S
  <2>1. T \subseteq Nat /\ T # {}
    BY <1>3
  <2> HIDE DEF T
  <2>2. PICK x \in T : \A y \in T : ~ (<<y, x>> \in R)
    BY <1>1, <2>1, WFMin
  <2>3. x \in Nat /\ x \notin S
    BY DEF T
  <2>4. x # 0 /\ x - 1 \in Nat
    BY <2>3, SMT
  <2>5. <<x - 1, x>> \in R
    BY <1>2, <2>3, <2>4, SMT
  <2>6. x - 1 \in S
    BY <2>2, <2>4, <2>5 DEF T
  <2> QED BY <2>3, <2>4, <2>6, SMT
<1> QED BY <1>3

\* A packet opens and closes no socket, unless it asks for a connection.
LEMMA InputKeeps ==
  ASSUME NEW cs \in [Conns -> Sockets], NEW p \in Packets
  PROVE  /\ Input(cs, p) \in [Conns -> Sockets]
         /\ \A c \in Conns :
              IF IsOpen(cs, c) /\ ~ (p.kind = "syn" /\ p.c = c)
              THEN IsOpen(Input(cs, p), c) /\ Input(cs, p)[c].fd = cs[c].fd
              ELSE ~ IsOpen(Input(cs, p), c)
<1> DEFINE s == cs[p.c]
           t == Input(cs, p)[p.c]
<1>1. s \in Sockets /\ p.kind \in Kinds /\ p.c \in Conns
  BY DEF Packets
<1>2. \A c \in Conns : c # p.c => Input(cs, p)[c] = cs[c]
  BY <1>1 DEF Input
<1>3. p.kind \in {"keep", "close"} => Joined(s.data, p.kind) \in {"keep", "close"}
  BY <1>1 DEF Joined, Sockets
<1>4. /\ t \in Sockets
      /\ IF s.st = "open" /\ p.kind # "syn" THEN t.st = "open" /\ t.fd = s.fd
                                            ELSE t.st # "open"
  <2>1. CASE p.kind = "syn"
    <3>1. t = [NoConn EXCEPT !.st = "backlog"]
      BY <1>1, <2>1 DEF Input
    <3>2. NoConn \in Sockets
      BY SMT DEF NoConn, Sockets
    <3> QED BY <2>1, <3>1, <3>2 DEF Sockets
  <2>2. CASE p.kind \in {"keep", "close"}
    BY <1>1, <1>3, <2>2, ZenonT(30) DEF Input, Sockets
  <2>3. CASE p.kind = "fin"
    BY <1>1, <2>3 DEF Input, Sockets
  <2>4. CASE p.kind = "rst"
    <3>1. CASE s.st = "open"
      <4>1. t = [s EXCEPT !.rst = TRUE, !.ev = TRUE, !.unacked = 0]
        BY <1>1, <2>4, <3>1 DEF Input
      <4>2. t = [[[s EXCEPT !.rst = TRUE] EXCEPT !.ev = TRUE] EXCEPT !.unacked = 0]
        BY <1>1, <4>1 DEF Sockets
      <4> DEFINE s1 == [s EXCEPT !.rst = TRUE]
                 s2 == [s1 EXCEPT !.ev = TRUE]
      <4>3. s1 \in Sockets /\ s1.st = s.st /\ s1.fd = s.fd
        BY <1>1 DEF Sockets
      <4> HIDE DEF s1
      <4>4. s2 \in Sockets /\ s2.st = s.st /\ s2.fd = s.fd
        BY <4>3 DEF Sockets
      <4>5. t = [s2 EXCEPT !.unacked = 0]
        BY <4>2 DEF s1
      <4> HIDE DEF s2, t
      <4>6. t \in Sockets /\ t.st = s2.st /\ t.fd = s2.fd
        BY <4>4, <4>5, SMT DEF Sockets
      <4> QED BY <2>4, <3>1, <4>4, <4>6
    <3>2. CASE s.st # "open"
      <4>1. t = [s EXCEPT !.st = "gone"]
        BY <1>1, <2>4, <3>2 DEF Input
      <4> QED BY <1>1, <2>4, <3>2, <4>1 DEF Sockets
    <3> QED BY <3>1, <3>2
  <2>5. CASE p.kind = "ack"
    <3>1. CASE s.st = "open"
      <4>1. t = [s EXCEPT !.unacked = 0]
        BY <1>1, <2>5, <3>1 DEF Input
      <4> QED BY <1>1, <2>5, <3>1, <4>1, SMT DEF Sockets
    <3>2. CASE s.st = "zombie"
      <4>1. t = [s EXCEPT !.st = "gone"]
        BY <1>1, <2>5, <3>2 DEF Input
      <4> QED BY <1>1, <2>5, <3>2, <4>1 DEF Sockets
    <3>3. CASE s.st \notin {"open", "zombie"}
      BY <1>1, <2>5, <3>3 DEF Input
    <3> QED BY <3>1, <3>2, <3>3
  <2> QED BY <1>1, <2>1, <2>2, <2>3, <2>4, <2>5 DEF Kinds
<1>5. Input(cs, p) \in [Conns -> Sockets]
  <2>1. Input(cs, p) = [c \in Conns |-> Input(cs, p)[c]]
    BY DEF Input
  <2> HIDE DEF t
  <2>2. \A c \in Conns : Input(cs, p)[c] \in Sockets
    BY <1>1, <1>2, <1>4 DEF t
  <2> QED BY <2>1, <2>2
<1> HIDE DEF t
<1> QED BY <1>1, <1>2, <1>4, <1>5 DEF IsOpen, t

\* What one packet after the other does to the sockets is well defined.
LEMMA AfterDefined ==
  ASSUME SocketTypeOK
  PROVE  /\ After[0] = conn
         /\ \A k \in 0 .. Len(rxq) :
              k # 0 => After[k] = Input(After[k - 1], rxq[k])
<1> DEFINE F(g, k) == IF k = 0 THEN conn ELSE Input(g[k - 1], rxq[k])
           Good(n) == \E g : g = [k \in 0 .. n |-> F(g, k)]
           S == {n \in Nat : Good(n)}
<1>1. Good(0)
  <2> DEFINE g == [k \in 0 .. 0 |-> conn]
  <2>1. g = [k \in 0 .. 0 |-> F(g, k)]
    BY SMT
  <2> QED BY <2>1
<1>2. ASSUME NEW n \in Nat, Good(n) PROVE Good(n + 1)
  <2>1. PICK g : g = [k \in 0 .. n |-> F(g, k)]
    BY <1>2
  <2> DEFINE h == [k \in 0 .. n + 1 |-> IF k = n + 1 THEN Input(g[n], rxq[n + 1]) ELSE g[k]]
  <2>2. \A k \in 0 .. n : h[k] = g[k] /\ g[k] = F(g, k)
    BY <2>1, SMT
  <2>3. h[n + 1] = Input(g[n], rxq[n + 1])
    BY SMT
  <2>4. \A k \in 0 .. n + 1 : h[k] = F(h, k)
    <3> TAKE k \in 0 .. n + 1
    <3>1. CASE k = 0
      <4>1. 0 \in 0 .. n
        BY SMT
      <4> HIDE DEF h
      <4> QED BY <2>2, <3>1, <4>1
    <3>2. CASE k \in 1 .. n
      <4>1. k - 1 \in 0 .. n /\ k \in 0 .. n
        BY <3>2, SMT
      <4> HIDE DEF h
      <4> QED BY <2>2, <3>2, <4>1
    <3>3. CASE k = n + 1
      <4>1. k - 1 = n /\ n \in 0 .. n /\ k # 0
        BY <3>3, SMT
      <4> HIDE DEF h
      <4> QED BY <2>2, <2>3, <3>3, <4>1
    <3> QED BY <3>1, <3>2, <3>3, SMT
  <2>5. h = [k \in 0 .. n + 1 |-> h[k]]
    OBVIOUS
  <2> HIDE DEF h, F
  <2>6. h = [k \in 0 .. n + 1 |-> F(h, k)]
    BY <2>4, <2>5
  <2> QED BY <2>6
<1> HIDE DEF Good
<1>3. Len(rxq) \in Nat
  BY SMT DEF SocketTypeOK
<1>4. Nat \subseteq S
  <2>1. 0 \in S /\ \A n \in Nat : n \in S => n + 1 \in S
    BY <1>1, <1>2, SMT
  <2> HIDE DEF S
  <2> QED BY <2>1, SetInduction
<1>5. Good(Len(rxq))
  BY <1>3, <1>4
<1>6. After = [k \in 0 .. Len(rxq) |-> F(After, k)]
  BY <1>5 DEF After, Good
<1> HIDE DEF F
<1>7. \A k \in 0 .. Len(rxq) : After[k] = F(After, k)
  BY <1>6
<1> QED BY <1>3, <1>7, SMT DEF F

\* Polling the queue opens and closes no socket.
LEMMA PolledKeeps ==
  ASSUME SocketTypeOK, SynFresh
  PROVE  /\ Polled \in [Conns -> Sockets]
         /\ \A c \in Conns : /\ IsOpen(Polled, c) <=> IsOpen(conn, c)
                             /\ IsOpen(conn, c) => Polled[c].fd = conn[c].fd
<1> DEFINE Same(cs) ==
             /\ cs \in [Conns -> Sockets]
             /\ \A c \in Conns : /\ IsOpen(cs, c) <=> IsOpen(conn, c)
                                 /\ IsOpen(conn, c) => cs[c].fd = conn[c].fd
           S == {n \in Nat : n <= Len(rxq) => Same(After[n])}
<1>0. Len(rxq) \in Nat /\ \A i \in 1 .. Len(rxq) : rxq[i] \in Packets
  BY SMT DEF SocketTypeOK
<1>1. Same(After[0])
  BY AfterDefined DEF SocketTypeOK
<1>2. ASSUME NEW n \in Nat, n + 1 <= Len(rxq), Same(After[n]) PROVE Same(After[n + 1])
  <2> DEFINE p == rxq[n + 1]
  <2>1. n + 1 \in 0 .. Len(rxq) /\ n + 1 \in 1 .. Len(rxq) /\ n + 1 # 0 /\ (n + 1) - 1 = n
    BY <1>0, <1>2, SMT
  <2>2. After[n + 1] = Input(After[n], p)
    BY <2>1, AfterDefined
  <2>3. p \in Packets /\ (p.kind = "syn" => ~ IsOpen(conn, p.c))
    BY <1>0, <2>1 DEF SynFresh, IsOpen
  <2> HIDE DEF p
  <2> QED BY <1>2, <2>2, <2>3, InputKeeps, SMT
<1> HIDE DEF Same
<1>3. 0 \in S /\ \A n \in Nat : n \in S => n + 1 \in S
  BY <1>0, <1>1, <1>2, SMT
<1>4. Nat \subseteq S
  <2> HIDE DEF S
  <2> QED BY <1>3, SetInduction
<1>5. Same(Polled)
  BY <1>0, <1>4, SMT DEF Polled
<1> QED BY <1>5 DEF Same

\* What waits in the queue.
LEMMA PacketType ==
  ASSUME SocketTypeOK PROVE \A i \in 1 .. Len(rxq) : rxq[i] \in Packets
  BY SMT DEF SocketTypeOK

\* Closing a socket leaves it closed.
LEMMA ClosedType ==
  ASSUME NEW s \in Sockets
  PROVE  Closed(s) \in Sockets /\ Closed(s).st # "open"
<1> DEFINE st == IF s.rst \/ s.data # "no" THEN "gone" ELSE "zombie"
           t  == [s EXCEPT !.st = st]
<1>1. st \in {"gone", "zombie"} /\ Closed(s) = [t EXCEPT !.ev = FALSE]
  BY DEF Closed, Sockets
<1> HIDE DEF st
<1>2. t \in Sockets /\ t.st = st
  BY <1>1 DEF Sockets
<1> HIDE DEF t
<1>3. [t EXCEPT !.ev = FALSE] \in Sockets /\ [t EXCEPT !.ev = FALSE].st = t.st
  BY <1>2 DEF Sockets
<1> QED BY <1>1, <1>2, <1>3

\* The socket a descriptor names.
LEMMA ConnOfOpen ==
  ASSUME NEW fd, Open(fd) # {}
  PROVE  ConnOf(fd) \in Conns /\ IsOpen(conn, ConnOf(fd)) /\ conn[ConnOf(fd)].fd = fd
<1>1. ConnOf(fd) \in Open(fd)
  BY DEF ConnOf
<1> QED BY <1>1 DEF Open

SameOpen(d) == /\ IsOpen(conn', d) <=> IsOpen(conn, d)
               /\ IsOpen(conn, d) => conn'[d].fd = conn[d].fd
Sending == pc' \in {"send", "again", "sent"}

\* A step that opens and closes no socket, changes no pending response and
\* goes on from where it was.
LEMMA OpenFrame ==
  ASSUME AnswerInv, \A d \in Conns : SameOpen(d), todo' \subseteq todo
  PROVE  /\ FdsDistinct' /\ EventsOpen' /\ EventsDistinct'
         /\ \A fd : Open(fd)' = Open(fd)
<1>1. \A fd : Open(fd)' = Open(fd)
  BY DEF Open, IsOpen, SameOpen
<1>2. FdsDistinct' 
  BY DEF AnswerInv, FdsDistinct, IsOpen, SameOpen
<1>3. EventsOpen' /\ EventsDistinct'
  BY DEF AnswerInv, EventsOpen, EventsDistinct, IsOpen, SameOpen, Listener
<1> QED BY <1>1, <1>2, <1>3

LEMMA QuietStep ==
  ASSUME SocketTypeOK, AnswerInv, UNCHANGED <<conn, rxq, resp_pending, owed>>,
         todo' = todo, ~ Sending, pc' # "retry"
  PROVE  SocketTypeOK' /\ AnswerInv'
<1>1. SocketTypeOK' /\ SynFresh' /\ PendingOpen' /\ OneAnswerEach'
  BY DEF SocketTypeOK, AnswerInv, SynFresh, PendingOpen, OneAnswerEach, Open, IsOpen
<1>2. FdsDistinct' /\ EventsOpen' /\ EventsDistinct'
  BY OpenFrame DEF SameOpen, IsOpen
<1>3. SendingOpen' /\ RetryLast'
  BY DEF SendingOpen, RetryLast, AtSend, Sending
<1> QED BY <1>1, <1>2, <1>3 DEF AnswerInv

\* drop_connection closes the socket and forgets its response.
LEMMA DropStep ==
  ASSUME SocketTypeOK, AnswerInv, NEW fd, Open(fd) # {}, Drop(fd),
         todo' \subseteq todo, rxq' = rxq,
         \A e \in todo' : e = Listener \/ conn[e.c].fd # fd,
         ~ Sending, pc' = "retry" => todo' = {}
  PROVE  SocketTypeOK' /\ AnswerInv'
<1> DEFINE c == ConnOf(fd)
<1>1. c \in Conns /\ IsOpen(conn, c) /\ conn[c].fd = fd
  BY ConnOfOpen
<1> HIDE DEF c
<1>2. /\ conn' = [conn EXCEPT ![c] = Closed(conn[c])]
      /\ resp_pending' = [f \in Tracked |-> IF f = fd THEN 0 ELSE resp_pending[f]]
      /\ owed' = [f \in Tracked |-> IF f = fd THEN 0 ELSE owed[f]]
  BY DEF Drop, c
<1>3. Closed(conn[c]) \in Sockets /\ Closed(conn[c]).st # "open"
  BY <1>1, ClosedType DEF SocketTypeOK
<1>4. SocketTypeOK'
  BY <1>1, <1>2, <1>3 DEF SocketTypeOK
<1>5. ~ IsOpen(conn', c) /\ \A d \in Conns \ {c} : conn'[d] = conn[d]
  BY <1>1, <1>2, <1>3 DEF SocketTypeOK, IsOpen
<1>6. FdsDistinct'
  BY <1>5, SMT DEF AnswerInv, FdsDistinct, IsOpen
<1>7. SynFresh'
  <2> SUFFICES ASSUME NEW i \in 1 .. Len(rxq), rxq[i].kind = "syn"
               PROVE  conn'[rxq[i].c].st = "none"
    BY DEF SynFresh
  <2>1. rxq[i].c \in Conns /\ conn[rxq[i].c].st = "none"
    BY PacketType DEF AnswerInv, SynFresh, Packets
  <2> QED BY <1>1, <1>5, <2>1 DEF IsOpen
<1>8. EventsOpen' /\ EventsDistinct'
  BY <1>1, <1>5 DEF AnswerInv, EventsOpen, EventsDistinct, IsOpen, Listener
<1>9. PendingOpen'
  <2> SUFFICES ASSUME NEW f \in Tracked, resp_pending'[f] # 0 PROVE Open(f)' # {}
    BY DEF PendingOpen
  <2>1. f # fd /\ resp_pending[f] # 0
    BY <1>2
  <2>2. PICK d \in Open(f) : TRUE
    BY <2>1 DEF AnswerInv, PendingOpen
  <2>3. d \in Conns \ {c} /\ IsOpen(conn, d) /\ conn[d].fd = f
    BY <1>1, <2>1, <2>2 DEF Open
  <2>4. d \in Open(f)'
    BY <1>5, <2>3 DEF Open, IsOpen
  <2> QED BY <2>4
<1>10. SendingOpen' /\ RetryLast'
  BY DEF SendingOpen, RetryLast, AtSend, Sending
<1>11. OneAnswerEach'
  BY <1>2 DEF AnswerInv, OneAnswerEach
<1> QED BY <1>4, <1>6, <1>7, <1>8, <1>9, <1>10, <1>11 DEF AnswerInv

\* handle_readable: nothing is pending on a descriptor that is read.
LEMMA ReadableStep ==
  ASSUME SocketTypeOK, AnswerInv, NEW fd, NEW from, Open(fd) # {},
         fd \in Tracked => resp_pending[fd] = 0,
         Readable(fd, from), rxq' = rxq, todo' \subseteq todo,
         \A e \in todo' : e = Listener \/ conn[e.c].fd # fd,
         from # "events" => todo' = {} /\ fd \in Tracked,
         fd \notin Tracked => pc = "events"
  PROVE  SocketTypeOK' /\ AnswerInv'
<1> DEFINE c == ConnOf(fd)
           s == conn[c]
<1>1. c \in Conns /\ IsOpen(conn, c) /\ conn[c].fd = fd /\ s \in Sockets
  BY ConnOfOpen DEF SocketTypeOK
<1>2. RespLen \in Nat /\ SndBuf \in Nat
  BY WorkerAssumption
<1>3. CASE s.data # "no" /\ ~ s.rst /\ fd \in Tracked
  <2>1. /\ conn' = [conn EXCEPT ![c] = [s EXCEPT !.data = "no"]]
        /\ resp_pending' = [resp_pending EXCEPT ![fd] = RespLen]
        /\ owed' = [owed EXCEPT ![fd] = owed[fd] + RespLen]
        /\ pc' = "send" /\ cur'.fd = fd /\ cur'.from = from
    <3>1. /\ conn' = [conn EXCEPT ![c].data = "no"]
          /\ resp_pending' = [resp_pending EXCEPT ![fd] = RespLen]
          /\ owed' = [owed EXCEPT ![fd] = owed[fd] + RespLen]
          /\ pc' = "send" /\ cur' = [fd |-> fd, from |-> from, close |-> s.data = "close"]
      BY <1>3 DEF Readable
    <3> QED BY <3>1
  <2>2. [s EXCEPT !.data = "no"] \in Sockets /\ [s EXCEPT !.data = "no"].st = s.st
        /\ [s EXCEPT !.data = "no"].fd = s.fd
    BY <1>1 DEF Sockets
  <2> HIDE DEF c, s
  <2>3. SocketTypeOK'
    BY <1>1, <1>2, <1>3, <2>1, <2>2, SMT DEF SocketTypeOK
  <2>4. \A d \in Conns : SameOpen(d) /\ conn'[d].st = conn[d].st /\ conn'[d].fd = conn[d].fd
    BY <1>1, <2>1, <2>2 DEF SocketTypeOK, SameOpen, IsOpen, s
  <2>5. FdsDistinct' /\ EventsOpen' /\ EventsDistinct' /\ \A f : Open(f)' = Open(f)
    BY <2>4, OpenFrame
  <2>6. SynFresh'
    BY <2>4, PacketType DEF AnswerInv, SynFresh, Packets
  <2>7. PendingOpen'
    BY <2>1, <2>5 DEF AnswerInv, PendingOpen, SocketTypeOK
  <2>8. SendingOpen' /\ RetryLast'
    BY <1>3, <2>1, <2>4, <2>5 DEF SendingOpen, RetryLast, AtSend, AnswerInv,
       EventsOpen,
       Listener
  <2>9. OneAnswerEach'
    BY <1>2, <1>3, <2>1, SMT DEF AnswerInv, OneAnswerEach, SocketTypeOK
  <2> QED BY <2>3, <2>5, <2>6, <2>7, <2>8, <2>9 DEF AnswerInv
<1>4. CASE s.data # "no" /\ ~ s.rst /\ fd \notin Tracked
  <2> DEFINE n == IF RespLen < SndBuf - s.unacked THEN RespLen ELSE SndBuf - s.unacked
             r == [s EXCEPT !.data = "no"]
             t == [r EXCEPT !.unacked = s.unacked + n]
             u == IF s.data = "close" THEN Closed(t) ELSE t
  <2>1. /\ conn' = [conn EXCEPT ![c] = u] /\ pc' = "events"
        /\ UNCHANGED <<resp_pending, owed>>
    <3>1. [s EXCEPT !.data = "no", !.unacked = s.unacked + n] = t
      BY <1>1 DEF Sockets
    <3> HIDE DEF n, t
    <3> QED BY <1>4, <3>1 DEF Readable, Drop, n
  <2>2. n \in Int
    BY <1>1, <1>2, SMT DEF Sockets
  <2> HIDE DEF n
  <2>3. r \in Sockets /\ r.st = s.st /\ r.fd = s.fd
    BY <1>1 DEF Sockets
  <2>4. s.unacked + n \in Int
    BY <1>1, <2>2, SMT DEF Sockets
  <2> HIDE DEF r
  <2>5. t \in Sockets /\ t.st = r.st /\ t.fd = r.fd
    BY <2>3, <2>4 DEF Sockets
  <2> HIDE DEF t
  <2>6. u \in Sockets /\ (u.st = "open" => u.st = s.st /\ u.fd = s.fd)
    BY <2>3, <2>5, ClosedType
  <2> HIDE DEF c, s, u
  <2>7. SocketTypeOK'
    BY <1>1, <2>1, <2>6 DEF SocketTypeOK
  <2>8. /\ \A d \in Conns \ {c} : conn'[d] = conn[d]
        /\ IsOpen(conn', c) => conn'[c].fd = conn[c].fd
    BY <1>1, <2>1, <2>6 DEF SocketTypeOK, IsOpen, s
  <2>9. FdsDistinct'
    BY <1>1, <2>8, SMT DEF AnswerInv, FdsDistinct, IsOpen
  <2>10. SynFresh'
    <3> SUFFICES ASSUME NEW i \in 1 .. Len(rxq), rxq[i].kind = "syn"
                 PROVE  conn'[rxq[i].c].st = "none"
      BY DEF SynFresh
    <3>1. rxq[i].c \in Conns /\ conn[rxq[i].c].st = "none"
      BY PacketType DEF AnswerInv, SynFresh, Packets
    <3> QED BY <1>1, <2>8, <3>1 DEF IsOpen
  <2>11. EventsOpen' /\ EventsDistinct'
    BY <1>1, <2>8 DEF AnswerInv, EventsOpen, EventsDistinct, IsOpen, Listener
  <2>12. PendingOpen'
    <3> SUFFICES ASSUME NEW f \in Tracked, resp_pending[f] # 0 PROVE Open(f)' # {}
      BY <2>1 DEF PendingOpen
    <3>1. PICK d \in Open(f) : TRUE
      BY DEF AnswerInv, PendingOpen
    <3>2. d \in Conns \ {c} /\ IsOpen(conn, d) /\ conn[d].fd = f
      BY <1>1, <1>4, <3>1 DEF Open
    <3>3. d \in Open(f)'
      BY <2>8, <3>2 DEF Open, IsOpen
    <3> QED BY <3>3
  <2>13. SendingOpen' /\ RetryLast' /\ OneAnswerEach'
    BY <2>1 DEF SendingOpen, RetryLast, AtSend, AnswerInv, OneAnswerEach
  <2> QED BY <2>7, <2>9, <2>10, <2>11, <2>12, <2>13 DEF AnswerInv
<1>5. CASE s.rst \/ (s.data = "no" /\ s.fin)
  <2>1. Drop(fd) /\ Continue(fd, from)
    BY <1>5 DEF Readable
  <2> HIDE DEF c, s
  <2>2. ~ Sending /\ (pc' = "retry" => todo' = {})
    BY <2>1 DEF Continue, Sending
  <2> QED BY <2>1, <2>2, DropStep
<1>6. CASE s.data = "no" /\ ~ s.rst /\ ~ s.fin
  <2>1. /\ UNCHANGED <<conn, resp_pending, owed>>
        /\ ~ Sending /\ (pc' = "retry" => todo' = {})
    BY <1>6 DEF Readable, Drop, Continue, Sending
  <2> HIDE DEF c, s
  <2>2. FdsDistinct' /\ EventsOpen' /\ EventsDistinct' /\ \A f : Open(f)' = Open(f)
    BY <2>1, OpenFrame DEF SameOpen
  <2>3. SocketTypeOK' /\ SynFresh' /\ PendingOpen' /\ OneAnswerEach'
    BY <2>1, <2>2 DEF SocketTypeOK, AnswerInv, SynFresh, PendingOpen, OneAnswerEach
  <2>4. SendingOpen' /\ RetryLast'
    BY <2>1 DEF SendingOpen, RetryLast, AtSend, Sending
  <2> QED BY <2>2, <2>3, <2>4 DEF AnswerInv
<1>7. \/ s.data # "no" /\ ~ s.rst /\ fd \in Tracked
      \/ s.data # "no" /\ ~ s.rst /\ fd \notin Tracked
      \/ s.rst \/ (s.data = "no" /\ s.fin)
      \/ s.data = "no" /\ ~ s.rst /\ ~ s.fin
  BY DEF Readable
<1> QED BY <1>3, <1>4, <1>5, <1>6, <1>7

\* A step that keeps the sockets open, and the requests for a connection.
LEMMA SocketsStep ==
  ASSUME SocketTypeOK, AnswerInv, SocketTypeOK', \A d \in Conns : SameOpen(d),
         todo' = todo, OneAnswerEach', SynFresh',
         \A fd \in Tracked : resp_pending'[fd] # 0 => resp_pending[fd] # 0,
         Sending => AtSend /\ cur' = cur, pc' # "retry"
  PROVE  AnswerInv'
<1>1. FdsDistinct' /\ EventsOpen' /\ EventsDistinct' /\ \A f : Open(f)' = Open(f)
  BY OpenFrame
<1>2. PendingOpen'
  BY <1>1 DEF AnswerInv, PendingOpen
<1>3. SendingOpen'
  <2> SUFFICES ASSUME Sending PROVE /\ cur.fd \in Tracked /\ Open(cur.fd) # {}
                 /\ \A e \in todo : e = Listener \/ conn'[e.c].fd # cur.fd
    BY <1>1 DEF SendingOpen, AtSend, Sending, Listener
  <2>1. /\ cur.fd \in Tracked /\ Open(cur.fd) # {}
        /\ \A e \in todo : e = Listener \/ conn[e.c].fd # cur.fd
    BY DEF AnswerInv, SendingOpen
  <2>2. \A e \in todo : e = Listener \/ conn'[e.c].fd = conn[e.c].fd
    BY DEF AnswerInv, EventsOpen, SameOpen
  <2> QED BY <2>1, <2>2
<1>4. RetryLast'
  BY DEF AnswerInv, RetryLast, AtSend, Sending
<1> QED BY <1>1, <1>2, <1>3, <1>4 DEF AnswerInv

\* The socket takes no more of the response than is left of it.
LEMMA SendOnStep ==
  ASSUME SocketTypeOK, AnswerInv, AtSend, NEW cs \in [Conns -> Sockets],
         \A c \in Conns : /\ IsOpen(cs, c) <=> IsOpen(conn, c)
                          /\ IsOpen(conn, c) => cs[c].fd = conn[c].fd,
         SendOn(cs), todo' = todo, Sending, cur' = cur, rxq' \in Seq(Packets),
         \A i \in 1 .. Len(rxq') : rxq'[i].kind = "syn" => cs[rxq'[i].c].st = "none"
  PROVE  SocketTypeOK' /\ AnswerInv'
<1> DEFINE fd == cur.fd
           c == ConnOf(fd)
           n == Taken(cs[c])
<1>1. fd \in Tracked /\ c \in Conns /\ IsOpen(conn, c)
  BY ConnOfOpen DEF AnswerInv, SendingOpen
<1>2. cs[c] \in Sockets /\ resp_pending[fd] \in Nat
  BY <1>1 DEF SocketTypeOK
<1>3. Room(cs[c]) \in Int
  BY <1>2, WorkerAssumption, SMT DEF Room, Sockets
<1>4. n \in Int /\ n <= resp_pending[fd]
  BY <1>2, <1>3, SMT DEF Taken
<1>5. /\ conn' = [cs EXCEPT ![c] = [cs[c] EXCEPT !.unacked = cs[c].unacked + n]]
      /\ resp_pending' = [resp_pending EXCEPT ![fd] = resp_pending[fd] - n]
      /\ owed' = [owed EXCEPT ![fd] = owed[fd] - n]
  BY DEF SendOn
<1> HIDE DEF n, c, fd
<1> DEFINE t == [cs[c] EXCEPT !.unacked = cs[c].unacked + n]
<1>6. t \in Sockets /\ t.st = cs[c].st /\ t.fd = cs[c].fd
  <2>1. cs[c].unacked + n \in Int
    BY <1>2, <1>4, SMT DEF Sockets
  <2> QED BY <1>2, <2>1 DEF Sockets
<1> HIDE DEF t
<1>7. owed[fd] = resp_pending[fd] /\ resp_pending[fd] - n \in Nat
  BY <1>1, <1>2, <1>4, SMT DEF AnswerInv, OneAnswerEach
<1>8. SocketTypeOK'
  BY <1>1, <1>5, <1>6, <1>7 DEF SocketTypeOK, t
<1>9. OneAnswerEach'
  BY <1>1, <1>5, <1>7 DEF AnswerInv, OneAnswerEach, SocketTypeOK
<1>10. \A d \in Conns : conn'[d].st = cs[d].st /\ conn'[d].fd = cs[d].fd
  BY <1>1, <1>5, <1>6 DEF t
<1>11. \A d \in Conns : SameOpen(d)
  BY <1>10 DEF SameOpen, IsOpen
<1>12. SynFresh'
  <2>1. \A i \in 1 .. Len(rxq') : rxq'[i] \in Packets
    BY SMT
  <2> QED BY <1>10, <2>1 DEF SynFresh, Packets
<1>13. PendingOpen'
  <2>1. \A f : Open(f)' = Open(f)
    BY <1>11, OpenFrame
  <2> QED BY <1>1, <1>5, <2>1 DEF AnswerInv, PendingOpen, SendingOpen, SocketTypeOK,
             fd
<1>14. FdsDistinct' /\ EventsOpen' /\ EventsDistinct' /\ \A f : Open(f)' = Open(f)
  BY <1>11, OpenFrame
<1>15. SendingOpen'
  <2>1. \A e \in todo : e = Listener \/ conn'[e.c].fd = conn[e.c].fd
    BY <1>11 DEF AnswerInv, EventsOpen, SameOpen
  <2> QED BY <1>14, <2>1 DEF AnswerInv, SendingOpen, AtSend, Listener
<1>16. RetryLast'
  BY DEF AnswerInv, RetryLast, AtSend, Sending
<1> QED BY <1>8, <1>9, <1>12, <1>13, <1>14, <1>15, <1>16 DEF AnswerInv

\* Packets of the clients open and close nothing until they are polled.
LEMMA NetworkAnswer ==
  ASSUME SocketTypeOK, AnswerInv, Network PROVE SocketTypeOK' /\ AnswerInv'
<1> PICK c \in Conns : Connect(c) \/ Ack(c)
                       \/ \E kind \in {"keep", "close", "fin", "rst"} : Talk(c, kind)
  BY DEF Network
<1>1. ASSUME NEW kind \in Kinds, Arrive(c, kind), conn' \in [Conns -> Sockets],
             \A d \in Conns : conn'[d].st = conn[d].st /\ conn'[d].fd = conn[d].fd,
             kind = "syn" => conn[c].st = "none"
      PROVE  SocketTypeOK' /\ AnswerInv'
  <2> DEFINE p == [c |-> c, kind |-> kind]
  <2>1. p \in Packets /\ p.kind = kind /\ p.c = c
    BY <1>1 DEF Packets
  <2>2. rxq' = Append(rxq, p) /\ UNCHANGED <<resp_pending, owed, todo, cur, pc>>
    BY <1>1 DEF Arrive
  <2> HIDE DEF p
  <2>3. /\ rxq' \in Seq(Packets)
        /\ \A i \in 1 .. Len(rxq') :
             (i \in 1 .. Len(rxq) /\ rxq'[i] = rxq[i]) \/ rxq'[i] = p
    <3>1. rxq \in Seq(Packets) /\ p \in Packets /\ rxq' = Append(rxq, p)
      BY <2>1, <2>2 DEF SocketTypeOK
    <3> QED BY <3>1, SMT
  <2>4. SocketTypeOK'
    BY <1>1, <2>2, <2>3 DEF SocketTypeOK
  <2>5. SynFresh'
    BY <1>1, <2>1, <2>3, PacketType, SMT DEF AnswerInv, SynFresh, Packets
  <2>6. OneAnswerEach' /\ \A d \in Conns : SameOpen(d)
    BY <1>1, <2>2 DEF AnswerInv, OneAnswerEach, SameOpen, IsOpen
  <2>7. CASE pc # "retry"
    BY <2>2, <2>4, <2>5, <2>6, <2>7, SocketsStep DEF Sending, AtSend
  <2>8. CASE pc = "retry"
    <3>1. FdsDistinct' /\ EventsOpen' /\ EventsDistinct' /\ \A f : Open(f)' = Open(f)
      BY <2>2, <2>6, OpenFrame
    <3> QED BY <2>2, <2>4, <2>5, <2>6, <2>8, <3>1
            DEF AnswerInv, PendingOpen, SendingOpen, RetryLast, AtSend
  <2> QED BY <2>7, <2>8
<1>2. CASE Connect(c)
  BY <1>1, <1>2 DEF Connect, SocketTypeOK, Kinds
<1>3. CASE Ack(c)
  BY <1>1, <1>3 DEF Ack, SocketTypeOK, Kinds
<1>4. ASSUME NEW kind \in {"keep", "close", "fin", "rst"}, Talk(c, kind)
      PROVE  SocketTypeOK' /\ AnswerInv'
  <2> DEFINE l == kind \in {"fin", "rst"}
             s == conn[c]
             t == [s EXCEPT !.left = l]
  <2>1. Arrive(c, kind) /\ conn' = [conn EXCEPT ![c] = t]
    BY <1>4 DEF Talk
  <2>2. s \in Sockets /\ l \in BOOLEAN
    BY SMT DEF SocketTypeOK
  <2> HIDE DEF l, s
  <2>3. t \in Sockets /\ t.st = s.st /\ t.fd = s.fd
    BY <2>2 DEF Sockets
  <2> HIDE DEF t
  <2>4. /\ conn' \in [Conns -> Sockets]
        /\ \A d \in Conns : conn'[d].st = conn[d].st /\ conn'[d].fd = conn[d].fd
    BY <2>1, <2>3 DEF SocketTypeOK, s
  <2> QED BY <1>1, <2>1, <2>4 DEF Kinds
<1> QED BY <1>2, <1>3, <1>4

\* epoll_wait reports open sockets, each once.
LEMMA EpollAnswer ==
  ASSUME SocketTypeOK, AnswerInv, EpollWait PROVE SocketTypeOK' /\ AnswerInv'
<1>1. /\ conn' = [c \in Conns |-> [conn[c] EXCEPT !.ev = conn[c].ev /\ ~IsOpen(conn, c)]]
      /\ UNCHANGED <<rxq, resp_pending, owed>> /\ pc' = "events"
  BY DEF EpollWait
<1>2. PICK cs \in SUBSET Conns, l \in SUBSET {Listener} :
        /\ \A c \in cs : IsOpen(conn, c)
        /\ todo' = {Event(c) : c \in cs} \cup l
  BY DEF EpollWait, Ready
<1>3. ASSUME NEW c \in Conns
      PROVE  conn'[c] \in Sockets /\ conn'[c].st = conn[c].st /\ conn'[c].fd = conn[c].fd
  <2> DEFINE s == conn[c]
             b == s.ev /\ ~IsOpen(conn, c)
  <2>1. s \in Sockets /\ b \in BOOLEAN /\ conn'[c] = [s EXCEPT !.ev = b]
    BY <1>1 DEF SocketTypeOK, Sockets
  <2> HIDE DEF s, b
  <2>2. conn'[c] \in Sockets /\ conn'[c].st = s.st /\ conn'[c].fd = s.fd
    BY <2>1 DEF Sockets
  <2> QED BY <2>2 DEF s
<1>4. SocketTypeOK'
  <2>1. conn' = [c \in Conns |-> conn'[c]]
    BY <1>1
  <2> QED BY <1>1, <1>3, <2>1 DEF SocketTypeOK
<1>5. FdsDistinct' /\ \A fd : Open(fd)' = Open(fd)
  BY <1>3, SMT DEF AnswerInv, FdsDistinct, Open, IsOpen
<1>6. SynFresh' /\ PendingOpen' /\ OneAnswerEach'
  BY <1>1, <1>3, <1>5, PacketType, SMT
     DEF AnswerInv, SynFresh, PendingOpen, OneAnswerEach, Packets
<1>7. \A e \in todo' : \/ e = Listener
                       \/ \E c \in cs : e = [c |-> c, hup |-> e.hup] /\ e.c = c
  BY <1>2, SMT DEF Event
<1>8. EventsOpen'
  BY <1>2, <1>3, <1>7, SMT DEF EventsOpen, IsOpen, Listener
<1>9. EventsDistinct'
  <2>1. \A c \in cs : c # 0 /\ Event(c).c = c
    BY WorkerAssumption DEF Event
  <2>2. Listener.c = 0
    BY DEF Listener
  <2>3. \A e \in todo' : e = Listener \/ \E c \in cs : e = Event(c)
    BY <1>2
  <2> HIDE DEF Event
  <2> QED BY <2>1, <2>2, <2>3, SMT DEF EventsDistinct
<1>10. SendingOpen' /\ RetryLast'
  BY <1>1 DEF SendingOpen, RetryLast, AtSend
<1> QED BY <1>4, <1>5, <1>6, <1>8, <1>9, <1>10 DEF AnswerInv

\* What accept() makes of a socket.
LEMMA OpenedType ==
  ASSUME NEW s \in Sockets, NEW n \in Nat
  PROVE  Opened(s, n) \in Sockets /\ Opened(s, n).st = "open" /\ Opened(s, n).fd = n
<1> DEFINE t == [s EXCEPT !.st = "open"]
           u == [t EXCEPT !.fd = n]
<1>1. Opened(s, n) = u
  BY DEF Sockets, Opened
<1>2. t \in Sockets /\ t.st = "open"
  BY DEF Sockets
<1> HIDE DEF t
<1>3. u \in Sockets /\ u.st = t.st /\ u.fd = n
  BY <1>2 DEF Sockets
<1> QED BY <1>1, <1>2, <1>3

\* accept gives every client that waits a descriptor that is not in use.
LEMMA AcceptAnswer ==
  ASSUME SocketTypeOK, AnswerInv, Accept PROVE SocketTypeOK' /\ AnswerInv'
<1>1. PICK taken \in SUBSET Backlog, failed \in SUBSET Backlog :
        \E fd \in [taken -> Fds \ Used] : Given(taken, failed, fd)
  BY DEF Accept
<1>2. PICK fd \in [taken -> Fds \ Used] : Given(taken, failed, fd)
  BY <1>1
<1>3. /\ \A c, d \in taken : c # d => fd[c] # fd[d]
      /\ conn' = [c \in Conns |-> conn'[c]]
      /\ \A c \in Conns :
           conn'[c] = IF c \in taken THEN Opened(conn[c], fd[c])
                      ELSE IF c \in failed THEN Closed(conn[c]) ELSE conn[c]
  BY <1>2 DEF Given
<1>4. /\ taken \subseteq Conns /\ \A c \in taken \cup failed : conn[c].st = "backlog"
      /\ \A c \in taken : fd[c] \in Nat /\ fd[c] \notin Used
      /\ \A c \in Conns : conn[c] \in Sockets
  BY WorkerAssumption DEF Backlog, SocketTypeOK
<1>5. todo' = todo \ {Listener} /\ UNCHANGED <<rxq, resp_pending, owed, pc, cur>> /\ pc = "events"
  BY DEF Accept, At
<1>6. ASSUME NEW c \in taken
      PROVE  /\ conn'[c] \in Sockets /\ conn'[c].st = "open"
             /\ conn'[c].fd = fd[c] /\ fd[c] \notin Used
  BY <1>3, <1>4, OpenedType, SMT
<1>7. ASSUME NEW c \in Conns \ taken
      PROVE  /\ conn'[c] \in Sockets
             /\ conn'[c] = conn[c] \/ (conn'[c].st # "open" /\ conn[c].st = "backlog")
  BY <1>3, <1>4, ClosedType
<1>8. \A c \in taken : conn[c].st = "backlog" /\ c \in Conns
  BY <1>4
<1>9. SocketTypeOK'
  <2>1. \A c \in Conns : conn'[c] \in Sockets
    BY <1>6, <1>7
  <2> QED BY <1>3, <1>5, <2>1 DEF SocketTypeOK
<1>10. \A c \in Conns : IsOpen(conn, c) =>
        c \notin taken /\ conn'[c] = conn[c] /\ conn[c].fd \in Used
  BY <1>7, <1>8 DEF IsOpen, Used
<1>11. \A c \in Conns : IsOpen(conn', c) => c \in taken \/ (IsOpen(conn, c) /\ conn'[c] = conn[c])
  BY <1>7 DEF IsOpen
<1>12. FdsDistinct'
  <2> SUFFICES ASSUME NEW c \in Conns, NEW d \in Conns, c # d,
                      IsOpen(conn', c), IsOpen(conn', d)
               PROVE  conn'[c].fd # conn'[d].fd
    BY DEF FdsDistinct, IsOpen
  <2>1. CASE c \in taken /\ d \in taken
    <3>1. fd[c] # fd[d]
      BY <1>3, <2>1
    <3> QED BY <1>6, <2>1, <3>1
  <2>2. CASE c \notin taken /\ d \in taken
    BY <1>6, <1>10, <1>11, <2>2
  <2>3. CASE c \in taken /\ d \notin taken
    BY <1>6, <1>10, <1>11, <2>3
  <2>4. CASE c \notin taken /\ d \notin taken
    BY <1>10, <1>11, <2>4 DEF AnswerInv, FdsDistinct
  <2> QED BY <2>1, <2>2, <2>3, <2>4
<1>13. SynFresh'
  <2> SUFFICES ASSUME NEW i \in 1 .. Len(rxq), rxq[i].kind = "syn"
               PROVE  conn'[rxq[i].c].st = "none"
    BY <1>5 DEF SynFresh
  <2>1. rxq[i].c \in Conns /\ conn[rxq[i].c].st = "none"
    BY PacketType DEF AnswerInv, SynFresh, Packets
  <2> QED BY <1>7, <1>8, <2>1
<1>14. EventsOpen' /\ EventsDistinct'
  BY <1>5, <1>10 DEF AnswerInv, EventsOpen, EventsDistinct, IsOpen, Listener
<1>15. PendingOpen'
  <2> SUFFICES ASSUME NEW f \in Tracked, resp_pending[f] # 0 PROVE Open(f)' # {}
    BY <1>5 DEF PendingOpen
  <2>1. PICK d \in Open(f) : TRUE
    BY DEF AnswerInv, PendingOpen
  <2>2. d \in Conns /\ IsOpen(conn, d) /\ conn[d].fd = f
    BY <2>1 DEF Open
  <2>3. d \in Open(f)'
    BY <1>10, <2>2 DEF Open, IsOpen
  <2> QED BY <2>3
<1>16. SendingOpen' /\ RetryLast' /\ OneAnswerEach'
  BY <1>5 DEF SendingOpen, RetryLast, AtSend, AnswerInv, OneAnswerEach
<1> QED BY <1>9, <1>12, <1>13, <1>14, <1>15, <1>16 DEF AnswerInv

\* The event of a connection.
LEMMA HandleAnswer ==
  ASSUME SocketTypeOK, AnswerInv, NEW e \in todo, Handle(e)
  PROVE  SocketTypeOK' /\ AnswerInv'
<1> DEFINE fd == conn[e.c].fd
<1>1. /\ pc = "events" /\ e # Listener /\ todo' = todo \ {e} /\ rxq' = rxq
      /\ \/ Drop(fd) /\ UNCHANGED <<pc, cur>>
         \/ UNCHANGED <<conn, resp_pending, owed, pc, cur>>
         \/ ~ HoldsBack(fd) /\ Readable(fd, "events")
  BY DEF Handle, At
<1>2. e.c \in Conns /\ IsOpen(conn, e.c)
  BY <1>1 DEF AnswerInv, EventsOpen
<1>3. Open(fd) # {}
  BY <1>2 DEF Open
<1>4. \A f \in todo' : f = Listener \/ conn[f.c].fd # fd
  <2> SUFFICES ASSUME NEW f \in todo, f # e, f # Listener PROVE conn[f.c].fd # fd
    BY <1>1
  <2>1. f.c \in Conns /\ IsOpen(conn, f.c) /\ f.c # e.c
    BY DEF AnswerInv, EventsOpen, EventsDistinct
  <2> QED BY <1>2, <2>1 DEF AnswerInv, FdsDistinct
<1> HIDE DEF fd
<1>5. CASE Drop(fd) /\ UNCHANGED <<pc, cur>>
  BY <1>1, <1>3, <1>4, <1>5, DropStep DEF Sending
<1>6. CASE UNCHANGED <<conn, resp_pending, owed, pc, cur>>
  <2>1. FdsDistinct' /\ EventsOpen' /\ EventsDistinct' /\ \A f : Open(f)' = Open(f)
    BY <1>1, <1>6, OpenFrame DEF SameOpen
  <2> QED BY <1>1, <1>6, <2>1 DEF SocketTypeOK, AnswerInv, SynFresh, PendingOpen,
             OneAnswerEach, SendingOpen, RetryLast, AtSend
<1>7. CASE ~ HoldsBack(fd) /\ Readable(fd, "events")
  <2>1. fd \in Tracked => resp_pending[fd] = 0
    BY <1>7, SMT DEF HoldsBack, SocketTypeOK
  <2> QED BY <1>1, <1>3, <1>4, <1>7, <2>1, ReadableStep
<1> QED BY <1>1, <1>5, <1>6, <1>7

\* send_pending_response
LEMMA SendAnswer ==
  ASSUME SocketTypeOK, AnswerInv, Send \/ SendAgain \/ SendDone
  PROVE  SocketTypeOK' /\ AnswerInv'
<1>0. /\ AtSend /\ Open(cur.fd) # {} /\ cur.fd \in Tracked /\ todo' = todo
      /\ \A e \in todo : e = Listener \/ conn[e.c].fd # cur.fd
      /\ cur.from # "events" => todo = {}
  BY DEF Send, SendAgain, SendDone, At, AtSend, AnswerInv, SendingOpen, RetryLast
<1>1. \A from : Continue(cur.fd, from) =>
        ~ Sending /\ (pc' = "retry" => from # "events")
  BY DEF Continue, Sending
<1>2. CASE Send
  <2>1. /\ rxq' = rxq /\ pc = "send"
        /\ \/ SendOn(conn) /\ UNCHANGED <<pc, cur>>
           \/ Drop(cur.fd) /\ Continue(cur.fd, cur.from)
           \/ pc' = "again" /\ UNCHANGED <<conn, resp_pending, owed, cur>>
    BY <1>2, ZenonT(30) DEF Send, At
  <2>2. CASE SendOn(conn) /\ UNCHANGED <<pc, cur>>
    <3>1. \A i \in 1 .. Len(rxq') : rxq'[i].kind = "syn" => conn[rxq'[i].c].st = "none"
      BY <2>1 DEF AnswerInv, SynFresh
    <3> QED BY <1>0, <2>1, <2>2, <3>1, SendOnStep, ZenonT(30) DEF SocketTypeOK, Sending
  <2>3. CASE Drop(cur.fd) /\ Continue(cur.fd, cur.from)
    BY <1>0, <1>1, <2>1, <2>3, DropStep
  <2>4. CASE pc' = "again" /\ UNCHANGED <<conn, resp_pending, owed, cur>>
    <3>1. SocketTypeOK' /\ SynFresh' /\ OneAnswerEach' /\ \A d \in Conns : SameOpen(d)
      BY <2>1, <2>4 DEF SocketTypeOK, AnswerInv, SynFresh, OneAnswerEach, SameOpen
    <3> QED BY <1>0, <2>1, <2>4, <3>1, SocketsStep DEF Sending
  <2> QED BY <2>1, <2>2, <2>3, <2>4
<1>3. CASE SendAgain
  <2>1. /\ rxq' = <<>> /\ SendOn(Polled) /\ cur' = cur /\ pc' \in {"send", "sent"}
    BY <1>3 DEF SendAgain, PollStack
  <2>2. /\ Polled \in [Conns -> Sockets]
        /\ \A c \in Conns : /\ IsOpen(Polled, c) <=> IsOpen(conn, c)
                            /\ IsOpen(conn, c) => Polled[c].fd = conn[c].fd
    BY PolledKeeps DEF AnswerInv
  <2>3. rxq' \in Seq(Packets) /\ 1 .. Len(rxq') = {}
    BY <2>1, SMT
  <2> QED BY <1>0, <2>1, <2>2, <2>3, SendOnStep DEF Sending
<1>4. CASE SendDone
  <2>1. /\ rxq' = rxq
        /\ \/ Drop(cur.fd) /\ Continue(cur.fd, cur.from)
           \/ cur.from = "retry" /\ resp_pending[cur.fd] = 0 /\ Readable(cur.fd, "drain")
           \/ Continue(cur.fd, cur.from) /\ UNCHANGED <<conn, resp_pending, owed>>
    BY <1>4 DEF SendDone, Drains
  <2>2. CASE Drop(cur.fd) /\ Continue(cur.fd, cur.from)
    BY <1>0, <1>1, <2>1, <2>2, DropStep
  <2>3. CASE cur.from = "retry" /\ resp_pending[cur.fd] = 0 /\ Readable(cur.fd, "drain")
    BY <1>0, <2>1, <2>3, ReadableStep
  <2>4. CASE Continue(cur.fd, cur.from) /\ UNCHANGED <<conn, resp_pending, owed>>
    <3>1. FdsDistinct' /\ EventsOpen' /\ EventsDistinct' /\ \A f : Open(f)' = Open(f)
      BY <1>0, <2>4, OpenFrame DEF SameOpen
    <3>2. SocketTypeOK' /\ SynFresh' /\ PendingOpen' /\ OneAnswerEach'
      BY <2>1, <2>4, <3>1 DEF SocketTypeOK, AnswerInv, SynFresh, PendingOpen,
         OneAnswerEach
    <3>3. SendingOpen' /\ RetryLast'
      BY <1>0, <1>1, <2>4 DEF SendingOpen, RetryLast, AtSend, Sending
    <3> QED BY <3>1, <3>2, <3>3 DEF AnswerInv
  <2> QED BY <2>1, <2>2, <2>3, <2>4
<1> QED BY <1>2, <1>3, <1>4

\* The retry loop finds open sockets only.
LEMMA RetryAnswer ==
  ASSUME SocketTypeOK, AnswerInv, Retry PROVE SocketTypeOK' /\ AnswerInv'
<1>1. /\ UNCHANGED <<conn, rxq, resp_pending, owed, todo>> /\ todo = {}
      /\ \/ pc' = "tick"
         \/ pc' = "send" /\ cur'.fd \in Tracked /\ resp_pending[cur'.fd] > 0
  BY SMT DEF Retry, At, AnswerInv, RetryLast
<1>2. FdsDistinct' /\ EventsOpen' /\ EventsDistinct' /\ \A f : Open(f)' = Open(f)
  BY <1>1, OpenFrame DEF SameOpen
<1>3. SocketTypeOK' /\ SynFresh' /\ PendingOpen' /\ OneAnswerEach'
  BY <1>1, <1>2 DEF SocketTypeOK, AnswerInv, SynFresh, PendingOpen, OneAnswerEach
<1>4. pc' = "send" => Open(cur'.fd) # {}
  <2> SUFFICES ASSUME NEW fd \in Tracked, resp_pending[fd] > 0 PROVE Open(fd) # {}
    BY <1>1
  <2>1. resp_pending[fd] # 0
    BY SMT DEF SocketTypeOK
  <2> QED BY <2>1 DEF AnswerInv, PendingOpen
<1>5. SendingOpen' /\ RetryLast'
  BY <1>1, <1>2, <1>4 DEF SendingOpen, RetryLast, AtSend
<1> QED BY <1>2, <1>3, <1>5 DEF AnswerInv

\* drive_core_stack
LEMMA DriveAnswer ==
  ASSUME SocketTypeOK, AnswerInv, Drive PROVE SocketTypeOK' /\ AnswerInv'
<1>1. /\ conn' = Polled /\ rxq' = <<>> /\ UNCHANGED <<resp_pending, owed, todo>>
      /\ pc' = "epoll"
  BY DEF Drive, PollStack
<1>2. SocketTypeOK' /\ \A d \in Conns : SameOpen(d)
  BY <1>1, PolledKeeps, SMT DEF AnswerInv, SocketTypeOK, SameOpen
<1>3. SynFresh' /\ OneAnswerEach'
  BY <1>1, SMT DEF SynFresh, AnswerInv, OneAnswerEach
<1> QED BY <1>1, <1>2, <1>3, SocketsStep DEF Sending

\* No client and no connection at first.
LEMMA AnswerInit == Init => SocketTypeOK /\ AnswerInv
<1> SUFFICES ASSUME Init PROVE SocketTypeOK /\ AnswerInv
  OBVIOUS
<1>1. NoConn \in Sockets /\ NoConn.st = "none"
  BY SMT DEF NoConn, Sockets
<1>2. SocketTypeOK
  BY <1>1, SMT DEF Init, SocketTypeOK
<1> QED BY <1>1, <1>2, SMT DEF Init, AnswerInv, FdsDistinct, SynFresh, EventsOpen,
           EventsDistinct, PendingOpen, SendingOpen, RetryLast, AtSend,
           OneAnswerEach, IsOpen

\* The invariant holds in every reachable state.
LEMMA AnswerInvariant == Spec => [](SocketTypeOK /\ AnswerInv)
<1>1. SocketTypeOK /\ AnswerInv /\ [Next]_vars => (SocketTypeOK /\ AnswerInv)'
  <2> SUFFICES ASSUME SocketTypeOK, AnswerInv, [Next]_vars
               PROVE  SocketTypeOK' /\ AnswerInv'
    OBVIOUS
  <2>1. CASE UNCHANGED workerVars
    BY <2>1, SMT DEF workerVars, SocketTypeOK, AnswerInv, FdsDistinct, SynFresh,
       EventsOpen, EventsDistinct, PendingOpen, SendingOpen, RetryLast, AtSend,
       OneAnswerEach, IsOpen, Open, Listener
  <2>2. CASE (Interrupt /\ pc = "halt") \/ Start \/ Tick \/ Rearm \/ DisableIrq \/ Timer
    <3>1. /\ UNCHANGED <<conn, rxq, resp_pending, owed, todo>>
          /\ pc' \in {"drive", "rearm", "cli", "halt"}
      BY <2>2 DEF Interrupt, Start, Tick, Rearm, DisableIrq, Timer
    <3> QED BY <3>1, QuietStep DEF Sending
  <2>3. CASE Interrupt /\ pc # "halt"
    <3>1. UNCHANGED <<conn, rxq, resp_pending, owed, todo, pc, cur>>
      BY <2>3 DEF Interrupt
    <3> QED BY <3>1, SMT DEF SocketTypeOK, AnswerInv, FdsDistinct, SynFresh,
       EventsOpen, EventsDistinct, PendingOpen, SendingOpen, RetryLast, AtSend,
       OneAnswerEach, IsOpen, Open, Listener
  <2>4. CASE \E e \in todo : Handle(e)
    BY <2>4, HandleAnswer
  <2>5. CASE EpollWait \/ Accept \/ Retry \/ Drive \/ Network \/ Send \/ SendAgain \/ SendDone
    BY <2>5, EpollAnswer, AcceptAnswer, RetryAnswer, DriveAnswer, NetworkAnswer,
       SendAnswer
  <2> QED BY <2>1, <2>2, <2>3, <2>4, <2>5 DEF Next, Worker, SetupStep, vars
<1> QED BY AnswerInit, <1>1, PTL DEF Spec

\* Every request of a tracked descriptor is answered with one whole response,
\* for any clients, descriptors, response and socket sizes, and whatever
\* arrives between the parts of a response (handle_readable,
\* send_pending_response and the retry loop).
THEOREM AnsweredOnce == Spec => []OneAnswerEach
<1>1. AnswerInv => OneAnswerEach
  BY DEF AnswerInv
<1> QED BY AnswerInvariant, <1>1, PTL
=============================================================================
