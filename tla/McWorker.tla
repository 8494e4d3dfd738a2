------------------------------ MODULE McWorker ------------------------------
(***************************************************************************)
(* The run-to-completion worker of samples/httpreply-mc/main.c on one core: *)
(* it polls its queue, serves its connections, and sleeps when it is idle,  *)
(* to be woken by its timer or by the interrupt of its queue (EnaIntr).     *)
(* lwIP runs without threads: the sockets change only while the worker is   *)
(* in drive_core_stack.  The device appends packets, and raises interrupts, *)
(* at any time.                                                             *)
(***************************************************************************)
EXTENDS EnaIntr, Sequences, FiniteSets

CONSTANTS
  Conns,            \* connections of clients, numbered as they come in
  Fds,              \* file descriptors accept may return
  MAX_TRACKED_FDS,
  RespLen,          \* http_resp_len
  SndBuf,           \* bytes a socket takes before the client acknowledges
  IB_IDLE_STREAK_LIMIT,
  IB_LONG_MAX_SHIFT,
  MaxPackets,       \* bound: packets the clients send, acknowledgements apart
  MaxRxq            \* bound: packets that wait in the queue

ASSUME WorkerAssumption ==
  /\ Conns \subseteq Nat \ {0} /\ Fds \subseteq Nat /\ MAX_TRACKED_FDS \in Nat
  /\ {RespLen, SndBuf, MaxPackets, MaxRxq} \subseteq Nat \ {0}
  /\ {IB_IDLE_STREAK_LIMIT, IB_LONG_MAX_SHIFT} \subseteq Nat

VARIABLES
  rxq,           \* packets the device completed and the worker has not polled
  packets,       \* packets the clients sent so far
  conn,          \* lwIP: the sockets
  resp_pending,  \* bytes of the response a socket has not taken
  conn_count,
  todo,          \* the events of epoll_wait not handled yet
  pc,            \* where the worker is
  cur,           \* the descriptor it handles
  work,          \* the iteration found work
  moved,         \* a packet moved on the queues of the core since the last tick
  streak, shift, \* struct ib_state
  aged,          \* IB_ACTIVE_WINDOW_NS passed since last_work
  fired,         \* ena_plat_msix_count_get() # 0
  owed           \* history: bytes of responses read for but not sent

ib == <<streak, shift, aged>>
workerVars == <<rxq, packets, conn, resp_pending, conn_count, todo, pc, cur,
                work, moved, streak, shift, aged, fired, owed>>
vars == <<intrVars, workerVars>>

Tracked == {fd \in Fds : fd < MAX_TRACKED_FDS}
NoConn == [st |-> "none", fd |-> 0, data |-> "no", fin |-> FALSE, rst |-> FALSE,
           ev |-> FALSE, unacked |-> 0, left |-> FALSE]
NoCur == [fd |-> 0, from |-> "events", close |-> FALSE]

Init ==
  /\ IntrInit
  /\ rxq = <<>> /\ packets = 0
  /\ conn = [c \in Conns |-> NoConn]
  /\ resp_pending = [fd \in Tracked |-> 0] /\ owed = [fd \in Tracked |-> 0]
  /\ conn_count = 0 /\ todo = {}
  /\ pc = "start" /\ cur = NoCur
  /\ work = FALSE /\ moved = FALSE
  /\ streak = 0 /\ shift = 0 /\ aged = FALSE /\ fired = FALSE

Waiting == rxq # <<>>
IsOpen(cs, c) == cs[c].st = "open"
Open(fd) == {c \in Conns : IsOpen(conn, c) /\ conn[c].fd = fd}
ConnOf(fd) == CHOOSE c \in Open(fd) : TRUE

-----------------------------------------------------------------------------
(* lwIP takes a packet from the queue *)

Joined(old, new) == IF old = "no" THEN new ELSE IF old = "close" THEN old ELSE new

Input(cs, p) ==
  LET s == cs[p.c] IN
  [cs EXCEPT ![p.c] =
     CASE p.kind = "syn" -> [NoConn EXCEPT !.st = "backlog"]
       [] p.kind \in {"keep", "close"} /\ s.st \in {"backlog", "open"} ->
            [s EXCEPT !.data = Joined(@, p.kind), !.ev = TRUE]
       [] p.kind = "fin" /\ s.st \in {"backlog", "open"} ->
            [s EXCEPT !.fin = TRUE, !.ev = TRUE]
       [] p.kind = "rst" /\ s.st = "open" ->
            [s EXCEPT !.rst = TRUE, !.ev = TRUE, !.unacked = 0]
       [] p.kind = "rst" /\ s.st # "open" -> [s EXCEPT !.st = "gone"]
       [] p.kind = "ack" /\ s.st = "open" -> [s EXCEPT !.unacked = 0]
       [] p.kind = "ack" /\ s.st = "zombie" -> [s EXCEPT !.st = "gone"]
       [] OTHER -> s]

\* The sockets after the first k packets of the queue.
After[k \in 0 .. Len(rxq)] == IF k = 0 THEN conn ELSE Input(After[k - 1], rxq[k])
Polled == After[Len(rxq)]

\* A socket is closed: lwIP keeps its pcb until the client has acknowledged
\* the close, unless the connection was reset or data is left unread.
Closed(s) == [s EXCEPT !.st = IF s.rst \/ s.data # "no" THEN "gone" ELSE "zombie",
                       !.ev = FALSE]

-----------------------------------------------------------------------------
(* The clients and the device *)

\* A packet arrives: the device completes it.
Arrive(c, kind) ==
  /\ pc # "start" /\ Len(rxq) < MaxRxq
  /\ rxq' = Append(rxq, [c |-> c, kind |-> kind])
  /\ Posted
  /\ UNCHANGED <<setup, num_irq_vectors, masked, intr_mask, registered, armed,
                 unmask_db, resp_pending, conn_count, todo, pc, cur, work, moved,
                 ib, fired, owed>>

Queued(c, kind) == \E i \in DOMAIN rxq : rxq[i] = [c |-> c, kind |-> kind]

Connect(c) ==
  /\ packets < MaxPackets /\ conn[c].st = "none" /\ ~Queued(c, "syn")
  /\ \A d \in Conns : d < c => conn[d].st # "none" \/ Queued(d, "syn")
  /\ Arrive(c, "syn")
  /\ packets' = packets + 1 /\ UNCHANGED conn

Talk(c, kind) ==
  /\ packets < MaxPackets /\ conn[c].st \in {"backlog", "open"} /\ ~conn[c].left
  /\ Arrive(c, kind)
  /\ packets' = packets + 1
  /\ conn' = [conn EXCEPT ![c].left = kind \in {"fin", "rst"}]

Ack(c) ==
  /\ \/ conn[c].st = "open" /\ conn[c].unacked > 0
     \/ conn[c].st = "zombie"
  /\ ~Queued(c, "ack")
  /\ Arrive(c, "ack")
  /\ UNCHANGED <<packets, conn>>

Network ==
  \E c \in Conns : Connect(c) \/ Ack(c)
                   \/ \E kind \in {"keep", "close", "fin", "rst"} : Talk(c, kind)

\* The core takes the interrupt of its queue; in the halt, it wakes it.
Interrupt ==
  /\ OnFire(Waiting)
  /\ fired' = TRUE
  /\ pc' = IF pc = "halt" THEN "drive" ELSE pc
  /\ UNCHANGED <<rxq, packets, conn, resp_pending, conn_count, todo, cur, work,
                 moved, ib, owed>>

-----------------------------------------------------------------------------
(* The worker *)

At(l) == pc = l /\ setup.at = "done"
\* On to the next event, or to the next descriptor of the retry loop.
Continue(fd, from) ==
  IF from = "events" THEN pc' = "events" /\ cur' = NoCur
  ELSE pc' = "retry" /\ cur' = [fd |-> fd + 1, from |-> "retry", close |-> FALSE]

\* The packet counters of the queues differ from what the last tick saw.
RxqPkts == moved \/ Waiting
TxqPkts(sent) == moved \/ sent

\* uknetdev_poll_rxqueue and sys_check_timeouts
PollStack == rxq' = <<>> /\ moved' = RxqPkts

\* ena_netdev_start unmasks all vectors once the queues exist; then the worker
\* starts.
Start ==
  /\ At("start")
  /\ UnmaskVectors(0 .. num_irq_vectors - 1, FALSE)
  /\ pc' = "drive"
  /\ UNCHANGED <<setup, num_irq_vectors, registered, armed, unmask_db, rxq,
                 packets, conn, resp_pending, conn_count, todo, cur, work, moved,
                 ib, fired, owed>>

\* drive_core_stack at the head of the loop.  Every two seconds core 0 unmasks
\* its queue again while no interrupt was ever counted.
Drive ==
  /\ At("drive")
  /\ conn' = Polled /\ PollStack
  /\ \/ UNCHANGED intrVars
     \/ Q = 0 /\ armed /\ ~fired /\ RearmCq(Waiting)
  /\ pc' = "epoll"
  /\ UNCHANGED <<packets, resp_pending, conn_count, todo, cur, work, ib, fired, owed>>

Ready(c) == IsOpen(conn, c) /\ (conn[c].data # "no" \/ conn[c].fin \/ conn[c].rst)
Listener == [c |-> 0, hup |-> FALSE]
Event(c) == [c |-> c, hup |-> conn[c].fin \/ conn[c].rst]

\* epoll_wait: what became ready since the last call is reported, what was
\* ready before may be reported again; the listener is, while a client waits.
EpollWait ==
  /\ At("epoll")
  /\ \E again \in SUBSET {c \in Conns : Ready(c) /\ ~conn[c].ev} :
       LET cs == again \cup {c \in Conns : Ready(c) /\ conn[c].ev}
           l  == IF \E c \in Conns : conn[c].st = "backlog" THEN {Listener} ELSE {} IN
       /\ todo' = {Event(c) : c \in cs} \cup l
       /\ work' = (todo' # {})
  /\ conn' = [c \in Conns |-> [conn[c] EXCEPT !.ev = conn[c].ev /\ ~IsOpen(conn, c)]]
  /\ pc' = "events"
  /\ UNCHANGED <<intrVars, rxq, packets, resp_pending, conn_count, cur, moved, ib,
                 fired, owed>>

\* Connections the accept loop adds to conn_count: the watched ones.
Accepted(taken, failed) == Cardinality(taken)

\* The clients that wait, the descriptors in use, and what accept() makes of
\* the sockets of the clients it takes and of the one it fails for.
Backlog == {c \in Conns : conn[c].st = "backlog"}
Used    == {conn[c].fd : c \in {d \in Conns : IsOpen(conn, d)}}
Opened(s, fd) == [s EXCEPT !.st = "open", !.fd = fd]
Given(taken, failed, fd) ==
  /\ \A c, d \in taken : c # d => fd[c] # fd[d]
  /\ conn' = [c \in Conns |-> IF c \in taken THEN Opened(conn[c], fd[c])
                              ELSE IF c \in failed THEN Closed(conn[c]) ELSE conn[c]]

\* The listener's event: accept until no client waits, or one cannot be
\* watched, which is closed.
Accept ==
  /\ At("events") /\ Listener \in todo
  /\ \E taken \in SUBSET Backlog, failed \in SUBSET Backlog :
     \E fd \in [taken -> Fds \ Used] :
       /\ taken \cap failed = {} /\ Cardinality(failed) <= 1
       /\ failed = {} => taken = Backlog
       /\ Given(taken, failed, fd)
       /\ conn_count' = conn_count + Accepted(taken, failed)
       /\ moved' = TxqPkts(failed # {})
  /\ todo' = todo \ {Listener}
  /\ UNCHANGED <<intrVars, rxq, packets, resp_pending, pc, cur, work, ib, fired, owed>>

\* drop_connection
Drop(fd) ==
  /\ conn_count' = IF conn_count > 0 THEN conn_count - 1 ELSE 0
  /\ resp_pending' = [f \in Tracked |-> IF f = fd THEN 0 ELSE resp_pending[f]]
  /\ owed' = [f \in Tracked |-> IF f = fd THEN 0 ELSE owed[f]]
  /\ conn' = [conn EXCEPT ![ConnOf(fd)] = Closed(@)]
  /\ moved' = TxqPkts(TRUE)

\* handle_readable: one recv takes all that arrived.  A descriptor that is not
\* tracked gets one send, and what the socket does not take is lost.
Readable(fd, from) ==
  LET c == ConnOf(fd)
      s == conn[c]
      n == IF RespLen < SndBuf - s.unacked THEN RespLen ELSE SndBuf - s.unacked IN
  \/ /\ s.data # "no" /\ ~s.rst /\ fd \in Tracked
     /\ conn' = [conn EXCEPT ![c].data = "no"]
     /\ resp_pending' = [resp_pending EXCEPT ![fd] = RespLen]
     /\ owed' = [owed EXCEPT ![fd] = @ + RespLen]
     /\ pc' = "send" /\ cur' = [fd |-> fd, from |-> from, close |-> s.data = "close"]
     /\ UNCHANGED <<conn_count, moved>>
  \/ /\ s.data # "no" /\ ~s.rst /\ fd \notin Tracked
     /\ LET read == [s EXCEPT !.data = "no", !.unacked = @ + n] IN
        conn' = [conn EXCEPT ![c] = IF s.data = "close" THEN Closed(read) ELSE read]
     /\ conn_count' = IF s.data = "close" THEN conn_count - 1 ELSE conn_count
     /\ moved' = TxqPkts(n > 0 \/ s.data = "close")
     /\ UNCHANGED <<resp_pending, owed, pc, cur>>
  \/ /\ s.rst \/ (s.data = "no" /\ s.fin)
     /\ Drop(fd) /\ Continue(fd, from)
  \/ /\ s.data = "no" /\ ~s.rst /\ ~s.fin
     /\ Continue(fd, from)
     /\ UNCHANGED <<conn, resp_pending, owed, conn_count, moved>>

\* Mutant: a connection is read while its response is pending.
HoldsBackNever(fd) == FALSE
\* A connection with a pending response is not read.
HoldsBack(fd) == fd \in Tracked /\ resp_pending[fd] > 0

\* The event of a connection.  (EPOLLOUT is never asked for.)
Handle(e) ==
  /\ At("events") /\ e \in todo /\ e # Listener
  /\ LET fd == conn[e.c].fd IN
     IF e.hup
     THEN Drop(fd) /\ UNCHANGED <<pc, cur>>
     ELSE IF HoldsBack(fd)
     THEN UNCHANGED <<conn, conn_count, resp_pending, owed, moved, pc, cur>>
     ELSE Readable(fd, "events")
  /\ todo' = todo \ {e}
  /\ UNCHANGED <<intrVars, rxq, packets, work, ib, fired>>

-----------------------------------------------------------------------------
(* send_pending_response; resp_pending[fd] stands for its local too *)

Room(s) == IF s.rst THEN 0 ELSE SndBuf - s.unacked
Taken(s) == IF resp_pending[cur.fd] < Room(s) THEN resp_pending[cur.fd] ELSE Room(s)

\* send() on the sockets cs
SendOn(cs) ==
  LET c == ConnOf(cur.fd)
      n == Taken(cs[c]) IN
  /\ conn' = [cs EXCEPT ![c].unacked = @ + n]
  /\ resp_pending' = [resp_pending EXCEPT ![cur.fd] = @ - n]
  /\ owed' = [owed EXCEPT ![cur.fd] = @ - n]

\* The socket takes a part, or all, of the response; or the connection was
\* reset, and is dropped; or the socket is full.
Send ==
  /\ At("send") /\ resp_pending[cur.fd] > 0
  /\ LET s == conn[ConnOf(cur.fd)] IN
     \/ /\ Room(s) > 0 /\ SendOn(conn)
        /\ moved' = TxqPkts(TRUE)
        /\ UNCHANGED <<conn_count, pc, cur>>
     \/ s.rst /\ Drop(cur.fd) /\ Continue(cur.fd, cur.from)
     \/ /\ Room(s) = 0 /\ ~s.rst
        /\ pc' = "again"
        /\ UNCHANGED <<conn, resp_pending, owed, moved, conn_count, cur>>
  /\ UNCHANGED <<intrVars, rxq, packets, todo, work, ib, fired>>

\* A full socket: drive_core_stack once, and send again.
SendAgain ==
  /\ At("again")
  /\ PollStack /\ SendOn(Polled)
  /\ pc' = IF Room(Polled[ConnOf(cur.fd)]) > 0 THEN "send" ELSE "sent"
  /\ UNCHANGED <<intrVars, packets, conn_count, todo, cur, work, ib, fired>>

\* Mutant: what arrived while the response was pending is not read.
DrainsNever(rc) == FALSE
\* The retry loop reads a socket whose response went out.
Drains(rc) == rc = 0

\* The response went out, or the rest of it is left to the retry loop.
SendDone ==
  /\ \/ At("send") /\ resp_pending[cur.fd] = 0
     \/ At("sent")
  /\ IF cur.from # "retry" /\ cur.close
     THEN Drop(cur.fd) /\ Continue(cur.fd, cur.from)
     ELSE IF cur.from = "retry" /\ Drains(resp_pending[cur.fd])
     THEN Readable(cur.fd, "drain")
     ELSE /\ Continue(cur.fd, cur.from)
          /\ UNCHANGED <<conn, resp_pending, owed, conn_count, moved>>
  /\ work' = (work \/ cur.from = "retry")
  /\ UNCHANGED <<intrVars, rxq, packets, todo, ib, fired>>

\* The retry loop, entered when all events are handled: the next descriptor
\* with a pending response.
Retry ==
  /\ At("retry") \/ (At("events") /\ todo = {})
  /\ LET later == {fd \in Tracked : fd >= cur.fd /\ resp_pending[fd] > 0} IN
     \/ \E fd \in later :
          /\ \A f \in later : fd <= f
          /\ pc' = "send" /\ cur' = [fd |-> fd, from |-> "retry", close |-> FALSE]
     \/ later = {} /\ pc' = "tick" /\ cur' = NoCur
  /\ UNCHANGED <<intrVars, rxq, packets, conn, resp_pending, conn_count, todo,
                 work, moved, ib, fired, owed>>

-----------------------------------------------------------------------------
(* ib_tick and mc_idle_sleep *)

\* mc_core_has_pcb
HasPcb ==
  \E c \in Conns : conn[c].st \in {"backlog", "zombie"}
                  \/ (IsOpen(conn, c) /\ ~conn[c].rst)

Busy == work \/ conn_count > 0 \/ HasPcb \/ moved

\* The exponent of the next dormant sleep.
Longer(s) == IF s < IB_LONG_MAX_SHIFT THEN s + 1 ELSE s

Tick ==
  /\ At("tick")
  /\ IF Busy
     THEN streak' = 0 /\ shift' = 0 /\ aged' = FALSE /\ pc' = "drive"
     ELSE /\ streak' = IF streak > IB_IDLE_STREAK_LIMIT THEN streak ELSE streak + 1
          /\ IF streak' <= IB_IDLE_STREAK_LIMIT
             THEN pc' = "drive" /\ UNCHANGED <<shift, aged>>
             ELSE /\ pc' = "rearm"
                  /\ aged' \in IF aged THEN {TRUE} ELSE BOOLEAN
                  /\ shift' = IF aged' THEN Longer(shift) ELSE shift
  /\ moved' = FALSE /\ work' = FALSE
  /\ UNCHANGED <<intrVars, rxq, packets, conn, resp_pending, conn_count, todo,
                 cur, fired, owed>>

Rearm ==
  /\ At("rearm")
  /\ RearmCq(Waiting)
  /\ pc' = "cli"
  /\ UNCHANGED <<rxq, packets, conn, resp_pending, conn_count, todo, cur, work,
                 moved, ib, fired, owed>>

\* Interrupts are off until the halt itself lets them in: one that came before
\* has been taken, one that comes later ends the halt.
DisableIrq ==
  /\ At("cli")
  /\ pc' = "halt"
  /\ UNCHANGED <<intrVars, rxq, packets, conn, resp_pending, conn_count, todo,
                 cur, work, moved, ib, fired, owed>>

\* The timer of the core ends the halt.
Timer ==
  /\ At("halt")
  /\ pc' = "drive"
  /\ UNCHANGED <<intrVars, rxq, packets, conn, resp_pending, conn_count, todo,
                 cur, work, moved, ib, fired, owed>>

Worker ==
  \/ Start \/ Drive \/ EpollWait \/ Accept \/ \E e \in todo : Handle(e)
  \/ Send \/ SendAgain \/ SendDone \/ Retry \/ Tick \/ Rearm \/ DisableIrq \/ Timer
SetupStep == Setup /\ UNCHANGED workerVars

Next == SetupStep \/ Worker \/ Interrupt \/ Network

Spec == Init /\ [][Next]_vars

\* The worker never blocks but in the halt, which its timer ends; the clients
\* acknowledge what they receive.
FairSpec ==
  /\ Spec
  /\ WF_vars(SetupStep \/ Worker) /\ WF_vars(Interrupt)
  /\ \A c \in Conns : SF_vars(Ack(c))

-----------------------------------------------------------------------------

\* Every request a tracked descriptor is read for gets one whole response: the
\* bytes still to send are the ones resp_pending says, whatever arrived in
\* between (the guard on EPOLLIN and the retry loop of the worker).
OneAnswerEach == \A fd \in Tracked : owed[fd] = resp_pending[fd]

\* A core that halts while packets wait has an interrupt on its way, if its
\* queue has a vector and an unmask register: mc_idle_sleep and msix_on_fire
\* unmask the queue so that none is lost before the halt.
NoLostWakeup ==
  pc = "halt" /\ armed /\ Q + 1 < num_irq_vectors /\ unmask_db /\ Waiting => msi

\* No client waits for ever: again and again there is no connection that
\* waits to be accepted, none with data that was not read, and none with a
\* part of its response not sent (the retry loop and its drain).
ClientsServed ==
  []<>(/\ \A c \in Conns : conn[c].st # "backlog"
       /\ \A c \in Conns : IsOpen(conn, c) => conn[c].data = "no"
       /\ \A fd \in Tracked : resp_pending[fd] = 0)
=============================================================================
