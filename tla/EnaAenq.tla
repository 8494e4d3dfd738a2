------------------------------- MODULE EnaAenq -------------------------------
(***************************************************************************)
(* The asynchronous event queue (ena_admin.c): the device posts events to  *)
(* a ring in host memory, the core that polls receive queue 0 takes them   *)
(* one by one, acknowledges each at the head doorbell and dispatches it to *)
(* ena_aenq_default_handler.  A FATAL_ERROR event runs the recovery inside *)
(* the handler, so inside the poll loop; a timeout of an admin command     *)
(* runs it on another core.  The recovery frees the ring and makes a new   *)
(* one.                                                                    *)
(*                                                                         *)
(* Events are numbered as the device posts them.  A number decides what    *)
(* the event is (KindOf), so equal numbers are equal payloads.             *)
(***************************************************************************)
EXTENDS Naturals, Sequences

CONSTANTS
  None,
  Depth,        \* aenq_depth
  IdxMod,       \* the head is a uint16_t: 2^16 in the code
  Budget,       \* ENA_NETDEV_AENQ_POLL_BUDGET
  Kinds,        \* event kinds by number: event n is Kinds[n]
  DevKeeps,     \* entries the device leaves free when it fills the ring
  Faults,       \* "reset_fails", "nomem" (of a recovery), "timeout" (elsewhere)
  MaxFaults

ASSUME AenqAssumption ==
  /\ Depth \in Nat \ {0} /\ IdxMod \in Nat /\ IdxMod % Depth = 0
  /\ IdxMod >= 2 * Depth /\ Budget \in Nat \ {0}
  /\ Kinds \in Seq({"fatal", "up", "down", "keepalive", "other"})
  /\ DevKeeps \in 0 .. Depth - 1
  /\ Faults \subseteq {"reset_fails", "nomem", "timeout"} /\ MaxFaults \in Nat

VARIABLES
  aenq_base,    \* number of the ring in use, or None
  rings,        \* rings made so far
  mem,          \* its entries: [ev, phase]
  aenq_head, aenq_phase,
  handler,      \* the default handler is registered
  elsewhere,    \* where another core is in its recovery
  link_up, aen_keepalives,
  pc, entry, dispatched,    \* the poll: where it is, [ring, idx], events done
  dev_tail, dev_phase,      \* the device's producer side
  dev_head,                 \* last value of the head doorbell
  next,         \* number of the event the device posts next
  seen,         \* events dispatched to the handler since the ring was made
  first,        \* event the device posts first to this ring
  faults,
  raced         \* history: a poll and a recovery on another core have overlapped

ring == <<aenq_base, rings, mem, aenq_head, aenq_phase, handler>>
devs == <<dev_tail, dev_phase, dev_head, next>>
codeVars == <<ring, elsewhere, link_up, aen_keepalives, pc, entry, dispatched, devs,
              seen, first, faults>>
vars == <<codeVars, raced>>

Slots     == 0 .. Depth - 1
Slot(i)   == i % Depth
NoEvent   == 0
KindOf(n) == Kinds[n]
Succ(i)   == (i + 1) % IdxMod

\* Mutant: the expected phase is never flipped.
FlipNever(phase, i) == phase
\* if ((head & mask) == 0) phase ^= 1
FlipOnWrap(phase, i) == IF Slot(i) = 0 THEN 1 - phase ELSE phase

\* ena_admin_init: a zeroed ring; head and doorbell start at the depth.
FreshMem == [s \in Slots |-> [ev |-> NoEvent, phase |-> 0]]

Init ==
  /\ aenq_base = 1 /\ rings = 1 /\ mem = FreshMem
  /\ aenq_head = Depth /\ aenq_phase = 1
  /\ handler = TRUE /\ elsewhere = "no"
  /\ link_up = FALSE /\ aen_keepalives = 0
  /\ pc = "idle" /\ entry = None /\ dispatched = 0
  /\ dev_tail = 0 /\ dev_phase = 1 /\ dev_head = Depth
  /\ next = 1 /\ seen = <<>> /\ first = 1
  /\ faults = 0 /\ raced = FALSE

Fault(k) == k \in Faults /\ faults < MaxFaults /\ faults' = faults + 1

-----------------------------------------------------------------------------
(* The device *)

\* Room is what the head doorbell grants: up to one ring length.
DevHasRoom == (dev_head + IdxMod - dev_tail) % IdxMod \in DevKeeps + 1 .. Depth

DevPost ==
  /\ aenq_base # None /\ DevHasRoom /\ next <= Len(Kinds)
  /\ mem' = [mem EXCEPT ![Slot(dev_tail)] = [ev |-> next, phase |-> dev_phase]]
  /\ dev_tail' = Succ(dev_tail)
  /\ dev_phase' = IF Slot(Succ(dev_tail)) = 0 THEN 1 - dev_phase ELSE dev_phase
  /\ next' = next + 1
  /\ UNCHANGED <<aenq_base, rings, aenq_head, aenq_phase, handler, elsewhere,
                 link_up,
                 aen_keepalives, pc, entry, dispatched, dev_head, seen, first,
                 faults>>

-----------------------------------------------------------------------------
(* ena_admin_aenq_poll, called by ena_netdev_rx_one for queue 0 *)

\* -EINVAL when there is no ring.
PollBegin ==
  /\ pc = "idle" /\ aenq_base # None
  /\ pc' = "check" /\ dispatched' = 0
  /\ UNCHANGED <<ring, elsewhere, link_up, aen_keepalives, entry, devs, seen, first, faults>>

Ready(e) == e.phase = aenq_phase

\* The loop reads the ring base again and does not test it again.
PollNull ==
  /\ pc = "check" /\ dispatched < Budget /\ aenq_base = None
  /\ pc' = "crashed"
  /\ UNCHANGED <<ring, elsewhere, link_up, aen_keepalives, entry, dispatched, devs, seen,
                 first, faults>>

PollEmpty ==
  /\ pc = "check"
  /\ \/ dispatched = Budget
     \/ aenq_base # None /\ ~ Ready(mem[Slot(aenq_head)])
  /\ pc' = "idle" /\ entry' = None
  /\ UNCHANGED <<ring, elsewhere, link_up, aen_keepalives, dispatched, devs, seen, first,
                 faults>>

PollTake ==
  /\ pc = "check" /\ dispatched < Budget /\ aenq_base # None
  /\ Ready(mem[Slot(aenq_head)])
  /\ entry' = [ring |-> aenq_base, idx |-> Slot(aenq_head),
               ev |-> mem[Slot(aenq_head)].ev]
  /\ pc' = "advance"
  /\ UNCHANGED <<ring, elsewhere, link_up, aen_keepalives, dispatched, devs, seen,
                 first, faults>>

PollAdvance ==
  /\ pc = "advance" /\ pc' = "ack"
  /\ aenq_head' = Succ(aenq_head)
  /\ aenq_phase' = FlipOnWrap(aenq_phase, Succ(aenq_head))
  /\ UNCHANGED <<aenq_base, rings, mem, handler, elsewhere, link_up,
                 aen_keepalives, entry, dispatched, devs, seen, first, faults>>

\* The event is acknowledged before it is handled.
PollAck ==
  /\ pc = "ack" /\ pc' = "dispatch"
  /\ dev_head' = aenq_head
  /\ UNCHANGED <<ring, elsewhere, link_up, aen_keepalives, entry, dispatched, dev_tail,
                 dev_phase, next, seen, first, faults>>

\* What the handler reads through the entry pointer: the slot as it is now,
\* which is anything once the ring has been freed.
EntryEvents == IF entry.ring = aenq_base THEN {mem[entry.idx].ev}
               ELSE 1 .. Len(Kinds)

LinkAfter(n) == IF KindOf(n) = "up" THEN TRUE
                ELSE IF KindOf(n) = "down" THEN FALSE ELSE link_up

\* The handler of every group but FATAL_ERROR, or no handler.
Dispatch ==
  /\ pc = "dispatch" /\ pc' = "check" /\ dispatched' = dispatched + 1
  /\ \E n \in EntryEvents :
       /\ KindOf(n) # "fatal" \/ ~ handler
       /\ seen' = IF handler THEN Append(seen, n) ELSE seen
       /\ link_up' = IF handler THEN LinkAfter(n) ELSE link_up
       /\ aen_keepalives' = IF handler /\ KindOf(n) = "keepalive"
                            THEN aen_keepalives + 1 ELSE aen_keepalives
  /\ UNCHANGED <<ring, elsewhere, entry, devs, first, faults>>

\* A FATAL_ERROR event: the recovery runs before the loop goes on.
DispatchFatal ==
  /\ pc = "dispatch" /\ handler
  /\ \E n \in EntryEvents : KindOf(n) = "fatal" /\ seen' = Append(seen, n)
  /\ pc' = "recover"
  /\ UNCHANGED <<ring, elsewhere, link_up, aen_keepalives, entry, dispatched, devs, first,
                 faults>>

-----------------------------------------------------------------------------
(* ena_adapter_reset_and_recover, as the event queue sees it *)

NewRing ==
  /\ rings' = rings + 1 /\ aenq_base' = rings' /\ mem' = FreshMem
  /\ aenq_head' = Depth /\ aenq_phase' = 1
  /\ dev_tail' = 0 /\ dev_phase' = 1 /\ dev_head' = Depth
  /\ seen' = <<>> /\ first' = next

\* ena_admin_fini: no ring and no handler.
NoRing ==
  /\ aenq_base' = None /\ handler' = FALSE
  /\ UNCHANGED <<rings, mem, aenq_head, aenq_phase, dev_tail, dev_phase, dev_head,
                 seen, first>>

\* Mutant: the handler is not registered again.
ReRegisterNot == handler' = FALSE
\* ena_admin_init clears the handler, the recovery registers it again.
ReRegister == handler' = TRUE

\* Inside the handler of the polling core.  A reset that fails leaves the ring
\* as it was; so does a recovery that is skipped because one is running.
RecoverHere ==
  /\ pc = "recover" /\ pc' = "check" /\ dispatched' = dispatched + 1
  /\ \/ elsewhere = "no" /\ NewRing /\ ReRegister /\ UNCHANGED faults
     \/ elsewhere = "no" /\ Fault("nomem") /\ NoRing
     \/ /\ \/ elsewhere = "no" /\ Fault("reset_fails")
           \/ elsewhere # "no" /\ UNCHANGED faults
        /\ UNCHANGED <<ring, dev_tail, dev_phase, dev_head, seen, first>>
  /\ UNCHANGED <<elsewhere, link_up, aen_keepalives, entry, next>>

\* After a timeout of an admin command on another core: the poll takes no
\* lock, so it sees every step.
ElsewhereFini ==
  /\ aenq_base # None /\ handler /\ elsewhere = "no" /\ pc # "recover"
  /\ Fault("timeout")
  /\ elsewhere' = "init" /\ NoRing
  /\ UNCHANGED <<link_up, aen_keepalives, pc, entry, dispatched, next>>

ElsewhereInit ==
  /\ elsewhere = "init" /\ elsewhere' = "register"
  /\ NewRing /\ handler' = FALSE
  /\ UNCHANGED <<link_up, aen_keepalives, pc, entry, dispatched, next, faults>>

ElsewhereRegister ==
  /\ elsewhere = "register" /\ elsewhere' = "no"
  /\ ReRegister
  /\ UNCHANGED <<aenq_base, rings, mem, aenq_head, aenq_phase, link_up,
                 aen_keepalives, pc, entry, dispatched, devs, seen, first, faults>>

Elsewhere == ElsewhereFini \/ ElsewhereInit \/ ElsewhereRegister
Poll == \/ PollBegin \/ PollNull \/ PollEmpty \/ PollTake \/ PollAdvance \/ PollAck
        \/ Dispatch \/ DispatchFatal \/ RecoverHere
Next == /\ DevPost \/ Poll \/ Elsewhere
        /\ raced' = (raced \/ (pc' # "idle" /\ elsewhere' # "no"))

Spec == Init /\ [][Next]_vars
\* The application polls receive queue 0 again and again.
FairSpec == Spec /\ WF_codeVars(Poll)

-----------------------------------------------------------------------------
(* Properties *)

\* The handler gets every event of a ring exactly once and in the order the
\* device posted them, across the wrap of the ring and of the head counter
\* (ena_admin_aenq_poll).  The poll takes no lock: once it has met a recovery on
\* another core nothing is promised.
EventsInOrder == ~ raced => \A i \in 1 .. Len(seen) : seen[i] = first + i - 1

\* A ring in use has its handler, whichever core made it: a recovery loses no
\* later event (ena_admin_init clears the handler).
HandlerKept == aenq_base # None /\ elsewhere = "no" => handler

\* Every event the device posts is dispatched, or is lost with its ring to a
\* recovery: no order of posts and polls leaves one in the ring for ever
\* (phase and doorbell; the poll and a recovery elsewhere have not met).
EventsDispatched ==
  \A n \in 1 .. Len(Kinds) :
    next > n ~> \/ raced \/ first > n \/ aenq_base = None
                \/ \E i \in 1 .. Len(seen) : seen[i] = n
=============================================================================
