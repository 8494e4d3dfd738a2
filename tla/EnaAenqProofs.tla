---------------------------- MODULE EnaAenqProofs ----------------------------
(***************************************************************************)
(* The asynchronous event queue hands every event to the handler once and  *)
(* in order, for any depth of the ring, any width of the head counter that *)
(* it divides, and any stream of events; and a ring in use always has its  *)
(* handler.                                                                *)
(***************************************************************************)
EXTENDS EnaAenq, Integers, TLAPS

\* Zenon proves a step, unless the step names another prover.
USE Zenon

\* The phase of the k-th event of a ring (from 0).
Ph(k) == 1 - ((k \div Depth) % 2)

\* Events posted to the ring in use; taken from it; acknowledged.
PostedTo == next - first
Done  == Len(seen)
Taken == IF pc \in {"ack", "dispatch"} THEN Done + 1 ELSE Done
Acked == IF pc = "dispatch" THEN Done + 1 ELSE Done

Places == {"idle", "check", "crashed", "advance", "ack", "dispatch", "recover"}
Entries == [ev : Nat, phase : Nat]

TypeInv ==
  /\ next \in Nat /\ first \in Nat /\ first <= next /\ seen \in Seq(Nat)
  /\ mem \in [Slots -> Entries] /\ pc \in Places
  /\ aenq_head \in Nat /\ dev_tail \in Nat /\ dev_phase \in {0, 1}
  /\ pc \in {"advance", "ack", "dispatch"} => entry.idx \in Slots

\* The counters of the two sides, and the room between them.
CountersInv ==
  /\ dev_tail = PostedTo % IdxMod /\ dev_phase = Ph(PostedTo)
  /\ aenq_head = (Depth + Taken) % IdxMod /\ aenq_phase = Ph(Taken)
  /\ dev_head = (Depth + Acked) % IdxMod
  /\ Taken <= PostedTo /\ PostedTo <= Acked + Depth - DevKeeps

\* The last Depth events are in their slots; the other slots are still zero.
MemInv ==
  /\ \A k \in Nat : k < PostedTo /\ PostedTo <= k + Depth =>
       mem[Slot(k)] = [ev |-> first + k, phase |-> Ph(k)]
  /\ \A s \in Slots : s >= PostedTo => mem[s].phase = 0

\* The entry the poll holds is that of the next event.
EntryInv ==
  pc \in {"advance", "ack", "dispatch"} =>
    /\ Done < PostedTo
    /\ entry.ring = aenq_base /\ entry.idx = Slot(Done)

RingInv == CountersInv /\ MemInv /\ EntryInv

\* While no poll meets a recovery on another core.
Apart ==
  /\ pc # "idle" => elsewhere = "no"
  /\ aenq_base = None => pc \in {"idle", "check", "crashed"}
  /\ aenq_base # None => RingInv
  /\ \A i \in 1 .. Len(seen) : seen[i] = first + i - 1

AenqInv == TypeInv /\ HandlerKept /\ (~ raced => Apart)

-----------------------------------------------------------------------------
(* Arithmetic *)

\* Division with remainder, by any m.
LEMMA DivMod ==
  ASSUME NEW m \in Nat \ {0}, NEW k \in Nat
  PROVE  k = m * (k \div m) + (k % m) /\ k % m \in 0 .. m - 1 /\ k \div m \in Nat
<1>1. k % m = k - m * (k \div m)
  BY SMTT(20)
<1>2. k % m \in 0 .. m - 1 /\ k \div m \in Nat
  BY SMT
<1>3. m * (k \div m) \in Int
  BY <1>2, SMT
<1> QED BY <1>1, <1>2, <1>3, SMT

\* The quotient and the remainder are unique.
LEMMA DivModUnique ==
  ASSUME NEW m \in Nat \ {0}, NEW k \in Nat, NEW q \in Nat, NEW r \in 0 .. m - 1,
         k = m * q + r
  PROVE  k \div m = q /\ k % m = r
  BY SMT

\* From one number to the next.
LEMMA DivModNext ==
  ASSUME NEW m \in Nat \ {0}, NEW k \in Nat
  PROVE  IF (k % m) + 1 = m
         THEN (k + 1) % m = 0 /\ (k + 1) \div m = (k \div m) + 1
         ELSE (k + 1) % m = (k % m) + 1 /\ (k + 1) \div m = k \div m
<1> DEFINE q == k \div m
           r == k % m
<1>1. k = m * q + r /\ r \in 0 .. m - 1 /\ q \in Nat
  BY DivMod
<1> HIDE DEF q, r
<1>2. CASE r + 1 = m
  <2>1. k + 1 = m * (q + 1) + 0 /\ 0 \in 0 .. m - 1 /\ q + 1 \in Nat
    BY <1>1, <1>2, SMT
  <2>2. (k + 1) \div m = q + 1 /\ (k + 1) % m = 0
    BY <2>1, DivModUnique, SMT
  <2> QED BY <1>2, <2>2 DEF q, r
<1>3. CASE r + 1 # m
  <2>1. k + 1 = m * q + (r + 1) /\ r + 1 \in 0 .. m - 1
    BY <1>1, <1>3, SMT
  <2>2. (k + 1) \div m = q /\ (k + 1) % m = r + 1
    BY <1>1, <2>1, DivModUnique, SMT
  <2> QED BY <1>3, <2>2 DEF q, r
<1> QED BY <1>2, <1>3 DEF r

\* A whole turn of the ring.
LEMMA DivModTurn ==
  ASSUME NEW m \in Nat \ {0}, NEW k \in Nat
  PROVE  (k + m) % m = k % m /\ (k + m) \div m = (k \div m) + 1
  BY SMT

\* Numbers less than a turn apart differ modulo m.
LEMMA ModDiffers ==
  ASSUME NEW m \in Nat \ {0}, NEW j \in Nat, NEW k \in Nat, j < k, k < j + m
  PROVE  j % m # k % m
<1> DEFINE q == j \div m
           p == k \div m
<1> SUFFICES ASSUME j % m = k % m PROVE FALSE
  OBVIOUS
<1>1. k - j = m * p - m * q /\ p \in Nat /\ q \in Nat /\ m * p \in Int /\ m * q \in Int
  <2>1. j = m * q + (j % m) /\ j % m \in 0 .. m - 1 /\ q \in Nat
    BY DivMod
  <2>2. k = m * p + (k % m) /\ k % m \in 0 .. m - 1 /\ p \in Nat
    BY DivMod
  <2> HIDE DEF p, q
  <2> QED BY <2>1, <2>2, SMT
<1> HIDE DEF p, q
<1>2. CASE p <= q
  <2>1. m * p <= m * q
    BY <1>1, <1>2, SMT
  <2> QED BY <1>1, <2>1, SMT
<1>3. CASE p > q
  <2>1. m * p >= m * q + m
    BY <1>1, <1>3, SMT
  <2> QED BY <1>1, <2>1, SMT
<1> QED BY <1>1, <1>2, <1>3, SMT

\* The head counter wraps at a multiple of the depth.
LEMMA ModMod ==
  ASSUME NEW m \in Nat \ {0}, NEW w \in Nat \ {0}, w % m = 0, NEW k \in Nat
  PROVE  (k % w) % m = k % m
<1> DEFINE n == w \div m
           q == k \div w
           r == k % w
           p == r \div m
           t == r % m
<1>1. w = m * n /\ n \in Nat
  BY DivMod, SMT
<1>2. k = w * q + r /\ q \in Nat /\ r \in Nat
  BY DivMod, SMT
<1>3. r = m * p + t /\ t \in 0 .. m - 1 /\ p \in Nat
  BY <1>2, DivMod
<1> HIDE DEF n, q, r, p, t
<1>4. n * q + p \in Nat
  BY <1>1, <1>2, <1>3, SMT
<1>5. w * q = m * (n * q)
  BY <1>1, <1>2, SMT
<1>6. k = m * (n * q + p) + t
  BY <1>1, <1>2, <1>3, <1>5, SMT
<1>7. k % m = t
  BY <1>3, <1>4, <1>6, DivModUnique, SMT
<1> QED BY <1>7 DEF t, r

\* Counting modulo w.
LEMMA ModSucc ==
  ASSUME NEW w \in Nat \ {0}, NEW k \in Nat
  PROVE  ((k % w) + 1) % w = (k + 1) % w
<1> DEFINE r == k % w
<1>1. r \in 0 .. w - 1
  BY DivMod
<1>2. CASE r + 1 = w
  <2>1. w = w * 1 + 0 /\ 0 \in 0 .. w - 1
    BY SMT
  <2>2. w % w = 0
    BY <2>1, DivModUnique
  <2>3. (k + 1) % w = 0
    BY <1>2, DivModNext
  <2> QED BY <1>2, <2>2, <2>3
<1>3. CASE r + 1 # w
  <2>1. r + 1 = w * 0 + (r + 1) /\ r + 1 \in 0 .. w - 1 /\ r + 1 \in Nat
    BY <1>1, <1>3, SMT
  <2> HIDE DEF r
  <2>2. (r + 1) % w = r + 1
    BY <2>1, DivModUnique
  <2> QED BY <1>3, <2>2, DivModNext DEF r
<1> QED BY <1>2, <1>3

\* The distance of two counters that wrap.
LEMMA ModMinus ==
  ASSUME NEW w \in Nat \ {0}, NEW a \in Nat, NEW b \in Nat, b <= a, a < b + w
  PROVE  ((a % w) + w - (b % w)) % w = a - b
<1> DEFINE q == a \div w
           r == a % w
           p == b \div w
           t == b % w
           x == r + w - t
<1>1. a = w * q + r /\ r \in 0 .. w - 1 /\ q \in Nat
  BY DivMod
<1>2. b = w * p + t /\ t \in 0 .. w - 1 /\ p \in Nat
  BY DivMod
<1> HIDE DEF q, r, p, t
<1>3. w * q \in Int /\ w * p \in Int /\ x \in Nat /\ a - b \in 0 .. w - 1
  BY <1>1, <1>2, SMT
<1>4. q >= p
  <2> SUFFICES ASSUME p >= q + 1 PROVE FALSE
    BY <1>1, <1>2, SMT
  <2>1. w * p >= w * q + w
    BY <1>1, <1>2, SMT
  <2> QED BY <1>1, <1>2, <1>3, <2>1, SMT
<1>5. q <= p + 1
  <2> SUFFICES ASSUME q >= p + 2 PROVE FALSE
    BY <1>1, <1>2, SMT
  <2>1. w * q >= w * (p + 2)
    BY <1>1, <1>2, SMT
  <2>2. w * (p + 2) = w * p + w + w
    BY <1>2, SMT
  <2> QED BY <1>1, <1>2, <1>3, <2>1, <2>2, SMT
<1>6. CASE q = p
  <2>1. x = w * 1 + (a - b)
    BY <1>1, <1>2, <1>3, <1>6, SMT
  <2> QED BY <1>3, <2>1, DivModUnique DEF r, t
<1>7. CASE q = p + 1
  <2>1. w * q = w * p + w
    BY <1>2, <1>7, SMT
  <2>2. x = w * 0 + (a - b)
    BY <1>1, <1>2, <1>3, <2>1, SMT
  <2> QED BY <1>3, <2>2, DivModUnique DEF r, t
<1> QED BY <1>1, <1>2, <1>4, <1>5, <1>6, <1>7, SMT

\* Slots and phases of the events, and the counters that point at them.
LEMMA PhaseFacts ==
  ASSUME NEW k \in Nat
  PROVE  /\ Slot(k) \in Slots /\ Ph(k) \in {0, 1}
         /\ Slot(k + Depth) = Slot(k) /\ Ph(k + Depth) = 1 - Ph(k)
         /\ Ph(k + 1) = (IF Slot(k + 1) = 0 THEN 1 - Ph(k) ELSE Ph(k))
         /\ k < Depth => Slot(k) = k /\ Ph(k) = 1
<1>0. Depth \in Nat \ {0}
  BY AenqAssumption
<1> DEFINE q == k \div Depth
<1>1. Slot(k) \in Slots /\ q \in Nat
  BY <1>0, DivMod DEF Slot, Slots
<1>2. (q % 2) \in {0, 1} /\ (q + 1) % 2 = 1 - (q % 2)
  BY <1>1, SMT
<1>3. Slot(k + Depth) = Slot(k) /\ Ph(k + Depth) = 1 - Ph(k)
  <2>1. (k + Depth) % Depth = k % Depth /\ (k + Depth) \div Depth = q + 1
    BY <1>0, DivModTurn
  <2> HIDE DEF q
  <2> QED BY <1>2, <2>1 DEF Slot, Ph, q
<1>4. Ph(k + 1) = (IF Slot(k + 1) = 0 THEN 1 - Ph(k) ELSE Ph(k))
  <2>1. \/ Slot(k + 1) = 0 /\ (k + 1) \div Depth = q + 1
        \/ Slot(k + 1) # 0 /\ (k + 1) \div Depth = q
    <3>1. k % Depth \in 0 .. Depth - 1
      BY <1>0, DivMod
    <3>2. IF (k % Depth) + 1 = Depth
          THEN (k + 1) % Depth = 0 /\ (k + 1) \div Depth = q + 1
          ELSE (k + 1) % Depth = (k % Depth) + 1 /\ (k + 1) \div Depth = q
      BY <1>0, DivModNext
    <3> HIDE DEF q
    <3> QED BY <3>1, <3>2, SMT DEF Slot
  <2> HIDE DEF q
  <2> QED BY <1>2, <2>1 DEF Ph, q
<1>5. ASSUME k < Depth PROVE Slot(k) = k /\ Ph(k) = 1
  <2>1. k = Depth * 0 + k /\ k \in 0 .. Depth - 1
    BY <1>0, <1>5, SMT
  <2>2. k \div Depth = 0 /\ k % Depth = k
    BY <1>0, <2>1, DivModUnique
  <2> QED BY <2>2, SMT DEF Slot, Ph
<1>6. Ph(k) \in {0, 1}
  BY <1>2, SMT DEF Ph
<1> HIDE DEF q
<1> QED BY <1>1, <1>3, <1>4, <1>5, <1>6

LEMMA CounterFacts ==
  ASSUME NEW k \in Nat
  PROVE  /\ k % IdxMod \in Nat /\ Succ(k % IdxMod) = (k + 1) % IdxMod
         /\ Slot(k % IdxMod) = Slot(k)
<1>1. Depth \in Nat \ {0} /\ IdxMod \in Nat \ {0} /\ IdxMod % Depth = 0
  BY AenqAssumption, SMT
<1>2. k % IdxMod \in Nat
  BY <1>1, DivMod, SMT
<1>3. (k % IdxMod) % Depth = k % Depth
  BY <1>1, ModMod
<1>4. ((k % IdxMod) + 1) % IdxMod = (k + 1) % IdxMod
  BY <1>1, ModSucc
<1> QED BY <1>2, <1>3, <1>4 DEF Slot, Succ

-----------------------------------------------------------------------------
(* The steps *)

\* Every step keeps the types.
LEMMA TypeStep == ASSUME TypeInv, [Next]_vars PROVE TypeInv'
<1> USE DEF TypeInv, Places, ring, devs, codeVars
<1>0. 0 \in Nat /\ FreshMem \in [Slots -> Entries] /\ Depth \in Nat
  BY AenqAssumption DEF FreshMem, Entries, NoEvent
<1>1. CASE UNCHANGED vars
  BY <1>1 DEF vars
<1>2. CASE DevPost
  <2>1. Slot(dev_tail) \in Slots
    BY PhaseFacts
  <2>2. [ev |-> next, phase |-> dev_phase] \in Entries
    BY SMT DEF Entries
  <2>3. mem' \in [Slots -> Entries]
    BY <1>2, <2>1, <2>2 DEF DevPost
  <2>4. dev_tail' \in Nat
    BY <1>2, AenqAssumption, DivMod, SMT DEF DevPost, Succ
  <2>5. dev_phase' \in {0, 1}
    BY <1>2, SMT DEF DevPost
  <2> QED BY <1>2, <2>3, <2>4, <2>5, SMT DEF DevPost
<1>3. CASE PollBegin \/ PollNull \/ PollEmpty \/ PollAck
  BY <1>3 DEF PollBegin, PollNull, PollEmpty, PollAck
<1>4. CASE PollTake
  <2>1. Slot(aenq_head) \in Slots
    BY PhaseFacts
  <2> QED BY <1>4, <2>1 DEF PollTake
<1>5. CASE PollAdvance
  <2>1. aenq_head' \in Nat
    BY <1>5, AenqAssumption, DivMod, SMT DEF PollAdvance, Succ
  <2> QED BY <1>5, <2>1 DEF PollAdvance
<1>6. CASE Dispatch \/ DispatchFatal
  <2>1. \A n \in EntryEvents : n \in Nat
    <3>1. pc = "dispatch"
      BY <1>6 DEF Dispatch, DispatchFatal
    <3>2. mem[entry.idx].ev \in Nat
      BY <3>1 DEF Entries
    <3> QED BY <3>2, SMT DEF EntryEvents
  <2>2. seen' \in Seq(Nat)
    <3>1. PICK n \in EntryEvents : seen' = Append(seen, n) \/ seen' = seen
      BY <1>6 DEF Dispatch, DispatchFatal
    <3>2. n \in Nat
      BY <2>1
    <3> QED BY <3>1, <3>2, SMT
  <2> QED BY <1>6, <2>2 DEF Dispatch, DispatchFatal
<1>A. ASSUME NewRing, next' = next, pc' = pc \/ pc' = "check", entry' = entry PROVE TypeInv'
  <2>1. seen' \in Seq(Nat) /\ first' = next /\ mem' = FreshMem
    BY <1>A, SMT DEF NewRing
  <2>2. aenq_head' = Depth /\ dev_tail' = 0 /\ dev_phase' = 1
    BY <1>A DEF NewRing
  <2> QED BY <1>0, <1>A, <2>1, <2>2, SMT
<1>B. ASSUME NoRing, next' = next, pc' = pc \/ pc' = "check", entry' = entry PROVE TypeInv'
  BY <1>B DEF NoRing
<1>7. CASE RecoverHere
  <2>1. /\ next' = next /\ pc' = "check" /\ entry' = entry
        /\ \/ NewRing \/ NoRing
           \/ UNCHANGED <<ring, dev_tail, dev_phase, dev_head, seen, first>>
    BY <1>7 DEF RecoverHere
  <2> QED BY <1>A, <1>B, <2>1
<1>8. CASE ElsewhereFini \/ ElsewhereInit \/ ElsewhereRegister
  <2>1. /\ next' = next /\ pc' = pc /\ entry' = entry
        /\ \/ NewRing \/ NoRing
           \/ UNCHANGED <<mem, aenq_head, dev_tail, dev_phase, seen, first>>
    BY <1>8 DEF ElsewhereFini, ElsewhereInit, ElsewhereRegister
  <2> QED BY <1>A, <1>B, <2>1
<1> QED BY <1>1, <1>2, <1>3, <1>4, <1>5, <1>6, <1>7, <1>8 DEF Next, Poll, Elsewhere

\* Every recovery that makes a ring registers the handler.
LEMMA HandlerStep == ASSUME HandlerKept, [Next]_vars PROVE HandlerKept'
<1> USE DEF HandlerKept, ring, codeVars
<1>1. CASE UNCHANGED vars
  BY <1>1 DEF vars
<1>2. CASE DevPost \/ PollBegin \/ PollNull \/ PollEmpty \/ PollAck \/ PollTake
  BY <1>2 DEF DevPost, PollBegin, PollNull, PollEmpty, PollAck, PollTake
<1>3. CASE PollAdvance \/ Dispatch \/ DispatchFatal
  BY <1>3 DEF PollAdvance, Dispatch, DispatchFatal
<1>4. CASE RecoverHere
  BY <1>4 DEF RecoverHere, NewRing, NoRing, ReRegister
<1>5. CASE ElsewhereFini \/ ElsewhereInit \/ ElsewhereRegister
  BY <1>5 DEF ElsewhereFini, ElsewhereInit, ElsewhereRegister, NewRing, NoRing, ReRegister
<1> QED BY <1>1, <1>2, <1>3, <1>4, <1>5 DEF Next, Poll, Elsewhere

\* Nothing has been posted to a ring that was just made.
LEMMA FreshRing ==
  ASSUME NewRing, TypeInv, next' = next, pc' \notin {"advance", "ack", "dispatch"}
  PROVE  RingInv' /\ Len(seen') = 0
<1>0. Depth \in Nat \ {0} /\ IdxMod \in Nat \ {0} /\ Depth < IdxMod
      /\ DevKeeps \in 0 .. Depth - 1
  BY AenqAssumption, SMT
<1>1. PostedTo' = 0 /\ Done' = 0 /\ Taken' = 0 /\ Acked' = 0
  BY SMT DEF NewRing, TypeInv, PostedTo, Done, Taken, Acked
<1>2. 0 % IdxMod = 0 /\ (Depth + 0) % IdxMod = Depth
  <2>1. 0 = IdxMod * 0 + 0 /\ Depth = IdxMod * 0 + Depth
    BY <1>0, SMT
  <2> QED BY <1>0, <2>1, DivModUnique, SMT
<1>3. Ph(0) = 1
  BY <1>0, PhaseFacts, SMT
<1>4. CountersInv'
  BY <1>0, <1>1, <1>2, <1>3, SMT DEF CountersInv, NewRing
<1>5. MemInv'
  BY <1>1, SMT DEF MemInv, NewRing, FreshMem
<1>6. EntryInv'
  BY DEF EntryInv
<1> QED BY <1>1, <1>4, <1>5, <1>6 DEF RingInv, Done

\* The device writes the slot after the last event, which no one needs.
LEMMA PostStep ==
  ASSUME TypeInv, RingInv, DevPost, DevKeeps # 0 PROVE RingInv'
<1> DEFINE n == PostedTo
<1>0. Depth \in Nat \ {0} /\ IdxMod \in Nat \ {0} /\ Depth < IdxMod
      /\ DevKeeps \in 1 .. Depth - 1
  BY AenqAssumption, SMT
<1>1. /\ n \in Nat /\ n' = n + 1 /\ Done' = Done /\ Done \in Nat
      /\ Taken' = Taken /\ Acked' = Acked /\ Taken \in Nat /\ Acked \in Nat
      /\ Done <= Acked /\ Acked <= Taken /\ Taken <= Done + 1
  BY SMT DEF TypeInv, DevPost, PostedTo, Done, Taken, Acked
<1>2. /\ dev_tail = n % IdxMod /\ dev_phase = Ph(n)
      /\ dev_head = (Depth + Acked) % IdxMod
      /\ Taken <= n /\ n <= Acked + Depth - DevKeeps
  BY DEF RingInv, CountersInv
<1> HIDE DEF n
<1>3. n + 1 <= Acked + Depth - DevKeeps
  <2>1. /\ Depth + Acked \in Nat /\ n <= Depth + Acked /\ Depth + Acked < n + IdxMod
    BY <1>0, <1>1, <1>2, SMT
  <2>2. (dev_head + IdxMod - dev_tail) % IdxMod = (Depth + Acked) - n
    BY <1>0, <1>1, <1>2, <2>1, ModMinus
  <2>3. (Depth + Acked) - n >= DevKeeps + 1
    BY <1>0, <1>1, <2>2, SMT DEF DevPost, DevHasRoom
  <2> QED BY <1>0, <1>1, <2>3, SMT
<1>4. dev_tail' = (n + 1) % IdxMod /\ Slot(dev_tail) = Slot(n)
      /\ Slot(dev_tail') = Slot(n + 1)
  <2>1. dev_tail' = Succ(dev_tail)
    BY DEF DevPost
  <2> QED BY <1>1, <1>2, <2>1, CounterFacts, SMT
<1>5. dev_phase' = Ph(n + 1)
  BY <1>1, <1>2, <1>4, PhaseFacts DEF DevPost
<1>6. CountersInv'
  BY <1>0, <1>1, <1>2, <1>3, <1>4, <1>5, SMT DEF CountersInv, RingInv, DevPost, n
<1>7. /\ Slot(n) \in Slots
      /\ mem' = [mem EXCEPT ![Slot(n)] = [ev |-> next, phase |-> Ph(n)]]
      /\ next = first + n /\ first' = first
  <2>1. Slot(n) \in Slots
    BY <1>1, PhaseFacts
  <2>2. next = first + n
    BY SMT DEF TypeInv, PostedTo, n
  <2> QED BY <1>2, <1>4, <2>1, <2>2 DEF DevPost
<1>8. ASSUME NEW k \in Nat, k < n + 1, n + 1 <= k + Depth
      PROVE  mem'[Slot(k)] = [ev |-> first + k, phase |-> Ph(k)]
  <2>1. CASE k = n
    BY <1>7, <2>1 DEF TypeInv
  <2>2. CASE k < n
    <3>1. Slot(k) # Slot(n) /\ Slot(k) \in Slots
      <4>1. n < k + Depth
        BY <1>0, <1>1, <1>8, SMT
      <4>2. k % Depth # n % Depth
        BY <1>0, <1>1, <2>2, <4>1, ModDiffers
      <4> QED BY <4>2, PhaseFacts DEF Slot
    <3>2. mem[Slot(k)] = [ev |-> first + k, phase |-> Ph(k)]
      BY <1>0, <1>1, <1>8, <2>2, SMT DEF RingInv, MemInv, n
    <3> QED BY <1>7, <3>1, <3>2 DEF TypeInv
  <2> QED BY <1>1, <1>8, <2>1, <2>2, SMT
<1>9. ASSUME NEW s \in Slots, s >= n + 1 PROVE mem'[s].phase = 0
  <2>1. n < Depth /\ s # n /\ s >= n
    BY <1>0, <1>1, <1>9, SMT DEF Slots
  <2>2. Slot(n) = n
    BY <1>1, <2>1, PhaseFacts
  <2> QED BY <1>7, <2>1, <2>2 DEF TypeInv, RingInv, MemInv, n
<1>10. MemInv'
  BY <1>1, <1>7, <1>8, <1>9 DEF MemInv, n
<1>11. EntryInv'
  BY <1>1, SMT DEF RingInv, EntryInv, DevPost, n
<1> QED BY <1>6, <1>10, <1>11 DEF RingInv

\* A step that leaves the ring and the device alone and takes nothing.
LEMMA SameRing ==
  ASSUME RingInv,
         UNCHANGED <<aenq_base, mem, aenq_head, aenq_phase, devs, seen, first>>,
         pc \notin {"advance", "ack", "dispatch"},
         pc' \notin {"advance", "ack", "dispatch"}
  PROVE  RingInv'
<1>1. PostedTo' = PostedTo /\ Done' = Done /\ Taken' = Taken /\ Acked' = Acked
  BY DEF PostedTo, Done, Taken, Acked, devs
<1>2. CountersInv'
  BY <1>1 DEF RingInv, CountersInv, devs
<1>3. MemInv'
  BY <1>1 DEF RingInv, MemInv
<1> QED BY <1>2, <1>3 DEF RingInv, EntryInv

\* An entry with the phase the poll expects is the next event: an older one, and
\* one never written, has the other phase.
LEMMA TakeStep ==
  ASSUME TypeInv, RingInv, PollTake PROVE RingInv'
<1> DEFINE d == Done
           n == PostedTo
<1>0. Depth \in Nat \ {0}
  BY AenqAssumption
<1>1. /\ UNCHANGED <<ring, devs, seen, first>> /\ pc = "check" /\ pc' = "advance"
      /\ entry'.ring = aenq_base /\ entry'.idx = Slot(aenq_head)
      /\ mem[Slot(aenq_head)].phase = aenq_phase
  BY DEF PollTake, Ready
<1>2. PostedTo' = PostedTo /\ Done' = Done /\ Taken' = Taken /\ Acked' = Acked
  BY <1>1 DEF PostedTo, Done, Taken, Acked, devs
<1>3. /\ d \in Nat /\ n \in Nat /\ Taken = d
      /\ aenq_head = (Depth + d) % IdxMod /\ aenq_phase = Ph(d) /\ d <= n
  BY <1>1, SMT DEF TypeInv, PostedTo, Done, Taken, RingInv, CountersInv
<1> HIDE DEF d, n
<1>4. Slot(aenq_head) = Slot(d)
  <2>1. Depth + d \in Nat /\ Depth + d = d + Depth
    BY <1>0, <1>3, SMT
  <2>2. Slot(aenq_head) = Slot(Depth + d)
    BY <1>3, <2>1, CounterFacts
  <2> QED BY <1>3, <2>1, <2>2, PhaseFacts
<1>5. d # n
  <2> SUFFICES ASSUME d = n PROVE FALSE
    OBVIOUS
  <2>1. mem[Slot(d)].phase = Ph(d)
    BY <1>1, <1>3, <1>4
  <2>2. CASE d < Depth
    <3>1. Slot(d) = d /\ Ph(d) = 1 /\ d \in Slots
      BY <1>3, <2>2, PhaseFacts
    <3>2. mem[d].phase = 0
      BY <1>3, <3>1 DEF RingInv, MemInv, n
    <3> QED BY <2>1, <3>1, <3>2, SMT
  <2>3. CASE d >= Depth
    <3> DEFINE k == d - Depth
    <3>1. k \in Nat /\ k < n /\ n <= k + Depth /\ d = k + Depth
      BY <1>0, <1>3, <2>3, SMT
    <3> HIDE DEF k
    <3>2. mem[Slot(k)] = [ev |-> first + k, phase |-> Ph(k)]
      BY <3>1 DEF RingInv, MemInv, n
    <3>3. Slot(d) = Slot(k) /\ Ph(d) = 1 - Ph(k) /\ Ph(k) \in {0, 1}
      BY <3>1, PhaseFacts
    <3> QED BY <2>1, <3>2, <3>3, SMT
  <2> QED BY <1>0, <1>3, <2>2, <2>3, SMT
<1>6. CountersInv'
  BY <1>1, <1>2 DEF RingInv, CountersInv, ring, devs
<1>7. MemInv'
  BY <1>1, <1>2 DEF RingInv, MemInv, ring
<1>8. EntryInv'
  <2>1. d < n
    BY <1>3, <1>5, SMT
  <2> QED BY <1>1, <1>2, <1>4, <2>1 DEF EntryInv, ring, d, n
<1> QED BY <1>6, <1>7, <1>8 DEF RingInv

\* The head goes on to the next event and its phase.
LEMMA AdvanceStep ==
  ASSUME TypeInv, RingInv, PollAdvance PROVE RingInv'
<1> DEFINE d == Done
           n == PostedTo
<1>0. Depth \in Nat \ {0}
  BY AenqAssumption
<1>1. /\ UNCHANGED <<aenq_base, mem, entry, devs, seen, first>>
      /\ pc = "advance" /\ pc' = "ack"
      /\ aenq_head' = Succ(aenq_head)
      /\ aenq_phase' = FlipOnWrap(aenq_phase, Succ(aenq_head))
  BY DEF PollAdvance
<1>2. /\ n' = n /\ d' = d /\ Taken = d /\ Acked = d /\ Taken' = d + 1 /\ Acked' = d
  BY <1>1 DEF PostedTo, Done, Taken, Acked, devs
<1>3. /\ d \in Nat /\ n \in Nat /\ d < n
      /\ aenq_head = (Depth + d) % IdxMod /\ aenq_phase = Ph(d)
      /\ entry.ring = aenq_base /\ entry.idx = Slot(d)
  BY <1>1, <1>2, SMT DEF TypeInv, PostedTo, Done, RingInv, CountersInv, EntryInv
<1> HIDE DEF d, n
<1>4. aenq_head' = (Depth + (d + 1)) % IdxMod /\ Slot(aenq_head') = Slot(d + 1)
  <2>1. /\ Depth + d \in Nat /\ d + 1 \in Nat /\ (Depth + d) + 1 \in Nat
        /\ (Depth + d) + 1 = Depth + (d + 1) /\ (Depth + d) + 1 = (d + 1) + Depth
    BY <1>0, <1>3, SMT
  <2>2. aenq_head' = ((Depth + d) + 1) % IdxMod
    BY <1>1, <1>3, <2>1, CounterFacts
  <2>3. Slot(aenq_head') = Slot((Depth + d) + 1)
    BY <2>1, <2>2, CounterFacts
  <2>4. Slot((d + 1) + Depth) = Slot(d + 1)
    BY <2>1, PhaseFacts
  <2> QED BY <2>1, <2>2, <2>3, <2>4
<1>5. aenq_phase' = Ph(d + 1)
  BY <1>1, <1>3, <1>4, PhaseFacts DEF FlipOnWrap
<1>6. CountersInv'
  <2>1. d + 1 <= n
    BY <1>3, SMT
  <2> QED BY <1>1, <1>2, <1>4, <1>5, <2>1 DEF RingInv, CountersInv, devs, n
<1>7. MemInv'
  BY <1>1, <1>2 DEF RingInv, MemInv, n
<1>8. EntryInv'
  BY <1>1, <1>2, <1>3 DEF EntryInv, d, n
<1> QED BY <1>6, <1>7, <1>8 DEF RingInv

\* The acknowledgement gives the slot back to the device.
LEMMA AckStep ==
  ASSUME TypeInv, RingInv, PollAck PROVE RingInv'
<1> DEFINE d == Done
           n == PostedTo
<1>1. /\ UNCHANGED <<ring, entry, dev_tail, dev_phase, next, seen, first>>
      /\ pc = "ack" /\ pc' = "dispatch" /\ dev_head' = aenq_head
  BY DEF PollAck
<1>2. /\ n' = n /\ d' = d /\ Taken = d + 1 /\ Acked = d /\ Taken' = d + 1 /\ Acked' = d + 1
  BY <1>1 DEF PostedTo, Done, Taken, Acked
<1>3. d \in Nat /\ n \in Nat /\ Depth \in Nat /\ DevKeeps \in Nat
  BY AenqAssumption, SMT DEF TypeInv, PostedTo, Done
<1> HIDE DEF d, n
<1>4. CountersInv'
  BY <1>1, <1>2, <1>3, SMT DEF RingInv, CountersInv, ring, n
<1>5. MemInv'
  BY <1>1, <1>2 DEF RingInv, MemInv, ring, n
<1>6. EntryInv'
  BY <1>1, <1>2 DEF RingInv, EntryInv, ring, d, n
<1> QED BY <1>4, <1>5, <1>6 DEF RingInv

\* The handler reads the event that was taken: the device has left its slot alone.
LEMMA DispatchStep ==
  ASSUME TypeInv, RingInv, Dispatch \/ DispatchFatal, handler, DevKeeps # 0
  PROVE  RingInv' /\ seen' = Append(seen, first + Done)
<1> DEFINE d == Done
           n == PostedTo
<1>0. Depth \in Nat \ {0} /\ DevKeeps \in Nat /\ DevKeeps >= 1
  BY AenqAssumption, SMT
<1>1. /\ UNCHANGED <<ring, entry, devs, first>> /\ pc = "dispatch"
      /\ pc' \in {"check", "recover"}
      /\ \E e \in EntryEvents : seen' = Append(seen, e)
  BY DEF Dispatch, DispatchFatal
<1>2. /\ d \in Nat /\ n \in Nat /\ Taken = d + 1 /\ Acked = d + 1 /\ d < n
      /\ n <= d + 1 + Depth - DevKeeps
      /\ entry.ring = aenq_base /\ entry.idx = Slot(d)
  BY <1>1, SMT DEF TypeInv, PostedTo, Done, Taken, Acked, RingInv, CountersInv, EntryInv
<1> HIDE DEF d, n
<1>3. mem[Slot(d)] = [ev |-> first + d, phase |-> Ph(d)]
  <2>1. n <= d + Depth
    BY <1>0, <1>2, SMT
  <2> QED BY <1>2, <2>1 DEF RingInv, MemInv, n
<1>4. seen' = Append(seen, first + d)
  BY <1>1, <1>2, <1>3, SMT DEF EntryEvents
<1>5. /\ n' = n /\ d' = d + 1 /\ Taken' = d + 1 /\ Acked' = d + 1
  <2>1. Len(seen') = Len(seen) + 1
    BY <1>4, SMT DEF TypeInv, d
  <2> QED BY <1>1, <2>1 DEF PostedTo, Done, Taken, Acked, devs, d, n
<1>6. CountersInv'
  BY <1>1, <1>2, <1>5 DEF RingInv, CountersInv, ring, devs, n
<1>7. MemInv'
  BY <1>1, <1>5 DEF RingInv, MemInv, ring, n
<1>8. EntryInv'
  BY <1>1 DEF EntryInv
<1> QED BY <1>4, <1>6, <1>7, <1>8 DEF RingInv, d

\* Every step keeps the ring and the order of the events, as long as no poll
\* meets a recovery on another core.
LEMMA ApartStep ==
  ASSUME AenqInv, Next, ~ raced', DevKeeps # 0 PROVE Apart'
<1> DEFINE Order == \A i \in 1 .. Len(seen) : seen[i] = first + i - 1
<1>0. /\ TypeInv /\ HandlerKept /\ Apart /\ Order
      /\ pc' # "idle" => elsewhere' = "no"
      /\ aenq_base # None => RingInv
  BY DEF AenqInv, Next, Apart
<1>1. SUFFICES /\ aenq_base' = None => pc' \in {"idle", "check", "crashed"}
               /\ aenq_base' # None => RingInv'
               /\ Order'
  BY <1>0 DEF Apart
<1>2. CASE DevPost
  <2>1. aenq_base # None /\ UNCHANGED <<aenq_base, seen, first>>
    BY <1>2 DEF DevPost
  <2> QED BY <1>0, <1>2, <2>1, PostStep
<1>3. CASE PollBegin \/ PollNull \/ PollEmpty
  <2>1. /\ UNCHANGED <<ring, devs, seen, first>>
        /\ pc' \in {"idle", "check", "crashed"} /\ pc \in {"idle", "check"}
    BY <1>3 DEF PollBegin, PollNull, PollEmpty
  <2>2. aenq_base # None => RingInv'
    BY <1>0, <2>1, SameRing DEF ring
  <2> QED BY <1>0, <2>1, <2>2 DEF ring
<1>4. CASE PollTake
  <2>1. aenq_base # None /\ UNCHANGED <<aenq_base, seen, first>>
    BY <1>4 DEF PollTake, ring
  <2> QED BY <1>0, <1>4, <2>1, TakeStep
<1>5. CASE PollAdvance
  <2>1. aenq_base # None /\ UNCHANGED <<aenq_base, seen, first>>
    BY <1>0, <1>5 DEF PollAdvance, Apart
  <2> QED BY <1>0, <1>5, <2>1, AdvanceStep
<1>6. CASE PollAck
  <2>1. aenq_base # None /\ UNCHANGED <<aenq_base, seen, first>>
    BY <1>0, <1>6 DEF PollAck, Apart, ring
  <2> QED BY <1>0, <1>6, <2>1, AckStep
<1>7. CASE Dispatch \/ DispatchFatal
  <2>1. aenq_base # None /\ aenq_base' = aenq_base /\ elsewhere = "no" /\ first' = first
    BY <1>0, <1>7 DEF Dispatch, DispatchFatal, Apart, ring
  <2>2. handler
    BY <1>0, <2>1 DEF HandlerKept
  <2>3. RingInv' /\ seen' = Append(seen, first + Done)
    BY <1>0, <1>7, <2>1, <2>2, DispatchStep
  <2>4. Order'
    <3>1. seen \in Seq(Nat) /\ first \in Nat
      BY <1>0 DEF TypeInv
    <3>2. seen' = Append(seen, first + Len(seen)) /\ first' = first
      BY <2>1, <2>3 DEF Done
    <3> QED BY <1>0, <3>1, <3>2, SMT
  <2> QED BY <2>1, <2>3, <2>4
<1>8. CASE RecoverHere
  <2>1. /\ pc = "recover" /\ pc' = "check" /\ next' = next
        /\ \/ NewRing \/ NoRing
           \/ UNCHANGED <<ring, dev_tail, dev_phase, dev_head, seen, first>>
    BY <1>8 DEF RecoverHere
  <2>2. CASE NewRing
    <3>1. RingInv' /\ Len(seen') = 0
      BY <1>0, <2>1, <2>2, FreshRing
    <3>2. rings' = aenq_base' /\ Order'
      BY <2>2, <3>1, SMT DEF NewRing
    <3> QED BY <2>1, <3>1, <3>2
  <2>3. CASE NoRing
    BY <1>0, <2>1, <2>3 DEF NoRing
  <2>4. CASE UNCHANGED <<ring, dev_tail, dev_phase, dev_head, seen, first>>
    <3>1. aenq_base # None => RingInv'
      BY <1>0, <2>1, <2>4, SameRing DEF ring, devs
    <3> QED BY <1>0, <2>1, <2>4, <3>1 DEF ring
  <2> QED BY <2>1, <2>2, <2>3, <2>4
<1>9. CASE ElsewhereFini
  <2>1. pc' = "idle" /\ NoRing
    BY <1>0, <1>9 DEF ElsewhereFini
  <2> QED BY <1>0, <2>1 DEF NoRing
<1>10. CASE ElsewhereInit
  <2>1. pc' = "idle" /\ NewRing /\ next' = next
    BY <1>0, <1>10 DEF ElsewhereInit
  <2>2. RingInv' /\ Len(seen') = 0
    BY <1>0, <2>1, FreshRing
  <2>3. Order'
    BY <2>2, SMT
  <2> QED BY <2>1, <2>2, <2>3
<1>11. CASE ElsewhereRegister
  <2>1. /\ pc = "idle" /\ pc' = "idle"
        /\ UNCHANGED <<aenq_base, mem, aenq_head, aenq_phase, devs, seen, first>>
    BY <1>0, <1>11 DEF ElsewhereRegister, Apart
  <2>2. aenq_base # None => RingInv'
    BY <1>0, <2>1, SameRing
  <2> QED BY <1>0, <2>1, <2>2
<1> QED BY <1>2, <1>3, <1>4, <1>5, <1>6, <1>7, <1>8, <1>9, <1>10, <1>11
        DEF Next, Poll, Elsewhere

\* The first ring is as fresh as any later one.
LEMMA AenqInit == Init => AenqInv
<1> SUFFICES ASSUME Init PROVE AenqInv
  OBVIOUS
<1>0. Depth \in Nat \ {0} /\ IdxMod \in Nat \ {0} /\ Depth < IdxMod
      /\ DevKeeps \in 0 .. Depth - 1
  BY AenqAssumption, SMT
<1>1. TypeInv
  BY <1>0, SMT DEF Init, TypeInv, FreshMem, Entries, NoEvent, Places
<1>2. HandlerKept
  BY DEF Init, HandlerKept
<1>3. PostedTo = 0 /\ Done = 0 /\ Taken = 0 /\ Acked = 0
  BY SMT DEF Init, PostedTo, Done, Taken, Acked
<1>4. 0 % IdxMod = 0 /\ (Depth + 0) % IdxMod = Depth
  <2>1. 0 = IdxMod * 0 + 0 /\ Depth = IdxMod * 0 + Depth
    BY <1>0, SMT
  <2> QED BY <1>0, <2>1, DivModUnique, SMT
<1>5. Ph(0) = 1
  BY <1>0, PhaseFacts, SMT
<1>6. CountersInv
  BY <1>0, <1>3, <1>4, <1>5, SMT DEF CountersInv, Init
<1>7. MemInv
  BY <1>3, SMT DEF MemInv, Init, FreshMem
<1>8. Apart
  BY <1>6, <1>7, SMT DEF Apart, RingInv, EntryInv, Init
<1> QED BY <1>1, <1>2, <1>8 DEF AenqInv

-----------------------------------------------------------------------------
(* The theorems *)

\* A ring in use has its handler, whichever core made it and whatever failed on
\* the way: ena_admin_init clears the handler and every recovery registers it
\* again (ena_admin_init, ena_adapter_reset_and_recover).
THEOREM RecoveryKeepsHandler == Spec => []HandlerKept
<1>1. Init => HandlerKept
  BY DEF Init, HandlerKept
<1>2. HandlerKept /\ [Next]_vars => HandlerKept'
  BY HandlerStep
<1> QED BY <1>1, <1>2, PTL DEF Spec

\* The handler gets the events of a ring exactly once and in the order the device
\* posted them, across the wraps of the ring and of the head counter and across
\* recoveries, until a poll meets a recovery on another core; provided that the
\* device leaves one entry of the ring free, because an event is acknowledged
\* before it is read (ena_admin_aenq_poll).
THEOREM EventsOnceInOrder == DevKeeps # 0 => (Spec => []EventsInOrder)
<1> SUFFICES ASSUME DevKeeps # 0 PROVE Spec => []EventsInOrder
  OBVIOUS
<1>1. Init => AenqInv
  BY AenqInit
<1>2. AenqInv /\ [Next]_vars => AenqInv'
  <2> SUFFICES ASSUME AenqInv, [Next]_vars PROVE AenqInv'
    OBVIOUS
  <2>1. TypeInv'
    BY TypeStep DEF AenqInv
  <2>2. HandlerKept'
    BY HandlerStep DEF AenqInv
  <2>3. ~ raced' => Apart'
    <3>1. CASE Next
      BY <3>1, ApartStep
    <3>2. CASE UNCHANGED vars
      <4>1. Apart' = Apart /\ raced' = raced
        BY <3>2 DEF vars, codeVars, ring, devs, Apart, RingInv, CountersInv, MemInv,
                    EntryInv, PostedTo, Done, Taken, Acked
      <4> QED BY <4>1 DEF AenqInv
    <3> QED BY <3>1, <3>2
  <2> QED BY <2>1, <2>2, <2>3 DEF AenqInv
<1>3. AenqInv => EventsInOrder
  BY DEF AenqInv, Apart, EventsInOrder
<1> QED BY <1>1, <1>2, <1>3, PTL DEF Spec
=============================================================================
