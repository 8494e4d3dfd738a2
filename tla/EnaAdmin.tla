------------------------------- MODULE EnaAdmin -------------------------------
(***************************************************************************)
(* The admin queue (src/ena_admin.c): commands of several cores, one at a  *)
(* time under the admin lock, their completions, timeouts, and the reset   *)
(* and recovery that a timeout or a fatal event starts.                    *)
(*                                                                         *)
(* A core runs ena_admin_exec_cmd in steps: the checks before the lock,    *)
(* the submission, the poll loop, the unlock, and the recovery.  The       *)
(* recovery issues commands of its own through the same function, so       *)
(* frames[c] holds, for every recovery core c is inside, how many commands *)
(* that recovery still has to send, whether all of them succeeded so far,  *)
(* and what the call that started it returns.                              *)
(*                                                                         *)
(* A command carries a serial number no code sees; it tells commands with  *)
(* the same id apart.                                                      *)
(***************************************************************************)
EXTENDS Naturals, Sequences

CONSTANTS
  Cpus, None,
  AcqDepth,     \* depth of both rings, a power of two
  IdxMod,       \* indices are uint16_t: 2^16 in the code
  IdSpace,      \* command ids are 12 bits wide: 2^12 in the code
  RecoveryCmds, \* commands a recovery sends (queue creation, features)
  MaxCalls, MaxTimeouts, MaxFatal, MaxFailures  \* bounds of the exploration

ASSUME AdminAssumption ==
  /\ None \notin Cpus
  /\ AcqDepth \in Nat \ {0} /\ IdxMod \in Nat \ {0} /\ IdSpace \in Nat
  /\ IdSpace >= 2 /\ RecoveryCmds \in Nat

VARIABLES
  state,           \* "ready" | "error" | "stopped"
  queues,          \* aq_base and acq_base are allocated
  admin_lock,      \* None, or the core that holds it
  recover_active,
  aq_tail, aq_phase, next_command_id, aq,
  acq_head, acq_phase, acq,
  aq_db,           \* last tail written to the AQ doorbell
  dev_aq_head, dev_acq_tail, dev_acq_phase,
  pc, frames,
  cmd,             \* id and serial of the command a core has submitted
  ret,             \* what the last command of a core returned
  rec_ret,         \* "ok" | "failed" | "notReset": the last finished recovery
  serial, calls, timeouts, fatals, failures,
  overlap          \* two cores have met in the recovery (history)

aqVars    == <<aq_tail, aq_phase, next_command_id, aq>>
acqVars   == <<acq_head, acq_phase>>
devVars   == <<dev_aq_head, dev_acq_tail, dev_acq_phase>>
queueVars == <<queues, aqVars, acqVars, acq, aq_db, devVars>>
boundVars == <<calls, timeouts, fatals, failures>>
codeVars == <<state, queueVars, admin_lock, recover_active, pc, frames, cmd,
              ret, rec_ret, serial, boundVars>>
vars == <<codeVars, overlap>>

Slots   == 0 .. AcqDepth - 1
Slot(i) == i % AcqDepth
Succ(i) == (i + 1) % IdxMod
FlipNever(phase, i) == phase
FlipOnWrap(phase, i) == IF Slot(i) = 0 THEN 1 - phase ELSE phase

NoCmd == [id |-> 0, serial |-> 0]
Zeroed == [id |-> 0, serial |-> 0, phase |-> 0, status |-> "ok"]

Init ==
  /\ state = "ready" /\ queues = TRUE
  /\ admin_lock = None /\ recover_active = FALSE
  /\ aq_tail = 0 /\ aq_phase = 1 /\ next_command_id = 1
  /\ aq = [s \in Slots |-> Zeroed]
  /\ acq_head = 0 /\ acq_phase = 1
  /\ acq = [s \in Slots |-> Zeroed]
  /\ aq_db = 0 /\ dev_aq_head = 0 /\ dev_acq_tail = 0 /\ dev_acq_phase = 1
  /\ pc = [c \in Cpus |-> "idle"]
  /\ frames = [c \in Cpus |-> <<>>]
  /\ cmd = [c \in Cpus |-> NoCmd]
  /\ ret = [c \in Cpus |-> "none"]
  /\ rec_ret = "none"
  /\ serial = 0 /\ calls = 0 /\ timeouts = 0 /\ fatals = 0 /\ failures = 0
  /\ overlap = FALSE

\* ena_admin_lock_take succeeds.
LockIgnored(c) == admin_lock' = c
Lock(c) == admin_lock = None /\ admin_lock' = c

Goto(c, from, to) == pc[c] = from /\ pc' = [pc EXCEPT ![c] = to]

Top(stack) == stack[Len(stack)]
Popped(stack) == SubSeq(stack, 1, Len(stack) - 1)

NotedNever(stack, r) == stack

\* The innermost recovery, if any, notes what its command returned.
Noted(stack, r) ==
  IF stack = <<>> THEN stack
  ELSE [stack EXCEPT ![Len(stack)].ok = @ /\ r = "ok"]

\* ena_admin_exec_cmd returns r: to its caller, or to the recovery that sent
\* the command, which notes an error and goes on.
Return(c, from, r) ==
  /\ Goto(c, from, IF frames[c] = <<>> THEN "idle" ELSE "recNext")
  /\ ret' = [ret EXCEPT ![c] = r]
  /\ frames' = [frames EXCEPT ![c] = Noted(@, r)]
  /\ cmd' = [cmd EXCEPT ![c] = NoCmd]

-----------------------------------------------------------------------------
(* ena_admin_exec_cmd *)

\* A control-plane caller starts a command.
Call(c) ==
  /\ calls < MaxCalls
  /\ Goto(c, "idle", "exec")
  /\ calls' = calls + 1
  /\ UNCHANGED <<state, queueVars, admin_lock, recover_active, frames, cmd,
                 ret, rec_ret, serial, timeouts, fatals, failures>>

\* The checks before the lock: no queues (-EINVAL), adapter in error
\* (-ENODEV).
ExecRefused(c) ==
  /\ ~ queues \/ state = "error"
  /\ Return(c, "exec", IF queues THEN "ENODEV" ELSE "EINVAL")
  /\ UNCHANGED <<state, queueVars, admin_lock, recover_active, rec_ret, serial,
                 boundVars>>

ExecEnter(c) ==
  /\ queues /\ state # "error"
  /\ Goto(c, "exec", "lock")
  /\ UNCHANGED <<state, queueVars, admin_lock, recover_active, frames, cmd,
                 ret, rec_ret, serial, boundVars>>

\* Ids run from 1 to IdSpace - 1; 0 is skipped.
NextId(id) == IF (id + 1) % IdSpace = 0 THEN 1 ELSE (id + 1) % IdSpace

\* The id counter is back at 1 and completions were read before: the expected
\* phase is computed from the head, and the entry at the head is cleared.
WrapsAt(id) == id = 1 /\ acq_head > 0

\* ena_admin_exec_locked up to the doorbell.
ExecSubmit(c) ==
  LET id == IF next_command_id = 0 THEN 1 ELSE next_command_id IN
  /\ Goto(c, "lock", "poll")
  /\ Lock(c)
  /\ queues
  /\ next_command_id' = NextId(id)
  /\ aq' = [aq EXCEPT ![Slot(aq_tail)] =
              [Zeroed EXCEPT !.id = id, !.serial = serial + 1,
                             !.phase = aq_phase]]
  /\ serial' = serial + 1
  /\ cmd' = [cmd EXCEPT ![c] = [id |-> id, serial |-> serial + 1]]
  /\ IF WrapsAt(id)
     THEN /\ acq_phase' = 1 - ((acq_head \div AcqDepth) % 2)
          /\ acq' = [acq EXCEPT ![Slot(acq_head)] = Zeroed]
     ELSE UNCHANGED <<acq_phase, acq>>
  /\ aq_tail' = Succ(aq_tail)
  /\ aq_phase' = FlipOnWrap(aq_phase, Succ(aq_tail))
  /\ aq_db' = Succ(aq_tail)
  /\ UNCHANGED <<state, queues, recover_active, acq_head, devVars, frames, ret,
                 rec_ret, boundVars>>

\* The queues were freed while the caller waited for the lock: the
\* submission works on null pointers and the core stops here.
ExecFault(c) ==
  /\ Goto(c, "lock", "fault")
  /\ Lock(c)
  /\ ~ queues
  /\ UNCHANGED <<state, queueVars, recover_active, frames, cmd, ret, rec_ret,
                 serial, boundVars>>

AcqEntry == acq[Slot(acq_head)]
AcqReady == AcqEntry.phase = acq_phase

AcceptsAny(c) == TRUE

\* A completion with another id is rejected (-EIO).
Accepts(c) == AcqEntry.id = cmd[c].id

\* The poll loop finds a completion: it is consumed before its id is compared.
Consume(c) ==
  /\ Goto(c, "poll", "drop")
  /\ AcqReady
  /\ acq_head' = Succ(acq_head)
  /\ acq_phase' = FlipOnWrap(acq_phase, Succ(acq_head))
  /\ ret' = [ret EXCEPT ![c] = IF Accepts(c) THEN AcqEntry.status ELSE "EIO"]
  /\ UNCHANGED <<state, queues, aqVars, acq, aq_db, devVars, admin_lock,
                 recover_active, frames, cmd, rec_ret, serial,
                 boundVars>>

\* The poll budget is used up.
Timeout(c) ==
  /\ timeouts < MaxTimeouts
  /\ Goto(c, "poll", "drop")
  /\ ~ AcqReady
  /\ state' = "error"
  /\ ret' = [ret EXCEPT ![c] = "ETIMEDOUT"]
  /\ timeouts' = timeouts + 1
  /\ UNCHANGED <<queueVars, admin_lock, recover_active, frames, cmd, rec_ret,
                 serial, calls, fatals, failures>>

\* ena_admin_lock_take tries again after a microsecond.
Spin(c) ==
  /\ pc[c] \in {"lock", "recLock"} /\ admin_lock # None
  /\ UNCHANGED vars

UnlockUnlessTimeout(c) ==
  admin_lock' = IF ret[c] = "ETIMEDOUT" THEN admin_lock ELSE None

Unlock(c) == admin_lock' = None

\* The lock is dropped; a timeout goes on to the recovery.
Drop(c) ==
  /\ Unlock(c)
  /\ IF ret[c] = "ETIMEDOUT"
     THEN Goto(c, "drop", "recCheck") /\ UNCHANGED <<ret, frames, cmd>>
     ELSE Return(c, "drop", ret[c])
  /\ UNCHANGED <<state, queueVars, recover_active, rec_ret, serial, boundVars>>

-----------------------------------------------------------------------------
(* ena_adapter_reset_and_recover *)

\* A FATAL_ERROR event reaches ena_aenq_default_handler.
Fatal(c) ==
  /\ fatals < MaxFatal
  /\ Goto(c, "idle", "recCheck")
  /\ ret' = [ret EXCEPT ![c] = "fatal"]
  /\ fatals' = fatals + 1
  /\ UNCHANGED <<state, queueVars, admin_lock, recover_active, frames, cmd,
                 rec_ret, serial, calls, timeouts, failures>>

\* A recovery is running already: skip this one.
RecSkip(c) ==
  /\ recover_active
  /\ Return(c, "recCheck", ret[c])
  /\ UNCHANGED <<state, queueVars, admin_lock, recover_active, rec_ret, serial,
                 boundVars>>

RecEnter(c) ==
  /\ ~ recover_active
  /\ Goto(c, "recCheck", "recMark")
  /\ UNCHANGED <<state, queueVars, admin_lock, recover_active, frames, cmd,
                 ret, rec_ret, serial, boundVars>>

\* recover_active is a plain flag: another core may have passed the test too.
RecMark(c) ==
  /\ Goto(c, "recMark", "recLock")
  /\ recover_active' = TRUE
  /\ state' = "error"
  /\ UNCHANGED <<queueVars, admin_lock, frames, cmd, ret, rec_ret,
                 serial, boundVars>>

RecLock(c) ==
  /\ Goto(c, "recLock", "recReset")
  /\ Lock(c)
  /\ UNCHANGED <<state, queueVars, recover_active, frames, cmd, ret, rec_ret,
                 serial, boundVars>>

\* A device in reset has no admin queues: it drops the commands it held.
DevDrops == dev_aq_head' = aq_db /\ UNCHANGED <<dev_acq_tail, dev_acq_phase>>

\* The reset completes, and ena_admin_init frees the old queues first.
RecReset(c) ==
  /\ Goto(c, "recReset", "recInit")
  /\ queues' = FALSE /\ state' = "stopped"
  /\ DevDrops
  /\ UNCHANGED <<aqVars, acqVars, acq, aq_db, admin_lock, recover_active,
                 frames, cmd, ret, rec_ret, serial, boundVars>>

\* The recovery ends early: the lock is dropped and the error returned.
RecAbandon(c, from, r) ==
  /\ failures < MaxFailures /\ failures' = failures + 1
  /\ admin_lock' = None
  /\ recover_active' = FALSE
  /\ rec_ret' = r
  /\ Return(c, from, ret[c])
  /\ UNCHANGED <<queues, aqVars, acqVars, acq, aq_db, serial, calls, timeouts,
                 fatals>>

\* The reset did not complete: a fatal status sets the error state again, a
\* timeout leaves the state alone.
RecResetFails(c) ==
  /\ RecAbandon(c, "recReset", "notReset")
  /\ state' \in {state, "error"}
  /\ DevDrops

\* The new queues cannot be allocated.
RecInitFails(c) ==
  RecAbandon(c, "recInit", "failed") /\ UNCHANGED <<state, devVars>>

\* ena_admin_init: fresh, zeroed queues; the device starts with phase 1.
RecInit(c) ==
  /\ Goto(c, "recInit", "recNext")
  /\ queues' = TRUE /\ state' = "ready"
  /\ aq_tail' = 0 /\ aq_phase' = 1 /\ next_command_id' = 1
  /\ aq' = [s \in Slots |-> Zeroed]
  /\ acq_head' = 0 /\ acq_phase' = 1
  /\ acq' = [s \in Slots |-> Zeroed]
  /\ aq_db' = 0 /\ dev_aq_head' = 0 /\ dev_acq_tail' = 0 /\ dev_acq_phase' = 1
  /\ admin_lock' = None
  /\ frames' = [frames EXCEPT ![c] =
        Append(@, [left |-> RecoveryCmds, ok |-> TRUE, why |-> ret[c]])]
  /\ UNCHANGED <<recover_active, cmd, ret, rec_ret, serial, boundVars>>

\* The next queue is created, or the next feature set.
RecCommand(c) ==
  /\ frames[c] # <<>> /\ Top(frames[c]).left > 0
  /\ Goto(c, "recNext", "exec")
  /\ frames' = [frames EXCEPT ![c][Len(frames[c])].left = @ - 1]
  /\ UNCHANGED <<state, queueVars, admin_lock, recover_active, cmd, ret,
                 rec_ret, serial, boundVars>>

\* The recovery is over, and the command that timed out returns.
RecDone(c) ==
  LET frame == Top(frames[c]) IN
  /\ frames[c] # <<>> /\ frame.left = 0
  /\ Goto(c, "recNext", IF Len(frames[c]) = 1 THEN "idle" ELSE "recNext")
  /\ frames' = [frames EXCEPT ![c] = Noted(Popped(@), frame.why)]
  /\ recover_active' = FALSE
  /\ rec_ret' = IF frame.ok THEN "ok" ELSE "failed"
  /\ ret' = [ret EXCEPT ![c] = frame.why]
  /\ UNCHANGED <<state, queueVars, admin_lock, cmd, serial, boundVars>>

-----------------------------------------------------------------------------
(* The device *)

\* It answers commands in order, in its own time, and may refuse one.
DevAnswer(status) ==
  /\ queues /\ dev_aq_head # aq_db
  /\ status # "ok" => failures < MaxFailures
  /\ failures' = IF status = "ok" THEN failures ELSE failures + 1
  /\ acq' = [acq EXCEPT ![Slot(dev_acq_tail)] =
               [aq[Slot(dev_aq_head)] EXCEPT !.phase = dev_acq_phase,
                                             !.status = status]]
  /\ dev_aq_head' = Succ(dev_aq_head)
  /\ dev_acq_tail' = Succ(dev_acq_tail)
  /\ dev_acq_phase' = FlipOnWrap(dev_acq_phase, Succ(dev_acq_tail))
  /\ UNCHANGED <<state, queues, aqVars, acqVars, aq_db, admin_lock,
                 recover_active, pc, frames, cmd, ret, rec_ret, serial, calls,
                 timeouts, fatals>>

CoreStep(c) ==
  \/ ExecRefused(c) \/ ExecEnter(c) \/ ExecSubmit(c) \/ ExecFault(c)
  \/ Spin(c) \/ Consume(c) \/ Timeout(c) \/ Drop(c)
  \/ RecSkip(c) \/ RecEnter(c) \/ RecMark(c) \/ RecLock(c) \/ RecReset(c)
  \/ RecResetFails(c) \/ RecInitFails(c) \/ RecInit(c)
  \/ RecCommand(c) \/ RecDone(c)

\* Every caller is back and the bounds allow no further call; or a core has
\* stopped on the freed queues.
Finished ==
  /\ \/ calls = MaxCalls /\ \A c \in Cpus : pc[c] = "idle"
     \/ \E c \in Cpus : pc[c] = "fault"
  /\ UNCHANGED vars

\* A core comes to the recovery while another one is in it.
Recovering(c) == frames[c] # <<>> \/ pc[c] \in {"recMark", "recLock", "recReset",
                                               "recInit"}
Overlapping == \E c \in Cpus : \E d \in Cpus \ {c} :
                 Recovering(c) /\ (Recovering(d) \/ pc[d] = "recCheck")

Next ==
  /\ \/ \E c \in Cpus : CoreStep(c) \/ Call(c) \/ Fatal(c)
     \/ \E status \in {"ok", "status"} : DevAnswer(status)
     \/ Finished
  /\ overlap' = (overlap \/ Overlapping')

Spec == Init /\ [][Next]_vars

\* Every core keeps running its code, the test-and-set lock lets every
\* spinning core in at last, and the device answers what it was asked.
Fairness ==
  /\ \A c \in Cpus : /\ WF_codeVars(CoreStep(c))
                     /\ SF_codeVars(ExecSubmit(c)) /\ SF_codeVars(RecLock(c))
  /\ WF_codeVars(DevAnswer("ok"))

FairSpec == Spec /\ Fairness

-----------------------------------------------------------------------------
(* What the admin queue promises *)

Inside == {"poll", "drop", "recReset", "recInit", "fault"}
Pcs == Inside \cup {"idle", "exec", "lock", "recCheck", "recMark", "recLock",
                    "recNext"}

\* The queues are used by one core at a time, the one that holds the admin
\* lock: a recovery never frees them under a core that polls for a completion
\* (ena_admin_exec_cmd, ena_adapter_reset_and_recover).
OneCoreInside == \A c \in Cpus : pc[c] \in Inside <=> admin_lock = c

\* A command that returns the device's answer returns the answer to itself:
\* a late completion of a command that timed out is never taken for the
\* answer of the next caller's command (the id check of ena_admin_exec_locked).
OwnAnswer ==
  [][\A c \in Cpus :
       pc[c] = "poll" /\ ret'[c] \in {"ok", "status"} /\ ret'[c] # ret[c]
         => AcqEntry.serial = cmd[c].serial]_vars

\* Every entry the doorbell has published and the device has not read yet
\* carries the phase of its pass over the ring, and a command not read yet is
\* not overwritten (the AQ tail and phase of ena_admin_exec_locked).
PublishedPhase ==
  LET waiting == (aq_db + IdxMod - dev_aq_head) % IdxMod IN
  queues =>
    /\ waiting <= AcqDepth
    /\ \A k \in 0 .. waiting - 1 :
         LET i == (dev_aq_head + k) % IdxMod IN
         /\ aq[Slot(i)].phase = 1 - ((i \div AcqDepth) % 2)
         /\ aq[Slot(i)].serial + (waiting - 1 - k) = serial

\* With all cores idle and no two of them met in the recovery, a recovery
\* that returned 0 last has left the adapter ready for commands, whatever timed
\* out inside it (ena_adapter_reset_and_recover: "Returns 0 when the device
\* answers again").
RecoveredIsReady ==
  rec_ret = "ok" /\ ~ overlap /\ (\A c \in Cpus : pc[c] = "idle") => state = "ready"

\* Every command returns: neither the lock nor a recovery that itself sends
\* commands keeps a caller for ever (the admin lock is not recursive), unless
\* a core has stopped on the freed queues with the lock in its hands.
CallsReturn ==
  \A c \in Cpus : pc[c] # "idle" ~> pc[c] = "idle" \/ \E d \in Cpus : pc[d] = "fault"
=============================================================================
