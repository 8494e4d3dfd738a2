---------------------------- MODULE EnaAdminProofs ----------------------------
(***************************************************************************)
(* The admin lock protects the admin queues, a recovery that reports       *)
(* success leaves the adapter ready, the device reads every command as it  *)
(* was written, and a caller gets the answer to its own command, for any   *)
(* number of cores, any ring depth and any number of timeouts and          *)
(* recoveries; the last two as long as the ring has more entries than the  *)
(* machine has cores.                                                      *)
(***************************************************************************)
EXTENDS EnaAdmin, FiniteSets, FiniteSetTheorems, TLAPS

\* Zenon proves a step, unless the step names another prover.
USE Zenon

\* OneCoreInside with the types its proof needs.
LockInv ==
  /\ pc \in [Cpus -> Pcs]
  /\ admin_lock \in Cpus \cup {None}
  /\ OneCoreInside

\* No core holds the admin lock at the start.
LEMMA LockInit == Init => LockInv
  BY AdminAssumption, SMT DEF Init, LockInv, OneCoreInside, Pcs, Inside

\* A step that leaves the lock alone and keeps its core on the same side of it.
LEMMA SameSide ==
  ASSUME LockInv, NEW c \in Cpus, NEW from \in Pcs, NEW to \in Pcs,
         Goto(c, from, to), from \in Inside <=> to \in Inside,
         UNCHANGED admin_lock
  PROVE  LockInv'
  BY DEF LockInv, OneCoreInside, Goto

\* A step that takes the lock.
LEMMA Enters ==
  ASSUME LockInv, NEW c \in Cpus, NEW from, NEW to \in Inside,
         Goto(c, from, to), Lock(c)
  PROVE  LockInv'
  BY AdminAssumption DEF LockInv, OneCoreInside, Goto, Lock, Pcs

\* A step that drops it.
LEMMA Leaves ==
  ASSUME LockInv, NEW c \in Cpus, NEW from \in Inside, NEW to \in Pcs \ Inside,
         Goto(c, from, to), admin_lock' = None
  PROVE  LockInv'
  BY AdminAssumption DEF LockInv, OneCoreInside, Goto, Pcs

\* Every step of ena_admin_exec_cmd and of the recovery keeps the lock discipline.
LEMMA LockStep == LockInv /\ [Next]_vars => LockInv'
<1> SUFFICES ASSUME LockInv, [Next]_vars PROVE LockInv'
  OBVIOUS
<1>pcs. /\ Inside \subseteq Pcs
        /\ {"poll", "drop", "recReset", "recInit", "fault"} \subseteq Inside
        /\ {"idle", "exec", "lock", "recCheck", "recMark", "recLock",
            "recNext"} \subseteq Pcs \ Inside
  BY DEF Inside, Pcs
<1>stutter. ASSUME UNCHANGED codeVars PROVE LockInv'
  BY <1>stutter DEF LockInv, OneCoreInside, codeVars
<1>return. ASSUME NEW c \in Cpus, NEW from \in Pcs \ Inside, NEW r,
                  Return(c, from, r), UNCHANGED admin_lock
           PROVE  LockInv'
  <2> DEFINE to == IF frames[c] = <<>> THEN "idle" ELSE "recNext"
  <2>1. to \in Pcs \ Inside
    BY <1>pcs
  <2> QED
    BY <1>return, <1>pcs, <2>1, SameSide DEF Return
<1>leave. ASSUME NEW c \in Cpus, NEW from \in Inside, NEW r,
                 Return(c, from, r), admin_lock' = None
          PROVE  LockInv'
  <2> DEFINE to == IF frames[c] = <<>> THEN "idle" ELSE "recNext"
  <2>1. to \in Pcs \ Inside
    BY <1>pcs
  <2> QED
    BY <1>leave, <2>1, Leaves DEF Return
<1>core. ASSUME NEW c \in Cpus, CoreStep(c) PROVE LockInv'
  <2>1. CASE ExecRefused(c)
    BY <2>1, <1>pcs, <1>return DEF ExecRefused
  <2>2. CASE ExecEnter(c)
    BY <2>2, <1>pcs, SameSide DEF ExecEnter
  <2>3. CASE ExecSubmit(c)
    BY <2>3, <1>pcs, Enters DEF ExecSubmit
  <2>4. CASE ExecFault(c)
    BY <2>4, <1>pcs, Enters DEF ExecFault
  <2>5. CASE Spin(c)
    BY <2>5, <1>stutter DEF Spin, vars
  <2>6. CASE Consume(c)
    BY <2>6, <1>pcs, SameSide DEF Consume
  <2>7. CASE Timeout(c)
    BY <2>7, <1>pcs, SameSide DEF Timeout
  <2>8. CASE Drop(c)
    BY <2>8, <1>pcs, <1>leave, Leaves DEF Drop, Unlock
  <2>9. CASE RecSkip(c)
    BY <2>9, <1>pcs, <1>return DEF RecSkip
  <2>10. CASE RecEnter(c)
    BY <2>10, <1>pcs, SameSide DEF RecEnter
  <2>11. CASE RecMark(c)
    BY <2>11, <1>pcs, SameSide DEF RecMark
  <2>12. CASE RecLock(c)
    BY <2>12, <1>pcs, Enters DEF RecLock
  <2>13. CASE RecReset(c)
    BY <2>13, <1>pcs, SameSide DEF RecReset
  <2>14. CASE RecResetFails(c)
    BY <2>14, <1>pcs, <1>leave DEF RecResetFails, RecAbandon
  <2>15. CASE RecInitFails(c)
    BY <2>15, <1>pcs, <1>leave DEF RecInitFails, RecAbandon
  <2>16. CASE RecInit(c)
    BY <2>16, <1>pcs, Leaves DEF RecInit
  <2>17. CASE RecCommand(c)
    BY <2>17, <1>pcs, SameSide DEF RecCommand
  <2>18. CASE RecDone(c)
    <3> DEFINE to == IF Len(frames[c]) = 1 THEN "idle" ELSE "recNext"
    <3>1. to \in Pcs \ Inside
      BY <1>pcs
    <3> QED
      BY <2>18, <3>1, <1>pcs, SameSide DEF RecDone
  <2> QED
    BY <1>core, <2>1, <2>2, <2>3, <2>4, <2>5, <2>6, <2>7, <2>8, <2>9, <2>10,
       <2>11, <2>12, <2>13, <2>14, <2>15, <2>16, <2>17, <2>18 DEF CoreStep
<1>1. ASSUME NEW c \in Cpus, Call(c) \/ Fatal(c) PROVE LockInv'
  BY <1>1, <1>pcs, SameSide DEF Call, Fatal
<1>2. ASSUME NEW status, DevAnswer(status) PROVE LockInv'
  BY <1>2 DEF DevAnswer, LockInv, OneCoreInside
<1>3. ASSUME Finished PROVE LockInv'
  BY <1>3, <1>stutter DEF Finished, vars
<1> QED
  BY <1>stutter, <1>core, <1>1, <1>2, <1>3 DEF Next, vars

\* At every moment the cores between ena_admin_lock_take and
\* ena_admin_lock_drop are exactly the one that holds the lock, recoveries
\* that send commands of their own included: no recovery frees the admin
\* queues under a core that polls on them.
THEOREM QueuesProtected == Spec => []OneCoreInside
<1>1. LockInv => OneCoreInside
  BY DEF LockInv
<1> QED
  BY <1>1, LockInit, LockStep, PTL DEF Spec

-----------------------------------------------------------------------------
(* What a recovery reports *)

Rets == {"none", "ok", "status", "EIO", "ETIMEDOUT", "fatal", "ENODEV", "EINVAL"}
Frames  == [left : Nat, ok : BOOLEAN, why : Rets]
Entries == [id : Nat, serial : Nat, phase : Nat, status : {"ok", "status"}]

RecTypeOK ==
  /\ pc \in [Cpus -> Pcs] /\ frames \in [Cpus -> Seq(Frames)]
  /\ ret \in [Cpus -> Rets]
  /\ aq \in [Slots -> Entries] /\ acq \in [Slots -> Entries]
  /\ serial \in Nat /\ next_command_id \in Nat
  /\ aq_tail \in Nat /\ acq_head \in Nat /\ dev_aq_head \in Nat
  /\ dev_acq_tail \in Nat /\ aq_db \in Nat
  /\ aq_phase \in {0, 1} /\ dev_acq_phase \in {0, 1}

\* A core on its way to a recovery, resetting the device, or inside a recovery
\* of which a command has failed.
AtReset == {"recMark", "recLock", "recReset", "recInit"}
Pend(at, r, stack) ==
  \/ at \in AtReset \cup {"recCheck"}
  \/ at = "drop" /\ r = "ETIMEDOUT"
  \/ stack # <<>> /\ ~ Top(stack).ok
Pending(c) == Pend(pc[c], ret[c], frames[c])

\* While no two cores meet in the recovery: recover_active says that one is
\* running, it has one frame, and an adapter that is not ready has a core that
\* will deal with it, or the last recovery has said that it failed.
Alone ==
  /\ ~ Overlapping
  /\ \A c \in Cpus : pc[c] = "idle" \/ pc[c] \in AtReset => frames[c] = <<>>
  /\ \A c \in Cpus : Len(frames[c]) <= 1
  /\ \A c \in Cpus : frames[c] # <<>> \/ pc[c] \in AtReset \ {"recMark"} => recover_active
  /\ recover_active => \E c \in Cpus : \/ frames[c] # <<>>
                                       \/ pc[c] \in AtReset \ {"recMark"}
  /\ \A c \in Cpus : pc[c] = "recCheck" => ret[c] \in {"ETIMEDOUT", "fatal"}
  /\ state # "ready" => \/ \E c \in Cpus : Pending(c)
                        \/ rec_ret # "ok" /\ \A c \in Cpus : frames[c] = <<>>

RecInv == RecTypeOK /\ (~ overlap => Alone)

\* A recovery that notes the result of a command keeps its frame.
LEMMA NotedFrames ==
  ASSUME NEW stack \in Seq(Frames), NEW r
  PROVE  /\ Noted(stack, r) \in Seq(Frames) /\ Len(Noted(stack, r)) = Len(stack)
         /\ Noted(stack, r) = <<>> <=> stack = <<>>
         /\ stack # <<>> => (Top(Noted(stack, r)).ok <=> Top(stack).ok /\ r = "ok")
<1>1. CASE stack = <<>>
  BY <1>1 DEF Noted
<1>2. CASE stack # <<>>
  <2> DEFINE n == Len(stack)
             f == [stack[n] EXCEPT !.ok = stack[n].ok /\ r = "ok"]
  <2>1. n \in Nat /\ n \in 1 .. Len(stack) /\ stack[n] \in Frames
    BY <1>2, SMT
  <2>2. f \in Frames /\ (f.ok <=> stack[n].ok /\ r = "ok")
    BY <2>1 DEF Frames
  <2>3. Noted(stack, r) = [stack EXCEPT ![n] = f]
    BY <1>2 DEF Noted
  <2> HIDE DEF f, n
  <2>4. /\ [stack EXCEPT ![n] = f] \in Seq(Frames)
        /\ Len([stack EXCEPT ![n] = f]) = Len(stack)
        /\ [stack EXCEPT ![n] = f][n] = f
    BY <2>1, <2>2, SMT
  <2>5. [stack EXCEPT ![n] = f] # <<>>
    BY <2>1, <2>4, SMT
  <2> QED BY <1>2, <2>2, <2>3, <2>4, <2>5 DEF Top, n
<1> QED BY <1>1, <1>2

LEMMA PoppedFrames ==
  ASSUME NEW stack \in Seq(Frames), stack # <<>>
  PROVE  /\ Popped(stack) \in Seq(Frames) /\ Top(stack) \in Frames
         /\ Len(stack) = 1 => Popped(stack) = <<>>
  BY SMT DEF Popped, Top

\* Rewriting the last frame of a stack.
LEMMA RewrittenFrame ==
  ASSUME NEW stack \in Seq(Frames), NEW n \in 1 .. Len(stack), NEW g,
         NEW rewritten, rewritten = [stack EXCEPT ![n] = g]
  PROVE  Len(rewritten) = Len(stack) /\ rewritten[n] = g /\ rewritten # <<>>
  BY SMT

\* Slots and counters.
LEMMA IndexTypes ==
  ASSUME NEW i \in Nat
  PROVE  /\ Slot(i) \in Slots /\ Succ(i) \in Nat
         /\ \A p \in {0, 1} : FlipOnWrap(p, i) \in {0, 1}
  BY AdminAssumption, SMT DEF Slot, Slots, Succ, FlipOnWrap

\* A command that returns.
LEMMA ReturnTypes ==
  ASSUME RecTypeOK, NEW c \in Cpus, NEW from, NEW r \in Rets, Return(c, from, r)
  PROVE  /\ pc' \in [Cpus -> Pcs] /\ frames' \in [Cpus -> Seq(Frames)]
         /\ ret' \in [Cpus -> Rets]
<1>1. Noted(frames[c], r) \in Seq(Frames)
  BY NotedFrames DEF RecTypeOK
<1> QED BY <1>1 DEF RecTypeOK, Return, Goto, Pcs

\* Every step keeps the types.
LEMMA RecTypeStep == ASSUME RecTypeOK, [Next]_vars PROVE RecTypeOK'
<1> DEFINE queueTypes ==
             /\ aq \in [Slots -> Entries] /\ acq \in [Slots -> Entries]
             /\ next_command_id \in Nat /\ aq_tail \in Nat /\ acq_head \in Nat
             /\ dev_aq_head \in Nat /\ dev_acq_tail \in Nat /\ aq_db \in Nat
             /\ aq_phase \in {0, 1} /\ dev_acq_phase \in {0, 1}
           coreTypes ==
             /\ pc \in [Cpus -> Pcs] /\ frames \in [Cpus -> Seq(Frames)]
             /\ ret \in [Cpus -> Rets]
<1> USE DEF queueVars, aqVars, acqVars, devVars
<1>0. /\ RecTypeOK <=> queueTypes /\ coreTypes /\ serial \in Nat
      /\ RecTypeOK' <=> queueTypes' /\ coreTypes' /\ serial' \in Nat
  BY DEF RecTypeOK
<1>same. ASSUME UNCHANGED <<queueVars, serial>>, coreTypes' PROVE RecTypeOK'
  <2>1. queueTypes'
    BY <1>0, <1>same
  <2> QED BY <1>0, <1>same, <2>1
<1>stutter. ASSUME UNCHANGED codeVars PROVE RecTypeOK'
  BY <1>stutter DEF RecTypeOK, codeVars
<1>zero. 0 \in Nat /\ Zeroed \in Entries /\ [s \in Slots |-> Zeroed] \in [Slots -> Entries]
  BY DEF Zeroed, Entries
<1>core. ASSUME NEW c \in Cpus, CoreStep(c) PROVE RecTypeOK'
  <2>1. CASE ExecRefused(c)
    <3> DEFINE r == IF queues THEN "ENODEV" ELSE "EINVAL"
    <3>1. r \in Rets /\ Return(c, "exec", r) /\ UNCHANGED <<queueVars, serial>>
      BY <2>1 DEF ExecRefused, Rets
    <3> QED BY <1>same, <3>1, ReturnTypes
  <2>2. CASE ExecEnter(c)
    <3>1. coreTypes' /\ UNCHANGED <<queueVars, serial>>
      BY <1>0, <2>2 DEF ExecEnter, Goto, Pcs
    <3> QED BY <1>same, <3>1
  <2>3. CASE ExecSubmit(c)
    <3> DEFINE id == IF next_command_id = 0 THEN 1 ELSE next_command_id
               e == [Zeroed EXCEPT !.id = id, !.serial = serial + 1, !.phase = aq_phase]
    <3>1. coreTypes' /\ serial' \in Nat
      BY <1>0, <2>3, SMT DEF ExecSubmit, Goto, Pcs, Inside
    <3>2. id \in Nat /\ NextId(id) \in Nat
      BY <1>0, AdminAssumption, SMT DEF NextId
    <3>3. e \in Entries
      <4> DEFINE x == [Zeroed EXCEPT !.id = id]
                 y == [x EXCEPT !.serial = serial + 1]
      <4>1. x \in Entries
        BY <1>zero, <3>2 DEF Entries
      <4>2. y \in Entries
        <5>1. serial + 1 \in Nat
          BY <1>0, SMT
        <5> HIDE DEF x
        <5> QED BY <4>1, <5>1 DEF Entries
      <4>3. e = [y EXCEPT !.phase = aq_phase]
        OBVIOUS
      <4>4. aq_phase \in Nat
        BY <1>0, SMT
      <4> HIDE DEF e, y
      <4> QED BY <4>2, <4>3, <4>4 DEF Entries
    <3>4. /\ aq' = [aq EXCEPT ![Slot(aq_tail)] = e]
          /\ acq' = acq \/ acq' = [acq EXCEPT ![Slot(acq_head)] = Zeroed]
          /\ next_command_id' = NextId(id)
      BY <2>3 DEF ExecSubmit
    <3> HIDE DEF e, id
    <3>5. aq' \in [Slots -> Entries] /\ acq' \in [Slots -> Entries]
      BY <1>0, <1>zero, <3>3, <3>4, IndexTypes
    <3>6. aq_tail' \in Nat /\ aq_db' \in Nat /\ aq_phase' \in {0, 1}
      BY <1>0, <2>3, IndexTypes DEF ExecSubmit
    <3>7. queueTypes'
      BY <1>0, <2>3, <3>2, <3>4, <3>5, <3>6 DEF ExecSubmit
    <3> QED BY <1>0, <3>1, <3>7
  <2>4. CASE ExecFault(c)
    <3>1. coreTypes' /\ UNCHANGED <<queueVars, serial>>
      BY <1>0, <2>4 DEF ExecFault, Goto, Pcs, Inside
    <3> QED BY <1>same, <3>1
  <2>5. CASE Spin(c)
    BY <2>5, <1>stutter DEF Spin, vars
  <2>6. CASE Consume(c)
    <3>1. AcqEntry.status \in Rets
      <4>1. AcqEntry \in Entries
        BY <1>0, IndexTypes DEF AcqEntry
      <4> QED BY <4>1 DEF Entries, Rets
    <3>2. coreTypes'
      BY <1>0, <2>6, <3>1 DEF Consume, Goto, Pcs, Inside, Rets
    <3>3. queueTypes' /\ serial' = serial
      BY <1>0, <2>6, IndexTypes DEF Consume
    <3> QED BY <1>0, <3>2, <3>3
  <2>7. CASE Timeout(c)
    <3>1. coreTypes' /\ UNCHANGED <<queueVars, serial>>
      BY <1>0, <2>7 DEF Timeout, Goto, Pcs, Inside, Rets
    <3> QED BY <1>same, <3>1
  <2>8. CASE Drop(c)
    <3>1. ret[c] \in Rets
      BY <1>0
    <3>2. UNCHANGED <<queueVars, serial>>
      BY <2>8 DEF Drop
    <3>3. CASE Return(c, "drop", ret[c])
      BY <1>same, <3>1, <3>2, <3>3, ReturnTypes
    <3>4. CASE Goto(c, "drop", "recCheck") /\ UNCHANGED <<ret, frames, cmd>>
      <4>1. coreTypes'
        BY <1>0, <3>4 DEF Goto, Pcs
      <4> QED BY <1>same, <3>2, <4>1
    <3> QED BY <2>8, <3>3, <3>4 DEF Drop
  <2>9. CASE RecSkip(c)
    <3>1. ret[c] \in Rets /\ Return(c, "recCheck", ret[c]) /\ UNCHANGED <<queueVars, serial>>
      BY <1>0, <2>9 DEF RecSkip
    <3> QED BY <1>same, <3>1, ReturnTypes
  <2>10. CASE RecEnter(c) \/ RecMark(c) \/ RecLock(c)
    <3>1. coreTypes' /\ UNCHANGED <<queueVars, serial>>
      BY <1>0, <2>10 DEF RecEnter, RecMark, RecLock, Goto, Pcs, Inside
    <3> QED BY <1>same, <3>1
  <2>11. CASE RecReset(c)
    <3>1. coreTypes' /\ serial' = serial
      BY <1>0, <2>11 DEF RecReset, Goto, Pcs, Inside
    <3>2. queueTypes'
      BY <1>0, <2>11 DEF RecReset, DevDrops
    <3> QED BY <1>0, <3>1, <3>2
  <2>12. CASE RecResetFails(c)
    <3>1. ret[c] \in Rets /\ Return(c, "recReset", ret[c]) /\ serial' = serial
      BY <1>0, <2>12 DEF RecResetFails, RecAbandon
    <3>2. queueTypes'
      BY <1>0, <2>12 DEF RecResetFails, RecAbandon, DevDrops
    <3> QED BY <1>0, <3>1, <3>2, ReturnTypes
  <2>13. CASE RecInitFails(c)
    <3>1. ret[c] \in Rets /\ Return(c, "recInit", ret[c]) /\ serial' = serial
      BY <1>0, <2>13 DEF RecInitFails, RecAbandon
    <3>2. queueTypes'
      BY <1>0, <2>13 DEF RecInitFails, RecAbandon
    <3> QED BY <1>0, <3>1, <3>2, ReturnTypes
  <2>14. CASE RecInit(c)
    <3>1. [left |-> RecoveryCmds, ok |-> TRUE, why |-> ret[c]] \in Frames
      BY <1>0, AdminAssumption DEF Frames
    <3>2. coreTypes' /\ serial' = serial
      BY <1>0, <2>14, <3>1, SMT DEF RecInit, Goto, Pcs
    <3>3. queueTypes'
      BY <2>14, <1>zero DEF RecInit
    <3> QED BY <1>0, <3>2, <3>3
  <2>15. CASE RecCommand(c)
    <3> DEFINE n == Len(frames[c])
               f == [frames[c][n] EXCEPT !.left = frames[c][n].left - 1]
    <3>1. frames[c] \in Seq(Frames) /\ n \in 1 .. Len(frames[c]) /\ frames[c][n] \in Frames
          /\ frames[c][n].left > 0
      BY <1>0, <2>15, SMT DEF RecCommand, Top
    <3>2. f \in Frames
      BY <3>1, SMTT(30) DEF Frames
    <3>3. frames' = [frames EXCEPT ![c] = [frames[c] EXCEPT ![n] = f]]
      BY <2>15 DEF RecCommand
    <3> HIDE DEF f, n
    <3>4. [frames[c] EXCEPT ![n] = f] \in Seq(Frames)
      BY <3>1, <3>2, SMT
    <3>5. coreTypes' /\ UNCHANGED <<queueVars, serial>>
      BY <1>0, <2>15, <3>3, <3>4 DEF RecCommand, Goto, Pcs
    <3> QED BY <1>same, <3>5
  <2>16. CASE RecDone(c)
    <3> DEFINE frame == Top(frames[c])
    <3>1. /\ frames[c] \in Seq(Frames) /\ frames[c] # <<>>
          /\ frames' = [frames EXCEPT ![c] = Noted(Popped(frames[c]), frame.why)]
          /\ ret' = [ret EXCEPT ![c] = frame.why]
      BY <1>0, <2>16 DEF RecDone
    <3>2. Popped(frames[c]) \in Seq(Frames) /\ frame \in Frames
      BY <3>1, PoppedFrames
    <3>3. frame.why \in Rets
      BY <3>2 DEF Frames
    <3>4. Noted(Popped(frames[c]), frame.why) \in Seq(Frames)
      BY <3>2, NotedFrames
    <3> HIDE DEF frame
    <3>5. pc' \in [Cpus -> Pcs] /\ UNCHANGED <<queueVars, serial>>
      BY <1>0, <2>16 DEF RecDone, Goto, Pcs
    <3>6. coreTypes'
      BY <1>0, <3>1, <3>3, <3>4, <3>5
    <3> QED BY <1>same, <3>5, <3>6
  <2> QED BY <1>core, <2>1, <2>2, <2>3, <2>4, <2>5, <2>6, <2>7, <2>8, <2>9, <2>10,
             <2>11, <2>12, <2>13, <2>14, <2>15, <2>16 DEF CoreStep
<1>1. ASSUME NEW c \in Cpus, Call(c) \/ Fatal(c) PROVE RecTypeOK'
  <2>1. coreTypes' /\ UNCHANGED <<queueVars, serial>>
    BY <1>0, <1>1 DEF Call, Fatal, Goto, Pcs, Rets
  <2> QED BY <1>same, <2>1
<1>2. ASSUME NEW status \in {"ok", "status"}, DevAnswer(status) PROVE RecTypeOK'
  <2> DEFINE a == aq[Slot(dev_aq_head)]
             e == [a EXCEPT !.phase = dev_acq_phase, !.status = status]
  <2>1. a \in Entries
    BY <1>0, IndexTypes
  <2>2. e \in Entries
    <3> HIDE DEF a
    <3>1. [a EXCEPT !.phase = dev_acq_phase] \in Entries
      <4>1. dev_acq_phase \in Nat
        BY <1>0, SMT
      <4> QED BY <2>1, <4>1 DEF Entries
    <3>2. e = [[a EXCEPT !.phase = dev_acq_phase] EXCEPT !.status = status]
      OBVIOUS
    <3> QED BY <3>1, <3>2 DEF Entries
  <2>3. acq' = [acq EXCEPT ![Slot(dev_acq_tail)] = e]
    BY <1>2 DEF DevAnswer
  <2> HIDE DEF e
  <2>4. acq' \in [Slots -> Entries]
    BY <1>0, <2>2, <2>3, IndexTypes
  <2>5. queueTypes'
    BY <1>0, <1>2, <2>4, IndexTypes DEF DevAnswer
  <2> QED BY <1>0, <1>2, <2>5 DEF DevAnswer
<1>3. ASSUME Finished PROVE RecTypeOK'
  BY <1>3, <1>stutter DEF Finished, vars
<1> QED BY <1>stutter, <1>core, <1>1, <1>2, <1>3 DEF Next, vars

\* One core moves and the others stay where they are: what it owes to Alone about
\* its place and frames, about recover_active, and about the state of the adapter.
Stay(c) == \A d \in Cpus \ {c} : /\ pc'[d] = pc[d] /\ ret'[d] = ret[d]
                                 /\ frames'[d] = frames[d]
Marked  == AtReset \ {"recMark"}
PlaceOK(c) ==
  /\ pc'[c] = "idle" \/ pc'[c] \in AtReset => frames'[c] = <<>>
  /\ Len(frames'[c]) <= 1
  /\ pc'[c] = "recCheck" => ret'[c] \in {"ETIMEDOUT", "fatal"}
ActiveOK(c) ==
  /\ frames'[c] # <<>> \/ pc'[c] \in Marked => recover_active'
  /\ recover_active /\ ~ recover_active' => Recovering(c)
  /\ recover_active' => \/ frames'[c] # <<>> \/ pc'[c] \in Marked
                        \/ recover_active /\ frames[c] = <<>> /\ pc[c] \notin Marked
ReportOK(c) ==
  state' # "ready" =>
    \/ Pend(pc'[c], ret'[c], frames'[c])
    \/ rec_ret' # "ok" /\ frames'[c] = <<>> /\ Recovering(c)
    \/ state # "ready" /\ ~ Pending(c) /\ frames[c] # <<>>
    \/ /\ state # "ready" /\ ~ Pending(c) /\ frames'[c] = <<>>
       /\ rec_ret' = rec_ret

LEMMA CoreMoves ==
  ASSUME Alone, ~ Overlapping', NEW c \in Cpus,
         Stay(c), PlaceOK(c), ActiveOK(c), ReportOK(c)
  PROVE  Alone'
<1>1. \A d \in Cpus : pc'[d] = "idle" \/ pc'[d] \in AtReset => frames'[d] = <<>>
  BY DEF Alone, Stay, PlaceOK
<1>2. \A d \in Cpus : Len(frames'[d]) <= 1
  BY DEF Alone, Stay, PlaceOK
<1>3. \A d \in Cpus :
        frames'[d] # <<>> \/ pc'[d] \in Marked => recover_active'
  BY SMT DEF Alone, Overlapping, Recovering, AtReset, Stay, ActiveOK, Marked
<1>4. recover_active' => \E d \in Cpus : \/ frames'[d] # <<>>
                                         \/ pc'[d] \in Marked
  BY ZenonT(30) DEF Alone, Stay, ActiveOK, Marked
<1>5. \A d \in Cpus : pc'[d] = "recCheck" => ret'[d] \in {"ETIMEDOUT", "fatal"}
  BY DEF Alone, Stay, PlaceOK
<1>6. ASSUME state' # "ready"
      PROVE  \/ \E d \in Cpus : Pending(d)'
             \/ rec_ret' # "ok" /\ \A d \in Cpus : frames'[d] = <<>>
  <2>1. CASE Pend(pc'[c], ret'[c], frames'[c])
    BY <2>1 DEF Pending
  <2>2. CASE rec_ret' # "ok" /\ frames'[c] = <<>> /\ Recovering(c)
    BY <2>2 DEF Alone, Overlapping, Recovering, Stay
  <2>3. ASSUME NEW d \in Cpus, Pending(d), ~ Pending(c) PROVE Pending(d)'
    <3>1. d \in Cpus \ {c}
      BY <2>3
    <3> QED BY <2>3, <3>1 DEF Pending, Stay
  <2>4. CASE state # "ready" /\ ~ Pending(c) /\ frames[c] # <<>>
    BY <2>3, <2>4 DEF Alone
  <2>5. CASE state # "ready" /\ ~ Pending(c) /\ frames'[c] = <<>> /\ rec_ret' = rec_ret
    BY <2>3, <2>5 DEF Alone, Stay
  <2> QED BY <1>6, <2>1, <2>2, <2>4, <2>5 DEF ReportOK
<1> QED BY <1>1, <1>2, <1>3, <1>4, <1>5, <1>6 DEF Alone, Marked

\* A command that returns to its caller, or to the recovery that sent it.
LEMMA ReturnMoves ==
  ASSUME RecTypeOK, NEW c \in Cpus, NEW from, NEW r, Return(c, from, r)
  PROVE  /\ Stay(c)
         /\ pc[c] = from /\ pc'[c] = (IF frames[c] = <<>> THEN "idle" ELSE "recNext")
         /\ ret'[c] = r /\ Len(frames'[c]) = Len(frames[c])
         /\ frames'[c] = <<>> <=> frames[c] = <<>>
         /\ frames[c] # <<>> => (Top(frames'[c]).ok <=> Top(frames[c]).ok /\ r = "ok")
<1>1. frames[c] \in Seq(Frames) /\ frames'[c] = Noted(frames[c], r)
  BY DEF RecTypeOK, Return
<1>2. Stay(c)
  BY DEF RecTypeOK, Return, Goto, Stay
<1>3. pc[c] = from /\ pc'[c] = (IF frames[c] = <<>> THEN "idle" ELSE "recNext")
      /\ ret'[c] = r
  BY DEF RecTypeOK, Return, Goto
<1> QED BY <1>1, <1>2, <1>3, NotedFrames, SMT

\* Every step of a core keeps the story straight.
LEMMA AloneCoreStep ==
  ASSUME RecTypeOK, Alone, ~ Overlapping', NEW c \in Cpus, CoreStep(c) \/ Call(c) \/ Fatal(c)
  PROVE  Alone'
<1>0. /\ pc[c] = "idle" \/ pc[c] \in AtReset => frames[c] = <<>>
      /\ Len(frames[c]) <= 1 /\ (frames[c] # <<>> \/ pc[c] \in Marked => recover_active)
      /\ pc[c] = "recCheck" => ret[c] \in {"ETIMEDOUT", "fatal"}
      /\ frames[c] \in Seq(Frames)
  BY DEF Alone, RecTypeOK, Marked
<1>plain. ASSUME Stay(c), frames'[c] = frames[c],
                 pc'[c] = "idle" \/ pc'[c] \in AtReset => frames[c] = <<>>,
                 UNCHANGED <<state, recover_active, rec_ret>>,
                 pc[c] \notin AtReset, pc'[c] \notin Marked,
                 pc'[c] = "recCheck" => ret'[c] \in {"ETIMEDOUT", "fatal"},
                 Pending(c) => Pend(pc'[c], ret'[c], frames'[c])
          PROVE  Alone'
  <2>1. PlaceOK(c)
    BY <1>0, <1>plain DEF PlaceOK
  <2>2. ActiveOK(c)
    BY <1>0, <1>plain DEF ActiveOK, Marked
  <2>3. ReportOK(c)
    BY <1>plain DEF ReportOK
  <2> QED BY <1>plain, <2>1, <2>2, <2>3, CoreMoves
<1>1. CASE ExecRefused(c)
  <2> DEFINE r == IF queues THEN "ENODEV" ELSE "EINVAL"
  <2>1. Return(c, "exec", r) /\ UNCHANGED <<state, recover_active, rec_ret>>
        /\ r # "ok"
    BY <1>1 DEF ExecRefused
  <2> HIDE DEF r
  <2>2. /\ Stay(c) /\ pc[c] = "exec" /\ pc'[c] \in {"idle", "recNext"}
        /\ Len(frames'[c]) = Len(frames[c])
        /\ frames'[c] = <<>> <=> frames[c] = <<>>
        /\ pc'[c] = "idle" => frames[c] = <<>>
        /\ frames[c] # <<>> => ~ Top(frames'[c]).ok
    BY <2>1, ReturnMoves, SMT
  <2> QED
    <3>1. PlaceOK(c)
      BY <1>0, <2>1, <2>2 DEF PlaceOK, AtReset
    <3>2. ActiveOK(c)
      BY <1>0, <2>1, <2>2 DEF ActiveOK, Marked, AtReset, Recovering
    <3>3. ReportOK(c)
      BY <1>0, <2>1, <2>2 DEF ReportOK, AtReset, Pend, Pending
    <3> QED BY <1>0, <2>1, <2>2, <3>1, <3>2, <3>3, CoreMoves
<1>2. CASE Call(c)
  <2>1. /\ Stay(c) /\ pc[c] = "idle" /\ pc'[c] = "exec" /\ frames' = frames
        /\ ret' = ret /\ UNCHANGED <<state, recover_active, rec_ret>>
    BY <1>2 DEF Call, Goto, RecTypeOK, Stay
  <2> QED BY <2>1, <1>plain DEF Pend, Pending, AtReset, Marked
<1>3. CASE ExecEnter(c)
  <2>1. /\ Stay(c) /\ pc[c] = "exec" /\ pc'[c] = "lock" /\ frames' = frames
        /\ ret' = ret /\ UNCHANGED <<state, recover_active, rec_ret>>
    BY <1>3 DEF ExecEnter, Goto, RecTypeOK, Stay
  <2> QED BY <2>1, <1>plain DEF Pend, Pending, AtReset, Marked
<1>4. CASE ExecSubmit(c) \/ ExecFault(c)
  <2>1. /\ Stay(c) /\ pc[c] = "lock" /\ pc'[c] \in {"poll", "fault"} /\ frames' = frames
        /\ ret' = ret /\ UNCHANGED <<state, recover_active, rec_ret>>
    BY <1>4 DEF ExecSubmit, ExecFault, Goto, RecTypeOK, Stay, queueVars
  <2> QED BY <2>1, <1>plain DEF Pend, Pending, AtReset, Marked
<1>5. CASE Spin(c)
  BY <1>5, ZenonT(30) DEF Spin, vars, codeVars, Alone, Overlapping, Recovering, Pending
<1>6. CASE Consume(c)
  <2>1. /\ Stay(c) /\ pc[c] = "poll" /\ pc'[c] = "drop" /\ frames' = frames
        /\ UNCHANGED <<state, recover_active, rec_ret>>
    BY <1>6 DEF Consume, Goto, RecTypeOK, Stay
  <2> QED BY <2>1, <1>plain DEF Pend, Pending, AtReset, Marked
<1>7. CASE Timeout(c)
  <2>1. /\ Stay(c) /\ pc[c] = "poll" /\ pc'[c] = "drop" /\ frames' = frames
        /\ ret'[c] = "ETIMEDOUT" /\ UNCHANGED <<recover_active, rec_ret>>
    BY <1>7 DEF Timeout, Goto, RecTypeOK, Stay
  <2> QED
    <3>1. PlaceOK(c)
      BY <1>0, <2>1 DEF PlaceOK, AtReset
    <3>2. ActiveOK(c)
      BY <1>0, <2>1 DEF ActiveOK, Marked, AtReset, Recovering
    <3>3. ReportOK(c)
      BY <1>0, <2>1 DEF ReportOK, AtReset, Pend, Pending
    <3> QED BY <1>0, <2>1, <3>1, <3>2, <3>3, CoreMoves
<1>8. CASE Drop(c)
  <2>0. UNCHANGED <<state, recover_active, rec_ret>>
    BY <1>8 DEF Drop
  <2>1. CASE ret[c] = "ETIMEDOUT"
    <3>1. /\ Stay(c) /\ pc[c] = "drop" /\ pc'[c] = "recCheck" /\ frames' = frames
          /\ ret' = ret
      BY <1>8, <2>1 DEF Drop, Goto, RecTypeOK, Stay
    <3> QED BY <2>0, <2>1, <3>1, <1>plain DEF Pend, AtReset, Marked
  <2>2. CASE ret[c] # "ETIMEDOUT"
    <3>1. Return(c, "drop", ret[c])
      BY <1>8, <2>2 DEF Drop
    <3>2. /\ Stay(c) /\ pc[c] = "drop" /\ pc'[c] \in {"idle", "recNext"}
          /\ Len(frames'[c]) = Len(frames[c]) /\ ret'[c] = ret[c]
          /\ frames'[c] = <<>> <=> frames[c] = <<>>
          /\ pc'[c] = "idle" => frames[c] = <<>>
          /\ frames[c] # <<>> => (Top(frames'[c]).ok => Top(frames[c]).ok)
      BY <3>1, ReturnMoves, SMT
    <3> QED
      <4>1. PlaceOK(c)
        BY <1>0, <2>0, <2>2, <3>2 DEF PlaceOK, AtReset
      <4>2. ActiveOK(c)
        BY <1>0, <2>0, <2>2, <3>2 DEF ActiveOK, Marked, AtReset, Recovering
      <4>3. ReportOK(c)
        BY <1>0, <2>0, <2>2, <3>2 DEF ReportOK, AtReset, Pend, Pending
      <4> QED BY <1>0, <2>0, <2>2, <3>2, <4>1, <4>2, <4>3, CoreMoves
  <2> QED BY <2>1, <2>2
<1>9. CASE Fatal(c)
  <2>1. /\ Stay(c) /\ pc[c] = "idle" /\ pc'[c] = "recCheck" /\ frames' = frames
        /\ ret'[c] = "fatal" /\ UNCHANGED <<state, recover_active, rec_ret>>
    BY <1>9 DEF Fatal, Goto, RecTypeOK, Stay
  <2> QED BY <2>1, <1>plain DEF Pend, AtReset, Marked
<1>10. CASE RecSkip(c)
  <2>1. /\ Return(c, "recCheck", ret[c]) /\ recover_active
        /\ UNCHANGED <<state, recover_active, rec_ret>>
    BY <1>10 DEF RecSkip
  <2>2. pc[c] = "recCheck" /\ ret[c] # "ok"
    BY <1>0, <2>1 DEF Return, Goto
  <2>3. frames[c] # <<>>
    BY <2>1, <2>2, ZenonT(30) DEF Alone, Overlapping, Recovering, AtReset
  <2>4. /\ Stay(c) /\ pc'[c] = "recNext" /\ Len(frames'[c]) = Len(frames[c])
        /\ frames'[c] # <<>> /\ ~ Top(frames'[c]).ok
    BY <2>1, <2>2, <2>3, ReturnMoves, ZenonT(30)
  <2> QED
    <3>1. PlaceOK(c)
      BY <1>0, <2>1, <2>4 DEF PlaceOK, AtReset
    <3>2. ActiveOK(c)
      BY <1>0, <2>1, <2>4 DEF ActiveOK, Marked, AtReset, Recovering
    <3>3. ReportOK(c)
      BY <1>0, <2>1, <2>4 DEF ReportOK, AtReset, Pend, Pending
    <3> QED BY <1>0, <2>1, <2>4, <3>1, <3>2, <3>3, CoreMoves
<1>11. CASE RecEnter(c)
  <2>1. /\ Stay(c) /\ pc[c] = "recCheck" /\ pc'[c] = "recMark" /\ frames' = frames
        /\ ret' = ret /\ ~ recover_active /\ UNCHANGED <<state, recover_active, rec_ret>>
    BY <1>11 DEF RecEnter, Goto, RecTypeOK, Stay
  <2>2. frames[c] = <<>>
    BY <1>0, <2>1
  <2> QED BY <2>1, <2>2, <1>plain DEF Pend, AtReset, Marked
<1>12. CASE RecMark(c)
  <2>1. /\ Stay(c) /\ pc[c] = "recMark" /\ pc'[c] = "recLock" /\ frames' = frames
        /\ ret' = ret /\ recover_active'
    BY <1>12 DEF RecMark, Goto, RecTypeOK, Stay
  <2> QED
    <3>1. PlaceOK(c)
      BY <1>0, <2>1 DEF PlaceOK, AtReset
    <3>2. ActiveOK(c)
      BY <1>0, <2>1 DEF ActiveOK, Marked, AtReset, Recovering
    <3>3. ReportOK(c)
      BY <1>0, <2>1 DEF ReportOK, AtReset, Pend, Pending
    <3> QED BY <1>0, <2>1, <3>1, <3>2, <3>3, CoreMoves
<1>13. CASE RecLock(c) \/ RecReset(c)
  <2>1. /\ Stay(c) /\ pc[c] \in Marked /\ pc'[c] \in Marked
        /\ frames' = frames /\ ret' = ret /\ UNCHANGED recover_active
    BY <1>13 DEF RecLock, RecReset, Goto, RecTypeOK, Stay, AtReset, Marked
  <2> QED
    <3>1. PlaceOK(c)
      BY <1>0, <2>1 DEF PlaceOK, Marked, AtReset
    <3>2. ActiveOK(c)
      BY <1>0, <2>1 DEF ActiveOK
    <3>3. ReportOK(c)
      BY <2>1 DEF ReportOK, Pend, Marked
    <3> QED BY <2>1, <3>1, <3>2, <3>3, CoreMoves
<1>14. ASSUME NEW from \in {"recReset", "recInit"}, NEW r \in {"notReset", "failed"},
              RecAbandon(c, from, r)
       PROVE  Alone'
  <2>1. Return(c, from, ret[c]) /\ ~ recover_active' /\ rec_ret' # "ok"
    BY <1>14 DEF RecAbandon
  <2>2. /\ Stay(c) /\ pc[c] = from /\ Len(frames'[c]) = Len(frames[c])
        /\ frames'[c] = <<>> <=> frames[c] = <<>>
        /\ pc'[c] = IF frames[c] = <<>> THEN "idle" ELSE "recNext"
    BY <2>1, ReturnMoves
  <2>3. pc[c] \in AtReset /\ frames[c] = <<>> /\ Recovering(c)
    BY <1>0, <1>14, <2>2 DEF AtReset, Recovering
  <2> QED
    <3>1. PlaceOK(c)
      BY <1>0, <2>1, <2>2, <2>3 DEF PlaceOK, AtReset
    <3>2. ActiveOK(c)
      BY <1>0, <2>1, <2>2, <2>3, ZenonT(30) DEF ActiveOK, Marked, AtReset, Recovering
    <3>3. ReportOK(c)
      BY <1>0, <2>1, <2>2, <2>3 DEF ReportOK, AtReset, Pend, Pending
    <3> QED BY <1>0, <2>1, <2>2, <2>3, <3>1, <3>2, <3>3, CoreMoves
<1>15. CASE RecResetFails(c) \/ RecInitFails(c)
  BY <1>14, <1>15 DEF RecResetFails, RecInitFails
<1>16. CASE RecInit(c)
  <2> DEFINE f == [left |-> RecoveryCmds, ok |-> TRUE, why |-> ret[c]]
  <2>1. /\ Stay(c) /\ pc[c] = "recInit" /\ pc'[c] = "recNext"
        /\ frames'[c] = Append(frames[c], f) /\ state' = "ready"
        /\ recover_active' = recover_active
    BY <1>16 DEF RecInit, Goto, RecTypeOK, Stay
  <2> HIDE DEF f
  <2>2. frames[c] = <<>>
    BY <1>0, <2>1 DEF AtReset
  <2>3. frames'[c] = <<f>> /\ Len(frames'[c]) = 1 /\ frames'[c] # <<>>
    BY <2>1, <2>2, SMT
  <2>4. recover_active
    BY <1>0, <2>1 DEF AtReset, Marked
  <2> QED
    <3>1. PlaceOK(c)
      BY <2>1, <2>3, <2>4, SMT DEF PlaceOK, AtReset
    <3>2. ActiveOK(c)
      BY <2>1, <2>3, <2>4 DEF ActiveOK, Marked, AtReset, Recovering
    <3>3. ReportOK(c)
      BY <2>1, <2>3, <2>4 DEF ReportOK, AtReset, Pend, Pending
    <3> QED BY <2>1, <2>3, <2>4, <3>1, <3>2, <3>3, CoreMoves
<1>17. CASE RecCommand(c)
  <2> DEFINE n == Len(frames[c])
             g == [frames[c][n] EXCEPT !.left = frames[c][n].left - 1]
  <2>1. /\ Stay(c) /\ pc[c] = "recNext" /\ pc'[c] = "exec" /\ ret' = ret
        /\ frames'[c] = [frames[c] EXCEPT ![n] = g] /\ frames[c] # <<>>
        /\ UNCHANGED <<state, recover_active, rec_ret>>
    BY <1>17 DEF RecCommand, Goto, RecTypeOK, Stay
  <2>2. n \in 1 .. Len(frames[c]) /\ frames[c][n] \in Frames
    BY <1>0, <2>1, SMT
  <2>3. g.ok = frames[c][n].ok
    BY <2>2 DEF Frames
  <2> HIDE DEF g, n
  <2>4. Len(frames'[c]) = Len(frames[c]) /\ frames'[c][n] = g /\ frames'[c] # <<>>
    BY <1>0, <2>1, <2>2, RewrittenFrame, SMT
  <2>5. Top(frames'[c]).ok = Top(frames[c]).ok
    BY <2>3, <2>4 DEF Top, n
  <2> QED
    <3>1. PlaceOK(c)
      BY <1>0, <2>1, <2>4, <2>5 DEF PlaceOK, AtReset
    <3>2. ActiveOK(c)
      BY <1>0, <2>1, <2>4, <2>5 DEF ActiveOK, Marked, AtReset, Recovering
    <3>3. ReportOK(c)
      BY <1>0, <2>1, <2>4, <2>5 DEF ReportOK, AtReset, Pend, Pending
    <3> QED BY <1>0, <2>1, <2>4, <2>5, <3>1, <3>2, <3>3, CoreMoves
<1>18. CASE RecDone(c)
  <2> DEFINE frame == Top(frames[c])
  <2>1. /\ frames[c] # <<>> /\ pc[c] = "recNext" /\ Stay(c)
        /\ pc'[c] = (IF Len(frames[c]) = 1 THEN "idle" ELSE "recNext")
        /\ frames'[c] = Noted(Popped(frames[c]), frame.why)
        /\ ~ recover_active' /\ state' = state
        /\ rec_ret' = (IF frame.ok THEN "ok" ELSE "failed")
    BY <1>18 DEF RecDone, Goto, RecTypeOK, Stay
  <2>2. Len(frames[c]) = 1
    <3> DEFINE n == Len(frames[c])
    <3>1. n \in Nat /\ n # 0
      BY <1>0, <2>1, SMT
    <3>2. n <= 1
      BY <1>0
    <3> HIDE DEF n
    <3>3. n = 1
      BY <3>1, <3>2, SMT
    <3> QED BY <3>3 DEF n
  <2>3. Popped(frames[c]) = <<>>
    BY <1>0, <2>1, <2>2, PoppedFrames
  <2>4. frames'[c] = <<>> /\ Len(frames'[c]) = 0
    BY <2>1, <2>3, SMT DEF Noted
  <2>5. pc'[c] = "idle" /\ Recovering(c)
    BY <2>1, <2>2 DEF Recovering
  <2>6. frame.ok => ~ Pending(c)
    BY <2>1 DEF Pending, Pend, AtReset
  <2> QED
    <3>1. PlaceOK(c)
      BY <2>1, <2>4, <2>5, <2>6, SMT DEF PlaceOK, AtReset
    <3>2. ActiveOK(c)
      BY <2>1, <2>4, <2>5, <2>6 DEF ActiveOK, Marked, AtReset, Recovering
    <3>3. ReportOK(c)
      BY <2>1, <2>4, <2>5, <2>6 DEF ReportOK, AtReset, Pend, Pending
    <3> QED BY <2>1, <2>4, <2>5, <2>6, <3>1, <3>2, <3>3, CoreMoves
<1> QED BY <1>1, <1>2, <1>3, <1>4, <1>5, <1>6, <1>7, <1>8, <1>9, <1>10, <1>11, <1>12,
           <1>13, <1>15, <1>16, <1>17, <1>18 DEF CoreStep

\* Every step keeps RecInv.
LEMMA RecStep == RecInv /\ [Next]_vars => RecInv'
<1> SUFFICES ASSUME RecInv, [Next]_vars PROVE RecInv'
  OBVIOUS
<1>0. RecTypeOK /\ RecTypeOK'
  BY RecTypeStep DEF RecInv
<1>1. ASSUME ~ overlap' PROVE Alone'
  <2>1. CASE UNCHANGED vars
    BY <1>1, <2>1 DEF RecInv, vars, codeVars, Alone, Overlapping, Recovering, Pending
  <2>2. CASE Next
    <3>1. ~ overlap /\ ~ Overlapping' /\ Alone
      BY <1>1, <2>2 DEF RecInv, Next
    <3>2. ASSUME NEW c \in Cpus, CoreStep(c) \/ Call(c) \/ Fatal(c) PROVE Alone'
      BY <1>0, <3>1, <3>2, AloneCoreStep
    <3>3. ASSUME NEW status, DevAnswer(status) PROVE Alone'
      BY <3>1, <3>3 DEF DevAnswer, Alone, Pending
    <3>4. CASE Finished
      BY <3>1, <3>4 DEF Finished, vars, codeVars, Alone, Pending
    <3> QED BY <2>2, <3>2, <3>3, <3>4 DEF Next
  <2> QED BY <2>1, <2>2
<1> QED BY <1>0, <1>1 DEF RecInv

\* A recovery that returned 0 has left the adapter ready, for any number of cores,
\* timeouts and failures: a command that times out inside it is noted, and one
\* that times out beside it starts the next one, as long as no two cores meet in
\* the recovery (ena_adapter_reset_and_recover).
THEOREM RecoveryLeavesReady == Spec => []RecoveredIsReady
<1>1. Init => RecInv
  <2> SUFFICES ASSUME Init PROVE RecInv
    OBVIOUS
  <2>1. RecTypeOK
    BY SMT DEF Init, RecTypeOK, Pcs, Rets, Zeroed, Entries
  <2>2. Alone
    BY SMT DEF Init, Alone, Overlapping, Recovering, AtReset
  <2> QED BY <2>1, <2>2 DEF RecInv
<1>2. RecInv => RecoveredIsReady
  BY DEF RecInv, Alone, RecoveredIsReady, Pending, Pend, AtReset
<1> QED BY <1>1, <1>2, RecStep, PTL DEF Spec

-----------------------------------------------------------------------------
(* Arithmetic of counters that wrap *)

\* Division with remainder, by any m.
LEMMA DivMod ==
  ASSUME NEW m \in Nat \ {0}, NEW k \in Nat
  PROVE  k = m * (k \div m) + (k % m) /\ k % m \in 0 .. m - 1 /\ k \div m \in Nat
<1>1. k % m = k - m * (k \div m)
  BY SMTT(20)
<1>2. k % m \in 0 .. m - 1 /\ k \div m \in Nat
  BY SMT
<1>3. m * (k \div m) \in Int
  BY <1>2, SMT
<1> QED BY <1>1, <1>2, <1>3, SMT

\* The quotient and the remainder are unique.
LEMMA DivModUnique ==
  ASSUME NEW m \in Nat \ {0}, NEW k \in Nat, NEW q \in Nat, NEW r \in 0 .. m - 1,
         k = m * q + r
  PROVE  k \div m = q /\ k % m = r
  BY SMT

\* From one number to the next.
LEMMA DivModNext ==
  ASSUME NEW m \in Nat \ {0}, NEW k \in Nat
  PROVE  IF (k % m) + 1 = m
         THEN (k + 1) % m = 0 /\ (k + 1) \div m = (k \div m) + 1
         ELSE (k + 1) % m = (k % m) + 1 /\ (k + 1) \div m = k \div m
<1> DEFINE q == k \div m
           r == k % m
<1>1. k = m * q + r /\ r \in 0 .. m - 1 /\ q \in Nat
  BY DivMod
<1> HIDE DEF q, r
<1>2. CASE r + 1 = m
  <2>1. k + 1 = m * (q + 1) + 0 /\ 0 \in 0 .. m - 1 /\ q + 1 \in Nat
    BY <1>1, <1>2, SMT
  <2>2. (k + 1) \div m = q + 1 /\ (k + 1) % m = 0
    BY <2>1, DivModUnique, SMT
  <2> QED BY <1>2, <2>2 DEF q, r
<1>3. CASE r + 1 # m
  <2>1. k + 1 = m * q + (r + 1) /\ r + 1 \in 0 .. m - 1
    BY <1>1, <1>3, SMT
  <2>2. (k + 1) \div m = q /\ (k + 1) % m = r + 1
    BY <1>1, <2>1, DivModUnique, SMT
  <2> QED BY <1>3, <2>2 DEF q, r
<1> QED BY <1>2, <1>3 DEF r

\* A whole turn of the ring.
LEMMA DivModTurn ==
  ASSUME NEW m \in Nat \ {0}, NEW k \in Nat
  PROVE  (k + m) % m = k % m /\ (k + m) \div m = (k \div m) + 1
  BY SMT

\* Numbers less than a turn apart differ modulo m.
LEMMA ModDiffers ==
  ASSUME NEW m \in Nat \ {0}, NEW j \in Nat, NEW k \in Nat, j < k, k < j + m
  PROVE  j % m # k % m
<1> DEFINE q == j \div m
           p == k \div m
<1> SUFFICES ASSUME j % m = k % m PROVE FALSE
  OBVIOUS
<1>1. k - j = m * p - m * q /\ p \in Nat /\ q \in Nat /\ m * p \in Int /\ m * q \in Int
  <2>1. j = m * q + (j % m) /\ j % m \in 0 .. m - 1 /\ q \in Nat
    BY DivMod
  <2>2. k = m * p + (k % m) /\ k % m \in 0 .. m - 1 /\ p \in Nat
    BY DivMod
  <2> HIDE DEF p, q
  <2> QED BY <2>1, <2>2, SMT
<1> HIDE DEF p, q
<1>2. CASE p <= q
  <2>1. m * p <= m * q
    BY <1>1, <1>2, SMT
  <2> QED BY <1>1, <2>1, SMT
<1>3. CASE p > q
  <2>1. m * p >= m * q + m
    BY <1>1, <1>3, SMT
  <2> QED BY <1>1, <2>1, SMT
<1> QED BY <1>1, <1>2, <1>3, SMT

\* A counter that wraps at a multiple of m.
LEMMA ModMod ==
  ASSUME NEW m \in Nat \ {0}, NEW w \in Nat \ {0}, w % m = 0, NEW k \in Nat
  PROVE  (k % w) % m = k % m
<1> DEFINE n == w \div m
           q == k \div w
           r == k % w
           p == r \div m
           t == r % m
<1>1. w = m * n /\ n \in Nat
  BY DivMod, SMT
<1>2. k = w * q + r /\ q \in Nat /\ r \in Nat
  BY DivMod, SMT
<1>3. r = m * p + t /\ t \in 0 .. m - 1 /\ p \in Nat
  BY <1>2, DivMod
<1> HIDE DEF n, q, r, p, t
<1>4. n * q + p \in Nat
  BY <1>1, <1>2, <1>3, SMT
<1>5. w * q = m * (n * q)
  BY <1>1, <1>2, SMT
<1>6. k = m * (n * q + p) + t
  BY <1>1, <1>2, <1>3, <1>5, SMT
<1>7. k % m = t
  BY <1>3, <1>4, <1>6, DivModUnique, SMT
<1> QED BY <1>7 DEF t, r

\* Counting modulo w.
LEMMA ModSucc ==
  ASSUME NEW w \in Nat \ {0}, NEW k \in Nat
  PROVE  ((k % w) + 1) % w = (k + 1) % w
<1> DEFINE r == k % w
<1>1. r \in 0 .. w - 1
  BY DivMod
<1>2. CASE r + 1 = w
  <2>1. w = w * 1 + 0 /\ 0 \in 0 .. w - 1
    BY SMT
  <2>2. w % w = 0
    BY <2>1, DivModUnique
  <2>3. (k + 1) % w = 0
    BY <1>2, DivModNext
  <2> QED BY <1>2, <2>2, <2>3
<1>3. CASE r + 1 # w
  <2>1. r + 1 = w * 0 + (r + 1) /\ r + 1 \in 0 .. w - 1 /\ r + 1 \in Nat
    BY <1>1, <1>3, SMT
  <2> HIDE DEF r
  <2>2. (r + 1) % w = r + 1
    BY <2>1, DivModUnique
  <2> QED BY <1>3, <2>2, DivModNext DEF r
<1> QED BY <1>2, <1>3

\* The distance of two counters that wrap.
LEMMA ModMinus ==
  ASSUME NEW w \in Nat \ {0}, NEW a \in Nat, NEW b \in Nat, b <= a, a < b + w
  PROVE  ((a % w) + w - (b % w)) % w = a - b
<1> DEFINE q == a \div w
           r == a % w
           p == b \div w
           t == b % w
           x == r + w - t
<1>1. a = w * q + r /\ r \in 0 .. w - 1 /\ q \in Nat
  BY DivMod
<1>2. b = w * p + t /\ t \in 0 .. w - 1 /\ p \in Nat
  BY DivMod
<1> HIDE DEF q, r, p, t
<1>3. w * q \in Int /\ w * p \in Int /\ x \in Nat /\ a - b \in 0 .. w - 1
  BY <1>1, <1>2, SMT
<1>4. q >= p
  <2> SUFFICES ASSUME p >= q + 1 PROVE FALSE
    BY <1>1, <1>2, SMT
  <2>1. w * p >= w * q + w
    BY <1>1, <1>2, SMT
  <2> QED BY <1>1, <1>2, <1>3, <2>1, SMT
<1>5. q <= p + 1
  <2> SUFFICES ASSUME q >= p + 2 PROVE FALSE
    BY <1>1, <1>2, SMT
  <2>1. w * q >= w * (p + 2)
    BY <1>1, <1>2, SMT
  <2>2. w * (p + 2) = w * p + w + w
    BY <1>2, SMT
  <2> QED BY <1>1, <1>2, <1>3, <2>1, <2>2, SMT
<1>6. CASE q = p
  <2>1. x = w * 1 + (a - b)
    BY <1>1, <1>2, <1>3, <1>6, SMT
  <2> QED BY <1>3, <2>1, DivModUnique DEF r, t
<1>7. CASE q = p + 1
  <2>1. w * q = w * p + w
    BY <1>2, <1>7, SMT
  <2>2. x = w * 0 + (a - b)
    BY <1>1, <1>2, <1>3, <2>1, SMT
  <2> QED BY <1>3, <2>2, DivModUnique DEF r, t
<1> QED BY <1>1, <1>2, <1>4, <1>5, <1>6, <1>7, SMT

\* A distance added before or after the wrap.
LEMMA ModAdd ==
  ASSUME NEW w \in Nat \ {0}, NEW j \in Nat, NEW k \in Nat
  PROVE  ((j % w) + k) % w = (j + k) % w
<1> DEFINE q == j \div w
           r == j % w
           p == (r + k) \div w
           s == (r + k) % w
<1>1. j = w * q + r /\ q \in Nat /\ r \in Nat
  BY DivMod, SMT
<1>2. r + k = w * p + s /\ p \in Nat /\ s \in 0 .. w - 1
  <2>1. r + k \in Nat
    BY <1>1, SMT
  <2> QED BY <2>1, DivMod
<1> HIDE DEF q, r, p, s
<1>3. j + k = w * (q + p) + s /\ q + p \in Nat /\ j + k \in Nat
  BY <1>1, <1>2, SMT
<1>4. (j + k) % w = s
  BY <1>2, <1>3, DivModUnique
<1> QED BY <1>4 DEF s, r

-----------------------------------------------------------------------------
(* The admin rings                                                          *)
(*                                                                          *)
(* Nothing in ena_admin_exec_locked looks whether the ring has room.  What  *)
(* keeps it from overflowing is that a core waits for its own answer under  *)
(* the lock, and that after a timeout only the cores that already wait for  *)
(* the lock still submit.  So it takes more entries than cores.             *)

\* What the theorems of this section need of the constants: the ring has more
\* entries than the machine has cores, ids outnumber entries, and the indices
\* wrap after an even number of passes.
RoomForAll ==
  /\ IsFiniteSet(Cpus) /\ Cpus # {} /\ Cardinality(Cpus) < AcqDepth
  /\ AcqDepth < IdSpace /\ IdxMod % (2 * AcqDepth) = 0

\* The phase of the pass in which an index that never wraps is reached.
Ph(k) == 1 - ((k \div AcqDepth) % 2)

\* How many cores wait for the lock, and whether one polls for its answer.
Wait(at)  == Cardinality({c \in Cpus : at[c] = "lock"})
Polls(at) == \E c \in Cpus : at[c] = "poll"

\* An entry that carries one of the last commands has the id of that command.
Named(id, age, next) ==
  /\ id \in 1 .. IdSpace - 1
  /\ id + age + 1 = next \/ id + age + 2 = next + IdSpace

\* The counters without their wraps: a is the tail of the driver, h what it
\* reads next, t what the device answers next and d what it fetches next.  A
\* failed reset makes the device drop commands, so d may be ahead of t.
Counters(a, h, t, d) ==
  /\ aq_tail = a % IdxMod /\ aq_db = a % IdxMod /\ acq_head = h % IdxMod
  /\ dev_acq_tail = t % IdxMod /\ dev_aq_head = d % IdxMod
  /\ aq_phase = Ph(a) /\ acq_phase = Ph(h) /\ dev_acq_phase = Ph(t)
  /\ h <= a /\ t <= d /\ d <= a

\* The cores that wait for the lock still find room.
Room(a, h, t) ==
  /\ (a - t) + Wait(pc) <= Cardinality(Cpus) + 1
  /\ (a - h) + Wait(pc) <= Cardinality(Cpus)

\* The command a core polls for is the last one.
Asked(a, h) ==
  /\ next_command_id \in 1 .. IdSpace - 1
  /\ Polls(pc) => h < a
  /\ \A c \in Cpus : pc[c] = "poll" =>
       cmd[c].serial = serial /\ Named(cmd[c].id, 0, next_command_id)

\* What the device has not fetched is as it was written.
Sent(a, d) ==
  \A i \in Nat : d <= i /\ i < a =>
    /\ aq[Slot(i)].phase = Ph(i) /\ aq[Slot(i)].serial + (a - 1 - i) = serial
    /\ Named(aq[Slot(i)].id, a - 1 - i, next_command_id)

\* No entry the device has not answered looks like an answer of this pass,
\* but one that was cleared.
Stale(t) ==
  \A i \in Nat : t <= i /\ i < t + AcqDepth =>
    acq[Slot(i)].phase # Ph(i) \/ acq[Slot(i)].id = 0

\* What the driver has not read answers a command no older than its place.
Unread(a, h, t) ==
  \A i \in Nat : h <= i /\ i < t =>
    \/ acq[Slot(i)].id = 0
    \/ \E age \in Nat : /\ acq[Slot(i)].serial + age = serial /\ age < a - i
                         /\ Named(acq[Slot(i)].id, age, next_command_id)

\* As long as no command has timed out, the driver has read every answer but
\* that of the command it polls for.  The device may be one answer behind,
\* after a command that cleared its own entry and read it as an answer; that
\* was a command with id 1.
InTurn(a, h, t) ==
  state = "ready" =>
    /\ a = IF Polls(pc) THEN h + 1 ELSE h
    /\ \/ t = h
       \/ Polls(pc) /\ t = h + 1
       \/ t + 1 = h /\ (Polls(pc) <=> next_command_id # 2)
    /\ \A i \in Nat : t <= i /\ i < t + AcqDepth =>
         \/ acq[Slot(i)].phase # Ph(i)
         \/ i = t /\ (t + 1 = h \/ (t = h /\ Polls(pc) /\ next_command_id = 2))

RingAt(a, h, t, d) ==
  /\ Counters(a, h, t, d) /\ Room(a, h, t) /\ Asked(a, h)
  /\ Sent(a, d) /\ Stale(t) /\ Unread(a, h, t) /\ InTurn(a, h, t)

Cmds == [id : Nat, serial : Nat]

Rings ==
  /\ cmd \in [Cpus -> Cmds] /\ state \in {"ready", "error", "stopped"}
  /\ (state = "ready" \/ Polls(pc) => queues) /\ (state = "stopped" => ~ queues)
  /\ queues => \E a, h, t, d \in Nat : RingAt(a, h, t, d)

LEMMA Sizes ==
  ASSUME RoomForAll
  PROVE  /\ AcqDepth \in Nat \ {0} /\ IdxMod \in Nat \ {0} /\ IdSpace \in Nat
         /\ Cardinality(Cpus) \in Nat /\ 1 < AcqDepth /\ 2 < IdSpace
         /\ 2 * AcqDepth \in Nat \ {0} /\ AcqDepth < IdxMod /\ IdxMod % AcqDepth = 0
<1>1. /\ AcqDepth \in Nat \ {0} /\ IdxMod \in Nat \ {0} /\ IdSpace \in Nat
  BY AdminAssumption
<1>2. Cardinality(Cpus) \in Nat /\ Cardinality(Cpus) # 0
  BY FS_CardinalityType, FS_EmptySet DEF RoomForAll
<1>3. 1 < AcqDepth /\ 2 < IdSpace /\ 2 * AcqDepth \in Nat \ {0}
  BY <1>1, <1>2, SMT DEF RoomForAll
<1> DEFINE n == IdxMod \div (2 * AcqDepth)
<1>4. IdxMod = (2 * AcqDepth) * n /\ n \in Nat
  <2>1. IdxMod = (2 * AcqDepth) * n + (IdxMod % (2 * AcqDepth)) /\ n \in Nat
    BY <1>1, <1>3, DivMod
  <2> HIDE DEF n
  <2> QED BY <1>1, <2>1, SMT DEF RoomForAll
<1> HIDE DEF n
<1>5. n >= 1
  BY <1>1, <1>4, SMT
<1>6. (2 * AcqDepth) * n >= 2 * AcqDepth
  BY <1>1, <1>4, <1>5, SMT
<1>7. IdxMod = AcqDepth * (2 * n) + 0 /\ 2 * n \in Nat /\ 0 \in 0 .. AcqDepth - 1
  BY <1>1, <1>4, SMT
<1>8. IdxMod % AcqDepth = 0
  <2>1. ASSUME NEW q \in Nat, IdxMod = AcqDepth * q + 0 PROVE IdxMod % AcqDepth = 0
    BY <1>1, <1>7, <2>1, DivModUnique
  <2> QED BY <1>7, <2>1
<1> QED BY <1>1, <1>2, <1>3, <1>4, <1>6, <1>8, SMT

\* The phase depends on the place in two passes.
LEMMA PhaseOf ==
  ASSUME RoomForAll, NEW k \in Nat
  PROVE  Ph(k) = IF k % (2 * AcqDepth) < AcqDepth THEN 1 ELSE 0
<1> DEFINE w == 2 * AcqDepth
           q == k \div w
           r == k % w
<1>1. k = w * q + r /\ q \in Nat /\ r \in 0 .. w - 1
  BY Sizes, DivMod
<1>2. AcqDepth \in Nat \ {0}
  BY Sizes
<1> HIDE DEF q, r
<1>3. CASE r < AcqDepth
  <2>1. k = AcqDepth * (2 * q) + r /\ 2 * q \in Nat /\ r \in 0 .. AcqDepth - 1
    BY <1>1, <1>2, <1>3, SMT
  <2>2. k \div AcqDepth = 2 * q
    BY <1>2, <2>1, DivModUnique
  <2>3. (2 * q) % 2 = 0
    BY <1>1, SMT
  <2>4. Ph(k) = 1
    BY <2>2, <2>3, SMT DEF Ph
  <2> QED BY <1>3, <2>4 DEF r
<1>4. CASE ~ (r < AcqDepth)
  <2>1. /\ k = AcqDepth * (2 * q + 1) + (r - AcqDepth) /\ 2 * q + 1 \in Nat
        /\ r - AcqDepth \in 0 .. AcqDepth - 1
    BY <1>1, <1>2, <1>4, SMT
  <2>2. k \div AcqDepth = 2 * q + 1
    BY <1>2, <2>1, DivModUnique
  <2>3. (2 * q + 1) % 2 = 1
    BY <1>1, SMT
  <2>4. Ph(k) = 0
    BY <2>2, <2>3, SMT DEF Ph
  <2> QED BY <1>4, <2>4 DEF r
<1> QED BY <1>3, <1>4

\* Slots, phases and counters, from one index to the next and after a pass.
LEMMA Turns ==
  ASSUME RoomForAll, NEW k \in Nat
  PROVE  /\ Slot(k) \in Slots /\ Ph(k) \in {0, 1}
         /\ Slot(k + AcqDepth) = Slot(k) /\ Ph(k + AcqDepth) # Ph(k)
         /\ k % IdxMod \in Nat /\ Succ(k % IdxMod) = (k + 1) % IdxMod
         /\ Slot(k % IdxMod) = Slot(k) /\ Ph(k % IdxMod) = Ph(k)
         /\ FlipOnWrap(Ph(k), (k + 1) % IdxMod) = Ph(k + 1)
<1>0. AcqDepth \in Nat \ {0} /\ IdxMod \in Nat \ {0} /\ IdxMod % AcqDepth = 0
  BY Sizes
<1> DEFINE q == k \div AcqDepth
<1>1. Slot(k) \in Slots /\ q \in Nat
  BY <1>0, DivMod DEF Slot, Slots
<1>2. (q % 2) \in {0, 1} /\ (q + 1) % 2 = 1 - (q % 2)
  BY <1>1, SMT
<1>3. Ph(k) \in {0, 1}
  BY <1>2, SMT DEF Ph
<1>4. Slot(k + AcqDepth) = Slot(k) /\ Ph(k + AcqDepth) # Ph(k)
  <2>1. (k + AcqDepth) % AcqDepth = k % AcqDepth /\ (k + AcqDepth) \div AcqDepth = q + 1
    BY <1>0, DivModTurn
  <2> HIDE DEF q
  <2>2. 1 - ((q + 1) % 2) # 1 - (q % 2)
    BY <1>2, SMT
  <2> QED BY <2>1, <2>2 DEF Slot, Ph, q
<1>5. k % IdxMod \in Nat /\ (k + 1) % IdxMod \in Nat /\ k + 1 \in Nat
  BY <1>0, SMT
<1>6. Slot(k % IdxMod) = Slot(k) /\ Slot((k + 1) % IdxMod) = Slot(k + 1)
  BY <1>0, <1>5, ModMod, ZenonT(30) DEF Slot
<1>7. Succ(k % IdxMod) = (k + 1) % IdxMod
  BY <1>0, ModSucc DEF Succ
<1>8. Ph(k % IdxMod) = Ph(k)
  <2>1. (k % IdxMod) % (2 * AcqDepth) = k % (2 * AcqDepth)
    BY <1>0, Sizes, ModMod, ZenonT(30) DEF RoomForAll
  <2> QED BY <1>5, <2>1, PhaseOf
<1>9. Ph(k + 1) = FlipOnWrap(Ph(k), k + 1)
  <2>1. \/ Slot(k + 1) = 0 /\ (k + 1) \div AcqDepth = q + 1
        \/ Slot(k + 1) # 0 /\ (k + 1) \div AcqDepth = q
    <3>1. k % AcqDepth \in 0 .. AcqDepth - 1
      BY <1>0, DivMod
    <3>2. IF (k % AcqDepth) + 1 = AcqDepth
          THEN (k + 1) % AcqDepth = 0 /\ (k + 1) \div AcqDepth = q + 1
          ELSE (k + 1) % AcqDepth = (k % AcqDepth) + 1 /\ (k + 1) \div AcqDepth = q
      BY <1>0, DivModNext
    <3> HIDE DEF q
    <3> QED BY <3>1, <3>2, SMT DEF Slot
  <2> HIDE DEF q
  <2> QED BY <1>2, <2>1 DEF FlipOnWrap, Ph, q
<1> HIDE DEF q
<1> QED BY <1>1, <1>3, <1>4, <1>5, <1>6, <1>7, <1>8, <1>9 DEF FlipOnWrap

\* Indices less than a pass apart have different slots.
LEMMA SlotsApart ==
  ASSUME RoomForAll, NEW i \in Nat, NEW j \in Nat, i < j, j < i + AcqDepth
  PROVE  Slot(i) # Slot(j)
  BY Sizes, ModDiffers DEF Slot

\* Ids run from 1 to IdSpace - 1 and start again.
LEMMA NextIds ==
  ASSUME RoomForAll, NEW n \in 1 .. IdSpace - 1
  PROVE  /\ NextId(n) \in 1 .. IdSpace - 1 /\ Named(n, 0, NextId(n))
         /\ n = 1 <=> NextId(n) = 2
<1>1. IdSpace \in Nat /\ 2 < IdSpace
  BY Sizes
<1>2. CASE n + 1 = IdSpace
  <2>1. (n + 1) % IdSpace = 0
    BY <1>1, <1>2, SMT
  <2>2. NextId(n) = 1
    BY <2>1 DEF NextId
  <2> QED BY <1>1, <1>2, <2>2, SMT DEF Named
<1>3. CASE n + 1 # IdSpace
  <2>1. (n + 1) % IdSpace = n + 1 /\ n + 1 # 0
    BY <1>1, <1>3, SMT
  <2>2. NextId(n) = n + 1
    BY <2>1 DEF NextId
  <2> QED BY <1>1, <1>3, <2>2, SMT DEF Named
<1> QED BY <1>2, <1>3

\* A command that is not older than the ids last keeps its id when the next one
\* is submitted.
LEMMA NamedNext ==
  ASSUME RoomForAll, NEW n \in 1 .. IdSpace - 1, NEW id, NEW age \in Nat,
         Named(id, age, n), age + 2 < IdSpace
  PROVE  Named(id, age + 1, NextId(n))
<1>1. IdSpace \in Nat /\ 2 < IdSpace
  BY Sizes
<1>2. Named(n, 0, NextId(n)) /\ NextId(n) \in 1 .. IdSpace - 1
  BY NextIds
<1> QED BY <1>1, <1>2, SMT DEF Named

\* Two commands with the same id, less than a round of ids apart, are the same.
LEMMA NamedOnce ==
  ASSUME RoomForAll, NEW n \in Nat, NEW id, NEW age \in Nat,
         Named(id, age, n), Named(id, 0, n), age + 1 < IdSpace
  PROVE  age = 0
  BY Sizes, SMT DEF Named

\* The cores at the lock, without the one that polls.
LEMMA WaitBound ==
  ASSUME RoomForAll, NEW at
  PROVE  /\ Wait(at) \in Nat /\ Wait(at) <= Cardinality(Cpus)
         /\ Polls(at) => Wait(at) + 1 <= Cardinality(Cpus)
<1> DEFINE W == {c \in Cpus : at[c] = "lock"}
<1>1. IsFiniteSet(W) /\ Cardinality(W) <= Cardinality(Cpus)
  BY FS_Subset DEF RoomForAll
<1>2. Cardinality(W) \in Nat /\ Cardinality(Cpus) \in Nat
  BY <1>1, FS_CardinalityType DEF RoomForAll
<1>3. ASSUME NEW c \in Cpus, at[c] = "poll" PROVE Cardinality(W) + 1 <= Cardinality(Cpus)
  <2>1. /\ IsFiniteSet(Cpus \ {c})
        /\ Cardinality(Cpus \ {c}) = Cardinality(Cpus) - 1
    BY FS_RemoveElement DEF RoomForAll
  <2>2. W \subseteq Cpus \ {c}
    BY <1>3
  <2>3. Cardinality(W) <= Cardinality(Cpus \ {c})
    BY <2>1, <2>2, FS_Subset
  <2> HIDE DEF W
  <2> QED BY <1>2, <2>1, <2>3, SMT
<1> QED BY <1>1, <1>2, <1>3 DEF Wait, Polls

LEMMA WaitStays ==
  ASSUME RoomForAll, NEW at, NEW to, \A c \in Cpus : to[c] = "lock" => at[c] = "lock"
  PROVE  Wait(to) <= Wait(at)
<1>1. {c \in Cpus : to[c] = "lock"} \subseteq {c \in Cpus : at[c] = "lock"}
  OBVIOUS
<1>2. IsFiniteSet({c \in Cpus : at[c] = "lock"})
  BY FS_Subset DEF RoomForAll
<1> QED BY <1>1, <1>2, FS_Subset DEF Wait

LEMMA WaitLess ==
  ASSUME RoomForAll, NEW at \in [Cpus -> Pcs], NEW c \in Cpus, at[c] = "lock"
  PROVE  Wait([at EXCEPT ![c] = "poll"]) + 1 = Wait(at)
<1> DEFINE W == {d \in Cpus : at[d] = "lock"}
<1>1. IsFiniteSet(W) /\ c \in W
  BY FS_Subset DEF RoomForAll
<1>2. {d \in Cpus : [at EXCEPT ![c] = "poll"][d] = "lock"} = W \ {c}
  OBVIOUS
<1>3. Cardinality(W \ {c}) = Cardinality(W) - 1 /\ Cardinality(W) \in Nat
  BY <1>1, FS_RemoveElement, FS_CardinalityType
<1>4. Cardinality(W \ {c}) + 1 = Cardinality(W)
  <2> HIDE DEF W
  <2> QED BY <1>3, SMT
<1> QED BY <1>2, <1>4 DEF Wait

\* ena_admin_exec_locked up to the doorbell: the entry it writes was answered
\* before, and the entry it clears, if the ids start again, is its own.
LEMMA SubmitRings ==
  ASSUME RoomForAll, RecTypeOK, LockInv, cmd \in [Cpus -> Cmds],
         NEW a \in Nat, NEW h \in Nat, NEW t \in Nat, NEW d \in Nat, RingAt(a, h, t, d),
         NEW c \in Cpus, ExecSubmit(c)
  PROVE  RingAt(a + 1, h, t, d)'
<1> DEFINE n == next_command_id
           entry == [Zeroed EXCEPT !.id = n, !.serial = serial + 1, !.phase = aq_phase]
<1>0. /\ Counters(a, h, t, d) /\ Room(a, h, t) /\ Asked(a, h)
      /\ Sent(a, d) /\ Stale(t) /\ Unread(a, h, t) /\ InTurn(a, h, t)
  BY DEF RingAt
<1>1. n \in 1 .. IdSpace - 1
  BY <1>0 DEF Asked
<1>2. /\ pc[c] = "lock" /\ pc' = [pc EXCEPT ![c] = "poll"] /\ admin_lock = None
      /\ next_command_id' = NextId(n) /\ serial' = serial + 1
      /\ aq' = [aq EXCEPT ![Slot(aq_tail)] = entry]
      /\ cmd' = [cmd EXCEPT ![c] = [id |-> n, serial |-> serial + 1]]
      /\ aq_tail' = Succ(aq_tail) /\ aq_db' = Succ(aq_tail)
      /\ aq_phase' = FlipOnWrap(aq_phase, Succ(aq_tail))
      /\ UNCHANGED <<state, acq_head, devVars>>
  <2>1. n # 0
    BY <1>1, Sizes, SMT
  <2> QED BY <2>1 DEF ExecSubmit, Goto, Lock
<1>3. IF WrapsAt(n) THEN /\ acq_phase' = 1 - ((acq_head \div AcqDepth) % 2)
                         /\ acq' = [acq EXCEPT ![Slot(acq_head)] = Zeroed]
                    ELSE UNCHANGED <<acq_phase, acq>>
  <2>1. n # 0
    BY <1>1, Sizes, SMT
  <2> QED BY <2>1 DEF ExecSubmit
<1>4. /\ ~ Polls(pc) /\ Polls(pc') /\ \A x \in Cpus : pc'[x] = "poll" => x = c
  BY <1>2, AdminAssumption DEF LockInv, OneCoreInside, Inside, Polls
<1>5. /\ AcqDepth \in Nat /\ IdSpace \in Nat /\ Cardinality(Cpus) \in Nat
      /\ Cardinality(Cpus) < AcqDepth /\ AcqDepth < IdSpace /\ serial \in Nat
  BY Sizes DEF RoomForAll, RecTypeOK
<1>6. /\ Wait(pc') + 1 = Wait(pc) /\ Wait(pc') \in Nat /\ Wait(pc) \in Nat
  BY <1>2, WaitLess, WaitBound DEF LockInv
<1>7. h <= a /\ t <= d /\ d <= a
  BY <1>0 DEF Counters
<1>8. (a - t) + 1 <= Cardinality(Cpus) + 1 /\ (a - h) + 1 <= Cardinality(Cpus)
  BY <1>0, <1>5, <1>6, <1>7, SMT DEF Room
<1> HIDE DEF n, entry
<1>9. Counters(a + 1, h, t, d)'
  <2>1. /\ (a + 1) % IdxMod = Succ(aq_tail) /\ aq_phase' = Ph(a + 1)
    BY <1>0, <1>2, Turns DEF Counters
  <2>2. acq_phase' = Ph(h)
    BY <1>0, <1>3, Turns DEF Counters, Ph
  <2>3. h <= a + 1 /\ t <= d /\ d <= a + 1
    BY <1>7, SMT
  <2> QED BY <1>0, <1>2, <2>1, <2>2, <2>3 DEF Counters, devVars
<1>10. Room(a + 1, h, t)'
  BY <1>0, <1>5, <1>6, <1>7, SMT DEF Room
<1>11. Asked(a + 1, h)'
  <2>1. NextId(n) \in 1 .. IdSpace - 1 /\ Named(n, 0, NextId(n)) /\ h < a + 1
    BY <1>1, <1>7, NextIds, SMT
  <2>2. cmd'[c] = [id |-> n, serial |-> serial + 1]
    BY <1>2
  <2>3. cmd'[c].id = n /\ cmd'[c].serial = serial + 1
    BY <2>2, SMT
  <2> QED BY <1>2, <1>4, <2>1, <2>3 DEF Asked
<1>12. Sent(a + 1, d)'
  <2> SUFFICES ASSUME NEW i \in Nat, d <= i, i < a + 1
               PROVE  /\ aq'[Slot(i)].phase = Ph(i)
                      /\ aq'[Slot(i)].serial + ((a + 1) - 1 - i) = serial'
                      /\ Named(aq'[Slot(i)].id, (a + 1) - 1 - i, next_command_id')
    BY DEF Sent, Named
  <2>1. Slot(aq_tail) = Slot(a) /\ Slot(a) \in Slots /\ Slot(i) \in Slots
    BY <1>0, Turns DEF Counters
  <2>2. aq' = [aq EXCEPT ![Slot(a)] = entry] /\ aq \in [Slots -> Entries]
    BY <1>2, <2>1 DEF RecTypeOK
  <2>3. CASE i = a
    <3>1. aq'[Slot(i)] = entry
      BY <2>1, <2>2, <2>3
    <3>2. entry.phase = Ph(a) /\ entry.serial = serial + 1 /\ entry.id = n
      BY <1>0 DEF entry, Zeroed, Counters
    <3>3. (a + 1) - 1 - i = 0 /\ serial + 1 + 0 = serial + 1
      BY <1>5, <2>3, SMT
    <3> QED BY <1>1, <1>2, <2>3, <3>1, <3>2, <3>3, NextIds
  <2>4. CASE i # a
    <3>1. i < a /\ a < i + AcqDepth /\ a - 1 - i \in Nat /\ (a - 1 - i) + 2 < IdSpace
          /\ (a + 1) - 1 - i = (a - 1 - i) + 1
      BY <1>5, <1>7, <1>8, <2>4, SMT
    <3>2. aq'[Slot(i)] = aq[Slot(i)]
      BY <2>1, <2>2, <3>1, SlotsApart
    <3>3. /\ aq[Slot(i)].phase = Ph(i) /\ aq[Slot(i)].serial + (a - 1 - i) = serial
          /\ Named(aq[Slot(i)].id, a - 1 - i, n)
      BY <1>0, <3>1 DEF Sent, n
    <3>4. Named(aq[Slot(i)].id, (a - 1 - i) + 1, NextId(n))
      BY <1>1, <3>1, <3>3, NamedNext
    <3>5. aq[Slot(i)].serial \in Nat
      BY <2>1, <2>2 DEF Entries
    <3>6. aq[Slot(i)].serial + ((a + 1) - 1 - i) = serial + 1
      BY <1>5, <3>1, <3>3, <3>5, SMT
    <3> QED BY <1>2, <3>1, <3>2, <3>3, <3>4, <3>6
  <2> QED BY <2>3, <2>4
<1>13. /\ acq \in [Slots -> Entries] /\ Slot(acq_head) = Slot(h) /\ Slot(h) \in Slots
       /\ \A x \in Slots : \/ acq'[x] = acq[x]
                           \/ x = Slot(h) /\ n = 1 /\ acq'[x].id = 0
  <2>1. acq \in [Slots -> Entries] /\ Slot(acq_head) = Slot(h) /\ Slot(h) \in Slots
    BY <1>0, Turns DEF Counters, RecTypeOK
  <2>2. Zeroed.id = 0
    BY DEF Zeroed
  <2> QED BY <1>3, <2>1, <2>2 DEF WrapsAt
<1>14. Stale(t)'
  <2> SUFFICES ASSUME NEW i \in Nat, t <= i, i < t + AcqDepth
               PROVE  acq'[Slot(i)].phase # Ph(i) \/ acq'[Slot(i)].id = 0
    BY DEF Stale
  <2>1. Slot(i) \in Slots
    BY Turns
  <2> QED BY <1>0, <1>13, <2>1 DEF Stale
<1>15. Unread(a + 1, h, t)'
  <2> SUFFICES ASSUME NEW i \in Nat, h <= i, i < t, acq'[Slot(i)].id # 0
               PROVE  \E age \in Nat : /\ acq'[Slot(i)].serial + age = serial'
                                       /\ age < (a + 1) - i
                                       /\ Named(acq'[Slot(i)].id, age, next_command_id')
    BY DEF Unread, Named
  <2>1. Slot(i) \in Slots /\ acq'[Slot(i)] = acq[Slot(i)] /\ acq[Slot(i)].serial \in Nat
    BY <1>13, Turns DEF Entries
  <2>2. PICK age \in Nat : /\ acq[Slot(i)].serial + age = serial /\ age < a - i
                           /\ Named(acq[Slot(i)].id, age, n)
    BY <1>0, <2>1 DEF Unread, n
  <2>3. age + 2 < IdSpace /\ age + 1 < (a + 1) - i /\ age + 1 \in Nat
        /\ acq[Slot(i)].serial + (age + 1) = serial + 1
    BY <1>5, <1>7, <1>8, <2>1, <2>2, SMT
  <2>4. Named(acq[Slot(i)].id, age + 1, NextId(n))
    BY <1>1, <2>2, <2>3, NamedNext
  <2> QED BY <1>2, <2>1, <2>3, <2>4
<1>16. InTurn(a + 1, h, t)'
  <2> SUFFICES ASSUME state = "ready" PROVE InTurn(a + 1, h, t)'
    BY <1>2 DEF InTurn
  <2>1. a = h /\ (t = h \/ (t + 1 = h /\ n = 2))
    BY <1>0, <1>4 DEF InTurn, n
  <2>2. n = 1 <=> NextId(n) = 2
    BY <1>1, NextIds
  <2>3. 2 # 1
    BY SMT
  <2>4. ASSUME NEW i \in Nat, t <= i, i < t + AcqDepth
        PROVE  \/ acq'[Slot(i)].phase # Ph(i)
               \/ i = t /\ (t + 1 = h \/ (t = h /\ NextId(n) = 2))
    <3>1. Slot(i) \in Slots
      BY Turns
    <3>2. CASE acq'[Slot(i)] = acq[Slot(i)]
      BY <1>0, <1>4, <2>4, <3>2 DEF InTurn
    <3>3. CASE Slot(i) = Slot(h) /\ n = 1
      <4>1. t = h
        BY <2>1, <2>3, <3>3
      <4>2. i = t \/ t < i
        BY <2>4, SMT
      <4>3. i = t
        BY <2>4, <3>3, <4>1, <4>2, SlotsApart
      <4> QED BY <2>2, <3>3, <4>1, <4>3
    <3> QED BY <1>13, <3>1, <3>2, <3>3
  <2> QED BY <1>2, <1>4, <2>1, <2>2, <2>3, <2>4 DEF InTurn
<1> QED BY <1>9, <1>10, <1>11, <1>12, <1>14, <1>15, <1>16 DEF RingAt

\* The poll loop takes the entry at the head: the answer it waits for, or, with
\* the id 1, the entry it has cleared itself.
LEMMA ConsumeRings ==
  ASSUME RoomForAll, RecTypeOK, LockInv,
         NEW a \in Nat, NEW h \in Nat, NEW t \in Nat, NEW d \in Nat, RingAt(a, h, t, d),
         NEW c \in Cpus, Consume(c)
  PROVE  RingAt(a, h + 1, t, d)'
<1>0. /\ Counters(a, h, t, d) /\ Room(a, h, t) /\ Asked(a, h)
      /\ Sent(a, d) /\ Stale(t) /\ Unread(a, h, t) /\ InTurn(a, h, t)
  BY DEF RingAt
<1>1. /\ pc[c] = "poll" /\ pc' = [pc EXCEPT ![c] = "drop"] /\ AcqReady
      /\ acq_head' = Succ(acq_head) /\ acq_phase' = FlipOnWrap(acq_phase, Succ(acq_head))
      /\ UNCHANGED <<state, aqVars, acq, aq_db, devVars, cmd, serial>>
  BY DEF Consume, Goto
<1>2. Polls(pc) /\ ~ Polls(pc')
  BY <1>1 DEF LockInv, OneCoreInside, Inside, Polls
<1>3. /\ AcqDepth \in Nat /\ 1 < AcqDepth /\ Cardinality(Cpus) \in Nat
      /\ Wait(pc') <= Wait(pc) /\ Wait(pc') \in Nat /\ Wait(pc) \in Nat
  BY <1>1, Sizes, WaitBound, WaitStays DEF LockInv
<1>4. h < a /\ h <= a /\ t <= d /\ d <= a
  BY <1>0, <1>2 DEF Counters, Asked
<1>5. Counters(a, h + 1, t, d)'
  <2>1. (h + 1) % IdxMod = Succ(acq_head) /\ acq_phase' = Ph(h + 1)
    BY <1>0, <1>1, Turns DEF Counters
  <2>2. h + 1 <= a
    BY <1>4, SMT
  <2> QED BY <1>0, <1>1, <2>1, <2>2 DEF Counters, aqVars, devVars
<1>6. Room(a, h + 1, t)'
  BY <1>0, <1>3, <1>4, SMT DEF Room
<1>7. Asked(a, h + 1)'
  BY <1>0, <1>1, <1>2 DEF Asked, Polls, aqVars
<1>8. Sent(a, d)' /\ Stale(t)'
  BY <1>0, <1>1 DEF Sent, Stale, Named, aqVars
<1>9. Unread(a, h + 1, t)'
  <2>1. \A i \in Nat : h + 1 <= i => h <= i
    BY SMT
  <2> QED BY <1>0, <1>1, <2>1 DEF Unread, Named, aqVars
<1>10. InTurn(a, h + 1, t)'
  <2> SUFFICES ASSUME state = "ready" PROVE InTurn(a, h + 1, t)'
    BY <1>1 DEF InTurn
  <2>1. a = h + 1 /\ (t = h \/ t = h + 1 \/ (t + 1 = h /\ next_command_id # 2))
    BY <1>0, <1>2 DEF InTurn
  <2>2. acq[Slot(h)].phase = Ph(h)
    BY <1>0, <1>1, Turns DEF AcqReady, AcqEntry, Counters
  <2>3. t + 1 # h
    <3> SUFFICES ASSUME t + 1 = h PROVE FALSE
      OBVIOUS
    <3>1. t <= h /\ h < t + AcqDepth /\ h # t
      BY <1>3, SMT
    <3> QED BY <1>0, <2>2, <3>1 DEF InTurn
  <2>4. CASE t = h
    <3>1. t <= h /\ h < t + AcqDepth /\ t + 1 = h + 1
      BY <1>3, <2>4, SMT
    <3>2. next_command_id = 2
      BY <1>0, <2>2, <2>3, <3>1 DEF InTurn
    <3> QED BY <1>0, <1>1, <1>2, <2>1, <2>4, <3>1, <3>2 DEF InTurn, aqVars
  <2>5. CASE t = h + 1
    <3>1. t # h
      BY <2>5, SMT
    <3> QED BY <1>0, <1>1, <1>2, <2>1, <2>3, <2>5, <3>1 DEF InTurn
  <2> QED BY <2>1, <2>3, <2>4, <2>5
<1> QED BY <1>5, <1>6, <1>7, <1>8, <1>9, <1>10 DEF RingAt

\* The device answers the next command it has fetched.
LEMMA AnswerRings ==
  ASSUME RoomForAll, RecTypeOK,
         NEW a \in Nat, NEW h \in Nat, NEW t \in Nat, NEW d \in Nat, RingAt(a, h, t, d),
         NEW status, DevAnswer(status)
  PROVE  RingAt(a, h, t + 1, d + 1)'
<1> DEFINE e == [aq[Slot(dev_aq_head)] EXCEPT !.phase = dev_acq_phase, !.status = status]
<1>0. /\ Counters(a, h, t, d) /\ Room(a, h, t) /\ Asked(a, h)
      /\ Sent(a, d) /\ Stale(t) /\ Unread(a, h, t) /\ InTurn(a, h, t)
  BY DEF RingAt
<1>1. /\ dev_aq_head # aq_db /\ acq' = [acq EXCEPT ![Slot(dev_acq_tail)] = e]
      /\ dev_aq_head' = Succ(dev_aq_head) /\ dev_acq_tail' = Succ(dev_acq_tail)
      /\ dev_acq_phase' = FlipOnWrap(dev_acq_phase, Succ(dev_acq_tail))
      /\ UNCHANGED <<state, aqVars, acqVars, aq_db, pc, cmd, serial>>
  BY DEF DevAnswer
<1>2. /\ AcqDepth \in Nat /\ 1 < AcqDepth /\ Cardinality(Cpus) \in Nat
      /\ Cardinality(Cpus) < AcqDepth /\ Wait(pc) \in Nat
  BY Sizes, WaitBound DEF RoomForAll
<1>3. h <= a /\ t <= d /\ d <= a /\ d # a
  BY <1>0, <1>1 DEF Counters
<1>4. d < a /\ d <= d /\ t < a /\ a - h < AcqDepth
  BY <1>0, <1>2, <1>3, SMT DEF Room
<1>5. /\ Slot(dev_aq_head) = Slot(d) /\ Slot(dev_acq_tail) = Slot(t)
      /\ Slot(d) \in Slots /\ Slot(t) \in Slots
      /\ aq \in [Slots -> Entries] /\ acq \in [Slots -> Entries]
  BY <1>0, Turns DEF Counters, RecTypeOK
<1>6. e.phase = Ph(t) /\ e.id = aq[Slot(d)].id /\ e.serial = aq[Slot(d)].serial
  <2>1. aq[Slot(d)] \in Entries
    BY <1>5
  <2> QED BY <1>0, <1>5, <2>1, SMT DEF Entries, Counters
<1> HIDE DEF e
<1>7. acq'[Slot(t)] = e /\ \A x \in Slots \ {Slot(t)} : acq'[x] = acq[x]
  BY <1>1, <1>5
<1>8. Counters(a, h, t + 1, d + 1)'
  <2>1. /\ (t + 1) % IdxMod = Succ(dev_acq_tail) /\ dev_acq_phase' = Ph(t + 1)
        /\ (d + 1) % IdxMod = Succ(dev_aq_head)
    BY <1>0, <1>1, Turns DEF Counters
  <2>2. t + 1 <= d + 1 /\ d + 1 <= a
    BY <1>3, <1>4, SMT
  <2> QED BY <1>0, <1>1, <2>1, <2>2 DEF Counters, aqVars, acqVars
<1>9. Room(a, h, t + 1)'
  <2>1. Wait(pc') = Wait(pc)
    BY <1>1
  <2> QED BY <1>0, <1>2, <1>3, <1>4, <2>1, SMT DEF Room
<1>10. Asked(a, h)'
  BY <1>0, <1>1 DEF Asked, Polls, Named, aqVars
<1>11. Sent(a, d + 1)'
  <2>1. \A i \in Nat : d + 1 <= i => d <= i
    BY SMT
  <2> QED BY <1>0, <1>1, <2>1 DEF Sent, Named, aqVars
<1>12. ASSUME NEW i \in Nat, t + 1 <= i, i < (t + 1) + AcqDepth
       PROVE  \/ acq'[Slot(i)].phase # Ph(i)
              \/ /\ t <= i /\ i < t + AcqDepth /\ i # t
                 /\ acq'[Slot(i)] = acq[Slot(i)]
  <2>1. CASE i = t + AcqDepth
    <3>1. Slot(i) = Slot(t) /\ Ph(i) # Ph(t)
      BY <2>1, Turns
    <3> QED BY <1>6, <1>7, <3>1
  <2>2. CASE i # t + AcqDepth
    <3>1. t < i /\ i < t + AcqDepth /\ t <= i /\ i # t
      BY <1>2, <1>12, <2>2, SMT
    <3>2. Slot(i) # Slot(t) /\ Slot(i) \in Slots
      BY <3>1, SlotsApart, Turns
    <3> QED BY <1>7, <3>1, <3>2
  <2> QED BY <2>1, <2>2
<1>13. Stale(t + 1)'
  BY <1>0, <1>12 DEF Stale
<1>14. Unread(a, h, t + 1)'
  <2> SUFFICES ASSUME NEW i \in Nat, h <= i, i < t + 1
               PROVE  \/ acq'[Slot(i)].id = 0
                      \/ \E age \in Nat : /\ acq'[Slot(i)].serial + age = serial'
                                          /\ age < a - i
                                          /\ Named(acq'[Slot(i)].id, age, next_command_id')
    BY DEF Unread, Named
  <2>0. serial' = serial /\ next_command_id' = next_command_id
    BY <1>1 DEF aqVars
  <2>1. CASE i = t
    <3>1. /\ aq[Slot(d)].serial + (a - 1 - d) = serial
          /\ Named(aq[Slot(d)].id, a - 1 - d, next_command_id)
      BY <1>0, <1>4 DEF Sent
    <3>2. a - 1 - d \in Nat /\ a - 1 - d < a - t
      BY <1>3, <1>4, SMT
    <3> QED BY <1>6, <1>7, <2>0, <2>1, <3>1, <3>2
  <2>2. CASE i # t
    <3>1. i < t /\ t < i + AcqDepth
      BY <1>2, <1>4, <2>2, SMT
    <3>2. Slot(i) # Slot(t) /\ Slot(i) \in Slots
      BY <3>1, SlotsApart, Turns
    <3> QED BY <1>0, <1>7, <2>0, <3>1, <3>2 DEF Unread
  <2> QED BY <2>1, <2>2
<1>15. InTurn(a, h, t + 1)'
  <2> SUFFICES ASSUME state = "ready" PROVE InTurn(a, h, t + 1)'
    BY <1>1 DEF InTurn
  <2>1. \/ Polls(pc) /\ a = h + 1 /\ (t = h \/ t + 1 = h)
        \/ ~ Polls(pc) /\ a = h /\ t + 1 = h
    <3>1. ~ Polls(pc) => a = h /\ (t = h \/ t + 1 = h)
      BY <1>0 DEF InTurn
    <3>2. Polls(pc) => a = h + 1 /\ (t = h \/ t = h + 1 \/ t + 1 = h)
      BY <1>0 DEF InTurn
    <3>3. t # a
      BY <1>4, SMT
    <3> QED BY <3>1, <3>2, <3>3
  <2>2. \A i \in Nat : t + 1 <= i /\ i < (t + 1) + AcqDepth => acq'[Slot(i)].phase # Ph(i)
    BY <1>0, <1>12 DEF InTurn
  <2>3. Polls(pc') = Polls(pc)
    BY <1>1
  <2>4. t = h => t + 1 = h + 1
    OBVIOUS
  <2> QED BY <1>0, <1>1, <2>1, <2>2, <2>3, <2>4 DEF InTurn
<1> QED BY <1>8, <1>9, <1>10, <1>11, <1>13, <1>14, <1>15 DEF RingAt

\* With no command timed out there is room for every core.
LEMMA ReadyRoom ==
  ASSUME RoomForAll, NEW a \in Nat, NEW h \in Nat, NEW t \in Nat, NEW at,
         a = IF Polls(at) THEN h + 1 ELSE h,
         t = h \/ (Polls(at) /\ t = h + 1) \/ t + 1 = h
  PROVE  /\ (a - t) + Wait(at) <= Cardinality(Cpus) + 1
         /\ (a - h) + Wait(at) <= Cardinality(Cpus)
<1>1. /\ Wait(at) \in Nat /\ Wait(at) <= Cardinality(Cpus) /\ Cardinality(Cpus) \in Nat
      /\ Polls(at) => Wait(at) + 1 <= Cardinality(Cpus)
  BY WaitBound, Sizes
<1>2. CASE Polls(at)
  <2>1. a = h + 1 /\ Wait(at) + 1 <= Cardinality(Cpus)
    BY <1>1, <1>2
  <2> QED BY <1>1, <2>1, SMT
<1>3. CASE ~ Polls(at)
  <2>1. a = h /\ (t = h \/ t + 1 = h)
    BY <1>3
  <2> QED BY <1>1, <2>1, SMT
<1> QED BY <1>2, <1>3

\* A step beside the rings: at most the device drops commands, no core begins
\* to poll, and none comes to the lock unless the adapter is ready.
LEMMA AsideRings ==
  ASSUME RoomForAll, LockInv, NEW a \in Nat, NEW h \in Nat, NEW t \in Nat, NEW d \in Nat,
         RingAt(a, h, t, d), NEW drop \in Nat, d <= drop, drop <= a,
         dev_aq_head' = drop % IdxMod,
         UNCHANGED <<aqVars, acqVars, acq, aq_db, dev_acq_tail, dev_acq_phase, serial>>,
         \A c \in Cpus : pc'[c] = "poll" => pc[c] = "poll" /\ cmd'[c] = cmd[c],
         state' = "ready" => state = "ready" /\ (Polls(pc) => Polls(pc')),
         (\A c \in Cpus : pc'[c] = "lock" => pc[c] = "lock") \/ state' = "ready"
  PROVE  RingAt(a, h, t, drop)'
<1>0. /\ Counters(a, h, t, d) /\ Room(a, h, t) /\ Asked(a, h)
      /\ Sent(a, d) /\ Stale(t) /\ Unread(a, h, t) /\ InTurn(a, h, t)
  BY DEF RingAt
<1>1. h <= a /\ t <= d /\ d <= a
  BY <1>0 DEF Counters
<1>2. Counters(a, h, t, drop)'
  <2>1. t <= drop
    BY <1>1, SMT
  <2> QED BY <1>0, <2>1 DEF Counters, aqVars, acqVars
<1>3. Polls(pc') => Polls(pc)
  BY DEF Polls
<1>4. Asked(a, h)'
  <2>1. serial' = serial /\ next_command_id' = next_command_id
    BY DEF aqVars
  <2> QED BY <1>0, <1>3, <2>1 DEF Asked
<1>5. Sent(a, drop)' /\ Stale(t)' /\ Unread(a, h, t)'
  <2>1. \A i \in Nat : drop <= i => d <= i
    BY SMT
  <2> QED BY <1>0, <2>1 DEF Sent, Stale, Unread, Named, aqVars
<1>6. InTurn(a, h, t)'
  <2> SUFFICES ASSUME state' = "ready" PROVE InTurn(a, h, t)'
    BY DEF InTurn
  <2>1. state = "ready" /\ (Polls(pc') <=> Polls(pc)) /\ next_command_id' = next_command_id
    BY <1>3 DEF aqVars
  <2> QED BY <1>0, <2>1 DEF InTurn
<1>7. Room(a, h, t)'
  <2>1. CASE state' = "ready"
    <3>1. /\ a = IF Polls(pc') THEN h + 1 ELSE h
          /\ t = h \/ (Polls(pc') /\ t = h + 1) \/ t + 1 = h
      BY <1>3, <1>6, <2>1 DEF InTurn
    <3> QED BY <3>1, ReadyRoom DEF Room
  <2>2. CASE \A c \in Cpus : pc'[c] = "lock" => pc[c] = "lock"
    <3>1. /\ Wait(pc') <= Wait(pc) /\ Wait(pc') \in Nat /\ Wait(pc) \in Nat
          /\ Cardinality(Cpus) \in Nat
      BY <2>2, WaitStays, WaitBound, Sizes
    <3> QED BY <1>0, <1>1, <3>1, SMT DEF Room
  <2> QED BY <2>1, <2>2
<1> QED BY <1>2, <1>4, <1>5, <1>6, <1>7 DEF RingAt

\* ena_admin_init makes fresh rings.
Fresh ==
  /\ aq_tail = 0 /\ aq_db = 0 /\ acq_head = 0 /\ dev_acq_tail = 0 /\ dev_aq_head = 0
  /\ aq_phase = 1 /\ acq_phase = 1 /\ dev_acq_phase = 1 /\ next_command_id = 1
  /\ acq = [x \in Slots |-> Zeroed] /\ ~ Polls(pc)

LEMMA FreshRings == RoomForAll /\ Fresh => RingAt(0, 0, 0, 0)
<1> SUFFICES ASSUME RoomForAll, Fresh PROVE RingAt(0, 0, 0, 0)
  OBVIOUS
<1> USE DEF Fresh
<1>0. AcqDepth \in Nat \ {0} /\ IdxMod \in Nat \ {0} /\ IdSpace \in Nat /\ 2 < IdSpace
  BY Sizes
<1>1. \A i \in Nat : 0 <= i /\ i < 0 + AcqDepth => Ph(i) = 1
  <2> SUFFICES ASSUME NEW i \in Nat, i < AcqDepth PROVE Ph(i) = 1
    BY <1>0, SMT
  <2>1. i \div AcqDepth = 0
    BY <1>0, SMT
  <2>2. 1 - (0 % 2) = 1
    BY SMT
  <2> QED BY <2>1, <2>2 DEF Ph
<1>2. Ph(0) = 1 /\ 0 % IdxMod = 0
  BY <1>0, <1>1, SMT
<1>3. Counters(0, 0, 0, 0)
  BY <1>2, SMT DEF Counters
<1>4. Room(0, 0, 0)
  <2>1. Wait(pc) \in Nat /\ Wait(pc) <= Cardinality(Cpus) /\ Cardinality(Cpus) \in Nat
    BY WaitBound, Sizes
  <2> QED BY <2>1, SMT DEF Room
<1>5. Asked(0, 0)
  <2>1. 1 \in 1 .. IdSpace - 1
    BY <1>0, SMT
  <2> QED BY <2>1 DEF Asked, Polls
<1>6. Sent(0, 0) /\ Unread(0, 0, 0)
  <2>1. \A i \in Nat : ~ (0 <= i /\ i < 0)
    BY SMT
  <2> QED BY <2>1 DEF Sent, Unread
<1>7. \A i \in Nat : 0 <= i /\ i < 0 + AcqDepth => acq[Slot(i)].phase # Ph(i)
  <2> SUFFICES ASSUME NEW i \in Nat, 0 <= i, i < 0 + AcqDepth
               PROVE  acq[Slot(i)].phase # Ph(i)
    OBVIOUS
  <2>1. acq[Slot(i)] = Zeroed
    BY Turns
  <2>2. Zeroed.phase = 0 /\ 0 # 1
    BY SMT DEF Zeroed
  <2> QED BY <1>1, <2>1, <2>2
<1> QED BY <1>3, <1>4, <1>5, <1>6, <1>7 DEF RingAt, Stale, InTurn

\* Every step keeps the rings.
LEMMA RingsStep ==
  ASSUME RoomForAll, RecTypeOK, LockInv, Rings, [Next]_vars PROVE Rings'
<1>0. pc \in [Cpus -> Pcs] /\ cmd \in [Cpus -> Cmds] /\ 0 \in Nat
  BY SMT DEF LockInv, Rings
<1>1. NoCmd \in Cmds
  BY SMT DEF NoCmd, Cmds
<1>aside. ASSUME UNCHANGED <<queueVars, serial>>, cmd' \in [Cpus -> Cmds],
                 state' = state \/ state' = "error",
                 \A c \in Cpus : pc'[c] = "poll" => pc[c] = "poll" /\ cmd'[c] = cmd[c],
                 state' = "ready" => (Polls(pc) => Polls(pc')),
                 (\A c \in Cpus : pc'[c] = "lock" => pc[c] = "lock") \/ state' = "ready"
          PROVE  Rings'
  <2>1. queues' = queues /\ (Polls(pc') => Polls(pc))
    BY <1>aside DEF queueVars, Polls
  <2>2. state' \in {"ready", "error", "stopped"} /\ (state' = "ready" \/ Polls(pc') => queues')
        /\ (state' = "stopped" => ~ queues')
    BY <1>aside, <2>1 DEF Rings
  <2>3. ASSUME queues PROVE (\E a, h, t, d \in Nat : RingAt(a, h, t, d))'
    <3>0. PICK a \in Nat, h \in Nat, t \in Nat, d \in Nat : RingAt(a, h, t, d)
      BY <2>3 DEF Rings
    <3>1. d <= d /\ d <= a /\ dev_aq_head = d % IdxMod
      BY <3>0, SMT DEF RingAt, Counters
    <3>2. /\ dev_aq_head' = dev_aq_head
          /\ UNCHANGED <<aqVars, acqVars, acq, aq_db, dev_acq_tail, dev_acq_phase, serial>>
      BY <1>aside DEF queueVars, devVars
    <3>3. state' = "ready" => state = "ready" /\ (Polls(pc) => Polls(pc'))
      BY <1>aside
    <3>4. RingAt(a, h, t, d)'
      BY <1>aside, <3>0, <3>1, <3>2, <3>3, AsideRings
    <3> QED BY <3>4
  <2> QED BY <1>aside, <2>1, <2>2, <2>3 DEF Rings, Polls
<1>core. ASSUME NEW c \in Cpus, NEW to, pc' = [pc EXCEPT ![c] = to], to # "poll",
                to = "lock" => state' = "ready",
                UNCHANGED <<queueVars, serial>>,
                cmd' = cmd \/ cmd' = [cmd EXCEPT ![c] = NoCmd],
                state' = state \/ state' = "error",
                pc[c] = "poll" => state' = "error"
         PROVE  Rings'
  <2>1. cmd' \in [Cpus -> Cmds]
    BY <1>0, <1>1, <1>core
  <2>2. \A x \in Cpus : pc'[x] = "poll" => pc[x] = "poll" /\ cmd'[x] = cmd[x]
    BY <1>0, <1>core
  <2>3. state' = "ready" => (Polls(pc) => Polls(pc'))
    BY <1>0, <1>core DEF Polls
  <2>4. (\A x \in Cpus : pc'[x] = "lock" => pc[x] = "lock") \/ state' = "ready"
    BY <1>0, <1>core
  <2> QED BY <1>aside, <1>core, <2>1, <2>2, <2>3, <2>4
<1>return. ASSUME NEW c \in Cpus, NEW from, NEW r, Return(c, from, r), from # "poll",
                  UNCHANGED <<queueVars, serial>>, state' = state
           PROVE  Rings'
  <2> DEFINE to == IF frames[c] = <<>> THEN "idle" ELSE "recNext"
  <2>1. pc' = [pc EXCEPT ![c] = to] /\ pc[c] = from /\ to # "poll" /\ to # "lock"
    BY <1>return DEF Return, Goto
  <2> HIDE DEF to
  <2> QED BY <1>core, <1>return, <2>1 DEF Return
<1>stutter. ASSUME UNCHANGED codeVars PROVE Rings'
  BY <1>0, <1>aside, <1>stutter DEF codeVars
<1>submit. ASSUME NEW c \in Cpus, ExecSubmit(c) PROVE Rings'
  <2>1. PICK a \in Nat, h \in Nat, t \in Nat, d \in Nat : RingAt(a, h, t, d)
    BY <1>submit DEF Rings, ExecSubmit
  <2>2. RingAt(a + 1, h, t, d)' /\ a + 1 \in Nat
    BY <1>0, <1>submit, <2>1, SubmitRings, SMT
  <2>3. cmd' \in [Cpus -> Cmds]
    <3>1. next_command_id \in Nat /\ serial \in Nat
      BY DEF RecTypeOK
    <3>2. [id |-> IF next_command_id = 0 THEN 1 ELSE next_command_id,
           serial |-> serial + 1] \in Cmds
      BY <3>1, SMT DEF Cmds
    <3> QED BY <1>0, <1>submit, <3>2 DEF ExecSubmit
  <2>4. queues' = TRUE /\ state' = state /\ queues
    BY <1>submit DEF ExecSubmit
  <2> QED BY <2>2, <2>3, <2>4 DEF Rings
<1>consume. ASSUME NEW c \in Cpus, Consume(c) PROVE Rings'
  <2>0. Polls(pc) /\ queues
    BY <1>consume DEF Consume, Goto, Polls, Rings
  <2>1. PICK a \in Nat, h \in Nat, t \in Nat, d \in Nat : RingAt(a, h, t, d)
    BY <2>0 DEF Rings
  <2>2. RingAt(a, h + 1, t, d)' /\ h + 1 \in Nat
    BY <1>consume, <2>1, ConsumeRings, SMT
  <2>3. UNCHANGED <<queues, state, cmd>>
    BY <1>consume DEF Consume
  <2> QED BY <1>0, <2>0, <2>2, <2>3 DEF Rings
<1>answer. ASSUME NEW status, DevAnswer(status) PROVE Rings'
  <2>1. PICK a \in Nat, h \in Nat, t \in Nat, d \in Nat : RingAt(a, h, t, d)
    BY <1>answer DEF Rings, DevAnswer
  <2>2. RingAt(a, h, t + 1, d + 1)' /\ t + 1 \in Nat /\ d + 1 \in Nat
    BY <1>answer, <2>1, AnswerRings, SMT
  <2>3. UNCHANGED <<queues, state, cmd, pc>> /\ queues
    BY <1>answer DEF DevAnswer
  <2> QED BY <1>0, <2>2, <2>3 DEF Rings
\* With the lock in the hands of a core that recovers, no core polls.
<1>held. ASSUME NEW c \in Cpus, pc[c] \in {"recReset", "recInit"},
                NEW to, to # "poll", pc' = [pc EXCEPT ![c] = to]
         PROVE  ~ Polls(pc) /\ ~ Polls(pc')
  BY <1>held DEF LockInv, OneCoreInside, Inside, Polls
<1>reset. ASSUME NEW c \in Cpus, RecReset(c) PROVE Rings'
  <2>1. ~ Polls(pc)'
    BY <1>reset, <1>held DEF RecReset, Goto, Polls
  <2>2. queues' = FALSE /\ state' = "stopped" /\ cmd' = cmd
    BY <1>reset DEF RecReset
  <2> QED BY <1>0, <2>1, <2>2 DEF Rings
<1>fails. ASSUME NEW c \in Cpus, RecResetFails(c) PROVE Rings'
  <2> DEFINE to == IF frames[c] = <<>> THEN "idle" ELSE "recNext"
  <2>1. /\ pc[c] = "recReset" /\ pc' = [pc EXCEPT ![c] = to] /\ to # "poll" /\ to # "lock"
        /\ cmd' = [cmd EXCEPT ![c] = NoCmd] /\ state' \in {state, "error"}
        /\ UNCHANGED <<queues, aqVars, acqVars, acq, aq_db, serial>>
        /\ dev_aq_head' = aq_db /\ UNCHANGED <<dev_acq_tail, dev_acq_phase>>
    BY <1>fails DEF RecResetFails, RecAbandon, Return, Goto, DevDrops
  <2> HIDE DEF to
  <2>2. ~ Polls(pc) /\ ~ Polls(pc')
    BY <1>held, <2>1
  <2>3. cmd' \in [Cpus -> Cmds]
    BY <1>0, <1>1, <2>1
  <2>4. ASSUME queues PROVE (\E a, h, t, d \in Nat : RingAt(a, h, t, d))'
    <3>1. PICK a \in Nat, h \in Nat, t \in Nat, d \in Nat : RingAt(a, h, t, d)
      BY <2>4 DEF Rings
    <3>2. d <= a /\ a <= a /\ aq_db = a % IdxMod
      BY <3>1, SMT DEF RingAt, Counters
    <3>3. \A x \in Cpus : pc'[x] = "lock" => pc[x] = "lock"
      BY <1>0, <2>1
    <3>4. \A x \in Cpus : pc'[x] = "poll" => FALSE
      BY <2>2 DEF Polls
    <3>5. RingAt(a, h, t, a)'
      BY <2>1, <2>2, <3>1, <3>2, <3>3, <3>4, AsideRings
    <3> QED BY <3>5
  <2>5. ~ Polls(pc)'
    BY <2>2 DEF Polls
  <2> QED BY <2>1, <2>3, <2>4, <2>5 DEF Rings
<1>init. ASSUME NEW c \in Cpus, RecInit(c) PROVE Rings'
  <2>1. ~ Polls(pc)'
    BY <1>init, <1>held DEF RecInit, Goto, Polls
  <2>2. Fresh'
    BY <1>init, <2>1 DEF RecInit, Fresh
  <2>3. RoomForAll'
    BY DEF RoomForAll
  <2>4. RingAt(0, 0, 0, 0)'
    BY <2>2, <2>3, FreshRings, PTL
  <2>5. queues' = TRUE /\ state' = "ready" /\ cmd' = cmd
    BY <1>init DEF RecInit
  <2> QED BY <1>0, <2>1, <2>4, <2>5 DEF Rings
<1>2. ASSUME NEW c \in Cpus, CoreStep(c) PROVE Rings'
  <2>1. CASE ExecRefused(c)
    BY <1>return, <2>1 DEF ExecRefused
  <2>2. CASE ExecEnter(c)
    <3>1. state' = "ready"
      BY <2>2 DEF ExecEnter, Rings
    <3> QED BY <1>core, <2>2, <3>1 DEF ExecEnter, Goto
  <2>3. CASE ExecFault(c)
    BY <1>core, <2>3 DEF ExecFault, Goto
  <2>4. CASE Spin(c)
    BY <1>stutter, <2>4 DEF Spin, vars
  <2>5. CASE Timeout(c)
    BY <1>core, <2>5 DEF Timeout, Goto
  <2>6. CASE Drop(c)
    <3>1. CASE ret[c] = "ETIMEDOUT"
      BY <1>core, <2>6, <3>1 DEF Drop, Goto
    <3>2. CASE ret[c] # "ETIMEDOUT"
      BY <1>return, <2>6, <3>2 DEF Drop
    <3> QED BY <3>1, <3>2
  <2>7. CASE RecSkip(c)
    BY <1>return, <2>7 DEF RecSkip
  <2>8. CASE RecEnter(c)
    BY <1>core, <2>8 DEF RecEnter, Goto
  <2>9. CASE RecMark(c)
    BY <1>core, <2>9 DEF RecMark, Goto
  <2>10. CASE RecLock(c)
    BY <1>core, <2>10 DEF RecLock, Goto
  <2>11. CASE RecInitFails(c)
    BY <1>return, <2>11 DEF RecInitFails, RecAbandon, queueVars
  <2>12. CASE RecCommand(c)
    BY <1>core, <2>12 DEF RecCommand, Goto
  <2>13. CASE RecDone(c)
    BY <1>core, <2>13 DEF RecDone, Goto
  <2> QED BY <1>2, <1>submit, <1>consume, <1>reset, <1>fails, <1>init, <2>1, <2>2, <2>3,
             <2>4, <2>5, <2>6, <2>7, <2>8, <2>9, <2>10, <2>11, <2>12, <2>13, ZenonT(30)
          DEF CoreStep
<1>3. ASSUME NEW c \in Cpus, Call(c) \/ Fatal(c) PROVE Rings'
  BY <1>core, <1>3 DEF Call, Fatal, Goto
<1>4. CASE Finished
  BY <1>stutter, <1>4 DEF Finished, vars
<1> QED BY <1>stutter, <1>answer, <1>2, <1>3, <1>4 DEF Next, vars

RingsInv == RecTypeOK /\ LockInv /\ Rings

LEMMA RingsInvariant == RoomForAll => (Spec => []RingsInv)
<1> SUFFICES ASSUME RoomForAll PROVE Spec => []RingsInv
  OBVIOUS
<1>1. Init => RingsInv
  <2> SUFFICES ASSUME Init PROVE RingsInv
    OBVIOUS
  <2>1. RecTypeOK
    BY SMT DEF Init, RecTypeOK, Pcs, Rets, Zeroed, Entries
  <2>2. ~ Polls(pc) /\ cmd \in [Cpus -> Cmds] /\ 0 \in Nat
    BY SMT DEF Init, Polls, NoCmd, Cmds
  <2>3. Fresh
    BY <2>2 DEF Init, Fresh
  <2> QED BY <2>1, <2>2, <2>3, LockInit, FreshRings DEF RingsInv, Rings, Init
<1>2. RingsInv /\ [Next]_vars => RingsInv'
  BY RecTypeStep, LockStep, RingsStep DEF RingsInv
<1> QED BY <1>1, <1>2, PTL DEF Spec

\* The admin queue never runs full although nothing checks for room: whatever
\* times out, in any order of the cores and with any number of recoveries,
\* every entry the doorbell has published and the device has not fetched is
\* the one that was written, with the phase of its pass
\* (ena_admin_exec_locked).  It takes a ring with more entries than cores.
THEOREM AdminQueueHolds == RoomForAll => (Spec => []PublishedPhase)
<1> SUFFICES ASSUME RoomForAll PROVE Spec => []PublishedPhase
  OBVIOUS
<1>1. RingsInv => PublishedPhase
  <2> DEFINE waiting == (aq_db + IdxMod - dev_aq_head) % IdxMod
  <2> SUFFICES ASSUME RingsInv, queues
               PROVE  /\ waiting <= AcqDepth
                      /\ \A k \in 0 .. waiting - 1 :
                           LET i == (dev_aq_head + k) % IdxMod IN
                           /\ aq[Slot(i)].phase = 1 - ((i \div AcqDepth) % 2)
                           /\ aq[Slot(i)].serial + (waiting - 1 - k) = serial
    BY DEF PublishedPhase
  <2>1. PICK a \in Nat, h \in Nat, t \in Nat, d \in Nat : RingAt(a, h, t, d)
    BY DEF RingsInv, Rings
  <2>2. /\ AcqDepth \in Nat /\ IdxMod \in Nat \ {0} /\ AcqDepth < IdxMod
        /\ Cardinality(Cpus) \in Nat /\ Cardinality(Cpus) < AcqDepth /\ Wait(pc) \in Nat
    BY Sizes, WaitBound DEF RoomForAll
  <2>3. t <= d /\ d <= a /\ aq_db = a % IdxMod /\ dev_aq_head = d % IdxMod
    BY <2>1 DEF RingAt, Counters
  <2>4. a - d <= AcqDepth /\ a < d + IdxMod
    BY <2>1, <2>2, <2>3, SMT DEF RingAt, Room
  <2>5. waiting = a - d
    BY <2>2, <2>3, <2>4, ModMinus, ZenonT(30)
  <2> HIDE DEF waiting
  <2>6. ASSUME NEW k \in 0 .. waiting - 1
        PROVE  LET i == (dev_aq_head + k) % IdxMod IN
               /\ aq[Slot(i)].phase = 1 - ((i \div AcqDepth) % 2)
               /\ aq[Slot(i)].serial + (waiting - 1 - k) = serial
    <3>1. /\ k \in Nat /\ d + k \in Nat /\ d <= d + k /\ d + k < a
          /\ a - 1 - (d + k) = waiting - 1 - k
      BY <2>3, <2>5, SMT
    <3>2. (dev_aq_head + k) % IdxMod = (d + k) % IdxMod
      BY <2>2, <2>3, <3>1, ModAdd
    <3>3. Slot((d + k) % IdxMod) = Slot(d + k) /\ Ph((d + k) % IdxMod) = Ph(d + k)
      BY <3>1, Turns
    <3>4. /\ aq[Slot(d + k)].phase = Ph(d + k)
          /\ aq[Slot(d + k)].serial + (a - 1 - (d + k)) = serial
      BY <2>1, <3>1 DEF RingAt, Sent
    <3> QED BY <3>1, <3>2, <3>3, <3>4 DEF Ph
  <2> QED BY <2>4, <2>5, <2>6
<1> QED BY <1>1, RingsInvariant, PTL

\* A command returns the answer to itself or an error: however many commands
\* timed out before it and however late the device answers them, the id check
\* of ena_admin_exec_locked never lets an old answer pass, because the ids in
\* the rings are all different.
THEOREM AnswersAreOwn == RoomForAll => (Spec => OwnAnswer)
<1> SUFFICES ASSUME RoomForAll PROVE Spec => OwnAnswer
  OBVIOUS
<1> DEFINE Own == \A c \in Cpus :
                    pc[c] = "poll" /\ ret'[c] \in {"ok", "status"} /\ ret'[c] # ret[c]
                      => AcqEntry.serial = cmd[c].serial
<1>1. RingsInv /\ [Next]_vars => [Own]_vars
  <2> SUFFICES ASSUME RingsInv, Next, NEW c \in Cpus, pc[c] = "poll",
                      ret'[c] \in {"ok", "status"}, ret'[c] # ret[c]
               PROVE  AcqEntry.serial = cmd[c].serial
    OBVIOUS
  <2>1. ret \in [Cpus -> Rets] /\ pc \in [Cpus -> Pcs]
    BY DEF RingsInv, RecTypeOK
  <2>2. Consume(c)
    <3>1. ASSUME NEW x \in Cpus, x # c, NEW r, ret' = [ret EXCEPT ![x] = r] PROVE FALSE
      BY <2>1, <3>1
    <3>2. ret' # ret
      OBVIOUS
    <3>3. ASSUME NEW x \in Cpus, CoreStep(x) \/ Call(x) \/ Fatal(x), x # c PROVE FALSE
      BY <3>1, <3>2, <3>3 DEF CoreStep, ExecRefused, ExecEnter, ExecSubmit, ExecFault, Spin,
         Consume, Timeout, Drop, RecSkip, RecEnter, RecMark, RecLock, RecReset, RecResetFails,
         RecInitFails, RecAbandon, RecInit, RecCommand, RecDone, Return, Call, Fatal, vars,
         codeVars
    <3>4. CoreStep(c) \/ Call(c) \/ Fatal(c)
      BY <3>2, <3>3 DEF Next, DevAnswer, Finished, vars, codeVars
    <3>5. ~ Timeout(c)
      BY <2>1 DEF Timeout
    <3> QED BY <3>2, <3>4, <3>5 DEF CoreStep, ExecRefused, ExecEnter, ExecSubmit, ExecFault,
         Spin, Drop, RecSkip, RecEnter, RecMark, RecLock, RecReset, RecResetFails,
         RecInitFails, RecAbandon, RecInit, RecCommand, RecDone, Return, Goto, Call, Fatal,
         vars, codeVars
  <2>3. AcqReady /\ AcqEntry.id = cmd[c].id
    BY <2>1, <2>2 DEF Consume, Accepts
  <2>4. PICK a \in Nat, h \in Nat, t \in Nat, d \in Nat : RingAt(a, h, t, d)
    BY DEF RingsInv, Rings, Polls
  <2>5. /\ AcqEntry = acq[Slot(h)] /\ acq_phase = Ph(h) /\ h <= a /\ t <= d /\ d <= a
        /\ h < a
    BY <2>4, Turns DEF RingAt, Counters, Asked, Polls, AcqEntry
  <2>6. /\ cmd[c].serial = serial /\ Named(cmd[c].id, 0, next_command_id)
        /\ next_command_id \in Nat /\ serial \in Nat
    BY <2>4 DEF RingAt, Asked, RingsInv, RecTypeOK
  <2>7. /\ AcqDepth \in Nat /\ IdSpace \in Nat /\ Cardinality(Cpus) \in Nat
        /\ Cardinality(Cpus) < AcqDepth /\ AcqDepth < IdSpace /\ Wait(pc) \in Nat
    BY Sizes, WaitBound DEF RoomForAll
  <2>8. acq[Slot(h)].id # 0
    BY <2>3, <2>5, <2>6, <2>7, SMT DEF Named
  <2>9. h < t
    <3> SUFFICES ASSUME t <= h PROVE FALSE
      BY SMT
    <3>1. h < t + AcqDepth
      BY <2>4, <2>5, <2>7, SMT DEF RingAt, Room
    <3> QED BY <2>3, <2>4, <2>5, <2>8, <3>1 DEF RingAt, Stale, AcqReady
  <2>10. PICK age \in Nat : /\ acq[Slot(h)].serial + age = serial /\ age < a - h
                            /\ Named(acq[Slot(h)].id, age, next_command_id)
    <3>1. h <= h
      BY SMT
    <3> QED BY <2>4, <2>8, <2>9, <3>1 DEF RingAt, Unread
  <2>11. age + 1 < IdSpace
    BY <2>4, <2>5, <2>7, <2>10, SMT DEF RingAt, Room
  <2>12. age = 0
    BY <2>3, <2>5, <2>6, <2>10, <2>11, NamedOnce
  <2>13. acq[Slot(h)].serial \in Nat
    BY Turns DEF RingsInv, RecTypeOK, Entries
  <2>14. acq[Slot(h)].serial = serial
    BY <2>10, <2>12, <2>13, SMT
  <2> QED BY <2>5, <2>6, <2>14
<1> QED BY <1>1, RingsInvariant, PTL DEF Spec, OwnAnswer
=============================================================================
