---------------------------- MODULE EnaFeatures ----------------------------
(***************************************************************************)
(* The settings the driver keeps on the device: host info, MTU, event      *)
(* groups and RSS (ena_init.c, ena_rss.c, and the probe in ena_pci.c).     *)
(* The bring-up sends them one admin command at a time, the device start   *)
(* adds RSS, a reset clears them, and the recovery re-applies them.  A     *)
(* command may be refused or time out; a timeout runs the recovery inside  *)
(* the command that met it.                                                *)
(*                                                                         *)
(* A call is the list of the commands it still has to send.  What differs  *)
(* between the callers is which later commands a failed one takes with it  *)
(* (Dropped), and whether the failure is reported (Reported).              *)
(***************************************************************************)
EXTENDS Naturals, Sequences, FiniteSets, SequencesExt

CONSTANTS
  None,
  Mtu,        \* the MTU the probe asks for
  Bar2,       \* the device has the LLQ BAR, so the bring-up asks for LLQ
  MultiRx,    \* more than one receive queue, so RSS is configured
  Faults,     \* "reject", "timeout", "reset_fails", "nomem", "fatal"
  MaxFaults,
  MaxCalls    \* bound on statistics queries, starts and stops

ASSUME FeaturesAssumption ==
  /\ Mtu \in Nat \ {0} /\ Bar2 \in BOOLEAN /\ MultiRx \in BOOLEAN
  /\ Faults \subseteq {"reject", "timeout", "reset_fails", "nomem", "fatal"}
  /\ {MaxFaults, MaxCalls} \subseteq Nat

VARIABLES
  state,          \* adapter->state
  drv,            \* what the driver has negotiated
  dev,            \* what the device is set to
  held, made,     \* DMA buffers the driver holds; how many it ever made
  netdev,         \* probing, probed, configured (with rings), running, removed
  recover_active,
  stk,            \* the calls in progress, innermost first
  rec,            \* how the last recovery ended
  bare,           \* the last reset met an adapter without rings
  failed,         \* commands that failed since the last reset
  faults, calls

vars == <<state, drv, dev, held, made, netdev, recover_active, stk, rec, bare,
          failed, faults, calls>>

If(b, seq) == IF b THEN seq ELSE <<>>

RssParts == <<"rss_key", "rss_ctrl", "rss_table">>
\* ena_rss_configure; rss_alloc stands for the tables of ena_rss_init, which
\* are made once, and rss_read for the readback.
Rss      == <<"rss_query", "rss_alloc">> \o RssParts \o <<"rss_read">>
Aenq     == <<"aenq_get", "aenq_set">>

\* ena_init_run
BringUp == <<"attrs", "limits", "host">> \o Aenq \o If(Bar2, <<"llq">>)
           \o <<"mtu", "mac">>

\* ena_init_reapply_device_features
Reapply == <<"attrs">> \o If(drv.mtu # 0, <<"mtu">>) \o If(drv.groups, Aenq)
           \o If(MultiRx, Rss)

\* ena_adapter_reset_and_recover after the reset: re-create the queues and
\* re-apply the settings, or only the event groups when there are no rings.
Rebuild == IF netdev \in {"configured", "running"} THEN <<"create">> \o Reapply
           ELSE If(drv.groups, Aenq)

Call(f, todo) == [f |-> f, todo |-> todo, err |-> FALSE]

Init ==
  /\ state = "admin_ready"
  /\ drv = [admin |-> 1, host |-> None, table |-> None, mtu |-> 0,
            groups |-> FALSE]
  /\ dev = [host |-> None, mtu |-> 0, groups |-> FALSE, rss |-> {}, admin |-> 1]
  /\ held = {1} /\ made = 1
  /\ netdev = "probing" /\ recover_active = FALSE
  /\ stk = <<Call("bringup", BringUp)>>
  /\ rec = "none" /\ bare = FALSE /\ failed = {} /\ faults = 0 /\ calls = 0

Fault(k) == k \in Faults /\ faults < MaxFaults /\ faults' = faults + 1

-----------------------------------------------------------------------------
(* One admin command *)

Top == Head(stk)
Cmd == Head(Top.todo)
At(f) == stk # <<>> /\ Top.f = f
Over(f) == At(f) /\ Top.todo = <<>>
\* The tables exist: ena_rss_init has nothing to do.
TablesMade == Cmd = "rss_query" /\ drv.table # None
Sending == /\ stk # <<>> /\ Top.todo # <<>>
           /\ Cmd # "rss_alloc" /\ ~ TablesMade
Alive == state \notin {"error", "stopped"}

\* What a command does to the device (external) and to the adapter.
DevAfter(cmd) ==
  CASE cmd = "host"     -> [dev EXCEPT !.host = made + 1]
    [] cmd = "mtu"      -> [dev EXCEPT !.mtu = Mtu]
    [] cmd = "aenq_set" -> [dev EXCEPT !.groups = TRUE]
    [] cmd \in Range(RssParts) -> [dev EXCEPT !.rss = @ \cup {cmd}]
    [] OTHER            -> dev
DrvAfter(cmd) ==
  CASE cmd = "host"     -> [drv EXCEPT !.host = made + 1]
    [] cmd = "mtu"      -> [drv EXCEPT !.mtu = Mtu]
    [] cmd = "aenq_set" -> [drv EXCEPT !.groups = TRUE]
    [] OTHER            -> drv

\* The bring-up ends at a failed command; the event groups and LLQ are best
\* effort there and everywhere.  No queue, no start and no re-apply.
Aborts(f, cmd) ==
  \/ f = "bringup" /\ cmd \in {"attrs", "limits", "host", "mtu", "mac"}
  \/ f \in {"start", "recover"} /\ cmd = "create"

\* Mutant: in the recovery, too, the first failure ends the sequence.
AfterFailureNothing(f, cmd, rest) == {<<>>}

\* The commands that may be left after cmd has failed.  The recovery goes on
\* as long as it has re-created one queue.
AfterFailure(f, cmd, rest) ==
  LET with == CASE cmd = "aenq_get" -> {"aenq_set"}
                [] cmd \in Range(Rss) \ {"rss_query"} -> Range(Rss)
                [] OTHER            -> {}
      others == SelectSeq(rest, LAMBDA x : x \notin with)
  IN IF ~ Aborts(f, cmd) THEN {others}
     ELSE IF f = "recover" THEN {<<>>, rest} ELSE {<<>>}

\* Mutant: the result of the last command is returned.
ReportedLast(fr, cmd, ok) == ~ ok
\* ena_init_config_aenq, ena_init_config_llq, the query and the readback of
\* the RSS table return 0 in any case, and the start goes on without RSS; of
\* the other errors the first one is kept.
Reported(fr, cmd, ok) ==
  \/ fr.err
  \/ /\ ~ ok
     /\ cmd \notin {"aenq_get", "aenq_set", "llq", "rss_query", "rss_read"}
     /\ fr.f = "start" => cmd = "create"

Succeeded == [Top EXCEPT !.todo = Tail(@), !.err = Reported(Top, Cmd, TRUE)]
Failed(left) == [Top EXCEPT !.todo = left, !.err = Reported(Top, Cmd, FALSE)]
Left == AfterFailure(Top.f, Cmd, Tail(Top.todo))
\* What is recorded of a failure: the command, or that no queue was created.
Mark(left) == IF Cmd = "create" /\ left = <<>> THEN {"no_queue"} ELSE {Cmd}

CmdDone ==
  /\ Sending /\ Alive
  /\ dev' = DevAfter(Cmd) /\ drv' = DrvAfter(Cmd)
  /\ IF Cmd = "host" THEN held' = held \cup {made + 1} /\ made' = made + 1
                     ELSE UNCHANGED <<held, made>>
  /\ stk' = <<Succeeded>> \o Tail(stk)
  /\ failed' = failed \ {Cmd}
  /\ UNCHANGED <<state, netdev, recover_active, rec, bare, faults, calls>>

\* The device refuses, the adapter is in error or has no admin queues, or
\* the host info buffer cannot be allocated.
CmdFails ==
  /\ Sending
  /\ \/ ~ Alive /\ UNCHANGED faults
     \/ Alive /\ Fault("reject")
     \/ Cmd = "host" /\ Fault("nomem")
  /\ \E left \in Left :
       stk' = <<Failed(left)>> \o Tail(stk) /\ failed' = failed \cup Mark(left)
  /\ UNCHANGED <<state, drv, dev, held, made, netdev, recover_active, rec, bare,
                 calls>>

\* No answer in time; the device may have done what it was told.  The
\* recovery runs before the caller goes on.
CmdTimesOut ==
  /\ Sending /\ Alive /\ Fault("timeout")
  /\ state' = "error"
  /\ dev' \in {dev, DevAfter(Cmd)}
  /\ made' = IF Cmd = "host" THEN made + 1 ELSE made
  /\ \E left \in Left :
       /\ stk' = <<Call("reset", <<>>), Failed(left)>> \o Tail(stk)
       /\ failed' = failed \cup Mark(left)
  /\ UNCHANGED <<drv, held, netdev, recover_active, rec, bare, calls>>

\* The rest of ena_rss_init: nothing, or the tables, after the query has
\* returned.
RssInit ==
  /\ stk # <<>> /\ Top.todo # <<>>
  /\ \/ /\ TablesMade
        /\ stk' = <<[Top EXCEPT !.todo = Tail(Tail(@))]>> \o Tail(stk)
        /\ UNCHANGED <<drv, held, made, failed, faults>>
     \/ /\ Cmd = "rss_alloc"
        /\ held' = held \cup {made + 1} /\ made' = made + 1
        /\ drv' = [drv EXCEPT !.table = made + 1]
        /\ stk' = <<Succeeded>> \o Tail(stk)
        /\ UNCHANGED <<failed, faults>>
     \/ /\ Cmd = "rss_alloc" /\ Fault("nomem")
        /\ \E left \in Left : stk' = <<Failed(left)>> \o Tail(stk)
        /\ failed' = failed \cup {Cmd}
        /\ UNCHANGED <<drv, held, made>>
  /\ UNCHANGED <<state, dev, netdev, recover_active, rec, bare, calls>>

-----------------------------------------------------------------------------
(* ena_adapter_reset_and_recover *)

Enter(fr) == stk' = <<fr>> \o Tail(stk)
Leave     == stk' = Tail(stk)

Already == recover_active

RecoverSkip ==
  /\ At("reset") /\ Already
  /\ Leave
  /\ UNCHANGED <<state, drv, dev, held, made, netdev, recover_active, rec, bare,
                 failed, faults, calls>>

\* Mutant: the device is not reset.
ResetNot(d) == d
\* ena_device_reset: every setting and queue is gone.
Reset(d) == [host |-> None, mtu |-> 0, groups |-> FALSE, rss |-> {},
             admin |-> None]

\* ena_admin_init frees the admin queues and, through ena_admin_fini, the
\* host info buffer.
Recover ==
  /\ At("reset") /\ ~ Already
  /\ held' = (held \ {drv.admin, drv.host}) \cup {made + 1}
  /\ made' = made + 1
  /\ dev' = [Reset(dev) EXCEPT !.admin = made + 1]
  /\ drv' = [drv EXCEPT !.admin = made + 1, !.host = None]
  /\ state' = "admin_ready" /\ recover_active' = TRUE
  /\ bare' = (netdev \in {"probing", "probed"})
  /\ Enter(Call("recover", Rebuild))
  /\ failed' = {} /\ rec' = "running"
  /\ UNCHANGED <<netdev, faults, calls>>

\* The reset does not finish in time, or the admin queues cannot be
\* allocated.
RecoverFails ==
  /\ At("reset") /\ ~ Already
  /\ \/ /\ Fault("reset_fails") /\ state' = "error"
        /\ dev' \in {dev, Reset(dev)}
        /\ UNCHANGED <<drv, held>>
     \/ /\ Fault("nomem") /\ state' = "stopped"
        /\ dev' = Reset(dev) /\ held' = held \ {drv.admin, drv.host}
        /\ drv' = [drv EXCEPT !.admin = None, !.host = None]
  /\ Leave
  /\ rec' = "failed"
  /\ UNCHANGED <<made, netdev, recover_active, bare, failed, calls>>

RecoverDone ==
  /\ Over("recover")
  /\ recover_active' = FALSE
  /\ rec' = IF Top.err THEN "failed" ELSE "ok"
  /\ Leave
  /\ UNCHANGED <<state, drv, dev, held, made, netdev, bare, failed, faults, calls>>

\* A FATAL_ERROR event, polled while the device runs.
FatalEvent ==
  /\ stk = <<>> /\ netdev = "running"
  /\ dev.groups /\ dev.admin # None /\ dev.admin = drv.admin
  /\ Fault("fatal")
  /\ stk' = <<Call("reset", <<>>)>>
  /\ UNCHANGED <<state, drv, dev, held, made, netdev, recover_active, rec, bare,
                 failed, calls>>

-----------------------------------------------------------------------------
(* Probe, start, stop, teardown *)

\* ena_rss_fini and ena_admin_fini
Fini ==
  /\ held' = held \ {drv.admin, drv.host, drv.table}
  /\ state' = "stopped" /\ netdev' = "removed"
  /\ drv' = [drv EXCEPT !.admin = None, !.host = None, !.table = None]

BroughtUp ==
  /\ Over("bringup") /\ ~ Top.err
  /\ Leave
  /\ state' = "configured" /\ netdev' = "probed"
  /\ UNCHANGED <<drv, dev, held, made, recover_active, rec, bare, failed, faults,
                 calls>>

\* A failed bring-up, or a network device that cannot be registered.
ProbeFails ==
  /\ Over("bringup")
  /\ \/ Top.err /\ UNCHANGED faults
     \/ ~ Top.err /\ Fault("nomem")
  /\ Leave /\ Fini
  /\ UNCHANGED <<dev, made, recover_active, rec, bare, failed, calls>>

\* An operation of the network device begins when no other is in progress.
Begin(from, f, todo) ==
  /\ stk = <<>> /\ netdev \in from
  /\ stk' = <<Call(f, todo)>>
  /\ UNCHANGED <<state, drv, dev, held, made, netdev, recover_active, rec, bare,
                 failed, faults>>
Bounded == calls < MaxCalls /\ calls' = calls + 1

Start    == Bounded /\ Begin({"configured"}, "start", <<"create">> \o If(MultiRx, Rss))
GetStats == Bounded /\ Begin({"probed", "configured", "running"}, "stats", <<"stats">>)
Stop     == Bounded /\ Begin({"running"}, "stop", <<"destroy">>)
Teardown == /\ Begin({"probed", "configured", "running"}, "teardown",
                     If(netdev # "probed", <<"destroy">>))
            /\ UNCHANGED calls

\* The rings are allocated: from now on the adapter has IO rings.
Configure ==
  /\ stk = <<>> /\ netdev = "probed" /\ netdev' = "configured"
  /\ UNCHANGED <<state, drv, dev, held, made, recover_active, stk, rec, bare,
                 failed, faults, calls>>

CallDone ==
  /\ \/ Over("start") /\ netdev' = IF Top.err THEN netdev ELSE "running"
     \/ Over("stats") /\ UNCHANGED netdev
     \/ Over("stop") /\ netdev' = "configured"
  /\ Leave
  /\ UNCHANGED <<state, drv, dev, held, made, recover_active, rec, bare, failed,
                 faults, calls>>

TornDown ==
  /\ Over("teardown")
  /\ Leave /\ Fini
  /\ UNCHANGED <<dev, made, recover_active, rec, bare, failed, faults, calls>>

Next == \/ CmdDone \/ CmdFails \/ CmdTimesOut \/ RssInit
        \/ RecoverSkip \/ Recover \/ RecoverFails \/ RecoverDone \/ FatalEvent
        \/ BroughtUp \/ ProbeFails \/ Configure \/ Start \/ GetStats \/ CallDone
        \/ Stop \/ Teardown \/ TornDown

Spec == Init /\ [][Next]_vars

-----------------------------------------------------------------------------
(* Properties *)

\* No call is in progress on a device that has not been removed.
Quiet == stk = <<>> /\ netdev # "removed"

\* While the adapter answers commands, the device only has the addresses of
\* admin queues and of a host info buffer that the driver still holds: the
\* recovery frees them after the reset, and a timed-out command that left an
\* address behind is followed by a reset (ena_admin_init,
\* ena_init_set_host_info).
AddressesHeld == Alive => {dev.host, dev.admin} \subseteq held \cup {None}

\* A setting is missing on a running device only if one of its own commands
\* failed: each step of the re-apply stands on its own
\* (ena_init_reapply_device_features).
StepsIndependent ==
  Quiet /\ netdev = "running" /\ Alive /\ "no_queue" \notin failed =>
    /\ drv.mtu # dev.mtu => bare \/ "mtu" \in failed
    /\ drv.groups /\ ~ dev.groups => Range(Aenq) \cap failed # {}
    /\ MultiRx /\ dev.rss # Range(RssParts) => Range(Rss) \cap failed # {}

\* A recovery of an adapter with rings that reports success has restored the
\* MTU and the RSS settings: no failed command is forgotten when a later one
\* succeeds (the first error is kept).
LossReported ==
  Quiet /\ rec = "ok" /\ ~ bare =>
    dev.mtu = drv.mtu /\ (MultiRx => dev.rss = Range(RssParts))

=============================================================================
