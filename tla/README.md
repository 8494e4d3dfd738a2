# TLA+ models of the ENA driver

The driver is a native AWS ENA network driver for Unikraft. This directory keeps
TLA+ models of it and of its multi-core HTTP sample, the TLC configurations that
check them on small instances, and TLAPS proofs that hold for every instance.
`PROJECT.json` says which lines every definition models, which hazard of the code
each property is about, and which run refutes a line of the code's own comments.

To check a run: `tlc -config tx_reset.cfg MCTx` (the module of every run is in
`PROJECT.json`). To check the proofs: `tlapm EnaTxProofs.tla`, and likewise
`EnaRingProofs`, `EnaRxProofs`, `EnaRxQueues`, `EnaAdminProofs`, `EnaAenqProofs`,
`McCoresProofs` and `McWorkerProofs`.

## The system

| Part | Source | Modules |
|---|---|---|
| IO ring: request-id pool, queue indices, phases, ring lock | `src/ena_datapath.c`, `include/ena_datapath.h` | `EnaRing`, `EnaRingProofs` |
| Transmit path, deferred releases, bounce pool | `src/ena_tx.c`, `src/ena_netdev.c` | `EnaTx`, `NetbufCustody`, `EnaTxProofs` |
| Receive path, refill, bounce slots, frame reassembly | `src/ena_rx.c`, `src/ena_netdev.c` | `EnaRx`, `EnaRxProofs`, `EnaRxQueues` |
| Admin queue: commands, timeouts, late answers | `src/ena_admin.c` | `EnaAdmin`, `EnaAdminProofs` |
| Reset and recovery | `src/ena_admin.c` | all of `EnaTx`, `EnaRx`, `EnaAdmin`, `EnaQueues`, `EnaAenq`, `EnaFeatures`, each from its own side |
| Asynchronous event queue | `src/ena_admin.c` | `EnaAenq`, `EnaAenqProofs` |
| Device queues: create, destroy, configure, start, stop, teardown | `src/ena_datapath.c`, `src/ena_netdev.c` | `EnaQueues` |
| Device settings: bring-up, re-apply, RSS commands | `src/ena_init.c`, `src/ena_rss.c`, `src/ena_pci.c` | `EnaFeatures` |
| Derived limits: queue counts, depths, RSS table | `src/ena_init.c`, `src/ena_netdev.c`, `src/ena_rss.c` | `EnaLimits` |
| Interrupts: vector setup, masking, handler | `src/ena_intr.c`, `src/ena_plat.c` | `EnaIntr` |
| Sample worker: connections, polling, idle sleep | `samples/httpreply-mc/main.c`, `idlebackoff.h` | `McWorker` (composes `EnaIntr`), `McWorkerProofs` |
| Sample boot and shared ARP table | `samples/httpreply-mc/main.c` | `McCores`, `McCoresProofs` |

The parts meet in four places. The application's cores call the transmit and
receive paths on a ring with no lock but the ring lock. Control operations send
admin commands under the admin lock. Whoever notices a dead device, through a
command that times out or a FATAL_ERROR event polled on receive queue 0, runs
`ena_adapter_reset_and_recover` on its own core, inside whatever it was doing,
while the other cores go on. And a worker of the sample that has nothing to do
halts its core and relies on the interrupt of its queue. Most of what is hard to
test is in the last two, so the recovery appears in nearly every module, in the
steps that module can observe, and the worker is checked together with the
interrupts.

## How the models correspond to the code

A core is a process with a program counter; one action is the code between two
points where another core or the device can interfere (a lock, an unlock, a
doorbell, a command, a read or a write without the lock). Inside a lock a whole
function is one action. The device is external: it fetches descriptors and posts
completions in any order, may answer late, refuse, repeat a completion, or stop
answering.

- **EnaRing** has the variables of `struct ena_ring`. The array FIFO of free ids is
  kept as the sequence between its head and tail. Indices are `uint16_t`; `IdxMod`
  stands for 2^16.
- **EnaTx**: `TxOne` to `MapSlot` are `ena_netdev_tx_one` with `ena_tx_submit` and
  `ena_tx_doorbell`; `PollEnter` to `PollUnlock` are `ena_tx_poll_completions` with
  the deferred releases of `tx_foreign`; `RecoverBegin` to `CreateHw` the recovery.
  `home[nb]` is the core whose heap a netbuf comes from.
- **NetbufCustody** is the abstract specification of a transmit queue: a buffer is
  taken by a core, accepted or left to its sender, and an accepted one is held
  until the step that frees it. `EnaTx` implements it with `inRing` mapped to the
  set of netbufs in the tracking slots (`KeepsCustody`); everything else of `EnaTx`
  (ids, indices, phases, the deferred array, the device) is hidden.
- **EnaRx**: the refill loop with its re-reads of the free count, `ena_rx_poll`
  under the lock, and the reassembly in `ena_netdev_rx_one`. A completion carries
  the frame it belongs to, so that whole frames can be told from mixed ones.
- **EnaAdmin**: `ena_admin_exec_cmd` and `ena_admin_exec_locked` with a timeout at
  any poll, answers that arrive after it, the wrap of command ids and phases, and
  the recovery with the commands it sends under the same lock.
- **EnaQueues**: each CREATE or DESTROY command is a step that may be refused,
  answered with unusable offsets, or time out, in which case the whole recovery
  runs before the caller sees the error. A call is a frame of a per-core stack.
- **EnaAenq**: the poll loop, one event at a time: test, advance, acknowledge,
  dispatch. Events are numbered by the device, so order and loss can be stated.
- **EnaFeatures**: a call is the list of commands it still has to send;
  `AfterFailure` and `Reported` are the failure policies of the callers. Buffers are
  numbered, so that a freed address on the device can be told from a held one.
- **EnaLimits**: the arithmetic of the clamps as operators, compared with one
  definition of the result. Its steps are what the driver does with one report: the
  clamps of the bring-up, the counts that configure is asked for, the depth of a
  queue, the RSS table. `MCFeatures` checks it in one run with `EnaFeatures`; the two
  share no variable.
- **EnaIntr**: `ena_intr_setup` step by step (probe, find, arm one vector after the
  other, unroll on a failure), the masked flags and the mask register, and for one
  queue pair what the device and the interrupt controller do. It has no
  specification of its own.
- **McWorker**: `run_to_completion_worker` on one core: poll of the queue pair,
  `epoll_wait`, accept, read, send, the retry loop for partial responses,
  `drop_connection`, and `mc_idle_sleep` with `ib_tick`. The
  clients are external: they connect, send, acknowledge, close and reset. The
  interrupt handler `msix_on_fire` runs between any two steps of the worker while
  interrupts are enabled.
- **McCores**: `main`, `mc_secondary_entry` and the placement of the workers, and
  `mc_arp_publish` and `mc_arp_adopt`, one step per unprotected access: a MAC
  address is written in two halves, counts and versions are read once and used
  later, and the one-slot request is overwritten by whoever posts last.

`EnaTx` and `EnaRx` share `EnaRing`, and `McWorker` extends `EnaIntr`; the others are
views of one driver that overlap in the recovery. They are kept apart because
their product is out of TLC's reach; what one view takes from another is named in
its header (for example `EnaTx` takes queue creation as one step, which `EnaQueues`
takes apart).

## Runs

Each property has a mutant of the code's own definition that breaks it.

| Run | What it shows | Bounds |
|---|---|---|
| `tx_reset` | Every request id that is checked out has one user, and every step is one of `NetbufCustody`, with two cores that send, poll and recover | 2 cores, 2 netbufs, 2 sends, 2 recoveries, 1 stray completion |
| `tx_wrap` | No descriptor or completion in use is overwritten, no bounce slot is lost, nothing is released before the device is done with it | 5 netbufs on a ring of 4, 6 sends, 1 bounce slot, 1 core |
| `tx_live` | Every netbuf sent is freed in the end, by the core that sent it | 1 core that sends, 2 that reap, 5 sends |
| `rx_frames` | Every delivery is one whole frame; bounced data comes from the right slot; no slot is lost; the device writes only into held buffers and never waits for ever for one | 3 frames of up to 2 fragments, 1 odd completion (too long, repeated, or with an id past the ring) |
| `rx_reset` | No netbuf is leaked or held twice and no id is lost, with a recovery on another core that refills the queue too | 2 cores, 5 netbufs on a ring of 4, 1 recovery |
| `admin` | The admin queues belong to the lock holder; a late answer is never taken for another; the device reads what was written; a recovery reports what it achieved; every call ends | 2 cores, 2 timeouts, 1 fatal event, 1 failure, rings of 2, ids of 4 |
| `queues` | The device has exactly the queues of the valid rings, in memory the driver holds and in step with them; the RSS table names live queues | 1 TX and 2 RX rings, 3 device queues, 2 faults of any kind, 6 calls |
| `aenq` | Events come once and in order across wraps and recoveries; the handler survives a recovery; every event is dispatched or lost with its ring | ring of 4, counter of 8, 13 events, 1 fault |
| `features` | Settings are missing only if their own command failed, losses are reported, the device has no address of freed memory while it runs; depths, counts and the RSS table are the best the device allows | 3 faults at any command, 3 calls; boundary values of the reports and requests (0, odd, past the limit, past 16 bits) |
| `cores` | Each queue pair is polled by its own CPU or the boot core; a worker that has seen a version has adopted all of it; tables agree and flows are resolved time and again | 2 secondary cores, 2 addresses, 2 MACs, 2 network events |
| `worker` | Interrupt setup is all or nothing; one response per request; the core never sleeps on waiting packets without an interrupt on its way; clients are served | 2 connections, 3 descriptors of which 2 are tracked, 4 packets of which 1 waits at a time, responses of 2 bytes into a socket of 1 |
| `tx_stale_completion` | A violation: see below | 1 core, 2 sends, 1 recovery |

Why the bounds are enough: a ring of 4 is the smallest the code accepts, and the
runs go round it (slot and phase) with every slot in use. The free-running counter
is 8 wide, so it wraps half as often as the slots. It wraps in `aenq` and, for the
tail of the receive queue, in `rx_frames`; the transmit and admin runs end before it
does (nine sends on a ring of 4 are past five minutes), and there the theorems,
which hold for every width, are what covers it. Two cores show every race the code
has between an owner and one other core. A fault
count of two lets a failure meet a recovery from another one. `CHECK_DEADLOCK
FALSE` is set where the bounded number of calls or events, or a removed device,
ends the behaviour. Symmetry is used only in runs without liveness.

Some properties name the histories they do not cover (a timeout inside start or
stop, a used ring that is restarted, two recoveries that overlap, an event poll
that met a recovery on another core). In each case the code does something else
there, and the next section says what.

## Where the code and its own words disagree

`tx_stale_completion` ends in a violation. The reset puts `cq_head` and `cq_phase`
back and nothing clears the completion memory, so entries of the first pass before
the reset are taken for new completions; `src/ena_tx.c:294` says of a request id
that it is "only ever returned to the free pool here, after its completion, so it is
never reused while outstanding".

The following was met while the modules were written and checked, by giving a run
the cores, resets or faults named here. The runs above leave these cases out, or
their properties name them as exceptions.

Transmit:
- Two cores that send on one queue overwrite `tx_owner_cpu`, and a core then frees a
  netbuf of the other's heap (`ena_tx.c:322`; `ena_datapath.h:190` says an owner change
  cannot do that). The recovery frees every netbuf on its own core (`ena_admin.c:59`).
- Two cores that send on one queue read the tail after they unlock and write the
  doorbell later, in either order, so the published tail can go back
  (`ena_tx.c:137`).
- A submit that tested `hw_valid` before the lock writes to the ring a recovery has
  just invalidated (`ena_tx.c:42`).
- `recover_active` is tested and set without a lock (`ena_admin.c:658`). Of two
  recoveries that overlap, the second resets the device and skips the ring the first
  has re-created; or its failed reset leaves the adapter in the ready state.
- A completion that another core reaps before `bounce_map` is written loses the bounce
  slot (`ena_netdev.c:1255`).

Receive:
- When the first fragment of a frame is dropped, the rest of it is delivered
  (`ena_netdev.c:1157`; line 455 says the stack must not see half a packet).
- A half frame survives a recovery and is joined to the first new one
  (`ena_admin.c:111`; `ena_netdev.c:375`).
- A recovery leaves the bounce slots of the posted buffers mapped (`ena_admin.c:59`;
  `ena_datapath.h:269`) and fills queue 0 from the heap of the core that recovers
  (`ena_admin.c:196`; line 134).
- The drop of a too-long completion leaves `req_in_flight` set (`ena_rx.c:290`).

Admin queue and events:
- The command whose id wraps polls an entry it has just cleared; when the expected
  phase is 0 it returns `-EIO` (`ena_admin.c:521`).
- A command of another core that times out during a recovery leaves the adapter in
  error although the recovery returns 0 (`ena_admin.c:658`; line 641).
- An event is acknowledged before it is handled (`ena_admin.c:802`), and a recovery that
  finds no memory leaves a null ring base that the poll loop reads (`ena_admin.c:785`).
- A recovery on another core moves the head under the unlocked poll, which then skips
  a slot of the new ring (`ena_admin.c:796`).

Queues:
- A command that times out inside start or stop re-creates queues the caller forgets
  (`ena_netdev.c:218`, `:242`); a queue without a ring makes the rollback miss one
  (`ena_netdev.c:222`).
- Stop and start again leave the indices of the rings where they were while the
  device starts at 0 (`ena_datapath.c:679`).
- A configure call with a smaller count leaks rings, one with a larger count runs past
  the arrays (`ena_netdev.c:263`, `:114`).
- The RSS table names SQ 0 for a ring the recovery could not re-create
  (`ena_admin.c:219`).
- A recovery on a polling core while another tears the device down lets the rings be
  freed under live queues (`ena_netdev.c:1305`).

Settings:
- A timeout in a best-effort step of the bring-up loses the host info of a bring-up that
  then succeeds (`ena_init.c:460`); a recovery never sends the host info again
  (`ena_init.c:494`), restores no MTU when there are no rings (`ena_admin.c:705`), and
  hides a failure of the event groups (`ena_init.c:523`).
- The teardown leaves the addresses of freed admin memory on the device
  (`ena_netdev.c:1311`). The RSS tables are allocated twice when the size query times
  out (`ena_rss.c:143`).

Sample and platform:
- The comment at `ena_plat.c:165` says the configuration ports are guarded by the same
  lock as in `ena_pci.c`; the two files have a lock each. Both are used only by the
  probe, on the boot core.
- `mc_arp_pub` never drops an entry (`main.c:216` says core 0 publishes all resolved
  entries): when it is full, an address resolved later reaches no other worker, so
  `TablesAgree` and `FlowsResolved` are stated of addresses that found room.

## Fairness

- A core that is inside a driver call goes on: the code has no blocking wait but the
  locks and the bounded poll loops. Away from the locks weak fairness says so. The
  application's polling loop, which never stops, has weak fairness too.
- The device's answers have weak fairness where the property is about a working
  device (`tx_live`, `rx_frames`, `admin`); in `admin` a timeout may still come first.
- The ring and admin locks are test-and-set loops without a queue. A core that waits
  gets the lock if it is free again and again, so the actions that take a lock have
  strong fairness. The code does not guarantee this by itself. `EnaAdmin` states it
  of those actions alone; `EnaTx` and `EnaRx` of all steps of a core, which differs
  from weak fairness only where a lock is taken, since no other core disables any
  other step.
- `worker`: weak fairness of the worker, of the setup and of an interrupt that is
  pending, and strong fairness of a client's acknowledgement, which TCP repeats.
  The timer that ends a halt is a step of the worker: the code arms it before it
  halts.
- `cores`: weak fairness of `main`, of core 0's publishing loop and of each thread.
  A reply waits in the receive queue until core 0 polls it between two
  publications, and a worker posts the first address it waits for again when 500 ms
  are up: both have strong fairness, per address.

Sends, calls, packets, resets and faults are never forced.

## Proofs

The theorems hold for every value of the constants that satisfies the assumption of
its module (`DepthAssumption` and its like), and take no bound from the runs. Each
inductive invariant was first checked by TLC on the instance of its run, the one of
the admin rings on larger rings than the run has (more entries than cores). Every proof
has one step per action and, under it, one per conjunct that the action can disturb.

**Rings (`EnaRingProofs`)** has what transmit and receive share. Taking and returning
an id keep the pool a partition, a reset makes a fresh one, indices stay in range. The
second half is about the two queues and the device on their other side: `ToFetch`
descriptors are written and not fetched, `ToRead` completions posted and not read.
`PhasesTell` says that an entry has the phase the driver waits for exactly if it is one
of these `ToRead`; `OnceQueued` that every descriptor and completion on its way names a
request that is out, each a different one, and the netbuf of its slot; `Rung` that the
doorbell is not past the tail. One lemma per operation (push, doorbell, fetch, post,
pop) says what it does to these. Indices wrap at `IdxMod` and slots at `Depth`; the
lemmas on remainders are what lets any distance between two indices be followed across
both wraps. That a queue never overruns comes from counting: its entries have distinct
request ids, and there are `Depth` ids.

**Transmit (`EnaTxProofs`)**, for every number of cores, netbufs and
bounce slots, every depth and index width (at least 4, the width a multiple of the
depth and at least twice it) and any number of resets and stray completions.

- `TypeCorrect`: `Spec => []TypeOK`, inductive as it stands.
- `PoolCorrect`, `RequestsAccounted`, `NetbufsOwnedOnce`, `ForeignNeverFull`: none of
  the four is inductive alone. Releasing an id keeps the pool a partition only if
  the id is checked out, which the accounting of in-flight and deferred ids gives;
  a deferred id stays valid only because a reset empties the deferred array with
  the pool; a netbuf has one owner only if a core in the middle of a send still
  holds its packet. `Accounting` conjoins the first three with `PktInv`, the packet a
  core holds at each program counter. `ForeignNeverFull` follows with a pigeonhole
  argument: the deferred ids are distinct and the one in flight is not among them.
  `TypeOK`, `NetbufOwnedOnce` and `ForeignHasRoom` are proved for every instance, so
  no run repeats them.
- `TxKeepsCustody`: `Spec => KeepsCustody`, the refinement. Each action of `EnaTx` is one
  step of `NetbufCustody` or a stutter. `Accounting` is what makes it true: emptying a
  slot removes its netbuf from the ring only if no other slot holds the same one, and
  a netbuf is accepted or returned only by the core that has it.
- `QueuesHold`, `ReleasedAfterCompletion`: premises `Resetters = {}`, `MaxSpurious = 0`
  and `OneSender`. The driver never compares the tail with a head, so that no descriptor
  in use is overwritten rests on the ids alone. `QueueInv` is the invariant of the rings
  above with a device that has completed only what it was given, and a core between
  reading the tail and writing the doorbell still has the current tail. Without each
  premise the statement is false: a recovery leaves old completions that are taken for
  new (`tx_stale_completion`), a stray completion releases an id the device holds, a
  second sender writes an old tail. Any number of cores may poll.
- `NoBounceSlotLost`: premise `Resetters = {}` and a single core; stray completions are
  allowed. `BounceInv` says that only a request in flight has a slot mapped, and that a
  core between submit and mapping has such a request without one. A second core that
  polls could complete it in that window (see above).
- `BuffersFreedAtHome`: premises `Resetters = {}` and `OneSender`; any number of cores
  reap and defer. `SenderInv`: what the slots and the deferred array hold comes from a
  sending core, and a reap holds the lock.

**Receive (`EnaRxProofs`, `EnaRxQueues`)**, for frames of any length, any stray
completions and, in the first two, any number of recoveries that refill the queue of
another core.

- `RxNetbufsHeldOnce`, `RxPoolCorrect`: `HeldInv` says which places may hold a netbuf
  (slots, refills, the poll, the chain, the stack), that no two hold the same, and
  that a place is empty where the control flow says so. The pool is part of it: an id
  the refill takes must have an empty slot, or the netbuf in it would be forgotten.
- `RxSlotsAccounted`, `RxCopiesRightSlot`: premise `Resetters = {}`, because a recovery
  leaves slots mapped (see above). `BounceInv` follows the slot through the unlocked
  window in which it is neither in the pool nor in `bounce_map`: it is `pending_slot`
  of the one refill that runs. The id is back in the pool before the packet is copied
  out of the slot; that the refill cannot reuse it meanwhile is because poll and
  refill are the same core.
- `RxDmaTargetsHeld`, `RxFramesWhole` (`EnaRxQueues`): premise `Resetters = {}`, because a
  half frame and old completions survive a recovery (see above). Both properties
  promise nothing once the device has completed something it was not given, and the
  second nothing after a fragment longer than its buffer. `Queued` is the invariant of the
  rings above, with a doorbell value read and not yet written that is still the tail, and
  a netbuf in the slot of every id that is out. `Streamed` reads the fragments in the
  order in which they pass: the chain being assembled, the packet in hand, the completions not read, the fragments
  the device has still to write. Each of them continues the frame of the one before it,
  or begins a new one where that was the last; a step only moves a fragment from one
  place to the next.

**Admin queue (`EnaAdminProofs`)**, for any cores, commands, timeouts and failures.

- `QueuesProtected`: only the holder of the admin lock touches the admin queues.
  `LockInv` adds the types of the program counters and the lock.
- `RecoveryLeavesReady`: a recovery that returned 0 last has left the adapter ready.
  `Alone` says, as long as no two cores meet in the recovery, that `recover_active` has
  one owner with one frame, and that an adapter which is not ready has a core that is
  on its way to a recovery, is resetting, or has noted a failed command; without the
  last part a command that times out inside the recovery would go unnoticed.
- `AdminQueueHolds` (`PublishedPhase`) and `AnswersAreOwn` (`OwnAnswer`): the device reads
  every published command as it was written, and a command returns the answer to itself
  or an error. Premise `RoomForAll`: the ring has more entries than there are cores, ids
  outnumber entries, and the indices wrap after an even number of passes. The driver
  meets it on fewer than 32 cores: it asks for rings of 32 (`ena_pci.c:396`) and has
  16-bit ids and indices. Nothing in `ena_admin_exec_locked` looks for room; what keeps
  the queue from running full is that a core waits for its answer under the lock, and
  that after a timeout only the cores already waiting for the lock still submit. `Rings`
  says this with four numbers that never wrap, the commands submitted, fetched, answered
  and consumed: `Room` bounds the commands without a reader by the cores that
  do not wait for the lock, and one more, since a command can be left one answer behind
  by the entry cleared when the id wraps. `Stale` and `Unread` say what each slot of the
  completion ring holds, and `Named` that ids of different age differ, so that an id
  that matches belongs to the last command. The run `admin` has as many cores as
  entries, a case the premise leaves out, at the bounds of its calls and timeouts.

**Events (`EnaAenqProofs`)**, for any depth, any counter width it divides, any stream.

- `RecoveryKeepsHandler`: a ring in use has its handler.
- `EventsOnceInOrder`: premise `DevKeeps # 0`. The driver acknowledges an entry before it
  reads it, so a device that used the whole ring could overwrite the entry in hand.
  `RingInv` ties both sides to three numbers, the events posted, taken and acknowledged:
  every counter is one of them modulo its width, every phase the parity of its lap,
  and slot by slot the memory holds the event of its lap or is still zero. The
  lemmas on division by an arbitrary depth (`DivMod` to `PhaseFacts`) are what
  makes a stale entry's phase differ from the expected one.

**Worker (`McWorkerProofs`)**, for any vectors, clients, descriptors and sizes.

- `SetupAtomic`: the interrupt setup ends with every vector in place or with none. The
  inductive `SetupInv` says at each place of `ena_intr_setup` which vectors are
  registered and how many the table has.
- `WakeupNotLost`: a core that halts while packets wait has an interrupt on its way.
  The window begins with the unmask write of `mc_idle_sleep`, not with the halt:
  `WakeInv` states from there on that what waits has raised an interrupt and that a
  masked queue has one pending. It is the handler's own unmask that keeps it when the
  interrupt is taken before the halt, and it needs `SetupInv`, because only a vector
  that is registered and inside the table has a handler that unmasks.
- `AnsweredOnce`: what is owed on a tracked descriptor is what `resp_pending` says.
  Descriptors are reused, so `AnswerInv` must say that open connections have distinct
  ones, that events and pending responses belong to open connections, and that a
  descriptor in the middle of a send is open. The poll of the queue is a recursive
  function over its packets; `PolledKeeps` is proved by induction (`SetInduction`,
  from the well-foundedness of the naturals applied to a set).

**Cores (`McCoresProofs`)**, for any number of cores, addresses and updates.

- `WorkersOnTheirCpus`: a scheduler is registered by its own core, and `main` places a
  worker only on such a one or on the boot core (`Placement`).
- `NoUpdateMissed`: a worker that has seen the latest version and is not copying holds
  every entry. `Adopting` says of each worker and entry that the worker has it, is still
  to copy it, or core 0 has yet to raise the version because of it; it rests on
  `Published` (an address is published once, a half-written one is still in the scan).

Only model-checked:

- Liveness: the prover does not handle fairness.
- `EnaQueues` and `EnaFeatures`, whose calls are stacks of command lists, and `EnaLimits`,
  whose subject is the powers of two at the boundaries: not proved.
- `TablesAgree`, `FlowsResolved` of the cores are liveness.

## Not modelled

- Packet contents, checksums, statistics values, log output, register layout, the
  bytes of the RSS key, BAR mapping and configuration-space access, DMA allocation
  and delays: data or I/O that no property tells apart.
- Memory order: every access is atomic and in program order, as the barriers of the
  code (`ena_wmb`, `ena_rmb`, `ena_mb`) ask for at each hand-over; a missing barrier
  would not be found. The one exception is the MAC address of `McCores`, which the
  sample writes without any protection.
- Low-latency queues (`src/ena_llq.c`): `ena_init_config_llq` returns before it enables
  them, so no ring uses them. Only the query it still sends is modelled.
- The stand-alone variants of the netdev functions built for the tests;
  `ena_intr_set_coalesce` and `ena_poll_step`, which only tests call; the disarming of
  the vectors at teardown.
- The SPSC ring of the sample (`spsc.h`): no program uses it, only its unit test.
- The single-core samples (`httpreply`, `low-latency-hft`) and the nginx image: socket
  loops above the network stack without shared state.
- In `McWorker`: the other queue pair whose vector the safety net of the sleep also
  unmasks; the error return of `epoll_wait`; the diagnostic counters and network log.
  A connection with a descriptor past `MAX_TRACKED_FDS` gets one send, as in the code,
  so `OneAnswerEach` is stated of tracked ones. The device's interrupt behaviour is
  taken from the comments of the sources (builds with `CONFIG_LIBENA_MSIX`).
- In `McCores`: a failing `etharp_add_static_entry`. A fallback worker on the boot core
  is created and never runs, because worker 0 never yields; so in the code.
- Product of the views: no run composes, say, the admin queue with a ring. The
  recovery is the only place where they meet, and each view has its steps.
