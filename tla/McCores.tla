------------------------------- MODULE McCores -------------------------------
(***************************************************************************)
(* The cores of the multi-core HTTP sample (samples/httpreply-mc/main.c):  *)
(* how the boot core starts the others and places one worker on each, and  *)
(* how the workers share what core 0 learns about MAC addresses.  Only     *)
(* core 0 receives ARP replies; it publishes them in mc_arp_pub, and the   *)
(* other workers copy them into their own tables and post the addresses    *)
(* they need to the one slot of mc_arp_req.  No lock protects either, so a *)
(* worker takes one step per access.                                       *)
(*                                                                         *)
(* A MAC address is written in two halves: between them the entry holds    *)
(* Torn.  Times are abstract: the 500 ms after which a request is repeated *)
(* may be up at any moment, and so may the time of a bounded wait.         *)
(* Of mc_arp_req.version only the distance to mc_arp_req_served matters: it *)
(* is counted from there, and so are the values the workers have loaded.   *)
(***************************************************************************)
EXTENDS Integers, Sequences, FiniteSets

CONSTANTS
  N,            \* cores 0 .. N, MC_MAX_WORKERS of them
  None, Torn,
  Ips, Macs,
  Gateway,      \* the gateway of the network interface, an address, or None
  ARP_TABLE_SIZE,
  MaxReq,       \* bound on that distance; it is a uint32_t in the code
  MaxEvents     \* bound on what happens on the network: a packet is lost, a
                \* flow is steered to a core that lacks the address of its
                \* peer, core 0 learns something unasked or forgets it

ASSUME CoresAssumption ==
  /\ N \in Nat /\ ARP_TABLE_SIZE \in Nat \ {0} /\ MaxReq \in Nat \ {0}
  /\ None \notin Ips \cup Macs \cup (0 .. N) /\ Torn \notin Macs \cup {None}
  /\ Gateway \in Ips \cup {None} /\ Macs # {}
  /\ MaxEvents \in Nat

\* Which MAC address a peer has first makes no difference.
FirstMac == CHOOSE m \in Macs : TRUE

Secondaries == 1 .. N
Cores       == 0 .. N

VARIABLES
  main,         \* where main() is, and what it still has to wait for
  starting,     \* cores that may still come up before their worker is placed
  mc_cpu_sched, \* CPUs whose scheduler is published
  worker,       \* CPU of each worker's thread, None before it is created
  on, parked,   \* worker each CPU runs; those that cannot listen only yield
  arp_table,    \* resolved addresses of each core
  pending,      \* unresolved addresses of each core, in table order
  gw_static,    \* core 0's entry of the gateway is static
  pub,          \* mc_arp_pub: entries and version
  req,          \* mc_arp_req: ipaddr and version
  mc_arp_seen,
  p0,           \* core 0 in mc_arp_publish: at, entries to look at, changed
  pc, got,      \* the others in mc_arp_adopt: where, and what they have read
  count,        \* ... and the number of entries they copy
  asked,        \* ARP requests on the wire
  events

bootVars == <<main, starting, mc_cpu_sched, worker, on,
             parked>>
tabVars  == <<arp_table, pending, gw_static>>
coreVars == <<pc, got, count, mc_arp_seen>>
netVars  == <<asked, events>>
vars == <<bootVars, tabVars, pub, req, coreVars, p0, netVars>>
arpVars  == <<tabVars, pub, req, coreVars, p0, netVars>>

Init ==
  /\ main = [at |-> "start", todo |-> {}]
  /\ starting = {}
  /\ mc_cpu_sched = {}
  /\ worker = [c \in Cores |-> None] /\ on = [c \in Cores |-> None] /\ parked = {}
  /\ arp_table = [c \in Cores |-> [ip \in Ips |-> None]]
  /\ pending = [c \in Cores |-> <<>>] /\ gw_static = FALSE
  /\ pub = [entries |-> <<>>, version |-> 0]
  /\ req = [ipaddr |-> None, version |-> 0]
  /\ mc_arp_seen = [c \in Secondaries |-> 0]
  /\ p0 = [at |-> "idle", todo |-> {}, changed |-> FALSE]
  /\ pc = [c \in Secondaries |-> "idle"]
  /\ got = [c \in Secondaries |-> 0] /\ count = got
  /\ asked = {} /\ events = 0

-----------------------------------------------------------------------------
(* Starting the cores: main, mc_boot_secondary_cores, mc_secondary_entry *)

MainGoto(at, todo) == main' = [at |-> at, todo |-> todo]
\* The loops over the cores go from the lowest to the highest.
First == CHOOSE c \in main.todo : \A d \in main.todo : c <= d
Rest  == main.todo \ {First}

\* The allocators of the first cores, until one cannot be set up.
Allocators == {1 .. ready : ready \in 0 .. N}

\* The cores that have an allocator and get a stack; uk_lcpu_start starts the
\* first ones of them.
StartCores ==
  /\ main.at = "start"
  /\ \E have \in Allocators : \E some \in SUBSET have :
       \E started \in {{c \in some : c <= n} : n \in 0 .. N} :
         /\ starting' = started
         /\ MainGoto("online", started)
  /\ UNCHANGED <<mc_cpu_sched, worker, on, parked, arpVars>>

\* Mutant: the table is filled in the order in which the cores register.
PublishesAtNext(c) == Cardinality(mc_cpu_sched) + 1
\* The entry of mc_cpu_sched a core writes: that of the CPU it runs on.
PublishesAt(c) == c

\* A core comes up and publishes its scheduler, or halts because a step of its
\* start failed.
SecondaryEntry(c) ==
  /\ c \in starting
  /\ starting' = starting \ {c}
  /\ \/ mc_cpu_sched' = mc_cpu_sched \cup {<<PublishesAt(c), c>>}
     \/ UNCHANGED mc_cpu_sched
  /\ UNCHANGED <<main, worker, on, parked, arpVars>>

\* A loop of 200000000 spins ends before the core has come up.
WaitExpires == TRUE

\* The scheduler that main finds for CPU c.
Scheds(c) == {s[2] : s \in {t \in mc_cpu_sched : t[1] = c}}

ToWorkers == MainGoto("workers", Secondaries)

\* For every started core: wait until it is online, then for its scheduler.
WaitForCore ==
  /\ main.at = "online" /\ main.todo # {}
  /\ Scheds(First) # {} \/ WaitExpires
  /\ MainGoto("online", Rest)
  /\ UNCHANGED <<starting, mc_cpu_sched, worker, on, parked, arpVars>>

\* No worker exists while main waits for the address of the gateway: either it
\* learns it, makes the entry static and publishes it, or the bounded wait ends.
ResolveGateway ==
  /\ main.at = "online" /\ main.todo = {}
  /\ ToWorkers
  /\ \/ /\ Gateway # None
        /\ arp_table' = [arp_table EXCEPT ![0][Gateway] = FirstMac]
        /\ gw_static' = TRUE
        /\ pub' = [entries |-> <<[ip |-> Gateway, mac |-> FirstMac]>>, version |-> 1]
     \/ UNCHANGED <<arp_table, gw_static, pub>>
  /\ UNCHANGED <<starting, mc_cpu_sched, worker, on, parked, pending, req,
                 coreVars, p0, netVars>>

\* A thread starts on a CPU: the worker listens, or it cannot and yields for
\* ever.  The scheduler is cooperative, and a worker that listens never yields.
Begin(i, cpu) ==
  \/ on' = [on EXCEPT ![cpu] = i] /\ UNCHANGED parked
  \/ parked' = parked \cup {i} /\ UNCHANGED on

\* Worker i goes to the scheduler of CPU i, or to the boot core's when there
\* is none.  What cannot be made (an epoll instance, a thread) ends the
\* program.  The thread of main becomes worker 0.
PlaceWorker ==
  /\ main.at = "workers"
  /\ IF main.todo = {}
     THEN /\ worker' = [worker EXCEPT ![0] = 0]
          /\ MainGoto("run", {}) /\ Begin(0, 0) /\ UNCHANGED starting
     ELSE /\ \/ /\ LET i == First IN
                   /\ \E cpu \in IF Scheds(i) = {} THEN {0} ELSE Scheds(i) :
                        worker' = [worker EXCEPT ![i] = cpu]
                   /\ starting' = starting \ {i}
                /\ MainGoto("workers", Rest)
             \/ MainGoto("exit", {}) /\ UNCHANGED <<worker, starting>>
          /\ UNCHANGED <<on, parked>>
  /\ UNCHANGED <<mc_cpu_sched, arpVars>>

StartWorker(i) ==
  /\ worker[i] # None /\ i \notin parked
  /\ worker[i] = 0 => main.at = "run"
  /\ on[worker[i]] = None
  /\ Begin(i, worker[i])
  /\ UNCHANGED <<main, starting, mc_cpu_sched, worker, arpVars>>

Running(i) == worker[i] # None /\ on[worker[i]] = i

-----------------------------------------------------------------------------
(* Core 0: mc_arp_publish, every 20 ms at most *)

\* Only ARP_TABLE_SIZE addresses fit in mc_arp_pub, ever.
Positions(ip) == {j \in DOMAIN pub.entries : pub.entries[j].ip = ip}

\* The entries of core 0's table to write: it alone writes mc_arp_pub.
News == {ip \in Ips :
           /\ arp_table[0][ip] # None
           /\ IF Positions(ip) = {} THEN Len(pub.entries) < ARP_TABLE_SIZE
              ELSE \A j \in Positions(ip) : pub.entries[j].mac # arp_table[0][ip]}

ScanOrEnd ==
  IF News # {}
  THEN p0' = [at |-> "scan", todo |-> News, changed |-> FALSE]
  ELSE p0' = [at |-> "idle", todo |-> {}, changed |-> FALSE]

\* A value that a worker loaded, when core 0 has noted the version.
Older(v) == IF v - req.version < -MaxReq THEN -MaxReq ELSE v - req.version

\* The version of the request is noted first, the address read after it.
PublishStart ==
  /\ on[0] = 0 /\ p0.at = "idle"
  /\ IF req.version # 0
     THEN /\ req' = [req EXCEPT !.version = 0]
          /\ got' = [c \in Secondaries |-> IF pc[c] = "store" THEN Older(got[c])
                                                              ELSE got[c]]
          /\ p0' = [p0 EXCEPT !.at = "request"]
     ELSE ScanOrEnd /\ UNCHANGED <<req, got>>
  /\ UNCHANGED <<bootVars, tabVars, pub, pc, count, mc_arp_seen, netVars>>

PublishRequest ==
  /\ p0.at = "request"
  /\ asked' = asked \cup ({req.ipaddr} \ {None})
  /\ ScanOrEnd
  /\ UNCHANGED <<bootVars, tabVars, pub, req, coreVars, events>>

\* Mutant: a MAC address that changes in place is no news.
UpdatedQuietly == p0.changed
\* Rewriting the MAC address of a published entry counts as a change.
Updated == TRUE

\* A new address is appended while there is room; the MAC address of a known
\* one is rewritten, half by half.
PublishEntry(ip) ==
  LET mac == arp_table[0][ip]
      room == Len(pub.entries) < ARP_TABLE_SIZE
      done(changed) == p0' = [p0 EXCEPT !.todo = @ \ {ip}, !.changed = changed] IN
  /\ p0.at = "scan" /\ ip \in p0.todo
  /\ \/ /\ Positions(ip) = {} /\ room
        /\ pub' = [pub EXCEPT !.entries = Append(@, [ip |-> ip, mac |-> mac])]
        /\ done(TRUE)
     \/ Positions(ip) = {} /\ ~room /\ done(p0.changed) /\ UNCHANGED pub
     \/ \E j \in Positions(ip) :
          \/ /\ pub.entries[j].mac # Torn
             /\ pub' = [pub EXCEPT !.entries[j].mac = Torn] /\ UNCHANGED p0
          \/ /\ pub.entries[j].mac = Torn
             /\ pub' = [pub EXCEPT !.entries[j].mac = mac]
             /\ done(Updated)
  /\ UNCHANGED <<bootVars, tabVars, req, coreVars, netVars>>

PublishEnd ==
  /\ p0.at = "scan" /\ p0.todo = {}
  /\ pub' = IF p0.changed THEN [pub EXCEPT !.version = @ + 1] ELSE pub
  /\ p0' = [p0 EXCEPT !.at = "idle", !.changed = FALSE]
  /\ UNCHANGED <<bootVars, tabVars, req, coreVars, netVars>>

-----------------------------------------------------------------------------
(* The other workers: mc_arp_adopt, every 20 ms at most.  Worker c runs on    *)
(* CPU worker[c] and uses the ARP table of that CPU.                           *)

\* Mutant: an address that is already in the slot is not asked for again.
AskAgainNever(ip) == req.ipaddr # ip
\* The slot holds another address, or the last request is 500 ms old.
AskAgain(ip) == TRUE

\* Mutant: the version the next publication will have is noted.
SeenNext == pub.version + 1
\* The version noted: read before any entry is copied.
Seen == pub.version

Compare(c) ==
  IF pub.version = mc_arp_seen[c]
  THEN pc' = [pc EXCEPT ![c] = "idle"] /\ UNCHANGED mc_arp_seen
  ELSE /\ mc_arp_seen' = [mc_arp_seen EXCEPT ![c] = Seen]
       /\ pc' = [pc EXCEPT ![c] = "count"]

\* Only the first unresolved entry of the table is looked at.  The address is
\* written before the version, which is read and written back in two steps.
AdoptPost(c, ip) ==
  /\ Running(c) /\ pc[c] = "idle" /\ req.version < MaxReq
  /\ pending[worker[c]] # <<>> /\ Head(pending[worker[c]]) = ip
  /\ AskAgain(ip)
  /\ req' = [req EXCEPT !.ipaddr = ip]
  /\ pc' = [pc EXCEPT ![c] = "load"]
  /\ UNCHANGED <<bootVars, tabVars, pub, mc_arp_seen, got, count, p0, netVars>>

\* Nothing is unresolved, or the request in the slot is still fresh.
AdoptStart(c) ==
  /\ Running(c) /\ pc[c] = "idle"
  /\ pending[worker[c]] # <<>> => req.ipaddr = Head(pending[worker[c]])
  /\ Compare(c)
  /\ UNCHANGED <<bootVars, tabVars, pub, req, got, count, p0, netVars>>

AdoptLoad(c) ==
  /\ pc[c] = "load"
  /\ got' = [got EXCEPT ![c] = req.version]
  /\ pc' = [pc EXCEPT ![c] = "store"]
  /\ UNCHANGED <<bootVars, tabVars, pub, req, count, mc_arp_seen, p0, netVars>>

AdoptStore(c) ==
  /\ pc[c] = "store"
  /\ req' = [req EXCEPT !.version = got[c] + 1]
  /\ got' = [got EXCEPT ![c] = 0]
  /\ Compare(c)
  /\ UNCHANGED <<bootVars, tabVars, pub, count, p0, netVars>>

\* After n entries have been copied: done with the last one.
Copied(c, n, last) ==
  /\ pc' = [pc EXCEPT ![c] = IF n < last THEN "copy" ELSE "idle"]
  /\ got' = [got EXCEPT ![c] = IF n < last THEN n ELSE 0]
  /\ count' = [count EXCEPT ![c] = IF n < last THEN last ELSE 0]

\* The count is read once.
AdoptCount(c) ==
  /\ pc[c] = "count"
  /\ Copied(c, 0, Len(pub.entries))
  /\ UNCHANGED <<bootVars, tabVars, pub, req, mc_arp_seen, p0, netVars>>

\* The entries are copied one by one; each becomes a static entry of the
\* core's own table, whatever the table held for the address.  got counts them.
AdoptEntry(c) ==
  LET e == pub.entries[got[c] + 1]
      cpu == worker[c] IN
  /\ pc[c] = "copy"
  /\ arp_table' = [arp_table EXCEPT ![cpu][e.ip] = e.mac]
  /\ pending' = [pending EXCEPT ![cpu] = SelectSeq(@, LAMBDA ip : ip # e.ip)]
  /\ Copied(c, got[c] + 1, count[c])
  /\ UNCHANGED <<bootVars, gw_static, pub, req, mc_arp_seen, p0, netVars>>

-----------------------------------------------------------------------------
(* The network *)

\* Core 0 receives between two publications: the answer to a request, or news
\* nobody asked for.  It also forgets entries that grow old.
Receive(ip, m) ==
  /\ arp_table' = [arp_table EXCEPT ![0][ip] = m]
  /\ UNCHANGED <<bootVars, pending, gw_static, pub, req, coreVars, p0>>

Reply(ip) ==
  /\ on[0] = 0 /\ p0.at = "idle" /\ ip \in asked
  /\ asked' = asked \ {ip}
  /\ Receive(ip, IF arp_table[0][ip] = None THEN FirstMac ELSE arp_table[0][ip])
  /\ UNCHANGED events

Lose(ip) ==
  /\ ip \in asked /\ events < MaxEvents
  /\ asked' = asked \ {ip} /\ events' = events + 1
  /\ UNCHANGED <<bootVars, tabVars, pub, req, coreVars, p0>>

Change(ip) ==
  /\ on[0] = 0 /\ p0.at = "idle" /\ events < MaxEvents
  /\ ip = Gateway => ~gw_static
  /\ events' = events + 1
  /\ \E m \in IF arp_table[0][ip] = None THEN {FirstMac}
              ELSE (Macs \cup {None}) \ {arp_table[0][ip]} : Receive(ip, m)
  /\ UNCHANGED asked

\* A flow is steered to a core that cannot address its peer yet.
Flow(c, ip) ==
  /\ c # 0 /\ Running(c) /\ pc[c] = "idle" /\ events < MaxEvents
  /\ arp_table[worker[c]][ip] = None
  /\ \A i \in DOMAIN pending[worker[c]] : pending[worker[c]][i] # ip
  /\ pending' = [pending EXCEPT ![worker[c]] = Append(@, ip)]
  /\ events' = events + 1
  /\ UNCHANGED <<bootVars, arp_table, gw_static, pub, req, coreVars, p0,
                 asked>>

-----------------------------------------------------------------------------
Main == StartCores \/ WaitForCore \/ ResolveGateway \/ PlaceWorker

Publish == \/ PublishStart \/ PublishRequest \/ PublishEnd
           \/ \E ip \in Ips : PublishEntry(ip)

Thread(c) == \/ StartWorker(c) \/ AdoptStart(c) \/ AdoptLoad(c) \/ AdoptStore(c)
             \/ AdoptCount(c) \/ AdoptEntry(c) \/ \E ip \in Ips : AdoptPost(c, ip)

Next ==
  /\ main.at # "exit"
  /\ \/ Main \/ Publish
     \/ \E c \in Secondaries : SecondaryEntry(c) \/ Thread(c)
     \/ \E ip \in Ips : \/ Reply(ip) \/ Lose(ip) \/ Change(ip)
                        \/ \E c \in Secondaries : Flow(c, ip)

Spec == Init /\ [][Next]_vars

\* Every core keeps running.  A reply waits in the RX queue until core 0 polls
\* it between two publications, and an address that stays unresolved is posted
\* again by whoever needs it when 500 ms are up: strong fairness.
FairSpec ==
  /\ Spec
  /\ WF_vars(main.at # "exit" /\ Main)
  /\ WF_vars(main.at # "exit" /\ Publish)
  /\ \A c \in Secondaries : WF_vars(main.at # "exit" /\ Thread(c))
  /\ \A ip \in Ips :
       /\ SF_vars(main.at # "exit" /\ Reply(ip))
       /\ SF_vars(main.at # "exit" /\ \E c \in Secondaries : AdoptPost(c, ip))

-----------------------------------------------------------------------------

\* Queue pair i is polled by CPU i, or by the boot core when CPU i published no
\* scheduler in time; no CPU that came up polls another one's pair, however
\* late or in whatever order the cores register (mc_secondary_entry, main).
PairOnItsOwnCpu ==
  \A i \in Cores : Running(i) => worker[i] \in {i, 0}

\* A worker that has seen the latest version and is not copying holds every
\* published entry, with its present MAC address: no rewrite in place, append
\* or half-written address is missed for good (mc_arp_publish, mc_arp_adopt).
SeenIsAdopted ==
  \A c \in Secondaries :
    /\ Running(c) /\ worker[c] = c /\ pc[c] \notin {"count", "copy"}
    /\ mc_arp_seen[c] = pub.version /\ p0.at # "scan"
    => \A j \in DOMAIN pub.entries :
         arp_table[c][pub.entries[j].ip] = pub.entries[j].mac

\* The workers that listen on their own CPU while core 0 listens too.
Serving == {c \in Secondaries : Running(c) /\ worker[c] = c /\ on[0] = 0}

\* Whatever core 0 learns reaches the table of every worker that listens, if
\* the address found room in mc_arp_pub: time and again the tables agree.
TablesAgree ==
  []<>(\A c \in Serving, ip \in Ips :
         Positions(ip) # {} =>
           arp_table[0][ip] = None \/ arp_table[c][ip] = arp_table[0][ip])

\* An address a worker waits for is resolved, however the workers overwrite
\* each other's requests and lose counts in the one slot of mc_arp_req and
\* whatever gets lost, unless mc_arp_pub is full: time and again nobody waits.
FlowsResolved ==
  []<>(\A c \in Serving :
         pending[c] = <<>> \/ Len(pub.entries) = ARP_TABLE_SIZE)

=============================================================================
