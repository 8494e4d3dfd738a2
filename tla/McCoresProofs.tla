---------------------------- MODULE McCoresProofs ----------------------------
(***************************************************************************)
(* Proofs about the cores of the multi-core sample, for every number of    *)
(* cores, addresses and table entries, and any traffic.                    *)
(***************************************************************************)
EXTENDS McCores, TLAPS

\* Zenon proves a step, unless the step names another prover.
USE Zenon

USE CoresAssumption

-----------------------------------------------------------------------------
(* The inductive invariant *)

Entry == [ip : Ips, mac : Macs \cup {None, Torn}]

Tables == [Cores -> [Ips -> Macs \cup {None, Torn}]]
Pubs   == [entries : Seq(Entry), version : Nat]
Scans  == [at : {"idle", "request", "scan"}, todo : SUBSET Ips, changed : BOOLEAN]

CoresTypeOK ==
  /\ worker \in [Cores -> Cores \cup {None}] /\ on \in [Cores -> Cores \cup {None}]
  /\ arp_table \in Tables /\ pub \in Pubs /\ p0 \in Scans
  /\ mc_arp_seen \in [Secondaries -> Nat]
  /\ pc \in [Secondaries -> {"idle", "load", "store", "count", "copy"}]
  /\ DOMAIN got = Secondaries /\ DOMAIN count = Secondaries

\* A scheduler is published under the number of its CPU, and a worker is on
\* its own CPU or on the boot core.  Until main becomes worker 0 no thread of
\* the boot core has run.
Placement ==
  /\ mc_cpu_sched \subseteq {<<c, c>> : c \in Secondaries}
  /\ \A i \in Cores : worker[i] \in {None, i, 0}
  /\ \A i \in Secondaries : worker[i] = i => <<i, i>> \in mc_cpu_sched
  /\ main.at # "run" => on[0] = None

\* Only a worker that listens is inside mc_arp_adopt, and only worker 0 inside
\* mc_arp_publish; a worker that has not listened has seen no version.
Activity ==
  /\ \A c \in Secondaries : pc[c] # "idle" => Running(c)
  /\ p0.at # "idle" => on[0] = 0
  /\ main.at \in {"start", "online"} =>
       pub.version = 0 /\ \A c \in Cores : worker[c] = None
  /\ \A c \in Secondaries :
       main.at # "run" /\ worker[c] # c => mc_arp_seen[c] = 0

\* An address is published once; a half-written MAC address is one the scan
\* of core 0 still has to finish; nothing is published before version 1.
Publishing == p0.at = "scan" /\ p0.changed
Published ==
  /\ \A j, k \in DOMAIN pub.entries : pub.entries[j].ip = pub.entries[k].ip => j = k
  /\ \A j \in DOMAIN pub.entries :
       pub.entries[j].mac = Torn => p0.at = "scan" /\ pub.entries[j].ip \in p0.todo
  /\ \A ip \in Ips : arp_table[0][ip] # Torn
  /\ pub.version = 0 /\ ~ Publishing => pub.entries = <<>>

\* What a worker that has seen the latest version lacks is still to come: it
\* is about to copy it, or core 0 is about to raise the version.
Adopted(c, j) == arp_table[c][pub.entries[j].ip] = pub.entries[j].mac
ToCopy(c, j)  == pc[c] = "count" \/ (pc[c] = "copy" /\ j > got[c] /\ j <= count[c])
InWork(j)     == p0.at = "scan" /\ (p0.changed \/ pub.entries[j].mac = Torn)
AdoptOK(c) ==
  /\ mc_arp_seen[c] <= pub.version
  /\ pc[c] = "copy" => /\ got[c] \in Nat /\ count[c] \in Nat
                       /\ got[c] < count[c] /\ count[c] <= Len(pub.entries)
  /\ worker[c] = c /\ mc_arp_seen[c] = pub.version =>
       \A j \in DOMAIN pub.entries : Adopted(c, j) \/ ToCopy(c, j) \/ InWork(j)
Adopting == \A c \in Secondaries : AdoptOK(c)

CoresInv == Placement /\ Activity /\ Published /\ Adopting

-----------------------------------------------------------------------------
(* The tables *)

\* A MAC address that is learned is a whole one.
LEMMA FirstMacType == FirstMac \in Macs
  BY DEF FirstMac

\* One entry of one table is written.
LEMMA TableWrite ==
  ASSUME arp_table \in Tables, NEW cpu \in Cores, NEW ip \in Ips,
         NEW m \in Macs \cup {None, Torn},
         arp_table' = [arp_table EXCEPT ![cpu][ip] = m]
  PROVE  /\ arp_table' \in Tables
         /\ \A d \in Cores, x \in Ips :
              arp_table'[d][x] = IF d = cpu /\ x = ip THEN m ELSE arp_table[d][x]
  BY DEF Tables

\* An entry is appended to mc_arp_pub.
LEMMA PubAppend ==
  ASSUME pub \in Pubs, NEW e \in Entry,
         pub' = [pub EXCEPT !.entries = Append(@, e)]
  PROVE  /\ pub' \in Pubs /\ pub'.version = pub.version
         /\ Len(pub.entries) \in Nat /\ Len(pub'.entries) = Len(pub.entries) + 1
         /\ DOMAIN pub.entries = 1 .. Len(pub.entries)
         /\ DOMAIN pub'.entries = 1 .. Len(pub.entries) + 1
         /\ pub'.entries[Len(pub.entries) + 1] = e
         /\ \A k \in DOMAIN pub.entries : pub'.entries[k] = pub.entries[k]
<1>1. pub.entries \in Seq(Entry)
  BY DEF Pubs
<1>2. pub'.entries = Append(pub.entries, e) /\ pub'.version = pub.version
      /\ pub' = [entries |-> Append(pub.entries, e), version |-> pub.version]
  BY DEF Pubs
<1>3. Append(pub.entries, e) \in Seq(Entry)
  BY <1>1, SMT
<1>4. pub' \in Pubs
  BY <1>2, <1>3 DEF Pubs
<1> QED BY <1>1, <1>2, <1>4, SMT

\* The MAC address of a published entry is rewritten.
LEMMA PubRewrite ==
  ASSUME pub \in Pubs, NEW j \in DOMAIN pub.entries,
         NEW m \in Macs \cup {None, Torn},
         pub' = [pub EXCEPT !.entries[j].mac = m]
  PROVE  /\ pub' \in Pubs /\ pub'.version = pub.version
         /\ Len(pub'.entries) = Len(pub.entries)
         /\ DOMAIN pub'.entries = DOMAIN pub.entries
         /\ pub'.entries[j].mac = m /\ pub'.entries[j].ip = pub.entries[j].ip
         /\ \A k \in DOMAIN pub.entries : k # j => pub'.entries[k] = pub.entries[k]
<1> DEFINE f == [pub.entries[j] EXCEPT !.mac = m]
           t == [pub.entries EXCEPT ![j] = f]
<1>0. pub.entries \in Seq(Entry)
  BY DEF Pubs
<1>1. pub.entries \in Seq(Entry) /\ pub.entries[j] \in Entry
  BY <1>0, SMT
<1>2. pub'.entries = t /\ pub'.version = pub.version
      /\ pub' = [entries |-> t, version |-> pub.version]
  BY DEF Pubs
<1>3. f \in Entry /\ f.mac = m /\ f.ip = pub.entries[j].ip
  BY <1>1 DEF Entry
<1> HIDE DEF f
<1>4. t \in Seq(Entry) /\ Len(t) = Len(pub.entries)
  BY <1>1, <1>3, SMT
<1>5. t[j] = f /\ \A k \in DOMAIN pub.entries : k # j => t[k] = pub.entries[k]
  BY <1>1
<1>6. DOMAIN t = DOMAIN pub.entries
  OBVIOUS
<1> HIDE DEF t
<1>7. pub' \in Pubs
  BY <1>2, <1>4 DEF Pubs
<1> QED BY <1>2, <1>3, <1>4, <1>5, <1>6, <1>7

\* The version of mc_arp_pub is raised.
LEMMA PubRaise ==
  ASSUME pub \in Pubs, pub' = [pub EXCEPT !.version = @ + 1]
  PROVE  /\ pub' \in Pubs /\ pub'.version = pub.version + 1
         /\ pub'.entries = pub.entries
  BY SMT DEF Pubs

\* The scan that a publication begins.
LEMMA ScanType ==
  ASSUME ScanOrEnd
  PROVE  p0' \in Scans /\ p0'.at \in {"idle", "scan"} /\ p0'.changed = FALSE
<1>1. News \in SUBSET Ips
  BY DEF News
<1> HIDE DEF News
<1>2. CASE News # {}
  <2>1. p0' = [at |-> "scan", todo |-> News, changed |-> FALSE]
    BY <1>2 DEF ScanOrEnd
  <2> QED BY <1>1, <2>1 DEF Scans
<1>3. CASE News = {}
  <2>1. p0' = [at |-> "idle", todo |-> {}, changed |-> FALSE]
    BY <1>3 DEF ScanOrEnd
  <2> QED BY <2>1 DEF Scans
<1> QED BY <1>2, <1>3

\* One address of the scan is done.
LEMMA ScanDone ==
  ASSUME p0 \in Scans, NEW ip \in Ips, NEW b \in BOOLEAN,
         p0' = [p0 EXCEPT !.todo = @ \ {ip}, !.changed = b]
  PROVE  /\ p0' \in Scans /\ p0'.at = p0.at
         /\ p0'.todo = p0.todo \ {ip} /\ p0'.changed = b
  BY DEF Scans

\* Where main puts the next worker, and that it becomes worker 0 at last.
LEMMA PlaceCases ==
  ASSUME Placement, PlaceWorker
  PROVE  /\ main.at = "workers" /\ UNCHANGED <<mc_cpu_sched, arpVars>>
         /\ \/ /\ main'.at = "run" /\ worker' = [worker EXCEPT ![0] = 0]
               /\ on' = on \/ on' = [on EXCEPT ![0] = 0]
            \/ main'.at = "exit" /\ UNCHANGED <<worker, on>>
            \/ \E i, cpu :
                 /\ main'.at = "workers" /\ on' = on
                 /\ worker' = [worker EXCEPT ![i] = cpu]
                 /\ \/ cpu = 0 /\ <<i, i>> \notin mc_cpu_sched
                    \/ cpu = i /\ <<i, i>> \in mc_cpu_sched
<1>1. main.at = "workers" /\ UNCHANGED <<mc_cpu_sched, arpVars>>
  BY DEF PlaceWorker
<1>2. CASE main.todo = {}
  BY <1>1, <1>2, SMT DEF PlaceWorker, Begin, MainGoto
<1>3. CASE main.todo # {}
  <2>1. CASE MainGoto("exit", {}) /\ UNCHANGED <<worker, starting>>
    BY <1>1, <1>3, <2>1 DEF PlaceWorker, MainGoto
  <2>2. ASSUME NEW cpu \in IF Scheds(First) = {} THEN {0}
                           ELSE Scheds(First),
               worker' = [worker EXCEPT ![First] = cpu],
               MainGoto("workers", Rest)
        PROVE  \E i, cp :
                 /\ main'.at = "workers" /\ on' = on
                 /\ worker' = [worker EXCEPT ![i] = cp]
                 /\ \/ cp = 0 /\ <<i, i>> \notin mc_cpu_sched
                    \/ cp = i /\ <<i, i>> \in mc_cpu_sched
    <3> DEFINE i == First
    <3>1. \A x \in Scheds(i) : x = i /\ <<i, i>> \in mc_cpu_sched
      BY SMT DEF Scheds, Placement
    <3>2. <<i, i>> \in mc_cpu_sched => i \in Scheds(i)
      BY SMT DEF Scheds
    <3>3. main'.at = "workers" /\ on' = on
      BY <1>3, <2>2 DEF PlaceWorker, MainGoto
    <3> QED BY <2>2, <3>1, <3>2, <3>3
  <2> QED BY <1>1, <1>3, <2>1, <2>2 DEF PlaceWorker
<1> QED BY <1>2, <1>3

\* The entry a worker copies exists, and its CPU has a table.
LEMMA CopyType ==
  ASSUME CoresTypeOK, CoresInv, NEW c \in Secondaries, pc[c] = "copy"
  PROVE  /\ got[c] \in Nat /\ count[c] \in Nat /\ got[c] + 1 <= count[c]
         /\ Len(pub.entries) \in Nat /\ got[c] + 1 \in DOMAIN pub.entries
         /\ pub.entries[got[c] + 1] \in Entry
         /\ worker[c] \in {c, 0} /\ worker[c] \in Cores
<1>1. pub.entries \in Seq(Entry)
  BY DEF CoresTypeOK, Pubs
<1>2. /\ got[c] \in Nat /\ count[c] \in Nat /\ got[c] < count[c]
      /\ count[c] <= Len(pub.entries)
  BY DEF CoresInv, Adopting, AdoptOK
<1>3. worker[c] # None /\ worker[c] \in {None, c, 0} /\ c \in Cores /\ 0 \in Cores
  BY SMT DEF CoresInv, Activity, Placement, Running, Secondaries, Cores
<1> QED BY <1>1, <1>2, <1>3, SMT

-----------------------------------------------------------------------------
(* Types *)

\* Every step keeps the types.
LEMMA CoresTypeStep ==
  ASSUME CoresTypeOK, CoresInv, [Next]_vars
  PROVE  CoresTypeOK'
<1> USE FirstMacType DEF CoresTypeOK, bootVars, tabVars, coreVars, netVars, arpVars,
MainGoto
<1>1. CASE UNCHANGED vars
  BY <1>1 DEF vars
<1>2. ASSUME StartCores PROVE CoresTypeOK'
  BY <1>2 DEF StartCores
<1>3. ASSUME WaitForCore PROVE CoresTypeOK'
  BY <1>3 DEF WaitForCore
<1>4. ASSUME ResolveGateway PROVE CoresTypeOK'
  <2>1. Gateway # None => <<[ip |-> Gateway, mac |-> FirstMac]>> \in Seq(Entry)
    BY SMT DEF Entry
  <2>2. pub' \in Pubs
    <3>1. CASE UNCHANGED pub
      BY <3>1
    <3>2. CASE Gateway # None /\ pub' = [entries |-> <<[ip |-> Gateway, mac |-> FirstMac]>>,
                                        version |-> 1]
      BY <2>1, <3>2 DEF Pubs
    <3> QED BY <1>4, <3>1, <3>2 DEF ResolveGateway
  <2>3. arp_table' \in Tables
    <3>1. 0 \in Cores
      BY SMT DEF Cores
    <3> QED BY <1>4, <3>1, TableWrite DEF ResolveGateway
  <2> QED BY <1>4, <2>2, <2>3 DEF ResolveGateway, ToWorkers
<1>5. ASSUME PlaceWorker PROVE CoresTypeOK'
  <2>0. 0 \in Cores
    BY SMT DEF Cores
  <2>1. worker' \in [Cores -> Cores \cup {None}] /\ on' \in [Cores -> Cores \cup {None}]
    <3>1. ASSUME NEW i, NEW cpu \in {0, i}, worker' = [worker EXCEPT ![i] = cpu], on' = on
          PROVE  worker' \in [Cores -> Cores \cup {None}]
      BY <2>0, <3>1
    <3>2. CASE worker' = [worker EXCEPT ![0] = 0] /\ (on' = on \/ on' = [on EXCEPT ![0] = 0])
      BY <2>0, <3>2
    <3>3. CASE UNCHANGED <<worker, on>>
      BY <3>3
    <3> QED BY <1>5, PlaceCases, <3>1, <3>2, <3>3 DEF CoresInv
  <2>2. UNCHANGED arpVars
    BY <1>5, PlaceCases DEF CoresInv
  <2> QED BY <2>1, <2>2
<1>6. ASSUME PublishStart PROVE CoresTypeOK'
  <2>1. p0' \in Scans
    BY <1>6, ScanType DEF PublishStart, Scans
  <2> QED BY <1>6, <2>1 DEF PublishStart
<1>7. ASSUME PublishRequest PROVE CoresTypeOK'
  <2>1. p0' \in Scans
    BY <1>7, ScanType DEF PublishRequest
  <2> QED BY <1>7, <2>1 DEF PublishRequest
<1>8. ASSUME PublishEnd PROVE CoresTypeOK'
  <2>1. p0' \in Scans
    BY <1>8 DEF PublishEnd, Scans
  <2>2. pub' \in Pubs
    BY <1>8, PubRaise DEF PublishEnd
  <2> QED BY <1>8, <2>1, <2>2 DEF PublishEnd
<1>9. ASSUME NEW ip \in Ips, PublishEntry(ip) PROVE CoresTypeOK'
  <2>0. p0.changed \in BOOLEAN
    BY DEF Scans
  <2>1. p0' \in Scans
    <3>1. \/ UNCHANGED p0
          \/ \E b \in {TRUE, p0.changed} :
               p0' = [p0 EXCEPT !.todo = p0.todo \ {ip}, !.changed = b]
      BY <1>9 DEF PublishEntry, Updated
    <3> QED BY <2>0, <3>1, ScanDone
  <2>2. arp_table[0][ip] \in Macs \cup {None, Torn}
    BY SMT DEF Tables, Cores
  <2>3. pub' \in Pubs
    <3>1. [ip |-> ip, mac |-> arp_table[0][ip]] \in Entry
      BY <2>2 DEF Entry
    <3>2. \/ UNCHANGED pub
          \/ pub' = [pub EXCEPT !.entries = Append(pub.entries, [ip |-> ip, mac |-> arp_table[0][ip]])]
          \/ \E j \in DOMAIN pub.entries : \E m \in {Torn, arp_table[0][ip]} :
               pub' = [pub EXCEPT !.entries[j].mac = m]
      BY <1>9 DEF PublishEntry, Positions
    <3> QED BY <2>2, <3>1, <3>2, PubAppend, PubRewrite
  <2> QED BY <1>9, <2>1, <2>3 DEF PublishEntry
<1>10. ASSUME NEW c \in Secondaries, SecondaryEntry(c) PROVE CoresTypeOK'
  BY <1>10 DEF SecondaryEntry, PublishesAt
<1>11. ASSUME NEW c \in Secondaries, StartWorker(c) PROVE CoresTypeOK'
  <2>1. c \in Cores
    BY SMT DEF Cores, Secondaries
  <2> QED BY <1>11, <2>1 DEF StartWorker, Begin
<1>12. ASSUME NEW c \in Secondaries, AdoptStart(c) PROVE CoresTypeOK'
  <2>1. pub.version \in Nat
    BY DEF Pubs
  <2> QED BY <1>12, <2>1 DEF AdoptStart, Compare, Seen
<1>13. ASSUME NEW c \in Secondaries, AdoptLoad(c) PROVE CoresTypeOK'
  BY <1>13 DEF AdoptLoad
<1>14. ASSUME NEW c \in Secondaries, AdoptStore(c) PROVE CoresTypeOK'
  <2>1. pub.version \in Nat
    BY DEF Pubs
  <2> QED BY <1>14, <2>1 DEF AdoptStore, Compare, Seen
<1>15. ASSUME NEW c \in Secondaries, AdoptCount(c) PROVE CoresTypeOK'
  BY <1>15 DEF AdoptCount, Copied
<1>16. ASSUME NEW c \in Secondaries, AdoptEntry(c) PROVE CoresTypeOK'
  <2>1. pub.entries[got[c] + 1] \in Entry /\ worker[c] \in Cores
    BY <1>16, CopyType DEF AdoptEntry
  <2>2. arp_table' \in Tables
    BY <1>16, <2>1, TableWrite DEF AdoptEntry, Entry
  <2> QED BY <1>16, <2>2 DEF AdoptEntry, Copied
<1>17. ASSUME NEW c \in Secondaries, NEW ip \in Ips, AdoptPost(c, ip) PROVE CoresTypeOK'
  BY <1>17 DEF AdoptPost
<1>18. ASSUME NEW ip \in Ips, Reply(ip) PROVE CoresTypeOK'
  <2>1. arp_table[0][ip] \in Macs \cup {None, Torn} /\ 0 \in Cores
    BY SMT DEF Tables, Cores
  <2>2. arp_table' \in Tables
    BY <1>18, <2>1, TableWrite DEF Reply, Receive
  <2> QED BY <1>18, <2>2 DEF Reply, Receive
<1>19. ASSUME NEW ip \in Ips, Lose(ip) PROVE CoresTypeOK'
  BY <1>19 DEF Lose
<1>20. ASSUME NEW ip \in Ips, Change(ip) PROVE CoresTypeOK'
  <2>1. 0 \in Cores
    BY SMT DEF Cores
  <2>2. arp_table' \in Tables
    BY <1>20, <2>1, TableWrite DEF Change, Receive
  <2> QED BY <1>20, <2>2 DEF Change, Receive
<1>21. ASSUME NEW c \in Secondaries, NEW ip \in Ips, Flow(c, ip) PROVE CoresTypeOK'
  BY <1>21 DEF Flow
<1> QED
  <2> HIDE DEF CoresTypeOK, bootVars, tabVars, coreVars, netVars, arpVars, MainGoto
  <2> QED BY <1>1, <1>2, <1>3, <1>4, <1>5, <1>6, <1>7, <1>8, <1>9, <1>10, <1>11, <1>12,
             <1>13, <1>14, <1>15, <1>16, <1>17, <1>18, <1>19, <1>20, <1>21 DEF Next, Main,
             Publish, Thread

-----------------------------------------------------------------------------
(* The workers *)

\* Every step keeps the workers on their CPUs.
LEMMA PlacementStep ==
  ASSUME CoresTypeOK, Placement, [Next]_vars
  PROVE  Placement'
<1> USE DEF CoresTypeOK, Placement, Cores, Secondaries, bootVars, tabVars, coreVars,
netVars, arpVars, MainGoto
<1>1. CASE UNCHANGED vars
  BY <1>1 DEF vars
<1>2. ASSUME StartCores PROVE Placement'
  BY <1>2 DEF StartCores
<1>3. ASSUME WaitForCore PROVE Placement'
  BY <1>3 DEF WaitForCore
<1>4. ASSUME ResolveGateway PROVE Placement'
  BY <1>4 DEF ResolveGateway, ToWorkers
<1>5. ASSUME PlaceWorker PROVE Placement'
  <2>1. ASSUME NEW i, NEW cpu, worker' = [worker EXCEPT ![i] = cpu],
               \/ cpu = 0 /\ <<i, i>> \notin mc_cpu_sched
               \/ cpu = i /\ <<i, i>> \in mc_cpu_sched
        PROVE  /\ \A x \in Cores : worker'[x] \in {None, x, 0}
               /\ \A x \in Secondaries : worker'[x] = x => <<x, x>> \in mc_cpu_sched
    <3>1. \A x \in Cores : worker'[x] = IF x = i THEN cpu ELSE worker[x]
      BY <2>1
    <3>2. \A x \in Secondaries : x \in Cores /\ x # 0
      BY SMT
    <3> QED BY <2>1, <3>1, <3>2, ZenonT(30)
  <2>2. ASSUME worker' = [worker EXCEPT ![0] = 0]
        PROVE  /\ \A x \in Cores : worker'[x] \in {None, x, 0}
               /\ \A x \in Secondaries : worker'[x] = x => <<x, x>> \in mc_cpu_sched
    BY <2>2, SMT
  <2>3. /\ \A x \in Cores : worker'[x] \in {None, x, 0}
        /\ \A x \in Secondaries : worker'[x] = x => <<x, x>> \in mc_cpu_sched
    <3> HIDE DEF Cores, Secondaries
    <3> QED BY <1>5, PlaceCases, <2>1, <2>2
  <2>4. main'.at # "run" => on'[0] = None
    BY <1>5, PlaceCases
  <2>5. mc_cpu_sched' = mc_cpu_sched
    BY <1>5, PlaceCases
  <2> QED BY <2>3, <2>4, <2>5
<1>6. ASSUME PublishStart PROVE Placement'
  BY <1>6 DEF PublishStart, ScanOrEnd, News
<1>7. ASSUME PublishRequest PROVE Placement'
  BY <1>7 DEF PublishRequest, ScanOrEnd, News
<1>8. ASSUME PublishEnd PROVE Placement'
  BY <1>8 DEF PublishEnd
<1>9. ASSUME NEW ip \in Ips, PublishEntry(ip) PROVE Placement'
  BY <1>9 DEF PublishEntry, Positions, Updated
<1>10. ASSUME NEW c \in Secondaries, SecondaryEntry(c) PROVE Placement'
  BY <1>10 DEF SecondaryEntry, PublishesAt
<1>11. ASSUME NEW c \in Secondaries, StartWorker(c) PROVE Placement'
  <2>1. worker[c] \in {c, 0} /\ (worker[c] = 0 => main.at = "run")
    BY <1>11, SMT DEF StartWorker
  <2>2. UNCHANGED <<main, mc_cpu_sched, worker>>
    BY <1>11 DEF StartWorker
  <2>3. main.at # "run" => on'[0] = None
    BY <1>11, <2>1, SMT DEF StartWorker, Begin
  <2> QED BY <2>2, <2>3
<1>12. ASSUME NEW c \in Secondaries, AdoptStart(c) PROVE Placement'
  BY <1>12 DEF AdoptStart, Compare, Seen
<1>13. ASSUME NEW c \in Secondaries, AdoptLoad(c) PROVE Placement'
  BY <1>13 DEF AdoptLoad
<1>14. ASSUME NEW c \in Secondaries, AdoptStore(c) PROVE Placement'
  BY <1>14 DEF AdoptStore, Compare, Seen
<1>15. ASSUME NEW c \in Secondaries, AdoptCount(c) PROVE Placement'
  BY <1>15 DEF AdoptCount, Copied
<1>16. ASSUME NEW c \in Secondaries, AdoptEntry(c) PROVE Placement'
  BY <1>16 DEF AdoptEntry, Copied
<1>17. ASSUME NEW c \in Secondaries, NEW ip \in Ips, AdoptPost(c, ip) PROVE Placement'
  BY <1>17 DEF AdoptPost
<1>18. ASSUME NEW ip \in Ips, Reply(ip) PROVE Placement'
  BY <1>18 DEF Reply, Receive
<1>19. ASSUME NEW ip \in Ips, Lose(ip) PROVE Placement'
  BY <1>19 DEF Lose
<1>20. ASSUME NEW ip \in Ips, Change(ip) PROVE Placement'
  BY <1>20 DEF Change, Receive
<1>21. ASSUME NEW c \in Secondaries, NEW ip \in Ips, Flow(c, ip) PROVE Placement'
  BY <1>21 DEF Flow
<1> QED
  <2> HIDE DEF CoresTypeOK, Placement, Cores, Secondaries, bootVars, tabVars, coreVars,
  netVars, arpVars, MainGoto
  <2> QED BY <1>1, <1>2, <1>3, <1>4, <1>5, <1>6, <1>7, <1>8, <1>9, <1>10, <1>11, <1>12,
             <1>13, <1>14, <1>15, <1>16, <1>17, <1>18, <1>19, <1>20, <1>21 DEF Next, Main,
             Publish, Thread

\* A worker that listens may go on adopting.
LEMMA AdoptActivity ==
  ASSUME Placement, Activity, NEW c \in Secondaries, Running(c),
         UNCHANGED <<main, worker, on, p0, pub>>,
         \A d \in Secondaries :
           d # c => pc'[d] = pc[d] /\ mc_arp_seen'[d] = mc_arp_seen[d]
  PROVE  Activity'
<1>1. Running(c)' /\ \A d \in Secondaries : Running(d) => Running(d)'
  BY DEF Running
<1>2. main.at # "run" => worker[c] = c
  BY SMT DEF Placement, Running, Cores, Secondaries
<1>3. \A d \in Secondaries : pc'[d] # "idle" => Running(d)'
  BY <1>1 DEF Activity
<1>4. \A d \in Secondaries : main.at # "run" /\ worker[d] # d => mc_arp_seen'[d] = 0
  BY <1>2 DEF Activity
<1> QED BY <1>3, <1>4 DEF Activity

\* Every step keeps the work with the workers that listen.
LEMMA ActivityStep ==
  ASSUME CoresTypeOK, CoresInv, [Next]_vars
  PROVE  Activity'
<1> USE DEF CoresTypeOK, Placement, Activity, Running, Cores, Secondaries, bootVars,
tabVars, coreVars, netVars, arpVars, MainGoto
<1>0. Placement /\ Activity
  BY DEF CoresInv
<1>1. CASE UNCHANGED vars
  BY <1>0, <1>1 DEF vars
<1>2. ASSUME StartCores PROVE Activity'
  BY <1>0, <1>2 DEF StartCores
<1>3. ASSUME WaitForCore PROVE Activity'
  BY <1>0, <1>3 DEF WaitForCore
<1>4. ASSUME ResolveGateway PROVE Activity'
  BY <1>0, <1>4 DEF ResolveGateway, ToWorkers
<1>5. ASSUME PlaceWorker PROVE Activity'
  <2>1. \A x \in Cores : on[x] # None => on'[x] = on[x]
    BY <1>0, <1>5, PlaceCases, ZenonT(30)
  <2>2. \A x \in Secondaries : worker[x] = x => worker'[x] = x
    <3> SUFFICES ASSUME NEW x \in Secondaries, worker[x] = x PROVE worker'[x] = x
      OBVIOUS
    <3>1. x # 0 /\ x \in Cores /\ <<x, x>> \in mc_cpu_sched
      BY <1>0, <1>0, SMT
    <3>2. ASSUME NEW i, NEW cpu, worker' = [worker EXCEPT ![i] = cpu],
                 \/ cpu = 0 /\ <<i, i>> \notin mc_cpu_sched
                 \/ cpu = i /\ <<i, i>> \in mc_cpu_sched
          PROVE  worker'[x] = x
      BY <3>1, <3>2
    <3>3. CASE worker' = [worker EXCEPT ![0] = 0]
      BY <3>1, <3>3
    <3> QED
      <4> HIDE DEF Cores, Secondaries, Placement, Activity, CoresTypeOK, Running
      <4> QED BY <1>0, <1>5, <3>2, <3>3, PlaceCases
  <2>3. main'.at \notin {"start", "online"} /\ main.at = "workers" /\ UNCHANGED arpVars
    BY <1>0, <1>5, PlaceCases
  <2>4. \A x \in Secondaries : Running(x) => worker[x] = x /\ x \in Cores
    BY <1>0, <1>0, <2>3, SMT
  <2>5. \A x \in Secondaries : Running(x) => Running(x)'
    BY <2>1, <2>2, <2>4
  <2>6. p0.at # "idle" => on'[0] = 0
    BY <1>0, <1>0, <2>1, SMT
  <2> QED BY <1>0, <1>0, <2>2, <2>3, <2>5, <2>6
<1>6. ASSUME PublishStart PROVE Activity'
  BY <1>0, <1>6 DEF PublishStart, ScanOrEnd, News
<1>7. ASSUME PublishRequest PROVE Activity'
  BY <1>0, <1>7 DEF PublishRequest, ScanOrEnd, News
<1>8. ASSUME PublishEnd PROVE Activity'
  BY <1>0, <1>8, SMT DEF PublishEnd
<1>9. ASSUME NEW ip \in Ips, PublishEntry(ip) PROVE Activity'
  BY <1>0, <1>9, SMT DEF PublishEntry, Positions, Updated
<1>10. ASSUME NEW c \in Secondaries, SecondaryEntry(c) PROVE Activity'
  BY <1>0, <1>10 DEF SecondaryEntry, PublishesAt
<1>11. ASSUME NEW c \in Secondaries, StartWorker(c) PROVE Activity'
  <2>1. worker[c] \in {c, 0} /\ on[worker[c]] = None /\ worker' = worker
        /\ UNCHANGED <<main, arpVars>>
    BY <1>0, <1>11, SMT DEF StartWorker
  <2>2. \A x \in Cores : on[x] # None => on'[x] = on[x]
    BY <1>0, <1>11, <2>1 DEF StartWorker, Begin
  <2> QED BY <1>0, <1>0, <2>1, <2>2, SMT
<1>12. ASSUME NEW c \in Secondaries, AdoptStart(c) PROVE Activity'
  <2>1. Running(c) /\ UNCHANGED <<main, worker, on, p0, pub>>
    BY <1>0, <1>12 DEF AdoptStart
  <2>2. \A d \in Secondaries :
          d # c => pc'[d] = pc[d] /\ mc_arp_seen'[d] = mc_arp_seen[d]
    BY <1>12 DEF AdoptStart, Compare
  <2> HIDE DEF Placement, Activity, Running, Secondaries
  <2> QED BY <1>0, <2>1, <2>2, AdoptActivity
<1>13. ASSUME NEW c \in Secondaries, AdoptLoad(c) PROVE Activity'
  BY <1>0, <1>13 DEF AdoptLoad
<1>14. ASSUME NEW c \in Secondaries, AdoptStore(c) PROVE Activity'
  <2>1. Running(c) /\ UNCHANGED <<main, worker, on, p0, pub>>
    BY <1>0, <1>14 DEF AdoptStore
  <2>2. \A d \in Secondaries :
          d # c => pc'[d] = pc[d] /\ mc_arp_seen'[d] = mc_arp_seen[d]
    BY <1>14 DEF AdoptStore, Compare
  <2> HIDE DEF Placement, Activity, Running, Secondaries
  <2> QED BY <1>0, <2>1, <2>2, AdoptActivity
<1>15. ASSUME NEW c \in Secondaries, AdoptCount(c) PROVE Activity'
  BY <1>0, <1>15 DEF AdoptCount, Copied
<1>16. ASSUME NEW c \in Secondaries, AdoptEntry(c) PROVE Activity'
  BY <1>0, <1>16 DEF AdoptEntry, Copied
<1>17. ASSUME NEW c \in Secondaries, NEW ip \in Ips, AdoptPost(c, ip) PROVE Activity'
  BY <1>0, <1>17 DEF AdoptPost
<1>18. ASSUME NEW ip \in Ips, Reply(ip) PROVE Activity'
  BY <1>0, <1>18 DEF Reply, Receive
<1>19. ASSUME NEW ip \in Ips, Lose(ip) PROVE Activity'
  BY <1>0, <1>19 DEF Lose
<1>20. ASSUME NEW ip \in Ips, Change(ip) PROVE Activity'
  BY <1>0, <1>20 DEF Change, Receive
<1>21. ASSUME NEW c \in Secondaries, NEW ip \in Ips, Flow(c, ip) PROVE Activity'
  BY <1>0, <1>21 DEF Flow
<1> QED
  <2> HIDE DEF CoresTypeOK, Placement, Activity, Running, Cores, Secondaries, bootVars,
  tabVars, coreVars, netVars, arpVars, MainGoto
  <2> QED BY <1>0, <1>1, <1>2, <1>3, <1>4, <1>5, <1>6, <1>7, <1>8, <1>9, <1>10, <1>11,
             <1>12, <1>13, <1>14, <1>15, <1>16, <1>17, <1>18, <1>19, <1>20, <1>21 DEF Next,
             Main, Publish, Thread

-----------------------------------------------------------------------------
(* mc_arp_pub *)

\* Every step keeps what is published whole or in work.
LEMMA PublishedStep ==
  ASSUME CoresTypeOK, CoresInv, [Next]_vars
  PROVE  Published'
<1> USE DEF Published, Publishing, bootVars, tabVars, coreVars, netVars, arpVars, MainGoto
<1>0. CoresTypeOK /\ Published /\ Activity /\ Placement
  BY DEF CoresInv
<1>1. CASE UNCHANGED vars
  BY <1>0, <1>1 DEF vars
<1>2. ASSUME StartCores PROVE Published'
  BY <1>0, <1>2 DEF StartCores
<1>3. ASSUME WaitForCore PROVE Published'
  BY <1>0, <1>3 DEF WaitForCore
<1>4. ASSUME ResolveGateway PROVE Published'
  <2>1. main.at = "online" /\ UNCHANGED p0
    BY <1>0, <1>4 DEF ResolveGateway
  <2>2. CASE UNCHANGED <<arp_table, pub>>
    BY <1>0, <2>1, <2>2
  <2>3. ASSUME Gateway # None, arp_table' = [arp_table EXCEPT ![0][Gateway] = FirstMac],
               pub' = [entries |-> <<[ip |-> Gateway, mac |-> FirstMac]>>, version |-> 1]
        PROVE  Published'
    <3>1. DOMAIN pub'.entries = {1} /\ pub'.entries[1].mac = FirstMac /\ pub'.version = 1
      BY <2>3, SMT
    <3>2. \A x \in Ips : arp_table'[0][x] # Torn
      <4>1. 0 \in Cores
        BY SMT DEF Cores
      <4> QED BY <1>0, <2>3, <4>1, FirstMacType, TableWrite, SMT DEF CoresTypeOK
    <3> QED BY <3>1, <3>2, FirstMacType, SMT
  <2> QED BY <1>0, <1>4, <2>2, <2>3 DEF ResolveGateway
<1>5. ASSUME PlaceWorker PROVE Published'
  BY <1>0, <1>5 DEF PlaceWorker, Begin
<1>6. ASSUME PublishStart PROVE Published'
  <2>1. p0.at = "idle" /\ UNCHANGED <<arp_table, pub>>
    BY <1>0, <1>6 DEF PublishStart
  <2>2. p0'.at = "scan" => p0'.changed = FALSE
    BY <1>0, <1>6, ScanType DEF PublishStart, CoresTypeOK, Scans
  <2> QED BY <1>0, <2>1, <2>2
<1>7. ASSUME PublishRequest PROVE Published'
  <2>1. p0.at = "request" /\ UNCHANGED <<arp_table, pub>>
    BY <1>0, <1>7 DEF PublishRequest
  <2>2. p0'.at = "scan" => p0'.changed = FALSE
    BY <1>0, <1>7, ScanType DEF PublishRequest
  <2> QED BY <1>0, <2>1, <2>2
<1>8. ASSUME PublishEnd PROVE Published'
  <2>1. p0.at = "scan" /\ p0.todo = {} /\ UNCHANGED arp_table
    BY <1>0, <1>8 DEF PublishEnd
  <2>2. p0'.at = "idle"
    BY <1>0, <1>8 DEF PublishEnd, CoresTypeOK, Scans
  <2>3. /\ pub'.entries = pub.entries /\ pub.version \in Nat
        /\ IF p0.changed THEN pub'.version = pub.version + 1 ELSE pub'.version = pub.version
    BY <1>0, <1>8, PubRaise DEF PublishEnd, CoresTypeOK, Pubs
  <2> QED BY <1>0, <2>1, <2>2, <2>3, SMT
<1>9. ASSUME NEW ip \in Ips, PublishEntry(ip) PROVE Published'
  <2> DEFINE mac == arp_table[0][ip]
  <2>1. p0.at = "scan" /\ UNCHANGED arp_table /\ p0.changed \in BOOLEAN
        /\ pub \in Pubs /\ p0 \in Scans
    BY <1>0, <1>9 DEF PublishEntry, CoresTypeOK, Scans
  <2>2. mac \in Macs \cup {None, Torn} /\ mac # Torn
    BY <1>0, SMT DEF CoresTypeOK, Tables, Cores
  <2>3. [ip |-> ip, mac |-> mac] \in Entry
    BY <2>2 DEF Entry
  <2> HIDE DEF mac
  <2>4. ASSUME Positions(ip) = {},
               pub' = [pub EXCEPT !.entries = Append(pub.entries, [ip |-> ip, mac |-> mac])],
               p0' = [p0 EXCEPT !.todo = p0.todo \ {ip}, !.changed = TRUE]
        PROVE  Published'
    <3>1. p0'.at = "scan" /\ p0'.todo = p0.todo \ {ip} /\ p0'.changed = TRUE
      BY <2>1, <2>4, ScanDone
    <3>2. /\ pub'.version = pub.version
          /\ Len(pub.entries) \in Nat
          /\ DOMAIN pub.entries = 1 .. Len(pub.entries)
          /\ DOMAIN pub'.entries = 1 .. Len(pub.entries) + 1
          /\ pub'.entries[Len(pub.entries) + 1] = [ip |-> ip, mac |-> mac]
          /\ \A k \in DOMAIN pub.entries : pub'.entries[k] = pub.entries[k]
      BY <2>1, <2>3, <2>4, PubAppend
    <3>3. \A k \in DOMAIN pub.entries : pub.entries[k].ip # ip
      BY <2>4 DEF Positions
    <3>4. \A j, k \in DOMAIN pub'.entries : pub'.entries[j].ip = pub'.entries[k].ip => j = k
      <4>1. \A j, k \in DOMAIN pub.entries : pub'.entries[j].ip = pub'.entries[k].ip => j = k
        BY <1>0, <3>2 DEF Published
      <4>2. pub'.entries[Len(pub.entries) + 1].ip = ip
        BY <3>2, SMT
      <4>3. \A k \in DOMAIN pub.entries : pub'.entries[k].ip # ip
        BY <3>2, <3>3
      <4>4. DOMAIN pub'.entries = DOMAIN pub.entries \cup {Len(pub.entries) + 1}
        BY <3>2, SMT
      <4> QED BY <4>1, <4>2, <4>3, <4>4
    <3>5. \A j \in DOMAIN pub'.entries :
            pub'.entries[j].mac = Torn => pub'.entries[j].ip \in p0'.todo
      BY <1>0, <2>2, <3>1, <3>2, <3>3, SMT
    <3> QED BY <1>0, <2>1, <3>1, <3>4, <3>5
  <2>5. ASSUME Positions(ip) = {}, UNCHANGED pub,
               p0' = [p0 EXCEPT !.todo = p0.todo \ {ip}, !.changed = p0.changed]
        PROVE  Published'
    <3>1. p0'.at = "scan" /\ p0'.todo = p0.todo \ {ip} /\ p0'.changed = p0.changed
      BY <2>1, <2>5, ScanDone
    <3>2. \A k \in DOMAIN pub.entries : pub.entries[k].ip # ip
      BY <2>5 DEF Positions
    <3> QED BY <1>0, <2>1, <2>5, <3>1, <3>2
  <2>6. ASSUME NEW j \in Positions(ip), pub' = [pub EXCEPT !.entries[j].mac = Torn],
               UNCHANGED p0
        PROVE  Published'
    <3>1. j \in DOMAIN pub.entries /\ pub.entries[j].ip = ip /\ ip \in p0.todo
      BY <1>0, <1>9, <2>6 DEF Positions, PublishEntry
    <3>2. /\ pub'.version = pub.version /\ DOMAIN pub'.entries = DOMAIN pub.entries
          /\ pub'.entries[j].mac = Torn /\ pub'.entries[j].ip = ip
          /\ \A k \in DOMAIN pub.entries : k # j => pub'.entries[k] = pub.entries[k]
      BY <2>1, <2>6, <3>1, PubRewrite
    <3>3. pub.version = 0 => Publishing
      BY <1>0, <3>1, SMT
    <3> QED BY <1>0, <2>1, <2>6, <3>1, <3>2, <3>3, SMT
  <2>7. ASSUME NEW j \in Positions(ip), pub' = [pub EXCEPT !.entries[j].mac = mac],
               p0' = [p0 EXCEPT !.todo = p0.todo \ {ip}, !.changed = TRUE]
        PROVE  Published'
    <3>1. j \in DOMAIN pub.entries /\ pub.entries[j].ip = ip
      BY <2>7 DEF Positions
    <3>2. /\ pub'.version = pub.version /\ DOMAIN pub'.entries = DOMAIN pub.entries
          /\ pub'.entries[j].mac = mac /\ pub'.entries[j].ip = ip
          /\ \A k \in DOMAIN pub.entries : k # j => pub'.entries[k] = pub.entries[k]
      BY <2>1, <2>2, <2>7, <3>1, PubRewrite
    <3>3. p0'.at = "scan" /\ p0'.todo = p0.todo \ {ip} /\ p0'.changed = TRUE
      BY <2>1, <2>7, ScanDone
    <3> QED BY <1>0, <2>1, <2>2, <3>1, <3>2, <3>3, SMT
  <2> QED BY <1>0, <1>9, <2>4, <2>5, <2>6, <2>7 DEF PublishEntry, Updated, mac
<1>10. ASSUME NEW c \in Secondaries, SecondaryEntry(c) PROVE Published'
  BY <1>0, <1>10 DEF SecondaryEntry, PublishesAt
<1>11. ASSUME NEW c \in Secondaries, StartWorker(c) PROVE Published'
  BY <1>0, <1>11 DEF StartWorker, Begin
<1>12. ASSUME NEW c \in Secondaries, AdoptStart(c) PROVE Published'
  BY <1>0, <1>12 DEF AdoptStart, Compare, Seen
<1>13. ASSUME NEW c \in Secondaries, AdoptLoad(c) PROVE Published'
  BY <1>0, <1>13 DEF AdoptLoad
<1>14. ASSUME NEW c \in Secondaries, AdoptStore(c) PROVE Published'
  BY <1>0, <1>14 DEF AdoptStore, Compare, Seen
<1>15. ASSUME NEW c \in Secondaries, AdoptCount(c) PROVE Published'
  BY <1>0, <1>15 DEF AdoptCount, Copied
<1>16. ASSUME NEW c \in Secondaries, AdoptEntry(c) PROVE Published'
  <2> DEFINE e == pub.entries[got[c] + 1]
  <2>1. /\ pc[c] = "copy" /\ arp_table' = [arp_table EXCEPT ![worker[c]][e.ip] = e.mac]
        /\ UNCHANGED <<pub, p0>>
    BY <1>0, <1>16 DEF AdoptEntry
  <2>2. e \in Entry /\ worker[c] \in Cores /\ got[c] + 1 \in DOMAIN pub.entries /\ 0 \in Cores
    BY <2>1, CopyType, SMT DEF Cores
  <2>3. worker[c] = 0 => p0.at = "idle"
    BY <1>0, <2>1, SMT DEF Activity, Running, Secondaries
  <2>4. worker[c] = 0 => e.mac # Torn
    BY <1>0, <2>2, <2>3
  <2>5. e.ip \in Ips /\ e.mac \in Macs \cup {None, Torn}
    BY <2>2 DEF Entry
  <2> HIDE DEF e
  <2>6. \A x \in Ips : arp_table'[0][x] # Torn
    BY <1>0, <2>1, <2>2, <2>4, <2>5, TableWrite, SMT DEF CoresTypeOK
  <2> QED BY <1>0, <2>1, <2>6
<1>17. ASSUME NEW c \in Secondaries, NEW ip \in Ips, AdoptPost(c, ip) PROVE Published'
  BY <1>0, <1>17 DEF AdoptPost
<1>18. ASSUME NEW ip \in Ips, Reply(ip) PROVE Published'
  <2>0. 0 \in Cores
    BY SMT DEF Cores
  <2>1. arp_table[0][ip] \in Macs \cup {None, Torn} /\ 0 \in Cores
    BY <1>0, <2>0, SMT DEF CoresTypeOK, Tables
  <2>2. \A x \in Ips : arp_table'[0][x] # Torn
    BY <1>0, <1>18, <2>1, TableWrite, FirstMacType, SMT DEF Reply, Receive, CoresTypeOK
  <2> QED BY <1>0, <1>18, <2>2 DEF Reply, Receive
<1>19. ASSUME NEW ip \in Ips, Lose(ip) PROVE Published'
  BY <1>0, <1>19 DEF Lose
<1>20. ASSUME NEW ip \in Ips, Change(ip) PROVE Published'
  <2>1. 0 \in Cores
    BY SMT DEF Cores
  <2>2. \A x \in Ips : arp_table'[0][x] # Torn
    BY <1>0, <1>20, <2>1, TableWrite, FirstMacType, SMT DEF Change, Receive, CoresTypeOK
  <2> QED BY <1>0, <1>20, <2>2 DEF Change, Receive
<1>21. ASSUME NEW c \in Secondaries, NEW ip \in Ips, Flow(c, ip) PROVE Published'
  BY <1>0, <1>21 DEF Flow
<1> QED
  <2> HIDE DEF Published, Publishing, bootVars, tabVars, coreVars, netVars, arpVars,
  MainGoto
  <2> QED BY <1>0, <1>1, <1>2, <1>3, <1>4, <1>5, <1>6, <1>7, <1>8, <1>9, <1>10, <1>11,
             <1>12, <1>13, <1>14, <1>15, <1>16, <1>17, <1>18, <1>19, <1>20, <1>21,
             Zenon DEF Next, Main, Publish, Thread

-----------------------------------------------------------------------------
(* Adopting *)

\* A step that leaves a worker, its table and mc_arp_pub alone, and that core 0
\* takes outside its scan if it takes one.
LEMMA AdoptFrame ==
  ASSUME NEW c \in Secondaries, AdoptOK(c), UNCHANGED pub, p0' = p0 \/ p0.at # "scan",
         worker'[c] = worker[c], mc_arp_seen'[c] = mc_arp_seen[c],
         arp_table'[c] = arp_table[c],
         \/ pc'[c] = pc[c] /\ got'[c] = got[c] /\ count'[c] = count[c]
         \/ pc[c] \notin {"count", "copy"} /\ pc'[c] \notin {"count", "copy"}
  PROVE  AdoptOK(c)'
  BY DEF AdoptOK, Adopted, ToCopy, InWork

\* What mc_arp_publish writes into an entry is in work until the version is
\* raised.
LEMMA AdoptEntryWritten ==
  ASSUME CoresTypeOK, CoresInv, NEW c \in Secondaries, NEW ip \in Ips, PublishEntry(ip)
  PROVE  AdoptOK(c)'
<1> DEFINE mac == arp_table[0][ip]
<1>1. /\ p0.at = "scan" /\ p0.changed \in BOOLEAN /\ pub \in Pubs /\ p0 \in Scans
      /\ UNCHANGED <<worker, arp_table, mc_arp_seen, pc, got, count>>
  BY DEF PublishEntry, CoresTypeOK, Scans, bootVars, tabVars, coreVars
<1>2. mac \in Macs \cup {None, Torn} /\ AdoptOK(c) /\ Len(pub.entries) \in Nat
      /\ [ip |-> ip, mac |-> mac] \in Entry
  BY SMT DEF CoresTypeOK, Tables, Cores, CoresInv, Adopting, Entry, Pubs
<1> HIDE DEF mac
<1>3. ASSUME NEW b \in BOOLEAN, p0' = [p0 EXCEPT !.todo = p0.todo \ {ip}, !.changed = b]
      PROVE  p0'.at = "scan" /\ p0'.changed = b
  BY <1>1, <1>3, ScanDone, ZenonT(30)
<1>4. ASSUME pub' = [pub EXCEPT !.entries = Append(pub.entries, [ip |-> ip, mac |-> mac])],
             p0' = [p0 EXCEPT !.todo = p0.todo \ {ip}, !.changed = TRUE]
      PROVE  AdoptOK(c)'
  <2>1. pub'.version = pub.version /\ Len(pub'.entries) = Len(pub.entries) + 1
    BY <1>1, <1>2, <1>4, PubAppend
  <2>2. p0'.at = "scan" /\ p0'.changed = TRUE
    BY <1>3, <1>4
  <2> QED BY <1>1, <1>2, <2>1, <2>2, SMT DEF AdoptOK, InWork
<1>5. ASSUME UNCHANGED pub,
             p0' = [p0 EXCEPT !.todo = p0.todo \ {ip}, !.changed = p0.changed]
      PROVE  AdoptOK(c)'
  <2>1. p0'.at = "scan" /\ p0'.changed = p0.changed
    BY <1>1, <1>3, <1>5
  <2> QED BY <1>1, <1>2, <1>5, <2>1 DEF AdoptOK, Adopted, ToCopy, InWork
<1>6. ASSUME NEW j \in DOMAIN pub.entries, pub' = [pub EXCEPT !.entries[j].mac = Torn],
             UNCHANGED p0
      PROVE  AdoptOK(c)'
  <2>1. /\ pub'.version = pub.version /\ DOMAIN pub'.entries = DOMAIN pub.entries
        /\ Len(pub'.entries) = Len(pub.entries)
        /\ pub'.entries[j].mac = Torn
        /\ \A k \in DOMAIN pub.entries : k # j => pub'.entries[k] = pub.entries[k]
    BY <1>1, <1>6, PubRewrite
  <2> QED BY <1>1, <1>2, <1>6, <2>1, SMT DEF AdoptOK, Adopted, ToCopy, InWork
<1>7. ASSUME NEW j \in DOMAIN pub.entries, pub' = [pub EXCEPT !.entries[j].mac = mac],
             p0' = [p0 EXCEPT !.todo = p0.todo \ {ip}, !.changed = TRUE]
      PROVE  AdoptOK(c)'
  <2>1. pub'.version = pub.version /\ Len(pub'.entries) = Len(pub.entries)
    BY <1>1, <1>2, <1>7, PubRewrite
  <2>2. p0'.at = "scan" /\ p0'.changed = TRUE
    BY <1>3, <1>7
  <2> QED BY <1>1, <1>2, <2>1, <2>2 DEF AdoptOK, InWork
<1>8. \/ /\ pub' = [pub EXCEPT !.entries = Append(pub.entries, [ip |-> ip, mac |-> mac])]
         /\ p0' = [p0 EXCEPT !.todo = p0.todo \ {ip}, !.changed = TRUE]
      \/ UNCHANGED pub /\ p0' = [p0 EXCEPT !.todo = p0.todo \ {ip}, !.changed = p0.changed]
      \/ \E j \in DOMAIN pub.entries :
           \/ pub' = [pub EXCEPT !.entries[j].mac = Torn] /\ UNCHANGED p0
           \/ /\ pub' = [pub EXCEPT !.entries[j].mac = mac]
              /\ p0' = [p0 EXCEPT !.todo = p0.todo \ {ip}, !.changed = TRUE]
  BY DEF PublishEntry, Positions, Updated, mac
<1> QED BY <1>4, <1>5, <1>6, <1>7, <1>8

\* A worker copies the next entry into the table of its CPU.
LEMMA AdoptEntryCopied ==
  ASSUME CoresTypeOK, CoresInv, NEW d \in Secondaries, AdoptEntry(d),
         NEW c \in Secondaries
  PROVE  AdoptOK(c)'
<1> DEFINE n == got[d] + 1
           e == pub.entries[n]
<1>1. /\ pc[d] = "copy" /\ arp_table' = [arp_table EXCEPT ![worker[d]][e.ip] = e.mac]
      /\ pc' = [pc EXCEPT ![d] = IF n < count[d] THEN "copy" ELSE "idle"]
      /\ got' = [got EXCEPT ![d] = IF n < count[d] THEN n ELSE 0]
      /\ count' = [count EXCEPT ![d] = IF n < count[d] THEN count[d] ELSE 0]
      /\ UNCHANGED <<worker, pub, p0, mc_arp_seen>>
  BY DEF AdoptEntry, Copied, bootVars
<1>2. /\ got[d] \in Nat /\ count[d] \in Nat /\ n <= count[d]
      /\ n \in DOMAIN pub.entries /\ e \in Entry
      /\ worker[d] \in {d, 0} /\ worker[d] \in Cores
  BY <1>1, CopyType
<1>3. /\ e.ip \in Ips /\ e.mac \in Macs \cup {None, Torn}
      /\ \A x \in Cores, i \in Ips :
           arp_table'[x][i] = IF x = worker[d] /\ i = e.ip THEN e.mac ELSE arp_table[x][i]
      /\ arp_table' \in Tables
  <2>1. e.ip \in Ips /\ e.mac \in Macs \cup {None, Torn}
    BY <1>2 DEF Entry
  <2>2. arp_table' = [arp_table EXCEPT ![worker[d]][e.ip] = e.mac]
    BY <1>1
  <2>3. worker[d] \in Cores /\ arp_table \in Tables
    BY <1>2 DEF CoresTypeOK
  <2> DEFINE cpu == worker[d]
             ip == e.ip
             m == e.mac
  <2> HIDE DEF e, cpu, ip, m
  <2>4. /\ arp_table' \in Tables
        /\ \A x \in Cores, i \in Ips :
             arp_table'[x][i] = IF x = cpu /\ i = ip THEN m ELSE arp_table[x][i]
    <3>1. cpu \in Cores /\ ip \in Ips /\ m \in Macs \cup {None, Torn}
          /\ arp_table' = [arp_table EXCEPT ![cpu][ip] = m]
      BY <2>1, <2>2, <2>3 DEF cpu, ip, m
    <3> QED BY <2>3, <3>1 DEF Tables
  <2> QED BY <2>1, <2>4 DEF cpu, ip, m
<1>4. AdoptOK(c) /\ c \in Cores /\ c # 0
  BY SMT DEF CoresInv, Adopting, Cores, Secondaries
<1>5. CASE c # d
  <2>1. arp_table'[c] = arp_table[c]
    BY <1>2, <1>3, <1>4, <1>5, SMT DEF CoresTypeOK, Tables
  <2>2. pc'[c] = pc[c] /\ got'[c] = got[c] /\ count'[c] = count[c]
    BY <1>1, <1>5 DEF CoresTypeOK
  <2> QED BY <1>1, <1>4, <2>1, <2>2, AdoptFrame
<1>6. CASE c = d
  <2>1. /\ pc'[c] = IF n < count[c] THEN "copy" ELSE "idle"
        /\ got'[c] = IF n < count[c] THEN n ELSE 0
        /\ count'[c] = IF n < count[c] THEN count[c] ELSE 0
    BY <1>1, <1>6 DEF CoresTypeOK
  <2>2. n \in Nat
    BY <1>2, SMT
  <2>3. (worker[c] = c /\ mc_arp_seen[c] = pub.version =>
           \A j \in DOMAIN pub.entries : Adopted(c, j)' \/ ToCopy(c, j)' \/ InWork(j)')
        => AdoptOK(c)'
    BY <1>1, <1>2, <1>4, <1>6, <2>1, <2>2, SMT DEF AdoptOK
  <2>4. ASSUME worker[c] = c, mc_arp_seen[c] = pub.version, NEW j \in DOMAIN pub.entries
        PROVE  Adopted(c, j)' \/ ToCopy(c, j)' \/ InWork(j)'
    <3>0. pub.entries \in Seq(Entry)
      BY DEF CoresTypeOK, Pubs
    <3>1. pub.entries[j] \in Entry /\ j \in Nat
      BY <3>0, SMT
    <3>2. pub.entries[j].ip \in Ips
      BY <3>1 DEF Entry
    <3>3. CASE j = n
      BY <1>1, <1>3, <1>4, <1>6, <2>4, <3>2, <3>3, SMT DEF Adopted
    <3>4. CASE j # n
      <4>1. pub.entries[j].ip # e.ip
        BY <1>2, <3>4 DEF CoresInv, Published
      <4>2. Adopted(c, j) => Adopted(c, j)'
        <5>1. pub' = pub /\ arp_table'[c][pub.entries[j].ip] = arp_table[c][pub.entries[j].ip]
          BY <1>1, <1>3, <1>4, <3>2, <4>1, SMT
        <5> QED BY <5>1 DEF Adopted
      <4>3. InWork(j) => InWork(j)'
        BY <1>1 DEF InWork
      <4>4. ToCopy(c, j) => ToCopy(c, j)'
        BY <1>1, <1>2, <1>6, <2>1, <2>2, <3>1, <3>4, SMT DEF ToCopy
      <4>5. Adopted(c, j) \/ ToCopy(c, j) \/ InWork(j)
        BY <1>4, <2>4 DEF AdoptOK
      <4> QED BY <4>2, <4>3, <4>4, <4>5, ZenonT(30)
    <3> QED BY <3>3, <3>4, ZenonT(30)
  <2> QED BY <2>3, <2>4
<1> QED BY <1>5, <1>6

\* Every step keeps the versions the workers have seen honest.
LEMMA AdoptingStep ==
  ASSUME CoresTypeOK, CoresInv, [Next]_vars
  PROVE  \A d \in Secondaries : AdoptOK(d)'
<1> USE DEF bootVars, tabVars, coreVars, netVars, arpVars, MainGoto
<1>0. CoresTypeOK /\ Placement /\ Activity /\ Published /\ \A d \in Secondaries : AdoptOK(d)
  BY DEF CoresInv, Adopting
<1>1. CASE UNCHANGED vars
  BY <1>0, <1>1, AdoptFrame, ZenonT(30) DEF vars
<1>2. ASSUME StartCores PROVE \A d \in Secondaries : AdoptOK(d)'
  <2>1. UNCHANGED <<worker, arp_table, pub, p0, coreVars>>
    BY <1>2 DEF StartCores
  <2> QED BY <1>0, <2>1, AdoptFrame
<1>3. ASSUME WaitForCore PROVE \A d \in Secondaries : AdoptOK(d)'
  <2>1. UNCHANGED <<worker, arp_table, pub, p0, coreVars>>
    BY <1>3 DEF WaitForCore
  <2> QED BY <1>0, <2>1, AdoptFrame
<1>4. ASSUME ResolveGateway PROVE \A d \in Secondaries : AdoptOK(d)'
  <2>1. /\ main.at = "online" /\ UNCHANGED <<worker, p0, coreVars>>
        /\ pub' = pub \/ pub' = [entries |-> <<[ip |-> Gateway, mac |-> FirstMac]>>, version |-> 1]
    BY <1>4 DEF ResolveGateway
  <2>2. ASSUME NEW d \in Secondaries
        PROVE  d \in Cores /\ worker[d] = None /\ d # None /\ pc[d] = "idle"
    <3>1. d \in Cores
      BY SMT DEF Cores, Secondaries
    <3> QED BY <1>0, <2>1, <3>1 DEF Activity, Running, Cores
  <2>3. ASSUME NEW d \in Secondaries PROVE mc_arp_seen[d] <= pub'.version
    <3>1. mc_arp_seen[d] \in Nat /\ mc_arp_seen[d] <= pub.version /\ pub.version = 0
      BY <1>0, <2>1 DEF CoresTypeOK, AdoptOK, Activity
    <3>2. pub'.version \in {0, 1}
      BY <2>1, <3>1, SMT
    <3> QED BY <3>1, <3>2, SMT
  <2> QED BY <2>1, <2>2, <2>3 DEF AdoptOK
<1>5. ASSUME PlaceWorker PROVE \A d \in Secondaries : AdoptOK(d)'
  <2>1. main.at = "workers" /\ UNCHANGED arpVars
    BY <1>0, <1>5, PlaceCases
  <2>2. on[0] = None /\ p0.at = "idle"
    BY <1>0, <2>1, SMT DEF Placement, Activity
  <2>3. ASSUME NEW d \in Secondaries PROVE AdoptOK(d)'
    <3>1. CASE worker'[d] = worker[d]
      BY <1>0, <2>1, <2>3, <3>1, AdoptFrame
    <3>2. CASE worker'[d] # worker[d] /\ worker'[d] # d
      BY <1>0, <2>1, <2>3, <3>2, ZenonT(30) DEF AdoptOK
    <3>3. CASE worker[d] # d /\ worker'[d] = d
      <4>1. mc_arp_seen[d] = 0
        BY <1>0, <2>1, <3>3 DEF Activity
      <4>2. pub.version = 0 => pub.entries = <<>>
        BY <1>0, <2>2 DEF Published, Publishing
      <4> QED BY <1>0, <2>1, <4>1, <4>2, SMT DEF AdoptOK
    <3> QED BY <3>1, <3>2, <3>3
  <2> QED BY <2>3
<1>6. ASSUME PublishStart PROVE \A d \in Secondaries : AdoptOK(d)'
  <2>1. /\ p0.at = "idle" /\ UNCHANGED <<worker, arp_table, pub, pc, count, mc_arp_seen>>
        /\ \A d \in Secondaries : got'[d] = got[d] \/ pc[d] = "store"
    BY <1>6 DEF PublishStart
  <2> QED BY <1>0, <2>1, AdoptFrame
<1>7. ASSUME PublishRequest PROVE \A d \in Secondaries : AdoptOK(d)'
  <2>1. p0.at = "request" /\ UNCHANGED <<worker, arp_table, pub, coreVars>>
    BY <1>7 DEF PublishRequest
  <2> QED BY <1>0, <2>1, AdoptFrame
<1>8. ASSUME PublishEnd PROVE \A d \in Secondaries : AdoptOK(d)'
  <2>1. /\ p0.at = "scan" /\ p0.todo = {} /\ UNCHANGED <<worker, arp_table, coreVars>>
        /\ pub' = IF p0.changed THEN [pub EXCEPT !.version = pub.version + 1] ELSE pub
    BY <1>8 DEF PublishEnd
  <2>2. /\ pub'.entries = pub.entries /\ pub.version \in Nat
        /\ IF p0.changed THEN pub'.version = pub.version + 1 ELSE pub'.version = pub.version
    BY <1>0, <2>1, PubRaise DEF CoresTypeOK, Pubs
  <2>3. \A d \in Secondaries : mc_arp_seen[d] \in Nat
    BY <1>0 DEF CoresTypeOK
  <2>4. CASE p0.changed
    BY <1>0, <2>1, <2>2, <2>3, <2>4, SMT DEF AdoptOK
  <2>5. CASE ~ p0.changed
    <3>1. \A j \in DOMAIN pub.entries : ~ InWork(j)
      BY <1>0, <2>1, <2>5 DEF Published, InWork
    <3> QED BY <1>0, <2>1, <2>2, <2>5, <3>1 DEF AdoptOK, Adopted, ToCopy
  <2> QED BY <2>4, <2>5
<1>9. ASSUME NEW ip \in Ips, PublishEntry(ip) PROVE \A d \in Secondaries : AdoptOK(d)'
  BY <1>9, AdoptEntryWritten
<1>10. ASSUME NEW c \in Secondaries, SecondaryEntry(c) PROVE \A d \in Secondaries : AdoptOK(d)'
  <2>1. UNCHANGED <<worker, arp_table, pub, p0, coreVars>>
    BY <1>10, ZenonT(30) DEF SecondaryEntry
  <2> QED BY <1>0, <2>1, AdoptFrame
<1>11. ASSUME NEW c \in Secondaries, StartWorker(c) PROVE \A d \in Secondaries : AdoptOK(d)'
  <2>1. UNCHANGED <<worker, arp_table, pub, p0, coreVars>>
    BY <1>11, ZenonT(30) DEF StartWorker
  <2> QED BY <1>0, <2>1, AdoptFrame
<1>12. ASSUME NEW c \in Secondaries, AdoptStart(c) PROVE \A d \in Secondaries : AdoptOK(d)'
  <2>1. /\ pc[c] \notin {"count", "copy"}
        /\ IF pub.version = mc_arp_seen[c]
           THEN pc' = [pc EXCEPT ![c] = "idle"] /\ UNCHANGED mc_arp_seen
           ELSE /\ mc_arp_seen' = [mc_arp_seen EXCEPT ![c] = pub.version]
                /\ pc' = [pc EXCEPT ![c] = "count"]
        /\ UNCHANGED <<worker, arp_table, pub, p0, count>>
        /\ got' = got \/ got' = [got EXCEPT ![c] = 0]
    BY <1>12 DEF AdoptStart, Compare, Seen
  <2>2. pub.version \in Nat
    BY <1>0 DEF CoresTypeOK, Pubs
  <2>3. ASSUME NEW d \in Secondaries, d # c PROVE AdoptOK(d)'
    BY <1>0, <2>1, <2>3, AdoptFrame DEF CoresTypeOK
  <2>4. CASE pub.version = mc_arp_seen[c]
    <3>1. AdoptOK(c)'
      BY <1>0, <2>1, <2>4, AdoptFrame DEF CoresTypeOK
    <3> QED BY <2>3, <3>1
  <2>5. CASE pub.version # mc_arp_seen[c]
    <3>1. pc'[c] = "count" /\ mc_arp_seen'[c] = pub.version
      BY <1>0, <2>1, <2>5 DEF CoresTypeOK
    <3>2. AdoptOK(c)'
      BY <2>1, <2>2, <3>1, SMT DEF AdoptOK, ToCopy
    <3> QED BY <2>3, <3>2
  <2> QED BY <2>4, <2>5
<1>13. ASSUME NEW c \in Secondaries, AdoptLoad(c) PROVE \A d \in Secondaries : AdoptOK(d)'
  <2>1. /\ pc[c] = "load" /\ pc' = [pc EXCEPT ![c] = "store"]
        /\ got' = [got EXCEPT ![c] = req.version]
        /\ UNCHANGED <<worker, arp_table, pub, p0, count, mc_arp_seen>>
    BY <1>13 DEF AdoptLoad
  <2> QED BY <1>0, <2>1, AdoptFrame DEF CoresTypeOK
<1>14. ASSUME NEW c \in Secondaries, AdoptStore(c) PROVE \A d \in Secondaries : AdoptOK(d)'
  <2>1. /\ pc[c] \notin {"count", "copy"}
        /\ IF pub.version = mc_arp_seen[c]
           THEN pc' = [pc EXCEPT ![c] = "idle"] /\ UNCHANGED mc_arp_seen
           ELSE /\ mc_arp_seen' = [mc_arp_seen EXCEPT ![c] = pub.version]
                /\ pc' = [pc EXCEPT ![c] = "count"]
        /\ UNCHANGED <<worker, arp_table, pub, p0, count>>
        /\ got' = got \/ got' = [got EXCEPT ![c] = 0]
    BY <1>14 DEF AdoptStore, Compare, Seen
  <2>2. pub.version \in Nat
    BY <1>0 DEF CoresTypeOK, Pubs
  <2>3. ASSUME NEW d \in Secondaries, d # c PROVE AdoptOK(d)'
    BY <1>0, <2>1, <2>3, AdoptFrame DEF CoresTypeOK
  <2>4. CASE pub.version = mc_arp_seen[c]
    <3>1. AdoptOK(c)'
      BY <1>0, <2>1, <2>4, AdoptFrame DEF CoresTypeOK
    <3> QED BY <2>3, <3>1
  <2>5. CASE pub.version # mc_arp_seen[c]
    <3>1. pc'[c] = "count" /\ mc_arp_seen'[c] = pub.version
      BY <1>0, <2>1, <2>5 DEF CoresTypeOK
    <3>2. AdoptOK(c)'
      BY <2>1, <2>2, <3>1, SMT DEF AdoptOK, ToCopy
    <3> QED BY <2>3, <3>2
  <2> QED BY <2>4, <2>5
<1>15. ASSUME NEW c \in Secondaries, AdoptCount(c) PROVE \A d \in Secondaries : AdoptOK(d)'
  <2> DEFINE n == Len(pub.entries)
  <2>1. /\ pc[c] = "count" /\ UNCHANGED <<worker, arp_table, pub, p0, mc_arp_seen>>
        /\ pc' = [pc EXCEPT ![c] = IF 0 < n THEN "copy" ELSE "idle"]
        /\ got' = [got EXCEPT ![c] = IF 0 < n THEN 0 ELSE 0]
        /\ count' = [count EXCEPT ![c] = IF 0 < n THEN n ELSE 0]
    BY <1>15 DEF AdoptCount, Copied
  <2>2. ASSUME NEW d \in Secondaries, d # c PROVE AdoptOK(d)'
    BY <1>0, <2>1, <2>2, AdoptFrame DEF CoresTypeOK
  <2>3. n \in Nat /\ DOMAIN pub.entries = 1 .. n
    <3>1. pub \in Pubs
      BY <1>0 DEF CoresTypeOK
    <3>2. pub.entries \in Seq(Entry)
      BY <3>1 DEF Pubs
    <3> QED BY <3>2, SMT
  <2> HIDE DEF n
  <2>4. /\ pc'[c] = IF 0 < n THEN "copy" ELSE "idle"
        /\ got'[c] = 0 /\ count'[c] = IF 0 < n THEN n ELSE 0
    BY <1>0, <2>1 DEF CoresTypeOK
  <2>5. AdoptOK(c)'
    <3>1. AdoptOK(c) /\ UNCHANGED <<worker, arp_table, pub, p0, mc_arp_seen>>
      BY <1>0, <2>1
    <3>2. \A j \in DOMAIN pub.entries : ToCopy(c, j)'
      BY <2>3, <2>4, SMT DEF ToCopy
    <3>3. pc'[c] = "copy" => /\ got'[c] \in Nat /\ count'[c] \in Nat
                             /\ got'[c] < count'[c] /\ count'[c] <= Len(pub.entries)
      BY <2>3, <2>4, SMT DEF n
    <3> QED BY <3>1, <3>2, <3>3, ZenonT(30) DEF AdoptOK
  <2> QED BY <2>2, <2>5
<1>16. ASSUME NEW c \in Secondaries, AdoptEntry(c) PROVE \A d \in Secondaries : AdoptOK(d)'
  BY <1>16, AdoptEntryCopied
<1>17. ASSUME NEW c \in Secondaries, NEW ip \in Ips, AdoptPost(c, ip) PROVE \A d \in Secondaries : AdoptOK(d)'
  <2>1. /\ pc[c] = "idle" /\ pc' = [pc EXCEPT ![c] = "load"]
        /\ UNCHANGED <<worker, arp_table, pub, p0, got, count, mc_arp_seen>>
    BY <1>17 DEF AdoptPost
  <2> QED BY <1>0, <2>1, AdoptFrame DEF CoresTypeOK
<1>18. ASSUME NEW ip \in Ips, Reply(ip) PROVE \A d \in Secondaries : AdoptOK(d)'
  <2>1. /\ UNCHANGED <<worker, pub, p0, coreVars>>
        /\ \E m : arp_table' = [arp_table EXCEPT ![0][ip] = m]
    BY <1>18, ZenonT(30) DEF Reply, Receive
  <2>2. ASSUME NEW d \in Secondaries PROVE arp_table'[d] = arp_table[d]
    <3>1. d \in Cores /\ d # 0
      BY SMT DEF Cores, Secondaries
    <3> QED BY <1>0, <2>1, <3>1 DEF CoresTypeOK, Tables
  <2> QED BY <1>0, <2>1, <2>2, AdoptFrame
<1>19. ASSUME NEW ip \in Ips, Lose(ip) PROVE \A d \in Secondaries : AdoptOK(d)'
  <2>1. UNCHANGED <<worker, arp_table, pub, p0, coreVars>>
    BY <1>19 DEF Lose
  <2> QED BY <1>0, <2>1, AdoptFrame
<1>20. ASSUME NEW ip \in Ips, Change(ip) PROVE \A d \in Secondaries : AdoptOK(d)'
  <2>1. /\ UNCHANGED <<worker, pub, p0, coreVars>>
        /\ \E m : arp_table' = [arp_table EXCEPT ![0][ip] = m]
    BY <1>20 DEF Change, Receive
  <2>2. ASSUME NEW d \in Secondaries PROVE arp_table'[d] = arp_table[d]
    <3>1. d \in Cores /\ d # 0
      BY SMT DEF Cores, Secondaries
    <3> QED BY <1>0, <2>1, <3>1 DEF CoresTypeOK, Tables
  <2> QED BY <1>0, <2>1, <2>2, AdoptFrame
<1>21. ASSUME NEW c \in Secondaries, NEW ip \in Ips, Flow(c, ip) PROVE \A d \in Secondaries : AdoptOK(d)'
  <2>1. UNCHANGED <<worker, arp_table, pub, p0, coreVars>>
    BY <1>21 DEF Flow
  <2> QED BY <1>0, <2>1, AdoptFrame
<1> QED
  <2> HIDE DEF bootVars, tabVars, coreVars, netVars, arpVars, MainGoto
  <2> QED BY <1>1, <1>2, <1>3, <1>4, <1>5, <1>6, <1>7, <1>8, <1>9, <1>10, <1>11, <1>12,
             <1>13, <1>14, <1>15, <1>16, <1>17, <1>18, <1>19, <1>20, <1>21, Zenon DEF Next,
             Main, Publish, Thread

-----------------------------------------------------------------------------
(* The theorems *)

\* Nothing is placed, published or seen at first.
LEMMA CoresInit == Init => CoresTypeOK /\ CoresInv
<1> SUFFICES ASSUME Init PROVE CoresTypeOK /\ CoresInv
  OBVIOUS
<1>1. <<>> \in Seq(Entry) /\ DOMAIN <<>> = {} /\ 0 \in Cores
  BY SMT DEF Cores
<1>2. pub \in Pubs /\ p0 \in Scans /\ arp_table \in Tables
  BY <1>1 DEF Init, Pubs, Scans, Tables
<1>3. CoresTypeOK
  BY <1>2 DEF Init, CoresTypeOK
<1>4. Placement /\ Activity
  BY <1>1, SMT DEF Init, Placement, Activity, Running, Secondaries, Cores
<1>5. Published
  BY <1>1 DEF Init, Published
<1>6. Adopting
  BY <1>1, SMT DEF Init, Adopting, AdoptOK
<1> QED BY <1>3, <1>4, <1>5, <1>6 DEF CoresInv

\* The invariant holds in every state of the sample.
LEMMA CoresInvariant == Spec => [](CoresTypeOK /\ CoresInv)
<1>1. CoresTypeOK /\ CoresInv /\ [Next]_vars => (CoresTypeOK /\ CoresInv)'
  <2> SUFFICES ASSUME CoresTypeOK, CoresInv, [Next]_vars PROVE CoresTypeOK' /\ CoresInv'
    OBVIOUS
  <2>1. CoresTypeOK' /\ Activity' /\ Published'
    BY CoresTypeStep, ActivityStep, PublishedStep
  <2>2. Placement'
    BY PlacementStep DEF CoresInv
  <2>3. Adopting'
    BY AdoptingStep DEF Adopting
  <2> QED BY <2>1, <2>2, <2>3 DEF CoresInv
<1> QED BY CoresInit, <1>1, PTL DEF Spec

\* A queue pair is polled by its own CPU or by the boot core, however late, in
\* whatever order and however incompletely the cores come up
\* (mc_secondary_entry, main).
THEOREM WorkersOnTheirCpus == Spec => []PairOnItsOwnCpu
<1>1. CoresInv => PairOnItsOwnCpu
  BY DEF CoresInv, Placement, PairOnItsOwnCpu, Running
<1> QED BY CoresInvariant, <1>1, PTL

\* A worker that has seen the version of mc_arp_pub and is not copying has
\* adopted all of it, although it reads version, count and entries without a
\* lock while core 0 appends and rewrites entries (mc_arp_publish,
\* mc_arp_adopt).
THEOREM NoUpdateMissed == Spec => []SeenIsAdopted
<1>1. CoresInv => SeenIsAdopted
  BY DEF CoresInv, Adopting, AdoptOK, Adopted, ToCopy, InWork, SeenIsAdopted
<1> QED BY CoresInvariant, <1>1, PTL
=============================================================================
