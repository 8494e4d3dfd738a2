------------------------------ MODULE EnaLimits ------------------------------
(***************************************************************************)
(* The numbers the driver derives from what the device reports and the     *)
(* application asks for: queue counts, ring depths (ena_init.c,            *)
(* ena_netdev.c, ena_datapath.c) and the RSS indirection table (ena_rss.c).*)
(* Each is an operator, written as the code computes it; the actions are   *)
(* the steps of the bring-up, the configuration and the start that use     *)
(* them, for every report and request in the sets below.                   *)
(***************************************************************************)
EXTENDS Naturals, FiniteSets, FiniteSetsExt

CONSTANTS
  RawNums, RawDepths,  \* what the device may report
  Asks,                \* queue counts the application may ask for
  NbDescs,             \* ring depths it may ask for (uint16_t)
  LogSizes             \* RSS table sizes the device may report, as log2

ENA_SPEC_MAX_QUEUES   == 256
ENA_SPEC_MAX_DEPTH    == 4096   \* ENA_MAX_RING_DESC is the same
ENA_SPEC_MIN_DEPTH    == 4      \* ENA_MIN_RING_DESC is the same
ENA_DEFAULT_RING_DESC == 256
ENA_NETDEV_MAX_QUEUES == 8
IND_TABLE_NUM_ENTRIES == 128

ASSUME LimitsAssumption ==
  /\ RawNums \subseteq Nat /\ RawDepths \subseteq Nat
  /\ Asks \subseteq Nat /\ NbDescs \subseteq 0 .. 65535 /\ LogSizes \subseteq Nat

\* A device report, and a range of table sizes.
Reports == [sq_num : RawNums, cq_num : RawNums,
            sq_depth : RawDepths, cq_depth : RawDepths]
Ranges  == [min : LogSizes, max : LogSizes]

Lower(a, b)  == IF a < b THEN a ELSE b
Higher(a, b) == IF a < b THEN b ELSE a

-----------------------------------------------------------------------------
(* ena_init.c *)

\* The lowest bit set in d > 0, and d & (d - 1).
LowBit(d)   == Max({2 ^ k : k \in {j \in 0 .. 12 : d % (2 ^ j) = 0}})
ClearLow(d) == d - LowBit(d)

\* while ((d & (d - 1)) != 0) d = d & (d - 1)
DropBits[d \in 1 .. ENA_SPEC_MAX_DEPTH] ==
  IF ClearLow(d) = 0 THEN d ELSE DropBits[ClearLow(d)]

clamp_queue_depth(raw_depth) ==
  DropBits[Higher(Lower(raw_depth, ENA_SPEC_MAX_DEPTH), ENA_SPEC_MIN_DEPTH)]

clamp_queue_num(raw_num) == Higher(1, Lower(raw_num, ENA_SPEC_MAX_QUEUES))

\* Mutant: only the submission queues are considered.
QueueLimitsSqOnly(r) ==
  [num |-> clamp_queue_num(r.sq_num), depth |-> clamp_queue_depth(r.sq_depth)]

\* ena_init_get_queue_limits: the same for both directions.
QueueLimits(r) ==
  [num   |-> Lower(clamp_queue_num(r.sq_num), clamp_queue_num(r.cq_num)),
   depth |-> Lower(clamp_queue_depth(r.sq_depth), clamp_queue_depth(r.cq_depth))]

(* ena_netdev.c *)

\* 1u << (31 - clz(v)): the highest bit set in v.
round_down_pow2(v) ==
  IF v = 0 THEN 0 ELSE 2 ^ Max({k \in 0 .. 15 : v \div (2 ^ k) > 0})

WithinRing(nb, max) ==
  LET n == IF nb = 0 THEN IF max = 0 THEN ENA_DEFAULT_RING_DESC ELSE max ELSE nb
      m == IF max = 0 THEN n ELSE Lower(n, max)
  IN Higher(Lower(m, ENA_SPEC_MAX_DEPTH), ENA_SPEC_MIN_DEPTH)

\* ena_netdev_clamp_desc_count
clamp_desc_count(nb, max) == round_down_pow2(WithinRing(nb, max))

\* ena_netdev_configure refuses a count past the adapter's and the build's.
Accepted(n, lim) == n # 0 /\ n <= lim.num /\ n <= ENA_NETDEV_MAX_QUEUES

\* ena_is_power_of_two, the check of ena_ring_alloc
RingAllocTakes(d) == d >= 4 /\ ClearLow(d) = 0

(* ena_rss.c *)

\* requested = 1; while ((1u << requested) < num_queues) requested++
Requested(n) == Min({k \in 1 .. 16 : 2 ^ k >= n})

\* Mutant: the request is only raised to the device's minimum.
ClampedUp(n, r) == Lower(Higher(Requested(n), r.min), 14)
\* into the device's range, and 1 << clamped into 16 bits
Clamped(n, r) == Lower(Lower(Higher(Requested(n), r.min), r.max), 14)

\* ena_rss_query_ind_table_limits: no range when the command fails.
TableSize(n, r) ==
  IF n < 2 \/ r.min = 0 \/ r.min > r.max THEN IND_TABLE_NUM_ENTRIES
  ELSE 2 ^ Clamped(n, r)

\* the queue of entry i in ena_rss_set_ind_table
Target(i, n) == i % n

\* How many of the entries of a table of that size name queue q of n.
Share(q, n, size) == Cardinality({i \in 0 .. size - 1 : Target(i, n) = q})

-----------------------------------------------------------------------------
(* The steps *)

VARIABLES
  report,      \* the device's answer to GET_FEATURE (max queues)
  limits,      \* adapter->max_*_queues and max_*_ring_size; 0 is unknown
  num_rings,   \* queue pairs configured
  nb_desc,     \* the depth last asked for
  ring_depth,  \* and given; 0 before the first ring
  range,       \* the device's range of table sizes
  table_size   \* rss_info.ind_table_size; 0 before ena_rss_init

limitsVars == <<report, limits, num_rings, nb_desc, ring_depth, range, table_size>>

LimitsInit ==
  /\ report = [sq_num |-> 0, cq_num |-> 0, sq_depth |-> 0, cq_depth |-> 0]
  /\ limits = [num |-> 0, depth |-> 0]
  /\ num_rings = 0 /\ nb_desc = 0 /\ ring_depth = 0
  /\ range = [min |-> 0, max |-> 0] /\ table_size = 0

get_queue_limits(r) ==
  /\ limits.num = 0
  /\ report' = r /\ limits' = QueueLimits(r)
  /\ UNCHANGED <<num_rings, nb_desc, ring_depth, range, table_size>>

\* ena_netdev_configure; a count it refuses changes nothing.
configure(n) ==
  /\ limits.num # 0 /\ num_rings = 0 /\ Accepted(n, limits)
  /\ num_rings' = n
  /\ UNCHANGED <<report, limits, nb_desc, ring_depth, range, table_size>>

\* ena_netdev_rxq_configure, ena_netdev_txq_configure: one ring of a device
\* that does not run yet.
queue_configure(nb) ==
  /\ num_rings # 0 /\ table_size = 0
  /\ nb_desc' = nb /\ ring_depth' = clamp_desc_count(nb, limits.depth)
  /\ UNCHANGED <<report, limits, num_rings, range, table_size>>

\* ena_rss_init, in the first start.
rss_init(r) ==
  /\ ring_depth # 0 /\ table_size = 0
  /\ range' = r /\ table_size' = TableSize(num_rings, r)
  /\ UNCHANGED <<report, limits, num_rings, nb_desc, ring_depth>>

LimitsNext ==
  \/ \E r \in Reports : get_queue_limits(r)
  \/ \E n \in Asks : configure(n)
  \/ \E nb \in NbDescs : queue_configure(nb)
  \/ \E r \in Ranges : rss_init(r)

-----------------------------------------------------------------------------
(* Properties *)

PowersOfTwo == {2 ^ k : k \in 0 .. 16}
LargestPowerUpTo(n) == Max({p \in PowersOfTwo : p <= n})

\* A ring is as deep as the request, the device's submission and completion
\* queues and the driver's maximum allow, counted in powers of two and not
\* below 4; a request of 0 asks for the most.  So ena_ring_alloc takes it and
\* a device with queues of 4 or more is never asked for more than it reported,
\* whichever of the two roundings applied first (clamp_queue_depth,
\* ena_netdev_clamp_desc_count).
DepthIsLargest ==
  ring_depth # 0 =>
    LET want == IF nb_desc = 0 THEN ENA_SPEC_MAX_DEPTH ELSE nb_desc
        most == Min({want, report.sq_depth, report.cq_depth, ENA_SPEC_MAX_DEPTH})
    IN /\ ring_depth = Higher(4, IF most = 0 THEN 0 ELSE LargestPowerUpTo(most))
       /\ RingAllocTakes(ring_depth)

\* No more queue pairs are configured than the device has submission queues
\* and completion queues (a device that reports none is taken to have one);
\* ena_init_get_queue_limits and ena_netdev_configure.
QueuesWithinDevice ==
  num_rings <= Higher(1, report.sq_num) /\ num_rings <= Higher(1, report.cq_num)

\* With a usable range, the indirection table has a size the device accepts,
\* and it is the smallest such size with an entry for every receive queue if
\* there is one (ena_rss_query_ind_table_limits).
TableFitsDevice ==
  num_rings >= 2 /\ table_size # 0 /\ range.min \in 1 .. Lower(range.max, 14) =>
    LET sizes == {2 ^ k : k \in range.min .. Lower(range.max, 14)}
        cover == {s \in sizes : s >= num_rings}
    IN table_size = IF cover = {} THEN Max(sizes) ELSE Min(cover)

\* The table spreads the traffic evenly: whatever size the device lets it
\* have, no receive queue has two entries more than another
\* (ena_rss_set_ind_table).
EvenShares ==
  LET share == [q \in 0 .. num_rings - 1 |-> Share(q, num_rings, table_size)]
  IN \A p, q \in 0 .. num_rings - 1 : share[p] <= share[q] + 1

\* What the driver configures from a device's report is the most that the
\* report allows and nothing beyond it: queue pairs and ring depths
\* (ena_init_get_queue_limits, ena_netdev_configure).
LimitsKept == DepthIsLargest /\ QueuesWithinDevice

\* The indirection table has the best size the device accepts and spreads the
\* traffic evenly over any number of receive queues (ena_rss_init,
\* ena_rss_set_ind_table).
TableSound == TableFitsDevice /\ EvenShares
=============================================================================
