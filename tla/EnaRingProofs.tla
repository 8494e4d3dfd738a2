---------------------------- MODULE EnaRingProofs ----------------------------
(***************************************************************************)
(* What the request-id pool and the indices of a ring keep, whichever path *)
(* uses the ring: the facts the proofs about transmit and receive share.   *)
(***************************************************************************)
EXTENDS EnaRing, Integers, WellFoundedInduction, TLAPS

\* Zenon proves a step, unless the step names another prover.
USE Zenon

\* The type of the pool and of the tracking slots.
PoolTypeOK ==
  /\ free_req_ids \in Seq(Ids)
  /\ req_allocated \in [Ids -> BOOLEAN]
  /\ bufs \in [Ids -> Netbufs \cup {None}]

\* Index arithmetic stays in range: sq_tail++, cq_head++ and the phase flip.
LEMMA IndexType ==
  /\ \A i \in Indices : Succ(i) \in Indices
  /\ \A i \in Indices : Slot(i) \in Ids
  /\ \A p \in Phases, i \in Indices : FlipOnWrap(p, i) \in Phases
  /\ 0 \in Indices
  /\ Ids \subseteq 0 .. Depth
  BY DepthAssumption, SMT DEF Indices, Ids, Succ, Slot, Phases, FlipOnWrap

\* Induction over the naturals.
LEMMA SetInduction ==
  ASSUME NEW S, 0 \in S, \A n \in Nat : n \in S => n + 1 \in S
  PROVE  Nat \subseteq S
<1> DEFINE R == OpToRel(<, Nat)
<1>1. IsWellFoundedOn(R, Nat)
  BY NatLessThanWellFounded DEF OpToRel
<1>2. R = {ss \in Nat \X Nat : ss[1] < ss[2]}
  BY DEF OpToRel
<1> HIDE DEF R
<1>3. ASSUME NEW n \in Nat, n \notin S PROVE FALSE
  <2> DEFINE T == Nat \ S
  <2>1. T \subseteq Nat /\ T # {}
    BY <1>3
  <2> HIDE DEF T
  <2>2. PICK x \in T : \A y \in T : ~ (<<y, x>> \in R)
    BY <1>1, <2>1, WFMin
  <2>3. x \in Nat /\ x \notin S
    BY DEF T
  <2>4. x # 0 /\ x - 1 \in Nat
    BY <2>3, SMT
  <2>5. <<x - 1, x>> \in R
    BY <1>2, <2>3, <2>4, SMT
  <2>6. x - 1 \in S
    BY <2>2, <2>4, <2>5 DEF T
  <2> QED BY <2>3, <2>4, <2>6, SMT
<1> QED BY <1>3

\* No more than m numbers in 1 .. n map to distinct numbers below m.
LEMMA Injection ==
  ASSUME NEW m \in Nat, NEW n \in Nat, NEW f \in [1 .. n -> 0 .. m - 1],
         \A i, j \in 1 .. n : i # j => f[i] # f[j]
  PROVE  n <= m
<1> DEFINE Injective(g, k) == \A i, j \in 1 .. k : i # j => g[i] # g[j]
           S == {d \in Nat : \A k \in Nat : \A g \in [1 .. k -> 0 .. d - 1] :
                               Injective(g, k) => k <= d}
<1>1. 0 \in S
  <2>1. ASSUME NEW k \in Nat, NEW g \in [1 .. k -> 0 .. 0 - 1] PROVE k <= 0
    BY <2>1, SMT
  <2> QED BY <2>1
<1>2. ASSUME NEW d \in Nat, d \in S PROVE d + 1 \in S
  <2>1. \A k \in Nat : \A g \in [1 .. k -> 0 .. d - 1] : Injective(g, k) => k <= d
    BY <1>2
  <2>2. d + 1 \in Nat
    BY SMT
  <2> SUFFICES ASSUME NEW k \in Nat, NEW g \in [1 .. k -> 0 .. (d + 1) - 1],
                      Injective(g, k)
               PROVE  k <= d + 1
    BY <2>2
  <2> HIDE DEF S
  <2>3. CASE \A i \in 1 .. k : g[i] # d
    <3>1. g \in [1 .. k -> 0 .. d - 1]
      BY <2>3, SMT
    <3>2. k <= d
      BY <2>1, <3>1
    <3> QED BY <3>2, SMT
  <2>4. CASE \E i \in 1 .. k : g[i] = d
    <3>1. PICK i \in 1 .. k : g[i] = d
      BY <2>4
    <3> DEFINE h == [j \in 1 .. k - 1 |-> IF j < i THEN g[j] ELSE g[j + 1]]
    <3>2. k - 1 \in Nat
      BY SMT
    <3>3. h \in [1 .. k - 1 -> 0 .. d - 1]
      BY <3>1, SMT
    <3>4. Injective(h, k - 1)
      BY SMT
    <3> HIDE DEF h
    <3>5. k - 1 <= d
      BY <2>1, <3>2, <3>3, <3>4
    <3> QED BY <3>5, SMT
  <2> QED BY <2>3, <2>4
<1> HIDE DEF S
<1>3. m \in S
  BY <1>1, <1>2, SetInduction
<1> QED BY <1>3 DEF S

\* No more than Depth - 1 distinct ids avoid a given one.
LEMMA Pigeon ==
  ASSUME NEW n \in Nat, NEW f, NEW id \in Ids,
         \A i \in 1 .. n : f[i] \in Ids /\ f[i] # id,
         \A i, j \in 1 .. n : i # j => f[i] # f[j]
  PROVE  n < Depth
<1> DEFINE g == [i \in 1 .. n + 1 |-> IF i = n + 1 THEN id ELSE f[i]]
<1>1. g \in [1 .. n + 1 -> 0 .. Depth - 1]
  BY DepthAssumption, SMT DEF Ids
<1>2. \A i, j \in 1 .. n + 1 : i # j => g[i] # g[j]
  BY SMT
<1> HIDE DEF g
<1> QED BY <1>1, <1>2, DepthAssumption, Injection, SMT

\* The pool a ring starts with and a reset writes is a sequence of ids.
LEMMA AllIdsType == AllIds \in Seq(Ids)
<1>1. AllIds \in [1 .. Depth -> Ids]
  BY DepthAssumption, SMT DEF AllIds, Ids
<1> QED BY <1>1, DepthAssumption, SMT

\* Giving an id back keeps the pool, the ownership marks and the slots in
\* their types.
LEMMA ReqIdFreeType ==
  ASSUME PoolTypeOK, NEW id \in Ids, ReqIdFree(id)
  PROVE  PoolTypeOK'
  BY SMT DEF PoolTypeOK, ReqIdFree

-----------------------------------------------------------------------------
(* The request-id pool *)

\* An id that is checked out leaves room in the pool, so its release is never
\* refused (the count check of ena_ring_req_id_free never fires).
LEMMA PoolHasRoom ==
  ASSUME PoolTypeOK, PoolPartition, NEW id \in Ids, req_allocated[id]
  PROVE  Len(free_req_ids) < Depth
<1>1. Len(free_req_ids) \in Nat
  BY SMT DEF PoolTypeOK
<1>2. \A i \in 1 .. Len(free_req_ids) :
        free_req_ids[i] \in Ids /\ free_req_ids[i] # id
  BY SMT DEF PoolTypeOK, PoolPartition
<1>3. \A i, j \in 1 .. Len(free_req_ids) :
        i # j => free_req_ids[i] # free_req_ids[j]
  BY DEF PoolPartition
<1> QED BY <1>1, <1>2, <1>3, Pigeon

\* ena_ring_req_id_free of a checked-out id keeps the pool a partition.
LEMMA PoolFreeStep ==
  ASSUME PoolTypeOK, PoolPartition, NEW id \in Ids, req_allocated[id],
         ReqIdFree(id)
  PROVE  /\ PoolPartition'
         /\ req_allocated' = [req_allocated EXCEPT ![id] = FALSE]
         /\ bufs' = [bufs EXCEPT ![id] = None]
<1>1. /\ free_req_ids' = Append(free_req_ids, id)
      /\ req_allocated' = [req_allocated EXCEPT ![id] = FALSE]
      /\ bufs' = [bufs EXCEPT ![id] = None]
  BY PoolHasRoom DEF ReqIdFree, Releasable
<1>2. /\ free_req_ids \in Seq(Ids)
      /\ req_allocated \in [Ids -> BOOLEAN]
      /\ Len(free_req_ids) \in Nat
  BY SMT DEF PoolTypeOK
<1> DEFINE n == Len(free_req_ids)
<1>3. /\ Len(free_req_ids') = n + 1
      /\ free_req_ids'[n + 1] = id
      /\ \A i \in 1 .. n : free_req_ids'[i] = free_req_ids[i]
  BY <1>1, <1>2, SMT
<1>4. \A i \in 1 .. n : free_req_ids[i] \in Ids /\ free_req_ids[i] # id
  BY <1>2, SMT DEF PoolPartition
<1>5. \A i, j \in 1 .. n + 1 :
        i # j => free_req_ids'[i] # free_req_ids'[j]
  BY <1>2, <1>3, <1>4, SMT DEF PoolPartition
<1>6. \A i \in 1 .. n + 1 : ~ req_allocated'[free_req_ids'[i]]
  BY <1>1, <1>2, <1>3, <1>4, SMT DEF PoolPartition
<1>7. \A x \in Ids : \/ req_allocated'[x]
                     \/ \E i \in 1 .. n + 1 : free_req_ids'[i] = x
  <2> SUFFICES ASSUME NEW x \in Ids, ~ req_allocated'[x]
               PROVE  \E i \in 1 .. n + 1 : free_req_ids'[i] = x
    OBVIOUS
  <2>1. CASE x = id
    BY <2>1, <1>2, <1>3, SMT
  <2>2. CASE x # id
    <3>1. PICK i \in 1 .. n : free_req_ids[i] = x
      BY <2>2, <1>1, <1>2 DEF PoolPartition
    <3>2. i \in 1 .. n + 1 /\ free_req_ids'[i] = x
      BY <3>1, <1>2, <1>3, SMT
    <3> QED BY <3>2
  <2> QED BY <2>1, <2>2
<1> QED BY <1>1, <1>3, <1>5, <1>6, <1>7 DEF PoolPartition

\* ena_ring_req_id_alloc keeps the pool a partition.
LEMMA PoolAllocStep ==
  ASSUME PoolTypeOK, PoolPartition, NEW id \in Ids, ReqIdAlloc(id)
  PROVE  /\ PoolPartition'
         /\ ~ req_allocated[id]
         /\ req_allocated' = [req_allocated EXCEPT ![id] = TRUE]
<1> DEFINE n == Len(free_req_ids)
<1>1. /\ free_req_ids \in Seq(Ids) /\ n \in Nat /\ n > 0
      /\ req_allocated \in [Ids -> BOOLEAN]
      /\ id = free_req_ids[1]
  BY SMT DEF PoolTypeOK, ReqIdAlloc
<1>2. /\ Len(free_req_ids') = n - 1
      /\ \A i \in 1 .. n - 1 : free_req_ids'[i] = free_req_ids[i + 1]
      /\ req_allocated' = [req_allocated EXCEPT ![id] = TRUE]
  BY <1>1, SMT DEF ReqIdAlloc
<1>3. ~ req_allocated[id]
  BY <1>1, SMT DEF PoolPartition
<1>4. ASSUME NEW i \in 1 .. n - 1, NEW j \in 1 .. n - 1, i # j
      PROVE  free_req_ids'[i] # free_req_ids'[j]
  <2>1. i + 1 \in 1 .. n /\ j + 1 \in 1 .. n /\ i + 1 # j + 1
    BY <1>1, <1>4, SMT
  <2>2. free_req_ids[i + 1] # free_req_ids[j + 1]
    BY <2>1 DEF PoolPartition
  <2> QED BY <2>2, <1>2
<1>5. \A i \in 1 .. n - 1 : ~ req_allocated'[free_req_ids'[i]]
  <2> SUFFICES ASSUME NEW i \in 1 .. n - 1
               PROVE  ~ req_allocated'[free_req_ids'[i]]
    OBVIOUS
  <2>1. i + 1 \in 1 .. n /\ i + 1 # 1 /\ 1 \in 1 .. n
    BY <1>1, SMT
  <2>2. free_req_ids[i + 1] # id /\ ~ req_allocated[free_req_ids[i + 1]]
        /\ free_req_ids[i + 1] \in Ids
    BY <2>1, <1>1, SMT DEF PoolPartition
  <2> QED BY <2>2, <1>1, <1>2
<1>6. \A x \in Ids : \/ req_allocated'[x]
                     \/ \E i \in 1 .. n - 1 : free_req_ids'[i] = x
  <2> SUFFICES ASSUME NEW x \in Ids, ~ req_allocated'[x]
               PROVE  \E i \in 1 .. n - 1 : free_req_ids'[i] = x
    OBVIOUS
  <2>1. x # id /\ ~ req_allocated[x]
    BY <1>1, <1>2
  <2>2. PICK k \in 1 .. n : free_req_ids[k] = x
    BY <2>1 DEF PoolPartition
  <2>3. k # 1
    BY <2>1, <2>2, <1>1
  <2>4. k - 1 \in 1 .. n - 1 /\ free_req_ids'[k - 1] = x
    BY <2>2, <2>3, <1>1, <1>2, SMT
  <2> QED BY <2>4
<1> QED BY <1>2, <1>3, <1>4, <1>5, <1>6 DEF PoolPartition

\* Most steps touch no request and no netbuf.
LEMMA PoolFrame ==
  ASSUME PoolPartition, UNCHANGED <<free_req_ids, req_allocated>>
  PROVE  PoolPartition'
  BY DEF PoolPartition

\* The pool of a fresh or a reset ring.
LEMMA FreshPool ==
  /\ \A i, j \in 1 .. Len(AllIds) : i # j => AllIds[i] # AllIds[j]
  /\ \A i \in 1 .. Len(AllIds) : AllIds[i] \in Ids
  /\ \A id \in Ids : \E i \in 1 .. Len(AllIds) : AllIds[i] = id
<1> USE DepthAssumption
<1>1. Len(AllIds) = Depth /\ \A i \in 1 .. Depth : AllIds[i] = i - 1
  BY SMT DEF AllIds
<1>2. ASSUME NEW id \in Ids PROVE \E i \in 1 .. Depth : AllIds[i] = id
  <2>1. id + 1 \in 1 .. Depth /\ AllIds[id + 1] = id
    BY <1>1, SMT DEF Ids
  <2> QED BY <2>1
<1>3. \A i, j \in 1 .. Depth : i # j => AllIds[i] # AllIds[j]
  BY <1>1, SMT
<1>4. \A i \in 1 .. Depth : AllIds[i] \in Ids
  BY <1>1, SMT DEF Ids
<1> HIDE DEF AllIds
<1> QED BY <1>1, <1>2, <1>3, <1>4

-----------------------------------------------------------------------------
(* The indices *)

\* How the free-running indices move: a distance grows with the index ahead
\* and shrinks with the one behind, also across the wrap of the uint16_t.
LEMMA Distance ==
  ASSUME NEW i \in Indices, NEW j \in Indices
  PROVE  /\ Ahead(j, i) \in Indices
         /\ Ahead(i, i) = 0
         /\ Ahead(j, i) = 0 => i = j
         /\ Ahead(j, i) < IdxMod - 1 => Ahead(Succ(j), i) = Ahead(j, i) + 1
         /\ Ahead(j, i) > 0 => Ahead(j, Succ(i)) = Ahead(j, i) - 1
<1>1. /\ i \in Nat /\ i < IdxMod /\ j \in Nat /\ j < IdxMod
      /\ IdxMod \in Nat /\ IdxMod >= 8
  BY DepthAssumption, SMT DEF Indices
<1>2. \A x \in Nat : x < 2 * IdxMod =>
        x % IdxMod = IF x < IdxMod THEN x ELSE x - IdxMod
  BY <1>1, SMT
<1>3. \A a, b \in Indices : Ahead(a, b) = IF a >= b THEN a - b ELSE a + IdxMod - b
  BY <1>1, <1>2, SMT DEF Ahead, Indices
<1>4. \A a \in Indices : Succ(a) = IF a = IdxMod - 1 THEN 0 ELSE a + 1
  BY <1>1, <1>2, SMT DEF Succ, Indices
<1>5. Succ(i) \in Indices /\ Succ(j) \in Indices
  BY IndexType
<1>6. /\ Ahead(j, i) = IF j >= i THEN j - i ELSE j + IdxMod - i
      /\ Ahead(i, i) = IF i >= i THEN i - i ELSE i + IdxMod - i
      /\ Ahead(Succ(j), i) = IF Succ(j) >= i THEN Succ(j) - i ELSE Succ(j) + IdxMod - i
      /\ Ahead(j, Succ(i)) = IF j >= Succ(i) THEN j - Succ(i) ELSE j + IdxMod - Succ(i)
      /\ Succ(i) = IF i = IdxMod - 1 THEN 0 ELSE i + 1
      /\ Succ(j) = IF j = IdxMod - 1 THEN 0 ELSE j + 1
  BY <1>3, <1>4, <1>5
<1> QED BY <1>1, <1>6, SMT DEF Indices

\* Division with remainder.
LEMMA Remainder ==
  ASSUME NEW m \in Nat, m > 0
  PROVE  /\ \A x \in Nat : \E q \in Nat : x = m * q + (x % m)
         /\ \A x \in Nat : x % m \in 0 .. m - 1
         /\ \A q \in Nat, r \in 0 .. m - 1 : (m * q + r) % m = r
         /\ \A a, b \in Nat, r, t \in 0 .. m - 1 : m * a + r = m * b + t => r = t /\ a = b
<1>1. ASSUME NEW x \in Nat PROVE \E q \in Nat : x = m * q + (x % m)
  <2>1. x \div m \in Nat /\ x = m * (x \div m) + (x % m)
    BY SMT
  <2> QED BY <2>1
<1>2. \A x \in Nat : x % m \in 0 .. m - 1
  BY SMT
<1>3. ASSUME NEW q \in Nat, NEW r \in 0 .. m - 1 PROVE (m * q + r) % m = r
  BY SMT
<1>4. ASSUME NEW a \in Nat, NEW b \in Nat, NEW r \in 0 .. m - 1, NEW t \in 0 .. m - 1,
             m * a + r = m * b + t
      PROVE  r = t /\ a = b
  BY <1>4, SMT
<1> QED BY <1>1, <1>2, <1>3, <1>4

\* The slots an index runs through: one after the other, each once in a
\* round, and the same ones after the wrap.
LEMMA Slots ==
  ASSUME NEW i \in Indices
  PROVE  /\ \A k \in Nat : Slot(i + k) \in Ids
         /\ Slot(Succ(i)) = IF Slot(i) = Depth - 1 THEN 0 ELSE Slot(i) + 1
         /\ \A k \in Nat : Slot(Succ(i) + k) = Slot(i + k + 1)
         /\ \A k, l \in Ids : Slot(i + k) = Slot(i + l) => k = l
         /\ \A j \in Indices : Slot(i + Ahead(j, i)) = Slot(j)
         /\ \A k \in Ids : Slot(i + k) = IF Slot(i) + k < Depth THEN Slot(i) + k
                                         ELSE Slot(i) + k - Depth
<1>1. /\ i \in Nat /\ i < IdxMod /\ Depth \in Nat /\ Depth > 3 /\ Depth > 0
      /\ IdxMod \in Nat /\ IdxMod % Depth = 0
  BY DepthAssumption, SMT DEF Indices
<1>2. \A x \in Nat : Slot(x) \in Ids
  BY <1>1, SMT DEF Slot, Ids
<1>0. /\ \A x \in Nat : \E q \in Nat : x = Depth * q + Slot(x)
      /\ \A q \in Nat, r \in 0 .. Depth - 1 : Slot(Depth * q + r) = r
  BY <1>1, Remainder DEF Slot
<1>3. ASSUME NEW x \in Nat
      PROVE  Slot(x + 1) = IF Slot(x) = Depth - 1 THEN 0 ELSE Slot(x) + 1
  <2>1. PICK q \in Nat : x = Depth * q + Slot(x)
    BY <1>0
  <2>2. CASE Slot(x) = Depth - 1
    <3>1. x + 1 = Depth * (q + 1) + 0 /\ q + 1 \in Nat /\ 0 \in 0 .. Depth - 1
      BY <1>1, <2>1, <2>2, SMT
    <3> QED BY <1>0, <2>2, <3>1
  <2>3. CASE Slot(x) # Depth - 1
    <3>1. x + 1 = Depth * q + (Slot(x) + 1) /\ Slot(x) + 1 \in 0 .. Depth - 1
      BY <1>1, <1>2, <2>1, <2>3, SMT DEF Ids
    <3>2. Slot(Depth * q + (Slot(x) + 1)) = Slot(x) + 1
      BY <1>0, <3>1
    <3> QED BY <2>3, <3>1, <3>2
  <2> QED BY <2>2, <2>3
<1>4. ASSUME NEW x \in Nat PROVE Slot(IdxMod + x) = Slot(x)
  <2>1. PICK q \in Nat : x = Depth * q + Slot(x)
    BY <1>0
  <2>2. PICK n \in Nat : IdxMod = Depth * n
    BY <1>1, Remainder, SMT
  <2>3. IdxMod + x = Depth * (n + q) + Slot(x) /\ n + q \in Nat /\ Slot(x) \in 0 .. Depth - 1
    BY <1>1, <1>2, <2>1, <2>2, SMT DEF Ids
  <2>4. Slot(Depth * (n + q) + Slot(x)) = Slot(x)
    BY <1>0, <2>3
  <2> QED BY <2>3, <2>4
<1>5. Succ(i) = IF i + 1 = IdxMod THEN 0 ELSE i + 1
  BY <1>1, SMT DEF Succ
<1>6. ASSUME NEW k \in Ids, NEW l \in Ids, Slot(i + k) = Slot(i + l) PROVE k = l
  <2>1. i + k \in Nat /\ i + l \in Nat
    BY <1>1, SMT DEF Ids
  <2>2. PICK q \in Nat : i + k = Depth * q + Slot(i + k)
    BY <1>0, <2>1
  <2>3. PICK p \in Nat : i + l = Depth * p + Slot(i + l)
    BY <1>0, <2>1
  <2> DEFINE s == Slot(i + k)
  <2>4. s \in Nat /\ i + k = Depth * q + s /\ i + l = Depth * p + s
    BY <1>2, <1>6, <2>1, <2>2, <2>3, SMT DEF Ids
  <2> HIDE DEF s
  <2>5. q = p
    BY <1>1, <2>4, SMT DEF Ids
  <2> QED BY <1>1, <2>4, <2>5, SMT DEF Ids
<1>7. ASSUME NEW k \in Nat PROVE Slot(Succ(i) + k) = Slot(i + k + 1)
  <2>1. CASE i + 1 = IdxMod
    <3>1. Succ(i) + k = k /\ i + k + 1 = IdxMod + k
      BY <1>1, <1>5, <2>1, SMT
    <3> QED BY <1>4, <3>1
  <2>2. CASE i + 1 # IdxMod
    <3>1. Succ(i) + k = i + k + 1
      BY <1>1, <1>5, <2>2, SMT
    <3> QED BY <3>1
  <2> QED BY <2>1, <2>2
<1>8. Slot(Succ(i)) = Slot(i + 1)
  <2>1. Succ(i) + 0 = Succ(i) /\ i + 0 + 1 = i + 1
    BY <1>1, <1>5, SMT
  <2>2. 0 \in Nat
    BY SMT
  <2> QED BY <1>7, <2>1, <2>2
<1>9. ASSUME NEW j \in Indices PROVE Slot(i + Ahead(j, i)) = Slot(j)
  <2>1. j \in Nat /\ (i + Ahead(j, i) = j \/ i + Ahead(j, i) = IdxMod + j)
    BY <1>1, SMT DEF Ahead, Indices
  <2> QED BY <1>4, <2>1
<1>10. \A k \in Nat : i + k \in Nat
  BY <1>1, SMT
<1>11. ASSUME NEW k \in Ids
       PROVE  Slot(i + k) = IF Slot(i) + k < Depth THEN Slot(i) + k
                            ELSE Slot(i) + k - Depth
  <2>1. PICK q \in Nat : i = Depth * q + Slot(i)
    BY <1>0, <1>1
  <2> DEFINE h == Slot(i)
  <2>2. h \in 0 .. Depth - 1
    BY <1>1, <1>2 DEF Ids
  <2>3. i = Depth * q + h
    BY <2>1
  <2> HIDE DEF h
  <2>4. CASE h + k < Depth
    <3>1. i + k = Depth * q + (h + k) /\ h + k \in 0 .. Depth - 1
      BY <1>1, <2>2, <2>3, <2>4, SMT DEF Ids
    <3>2. Slot(Depth * q + (h + k)) = h + k
      BY <1>0, <3>1
    <3> QED BY <2>4, <3>1, <3>2 DEF h
  <2>5. CASE ~ (h + k < Depth)
    <3>1. /\ i + k = Depth * (q + 1) + (h + k - Depth)
          /\ h + k - Depth \in 0 .. Depth - 1 /\ q + 1 \in Nat
      BY <1>1, <2>2, <2>3, <2>5, SMT DEF Ids
    <3>2. Slot(Depth * (q + 1) + (h + k - Depth)) = h + k - Depth
      BY <1>0, <3>1
    <3> QED BY <2>5, <3>1, <3>2 DEF h
  <2> QED BY <2>4, <2>5
<1> QED BY <1>1, <1>2, <1>3, <1>6, <1>7, <1>8, <1>9, <1>10, <1>11

-----------------------------------------------------------------------------
(* The two queues, as long as the device completes what it was given once   *)
(* and is not reset.                                                        *)

\* How many descriptors the device has still to fetch and how many
\* completions the driver has still to read, and which they are.
ToFetch == Ahead(sq_tail, dev_sq_head)
ToRead  == Ahead(dev_cq_tail, cq_head)
SqAt(k) == sq_virt[Slot(dev_sq_head + k)]
CqAt(k) == cq_virt[Slot(cq_head + k)]

\* The phase the driver will expect k completions after the head.
PhaseAt(k) == IF Slot(cq_head) + k < Depth THEN cq_phase ELSE 1 - cq_phase

\* The phase bit tells the completions the driver has not read from those of
\* the round before.
PhasesTell ==
  /\ ToRead <= Depth /\ dev_cq_phase = PhaseAt(ToRead)
  /\ \A k \in Ids :
       CqAt(k).phase = IF k < ToRead THEN PhaseAt(k) ELSE 1 - PhaseAt(k)

\* Writing a descriptor adds it behind the ones the device has not fetched,
\* and changes none of them.
LEMMA PushView ==
  ASSUME RingTypeOK, ToFetch < Depth, NEW id, NEW nb, SqPush(id, nb),
         dev_sq_head' = dev_sq_head
  PROVE  /\ ToFetch \in Nat /\ ToFetch' = ToFetch + 1
         /\ \A k \in 0 .. ToFetch - 1 : SqAt(k)' = SqAt(k)
         /\ \A k \in Nat : k = ToFetch =>
              SqAt(k)' = [req_id |-> id, nb |-> nb, phase |-> sq_phase]
<1>1. /\ sq_tail \in Indices /\ dev_sq_head \in Indices
      /\ sq_virt \in [Ids -> [req_id : Ids, nb : Netbufs \cup {None}, phase : Phases]]
  BY DEF RingTypeOK
<1>2. /\ ToFetch \in Indices
      /\ ToFetch < IdxMod - 1 => Ahead(Succ(sq_tail), dev_sq_head) = ToFetch + 1
  BY <1>1, Distance DEF ToFetch
<1>3. ToFetch \in Nat /\ ToFetch \in Ids /\ ToFetch < IdxMod - 1
  BY <1>2, DepthAssumption, SMT DEF Indices, Ids
<1>4. ToFetch' = ToFetch + 1
  BY <1>2, <1>3 DEF ToFetch, SqPush
<1>5. /\ Slot(dev_sq_head + ToFetch) = Slot(sq_tail)
      /\ \A k, l \in Ids : Slot(dev_sq_head + k) = Slot(dev_sq_head + l) => k = l
      /\ \A k \in Nat : Slot(dev_sq_head + k) \in Ids
  BY <1>1, Slots DEF ToFetch
<1>6. sq_virt' = [sq_virt EXCEPT ![Slot(sq_tail)] =
                    [req_id |-> id, nb |-> nb, phase |-> sq_phase]]
  BY DEF SqPush
<1>7. ASSUME NEW k \in 0 .. ToFetch - 1 PROVE SqAt(k)' = SqAt(k)
  <2>1. k \in Nat /\ k \in Ids /\ k # ToFetch
    BY <1>3, DepthAssumption, SMT DEF Ids
  <2>2. Slot(dev_sq_head + k) # Slot(sq_tail) /\ Slot(dev_sq_head + k) \in Ids
    BY <1>3, <1>5, <2>1
  <2> QED BY <1>1, <1>6, <2>2 DEF SqAt
<1>8. ASSUME NEW k \in Nat, k = ToFetch
      PROVE  SqAt(k)' = [req_id |-> id, nb |-> nb, phase |-> sq_phase]
  BY <1>1, <1>5, <1>6, <1>8 DEF SqAt
<1> QED BY <1>3, <1>4, <1>7, <1>8

\* Fetching takes the first of the descriptors and leaves the others in order.
LEMMA FetchView ==
  ASSUME RingTypeOK, ToFetch > 0, dev_sq_head' = Succ(dev_sq_head),
         UNCHANGED <<sq_tail, sq_virt>>
  PROVE  /\ ToFetch \in Nat /\ ToFetch' = ToFetch - 1
         /\ \A k \in 0 .. ToFetch - 2 : SqAt(k)' = SqAt(k + 1)
         /\ SqAt(0) = sq_virt[Slot(dev_sq_head)]
<1>1. sq_tail \in Indices /\ dev_sq_head \in Indices
  BY DEF RingTypeOK
<1>2. /\ ToFetch \in Indices
      /\ ToFetch > 0 => Ahead(sq_tail, Succ(dev_sq_head)) = ToFetch - 1
  BY <1>1, Distance DEF ToFetch
<1>3. ToFetch \in Nat /\ dev_sq_head + 0 = dev_sq_head
  BY <1>1, <1>2, SMT DEF Indices
<1>4. ASSUME NEW k \in 0 .. ToFetch - 2 PROVE SqAt(k)' = SqAt(k + 1)
  <2>1. k \in Nat /\ dev_sq_head + k + 1 = dev_sq_head + (k + 1)
    BY <1>1, SMT DEF Indices
  <2>2. Slot(Succ(dev_sq_head) + k) = Slot(dev_sq_head + k + 1)
    BY <1>1, <2>1, Slots
  <2> QED BY <2>1, <2>2 DEF SqAt
<1> QED BY <1>2, <1>3, <1>4 DEF SqAt, ToFetch

\* Posting a completion adds it behind the ones the driver has not read, with
\* the phase the driver will expect there.
LEMMA PostView ==
  ASSUME RingTypeOK, PhasesTell, ToRead < Depth, NEW id, DevPost(id),
         UNCHANGED <<cq_head, cq_phase>>
  PROVE  /\ PhasesTell' /\ ToRead \in Nat /\ ToRead' = ToRead + 1
         /\ \A k \in 0 .. ToRead - 1 : CqAt(k)' = CqAt(k)
         /\ \A k \in Nat : k = ToRead => CqAt(k)'.req_id = id
<1>1. /\ cq_head \in Indices /\ dev_cq_tail \in Indices /\ dev_cq_phase \in Phases
      /\ cq_phase \in Phases
      /\ cq_virt \in [Ids -> [req_id : 0 .. Depth, phase : Phases]]
  BY DEF RingTypeOK
<1>2. /\ ToRead \in Indices
      /\ ToRead < IdxMod - 1 => Ahead(Succ(dev_cq_tail), cq_head) = ToRead + 1
  BY <1>1, Distance DEF ToRead
<1>3. ToRead \in Nat /\ ToRead \in Ids /\ ToRead < IdxMod - 1
  BY <1>2, DepthAssumption, SMT DEF Indices, Ids
<1>4. ToRead' = ToRead + 1
  BY <1>2, <1>3 DEF ToRead, DevPost
<1>5. /\ Slot(cq_head + ToRead) = Slot(dev_cq_tail)
      /\ \A k, l \in Ids : Slot(cq_head + k) = Slot(cq_head + l) => k = l
      /\ \A k \in Nat : Slot(cq_head + k) \in Ids
  BY <1>1, Slots DEF ToRead
<1>6. cq_virt' = [cq_virt EXCEPT ![Slot(dev_cq_tail)] =
                    [req_id |-> id, phase |-> dev_cq_phase]]
  BY DEF DevPost
<1>7. \A k \in Ids : k \in Nat
  BY DepthAssumption, SMT DEF Ids
<1>8. ASSUME NEW k \in Ids, k # ToRead PROVE CqAt(k)' = CqAt(k)
  <2>1. Slot(cq_head + k) # Slot(dev_cq_tail) /\ Slot(cq_head + k) \in Ids
    BY <1>3, <1>5, <1>7, <1>8
  <2> QED BY <1>1, <1>6, <2>1 DEF CqAt
<1>9. ASSUME NEW k \in Nat, k = ToRead
      PROVE  CqAt(k)'.req_id = id /\ CqAt(k)'.phase = dev_cq_phase
  <2>1. CqAt(k)' = [req_id |-> id, phase |-> dev_cq_phase]
    BY <1>1, <1>5, <1>6, <1>9 DEF CqAt
  <2> QED BY <2>1, SMT
<1>10. \A k \in Nat : PhaseAt(k)' = PhaseAt(k)
  BY DEF PhaseAt
<1>11. dev_cq_phase' = PhaseAt(ToRead + 1)
  <2> DEFINE h == Slot(cq_head)
             t == Slot(dev_cq_tail)
             u == Slot(Succ(dev_cq_tail))
  <2>1. /\ h \in Ids /\ cq_phase \in {0, 1}
        /\ t = IF h + ToRead < Depth THEN h + ToRead ELSE h + ToRead - Depth
        /\ u = IF t = Depth - 1 THEN 0 ELSE t + 1
    <3>1. h \in Ids /\ cq_phase \in {0, 1}
      BY <1>1, IndexType DEF Phases
    <3>2. Slot(cq_head + ToRead) = IF h + ToRead < Depth THEN h + ToRead
                                   ELSE h + ToRead - Depth
      BY <1>1, <1>3, Slots
    <3>3. u = IF t = Depth - 1 THEN 0 ELSE t + 1
      BY <1>1, Slots
    <3> QED BY <1>5, <3>1, <3>2, <3>3
  <2>2. /\ dev_cq_phase = IF h + ToRead < Depth THEN cq_phase ELSE 1 - cq_phase
        /\ dev_cq_phase' = IF u = 0 THEN 1 - dev_cq_phase ELSE dev_cq_phase
    BY DEF PhasesTell, PhaseAt, DevPost, FlipOnWrap
  <2> HIDE DEF h, t, u
  <2>3. dev_cq_phase' = IF h + (ToRead + 1) < Depth THEN cq_phase ELSE 1 - cq_phase
    BY <1>3, <2>1, <2>2, DepthAssumption, SMT DEF Ids
  <2> QED BY <2>3 DEF PhaseAt, h
<1>12. \A k \in Ids :
         CqAt(k)'.phase = IF k < ToRead' THEN PhaseAt(k) ELSE 1 - PhaseAt(k)
  <2> SUFFICES ASSUME NEW k \in Ids
               PROVE  CqAt(k)'.phase = IF k < ToRead + 1 THEN PhaseAt(k) ELSE 1 - PhaseAt(k)
    BY <1>4
  <2>1. CASE k = ToRead
    <3>1. CqAt(k)'.phase = PhaseAt(k)
      BY <1>7, <1>9, <2>1 DEF PhasesTell
    <3>2. k < ToRead + 1
      BY <1>3, <2>1, SMT
    <3> QED BY <3>1, <3>2
  <2>2. CASE k # ToRead
    <3>1. CqAt(k)'.phase = IF k < ToRead THEN PhaseAt(k) ELSE 1 - PhaseAt(k)
      BY <1>8, <2>2 DEF PhasesTell
    <3>2. k < ToRead <=> k < ToRead + 1
      BY <1>3, <1>7, <2>2, SMT
    <3> QED BY <3>1, <3>2
  <2> QED BY <2>1, <2>2
<1>13. ToRead + 1 <= Depth /\ ToRead + 1 \in Nat
  BY <1>3, DepthAssumption, SMT DEF Ids
<1>14. PhasesTell'
  BY <1>4, <1>7, <1>10, <1>11, <1>12, <1>13 DEF PhasesTell
<1>15. \A k \in 0 .. ToRead - 1 : k \in Ids /\ k # ToRead
  BY <1>3, DepthAssumption, SMT DEF Ids
<1> QED BY <1>3, <1>4, <1>8, <1>9, <1>14, <1>15

\* A completion with the expected phase is one the device has posted, and
\* advancing over it leaves the others in order.
LEMMA ReadView ==
  ASSUME RingTypeOK, PhasesTell, CdescReady, CqAdvance,
         UNCHANGED <<cq_virt, dev_cq_tail, dev_cq_phase>>
  PROVE  /\ PhasesTell' /\ ToRead \in Nat /\ ToRead > 0 /\ ToRead' = ToRead - 1
         /\ Cdesc = CqAt(0)
         /\ \A k \in 0 .. ToRead - 2 : CqAt(k)' = CqAt(k + 1)
<1>1. /\ cq_head \in Indices /\ dev_cq_tail \in Indices /\ dev_cq_phase \in Phases
      /\ cq_phase \in Phases
      /\ cq_virt \in [Ids -> [req_id : 0 .. Depth, phase : Phases]]
  BY DEF RingTypeOK
<1>2. /\ ToRead \in Indices
      /\ ToRead > 0 => Ahead(dev_cq_tail, Succ(cq_head)) = ToRead - 1
  BY <1>1, Distance DEF ToRead
<1>3. ToRead \in Nat /\ 0 \in Ids /\ cq_head + 0 = cq_head
  BY <1>1, <1>2, DepthAssumption, SMT DEF Indices, Ids
<1>4. Cdesc = CqAt(0)
  BY <1>3 DEF Cdesc, CqAt
<1> DEFINE h == Slot(cq_head)
           g == Slot(Succ(cq_head))
<1>5. /\ h \in Ids /\ cq_phase \in {0, 1}
      /\ g = IF h = Depth - 1 THEN 0 ELSE h + 1
  BY <1>1, IndexType, Slots DEF Phases
<1>6. ToRead > 0
  <2>1. CqAt(0).phase = cq_phase
    BY <1>4 DEF CdescReady
  <2>2. CqAt(0).phase = IF 0 < ToRead THEN PhaseAt(0) ELSE 1 - PhaseAt(0)
    BY <1>3 DEF PhasesTell
  <2>3. PhaseAt(0) = cq_phase
    <3> HIDE DEF h
    <3>1. h + 0 < Depth
      BY <1>5, DepthAssumption, SMT DEF Ids
    <3> QED BY <3>1 DEF PhaseAt, h
  <2> QED BY <1>3, <1>5, <2>1, <2>2, <2>3, SMT
<1>7. ToRead' = ToRead - 1
  BY <1>2, <1>6 DEF ToRead, CqAdvance
<1>8. ASSUME NEW k \in Nat PROVE CqAt(k)' = CqAt(k + 1)
  <2>1. cq_head + k + 1 = cq_head + (k + 1)
    BY <1>1, SMT DEF Indices
  <2>2. Slot(Succ(cq_head) + k) = Slot(cq_head + k + 1)
    BY <1>1, Slots
  <2> QED BY <2>1, <2>2 DEF CqAt, CqAdvance
<1>9. ASSUME NEW k \in Ids PROVE PhaseAt(k)' = PhaseAt(k + 1)
  <2>1. /\ PhaseAt(k + 1) = IF h + (k + 1) < Depth THEN cq_phase ELSE 1 - cq_phase
        /\ PhaseAt(k)' = IF g + k < Depth THEN cq_phase' ELSE 1 - cq_phase'
        /\ cq_phase' = IF g = 0 THEN 1 - cq_phase ELSE cq_phase
    BY DEF PhaseAt, CqAdvance, FlipOnWrap
  <2> HIDE DEF h, g
  <2> QED BY <1>5, <2>1, DepthAssumption, SMT DEF Ids
<1>10. dev_cq_phase = PhaseAt(ToRead)'
  <2>1. ToRead - 1 \in Ids /\ (ToRead - 1) + 1 = ToRead
    BY <1>3, <1>6, DepthAssumption, SMT DEF Ids, PhasesTell
  <2>2. ASSUME NEW k \in Ids, k + 1 = ToRead PROVE dev_cq_phase = PhaseAt(k)'
    BY <1>9, <2>2 DEF PhasesTell
  <2> QED BY <1>7, <2>1, <2>2 DEF PhaseAt
<1>11. ASSUME NEW k \in Ids
       PROVE  CqAt(k)'.phase = IF k < ToRead - 1 THEN PhaseAt(k + 1) ELSE 1 - PhaseAt(k + 1)
  <2>0. k \in Nat
    BY DepthAssumption, SMT DEF Ids
  <2>1. CASE k # Depth - 1
    <3>1. k + 1 \in Ids /\ (k + 1 < ToRead <=> k < ToRead - 1)
      BY <1>3, <2>1, DepthAssumption, SMT DEF Ids
    <3> QED BY <1>8, <2>0, <3>1 DEF PhasesTell
  <2>2. CASE k = Depth - 1
    <3>1. Slot(Succ(cq_head) + k) = IF g + k < Depth THEN g + k ELSE g + k - Depth
      BY <1>1, IndexType, Slots
    <3>2. PhaseAt(k + 1) = IF h + (k + 1) < Depth THEN cq_phase ELSE 1 - cq_phase
      BY DEF PhaseAt
    <3>3. Slot(Succ(cq_head) + k) = h
      <4> HIDE DEF h, g
      <4> QED BY <1>5, <2>2, <3>1, DepthAssumption, SMT DEF Ids
    <3>4. CqAt(k)'.phase = cq_phase
      BY <3>3 DEF CqAt, CqAdvance, CdescReady, Cdesc
    <3>5. ToRead <= Depth
      BY DEF PhasesTell
    <3> HIDE DEF h
    <3> QED BY <1>3, <1>5, <2>2, <3>2, <3>4, <3>5, DepthAssumption, SMT DEF Ids
  <2> QED BY <2>1, <2>2
<1>12. ToRead' <= Depth
  BY <1>3, <1>7, DepthAssumption, SMT DEF PhasesTell
<1>13. PhasesTell'
  BY <1>7, <1>9, <1>10, <1>11, <1>12 DEF PhasesTell
<1>14. \A k \in 0 .. ToRead - 2 : k \in Nat
  BY SMT
<1> QED BY <1>3, <1>4, <1>6, <1>7, <1>8, <1>13, <1>14

\* A request that is out: its id is checked out and marked in flight.
Out(id) == req_allocated[id] /\ req_in_flight[id]

\* Every descriptor the device has not fetched, every one it works on and
\* every completion the driver has not read belongs to a request that is out,
\* each to a different one; and the descriptors name the netbufs the tracking
\* slots hold.
OnceQueued ==
  /\ ToFetch <= Depth
  /\ \A k \in 0 .. ToFetch - 1 :
       Out(SqAt(k).req_id) /\ bufs[SqAt(k).req_id] = SqAt(k).nb
  /\ \A w \in dev_work : Out(w.req_id) /\ bufs[w.req_id] = w.nb
  /\ \A k \in 0 .. ToRead - 1 : CqAt(k).req_id \in Ids /\ Out(CqAt(k).req_id)
  /\ \A k, l \in 0 .. ToFetch - 1 : SqAt(k).req_id = SqAt(l).req_id => k = l
  /\ \A k, l \in 0 .. ToRead - 1 : CqAt(k).req_id = CqAt(l).req_id => k = l
  /\ \A k \in 0 .. ToFetch - 1, w \in dev_work : SqAt(k).req_id # w.req_id
  /\ \A k \in 0 .. ToFetch - 1, l \in 0 .. ToRead - 1 : SqAt(k).req_id # CqAt(l).req_id
  /\ \A w \in dev_work, l \in 0 .. ToRead - 1 : w.req_id # CqAt(l).req_id

\* What is queued has its type.
LEMMA QueueType ==
  ASSUME RingTypeOK
  PROVE  /\ ToFetch \in Nat /\ ToRead \in Nat
         /\ \A k \in 0 .. ToFetch - 1 : SqAt(k).req_id \in Ids
         /\ \A w \in dev_work : w.req_id \in Ids
<1>1. /\ sq_tail \in Indices /\ dev_sq_head \in Indices
      /\ cq_head \in Indices /\ dev_cq_tail \in Indices
      /\ sq_virt \in [Ids -> [req_id : Ids, nb : Netbufs \cup {None}, phase : Phases]]
      /\ dev_work \subseteq [req_id : Ids, nb : Netbufs \cup {None}]
  BY DEF RingTypeOK
<1>2. ToFetch \in Indices /\ ToRead \in Indices
  BY <1>1, Distance DEF ToFetch, ToRead
<1>3. ToFetch \in Nat /\ ToRead \in Nat
  BY <1>2, DepthAssumption, SMT DEF Indices
<1>4. ASSUME NEW k \in 0 .. ToFetch - 1 PROVE SqAt(k).req_id \in Ids
  <2>1. k \in Nat
    BY SMT
  <2>2. Slot(dev_sq_head + k) \in Ids
    BY <1>1, <2>1, Slots
  <2> QED BY <1>1, <2>2 DEF SqAt
<1> QED BY <1>1, <1>3, <1>4

\* A request that is not queued leaves a place in both queues.
LEMMA QueuesHaveRoom ==
  ASSUME RingTypeOK, OnceQueued, NEW id \in Ids
  PROVE  /\ (\A k \in 0 .. ToFetch - 1 : SqAt(k).req_id # id) => ToFetch < Depth
         /\ (\A k \in 0 .. ToRead - 1 : CqAt(k).req_id # id) => ToRead < Depth
<1>1. ASSUME \A k \in 0 .. ToFetch - 1 : SqAt(k).req_id # id PROVE ToFetch < Depth
  <2> DEFINE f == [i \in 1 .. ToFetch |-> SqAt(i - 1).req_id]
  <2>1. \A i \in 1 .. ToFetch : i - 1 \in 0 .. ToFetch - 1
    BY QueueType, SMT
  <2>2. \A i, j \in 1 .. ToFetch : i # j => i - 1 # j - 1
    BY QueueType, SMT
  <2>3. \A i \in 1 .. ToFetch : f[i] \in Ids /\ f[i] # id
    BY <1>1, <2>1, QueueType
  <2>4. \A i, j \in 1 .. ToFetch : i # j => f[i] # f[j]
    BY <2>1, <2>2 DEF OnceQueued
  <2> HIDE DEF f
  <2> QED BY <2>3, <2>4, QueueType, Pigeon
<1>2. ASSUME \A k \in 0 .. ToRead - 1 : CqAt(k).req_id # id PROVE ToRead < Depth
  <2> DEFINE f == [i \in 1 .. ToRead |-> CqAt(i - 1).req_id]
  <2>1. \A i \in 1 .. ToRead : i - 1 \in 0 .. ToRead - 1
    BY QueueType, SMT
  <2>2. \A i, j \in 1 .. ToRead : i # j => i - 1 # j - 1
    BY QueueType, SMT
  <2>3. \A i \in 1 .. ToRead : f[i] \in Ids /\ f[i] # id
    BY <1>2, <2>1 DEF OnceQueued
  <2>4. \A i, j \in 1 .. ToRead : i # j => f[i] # f[j]
    BY <2>1, <2>2 DEF OnceQueued
  <2> HIDE DEF f
  <2> QED BY <2>3, <2>4, QueueType, Pigeon
<1> QED BY <1>1, <1>2

\* A submit takes an id that is not queued, so its descriptor finds a place.
LEMMA QueuePush ==
  ASSUME RingTypeOK, OnceQueued, NEW id \in Ids, ~ req_allocated[id],
         NEW nb, SqPush(id, nb),
         req_allocated' = [req_allocated EXCEPT ![id] = TRUE],
         req_in_flight' = [req_in_flight EXCEPT ![id] = TRUE],
         bufs' = [bufs EXCEPT ![id] = nb],
         UNCHANGED <<cq_head, cq_virt, dev_sq_head, dev_work, dev_cq_tail>>
  PROVE  /\ OnceQueued' /\ ToFetch < Depth /\ ToFetch' = ToFetch + 1
         /\ ToRead' = ToRead
<1>0. /\ req_allocated \in [Ids -> BOOLEAN] /\ req_in_flight \in [Ids -> BOOLEAN]
      /\ bufs \in [Ids -> Netbufs \cup {None}]
  BY DEF RingTypeOK
<1>1. /\ \A k \in 0 .. ToFetch - 1 : SqAt(k).req_id # id
      /\ \A k \in 0 .. ToRead - 1 : CqAt(k).req_id # id
      /\ \A w \in dev_work : w.req_id # id
  BY ZenonT(30) DEF OnceQueued, Out
<1>2. ToFetch < Depth
  BY <1>1, QueuesHaveRoom
<1>3. /\ ToFetch \in Nat /\ ToFetch' = ToFetch + 1
      /\ \A k \in 0 .. ToFetch - 1 : SqAt(k)' = SqAt(k)
      /\ \A k \in Nat : k = ToFetch =>
           SqAt(k)' = [req_id |-> id, nb |-> nb, phase |-> sq_phase]
  BY <1>2, PushView
<1>4. /\ ToRead' = ToRead
      /\ \A k \in 0 .. ToRead - 1 : CqAt(k)' = CqAt(k)
  BY DEF ToRead, CqAt
<1>5. /\ \A x \in Ids : x # id => (Out(x)' <=> Out(x)) /\ bufs'[x] = bufs[x]
      /\ Out(id)' /\ bufs'[id] = nb
  BY <1>0 DEF Out
<1>6. ASSUME NEW k \in 0 .. ToFetch PROVE k \in 0 .. ToFetch - 1 \/ k = ToFetch
  BY <1>3, SMT
<1>7. ToFetch + 1 <= Depth /\ 0 .. (ToFetch + 1) - 1 = 0 .. ToFetch /\ ToFetch \in Nat
  BY <1>2, <1>3, DepthAssumption, SMT
<1>8. ASSUME NEW k \in Nat, k = ToFetch
      PROVE  SqAt(k)'.req_id = id /\ SqAt(k)'.nb = nb
  <2>1. SqAt(k)' = [req_id |-> id, nb |-> nb, phase |-> sq_phase]
    BY <1>3, <1>8
  <2> QED BY <2>1, SMT
<1>9. \A k \in 0 .. ToFetch - 1 :
        /\ SqAt(k)'.req_id = SqAt(k).req_id /\ SqAt(k)'.nb = SqAt(k).nb
        /\ SqAt(k).req_id \in Ids
  BY <1>3, QueueType
<1>10. \A w \in dev_work : w.req_id \in Ids
  BY QueueType
<1>11. ASSUME NEW k \in 0 .. ToFetch
       PROVE  Out(SqAt(k).req_id)' /\ bufs'[SqAt(k)'.req_id] = SqAt(k)'.nb
  <2>1. CASE k = ToFetch
    <3>1. SqAt(k)'.req_id = id /\ SqAt(k)'.nb = nb
      BY <1>7, <1>8, <2>1
    <3> QED BY <1>5, <3>1 DEF Out
  <2>2. CASE k \in 0 .. ToFetch - 1
    <3>1. PICK x \in Ids : x = SqAt(k).req_id
      BY <2>2, <1>9
    <3>2. x # id /\ Out(x) /\ bufs[x] = SqAt(k).nb
      BY <1>1, <2>2, <3>1 DEF OnceQueued
    <3>3. SqAt(k)'.req_id = x /\ SqAt(k)'.nb = SqAt(k).nb
      BY <1>9, <2>2, <3>1
    <3> QED BY <1>5, <3>2, <3>3 DEF Out
  <2> QED BY <1>6, <2>1, <2>2
<1>12. \A w \in dev_work' : Out(w.req_id)' /\ bufs'[w.req_id] = w.nb
  BY <1>1, <1>5, <1>10 DEF OnceQueued, Out
<1>13. ASSUME NEW k \in 0 .. ToRead - 1
       PROVE  CqAt(k)'.req_id \in Ids /\ Out(CqAt(k).req_id)'
  <2>1. PICK x \in Ids : x = CqAt(k).req_id
    BY DEF OnceQueued
  <2>2. x # id /\ Out(x)
    BY <1>1, <2>1 DEF OnceQueued
  <2>3. CqAt(k)'.req_id = x
    BY <1>4, <2>1
  <2> QED BY <1>5, <2>2, <2>3 DEF Out
<1>14. ASSUME NEW k \in 0 .. ToFetch, NEW l \in 0 .. ToFetch, SqAt(k)'.req_id = SqAt(l)'.req_id
       PROVE  k = l
  <2>1. CASE k \in 0 .. ToFetch - 1 /\ l \in 0 .. ToFetch - 1
    BY <1>9, <1>14, <2>1 DEF OnceQueued
  <2>2. CASE k \in 0 .. ToFetch - 1 /\ l = ToFetch
    BY <1>1, <1>7, <1>8, <1>9, <1>14, <2>2
  <2>3. CASE k = ToFetch /\ l \in 0 .. ToFetch - 1
    BY <1>1, <1>7, <1>8, <1>9, <1>14, <2>3
  <2> QED BY <1>6, <2>1, <2>2, <2>3
<1>15. \A k, l \in 0 .. ToRead - 1 : CqAt(k)'.req_id = CqAt(l)'.req_id => k = l
  BY <1>4 DEF OnceQueued
<1>16. ASSUME NEW k \in 0 .. ToFetch
       PROVE  /\ \A w \in dev_work : SqAt(k)'.req_id # w.req_id
              /\ \A l \in 0 .. ToRead - 1 : SqAt(k)'.req_id # CqAt(l)'.req_id
  <2>1. CASE k = ToFetch
    BY <1>1, <1>4, <1>7, <1>8, <2>1
  <2>2. CASE k \in 0 .. ToFetch - 1
    <3>1. SqAt(k)'.req_id = SqAt(k).req_id
      BY <1>9, <2>2
    <3>2. /\ \A w \in dev_work : SqAt(k).req_id # w.req_id
          /\ \A l \in 0 .. ToRead - 1 : SqAt(k).req_id # CqAt(l).req_id
      BY <2>2 DEF OnceQueued
    <3> QED BY <1>4, <3>1, <3>2
  <2> QED BY <1>6, <2>1, <2>2
<1>17. \A w \in dev_work, l \in 0 .. ToRead - 1 : w.req_id # CqAt(l)'.req_id
  BY <1>4 DEF OnceQueued
<1>18. OnceQueued'
  BY <1>3, <1>4, <1>7, <1>11, <1>12, <1>13, <1>14, <1>15, <1>16, <1>17 DEF OnceQueued
<1> QED BY <1>2, <1>3, <1>4, <1>18

\* A fetched descriptor goes from the queue to the device's work.
LEMMA QueueFetch ==
  ASSUME RingTypeOK, OnceQueued, ToFetch > 0, DevFetch,
         UNCHANGED <<sq_tail, sq_virt, cq_head, req_allocated, req_in_flight, bufs>>
  PROVE  OnceQueued' /\ ToFetch' = ToFetch - 1 /\ ToRead' = ToRead
<1> DEFINE v == [req_id |-> SqAt(0).req_id, nb |-> SqAt(0).nb]
<1>1. /\ dev_sq_head' = Succ(dev_sq_head)
      /\ UNCHANGED <<dev_cq_tail, cq_virt>>
      /\ dev_work' = dev_work \cup {[req_id |-> sq_virt[Slot(dev_sq_head)].req_id,
                                     nb |-> sq_virt[Slot(dev_sq_head)].nb]}
  BY DEF DevFetch
<1>2. /\ ToFetch \in Nat /\ ToFetch' = ToFetch - 1
      /\ \A k \in 0 .. ToFetch - 2 : SqAt(k)' = SqAt(k + 1)
      /\ SqAt(0) = sq_virt[Slot(dev_sq_head)]
  BY <1>1, FetchView
<1>3. dev_work' = dev_work \cup {v} /\ v.req_id = SqAt(0).req_id /\ v.nb = SqAt(0).nb
  BY <1>1, <1>2
<1>4. /\ ToRead' = ToRead
      /\ \A k \in 0 .. ToRead - 1 : CqAt(k)' = CqAt(k)
  BY <1>1 DEF ToRead, CqAt
<1>5. /\ 0 .. (ToFetch - 1) - 1 = 0 .. ToFetch - 2
      /\ 0 \in 0 .. ToFetch - 1
      /\ \A k \in 0 .. ToFetch - 2 : k + 1 \in 0 .. ToFetch - 1 /\ k + 1 # 0
      /\ \A k, l \in 0 .. ToFetch - 2 : k + 1 = l + 1 => k = l
  BY <1>2, SMT
<1>6. ToFetch - 1 <= Depth
  BY <1>2, DepthAssumption, SMT DEF OnceQueued
<1> HIDE DEF v
<1>7. ASSUME NEW k \in 0 .. ToFetch - 2
      PROVE  /\ Out(SqAt(k).req_id)' /\ bufs'[SqAt(k)'.req_id] = SqAt(k)'.nb
             /\ \A w \in dev_work' : SqAt(k)'.req_id # w.req_id
             /\ \A l \in 0 .. ToRead - 1 : SqAt(k)'.req_id # CqAt(l)'.req_id
             /\ \A l \in 0 .. ToFetch - 2 : SqAt(k)'.req_id = SqAt(l)'.req_id => k = l
  <2>1. SqAt(k)' = SqAt(k + 1) /\ k + 1 \in 0 .. ToFetch - 1 /\ k + 1 # 0
    BY <1>2, <1>5
  <2>2. /\ Out(SqAt(k + 1).req_id) /\ bufs[SqAt(k + 1).req_id] = SqAt(k + 1).nb
        /\ \A w \in dev_work : SqAt(k + 1).req_id # w.req_id
        /\ \A l \in 0 .. ToRead - 1 : SqAt(k + 1).req_id # CqAt(l).req_id
        /\ SqAt(k + 1).req_id # SqAt(0).req_id
    BY <1>5, <2>1 DEF OnceQueued
  <2>3. \A l \in 0 .. ToFetch - 2 : SqAt(k)'.req_id = SqAt(l)'.req_id => k = l
    BY <1>2, <1>5, <2>1 DEF OnceQueued
  <2>4. \A w \in dev_work' : SqAt(k)'.req_id # w.req_id
    BY <1>3, <2>1, <2>2
  <2>5. \A l \in 0 .. ToRead - 1 : SqAt(k)'.req_id # CqAt(l)'.req_id
    BY <1>4, <2>1, <2>2
  <2>6. Out(SqAt(k).req_id)' /\ bufs'[SqAt(k)'.req_id] = SqAt(k)'.nb
    BY <2>1, <2>2 DEF Out
  <2> QED BY <2>3, <2>4, <2>5, <2>6
<1>8. ASSUME NEW w \in dev_work'
      PROVE  /\ Out(w.req_id)' /\ bufs'[w.req_id] = w.nb
             /\ \A l \in 0 .. ToRead - 1 : w.req_id # CqAt(l)'.req_id
  <2>1. CASE w \in dev_work
    BY <1>4, <2>1 DEF OnceQueued, Out
  <2>2. CASE w = v
    BY <1>3, <1>4, <1>5, <2>2 DEF OnceQueued, Out
  <2> QED BY <1>3, <2>1, <2>2
<1>9. \A k \in 0 .. ToRead - 1 : CqAt(k)'.req_id \in Ids /\ Out(CqAt(k).req_id)'
  BY <1>4 DEF OnceQueued, Out
<1>10. \A k, l \in 0 .. ToRead - 1 : CqAt(k)'.req_id = CqAt(l)'.req_id => k = l
  BY <1>4 DEF OnceQueued
<1>11. OnceQueued'
  BY <1>2, <1>4, <1>5, <1>6, <1>7, <1>8, <1>9, <1>10 DEF OnceQueued
<1> QED BY <1>2, <1>4, <1>11

\* A completion of what the device worked on finds a place, and nothing else
\* of that request is left.
LEMMA QueuePost ==
  ASSUME RingTypeOK, OnceQueued, PhasesTell, NEW w \in dev_work,
         dev_work' = dev_work \ {w}, DevPost(w.req_id),
         UNCHANGED <<sq_tail, sq_virt, cq_head, cq_phase, req_allocated,
                     req_in_flight, bufs>>
  PROVE  /\ OnceQueued' /\ PhasesTell' /\ ToFetch' = ToFetch
         /\ ToRead < Depth /\ ToRead' = ToRead + 1
<1>1. /\ \A k \in 0 .. ToFetch - 1 : SqAt(k).req_id # w.req_id
      /\ \A k \in 0 .. ToRead - 1 : CqAt(k).req_id # w.req_id
      /\ w.req_id \in Ids /\ Out(w.req_id)
  BY QueueType DEF OnceQueued
<1>2. ToRead < Depth
  BY <1>1, QueuesHaveRoom
<1>3. /\ PhasesTell' /\ ToRead \in Nat /\ ToRead' = ToRead + 1
      /\ \A k \in 0 .. ToRead - 1 : CqAt(k)' = CqAt(k)
      /\ \A k \in Nat : k = ToRead => CqAt(k)'.req_id = w.req_id
  BY <1>2, PostView
<1>4. /\ ToFetch' = ToFetch
      /\ \A k \in 0 .. ToFetch - 1 : SqAt(k)' = SqAt(k)
  BY DEF ToFetch, SqAt, DevPost
<1>5. ASSUME NEW v \in dev_work' PROVE v \in dev_work /\ v.req_id # w.req_id
  <2>1. v \in dev_work /\ v # w
    OBVIOUS
  <2>2. dev_work \subseteq [req_id : Ids, nb : Netbufs \cup {None}]
    BY DEF RingTypeOK
  <2>3. v.req_id = w.req_id => v.nb = w.nb
    BY <2>1 DEF OnceQueued
  <2> QED BY <2>1, <2>2, <2>3, SMT
<1>6. \A k \in 0 .. (ToRead + 1) - 1 : k \in 0 .. ToRead - 1 \/ (k = ToRead /\ k \in Nat)
  BY <1>3, SMT
<1>7. ASSUME NEW k \in 0 .. (ToRead + 1) - 1
      PROVE  /\ CqAt(k)'.req_id \in Ids /\ Out(CqAt(k).req_id)'
             /\ \A l \in 0 .. ToFetch - 1 : SqAt(l)'.req_id # CqAt(k)'.req_id
             /\ \A v \in dev_work' : v.req_id # CqAt(k)'.req_id
  <2>1. CASE k \in 0 .. ToRead - 1
    <3>1. CqAt(k)'.req_id = CqAt(k).req_id
      BY <1>3, <2>1
    <3>2. /\ CqAt(k).req_id \in Ids /\ Out(CqAt(k).req_id)
          /\ \A l \in 0 .. ToFetch - 1 : SqAt(l).req_id # CqAt(k).req_id
          /\ \A v \in dev_work : v.req_id # CqAt(k).req_id
      BY <2>1 DEF OnceQueued
    <3> QED BY <1>4, <1>5, <3>1, <3>2 DEF Out
  <2>2. CASE k = ToRead /\ k \in Nat
    <3>1. CqAt(k)'.req_id = w.req_id
      BY <1>3, <2>2
    <3> QED BY <1>1, <1>4, <1>5, <3>1 DEF Out
  <2> QED BY <1>6, <2>1, <2>2
<1>8. ASSUME NEW k \in 0 .. (ToRead + 1) - 1, NEW l \in 0 .. (ToRead + 1) - 1,
             CqAt(k)'.req_id = CqAt(l)'.req_id
      PROVE  k = l
  <2>1. \A j \in 0 .. ToRead - 1 : CqAt(j)'.req_id # w.req_id
    BY <1>1, <1>3
  <2>2. CASE k \in 0 .. ToRead - 1 /\ l \in 0 .. ToRead - 1
    BY <1>3, <1>8, <2>2 DEF OnceQueued
  <2>3. CASE k = ToRead \/ l = ToRead
    BY <1>3, <1>6, <1>8, <2>1, <2>3
  <2> QED BY <1>6, <2>2, <2>3
<1>9. ASSUME NEW k \in 0 .. ToFetch - 1
      PROVE  /\ Out(SqAt(k).req_id)' /\ bufs'[SqAt(k)'.req_id] = SqAt(k)'.nb
             /\ \A v \in dev_work' : SqAt(k)'.req_id # v.req_id
  <2>1. /\ Out(SqAt(k).req_id) /\ bufs[SqAt(k).req_id] = SqAt(k).nb
        /\ \A v \in dev_work : SqAt(k).req_id # v.req_id
    BY DEF OnceQueued
  <2>2. SqAt(k)' = SqAt(k)
    BY <1>4
  <2> QED BY <1>5, <2>1, <2>2 DEF Out
<1>10. \A k, l \in 0 .. ToFetch - 1 : SqAt(k)'.req_id = SqAt(l)'.req_id => k = l
  BY <1>4 DEF OnceQueued
<1>11. \A v \in dev_work' : Out(v.req_id)' /\ bufs'[v.req_id] = v.nb
  BY <1>5 DEF OnceQueued, Out
<1>12. ToFetch' <= Depth
  BY <1>4 DEF OnceQueued
<1>13. OnceQueued'
  BY <1>3, <1>4, <1>7, <1>8, <1>9, <1>10, <1>11, <1>12 DEF OnceQueued
<1> QED BY <1>2, <1>3, <1>4, <1>13

\* The completion the driver reads belongs to a request that is out and that
\* the device holds no more; what the driver does to this request disturbs no
\* other.
LEMMA QueueRead ==
  ASSUME RingTypeOK, OnceQueued, PhasesTell, CdescReady, CqAdvance,
         UNCHANGED <<sq_tail, sq_virt, cq_virt, dev_sq_head, dev_work, dev_cq_tail,
                     dev_cq_phase>>,
         \A x \in Ids : x # Cdesc.req_id =>
           /\ req_allocated'[x] = req_allocated[x]
           /\ req_in_flight'[x] = req_in_flight[x]
           /\ bufs'[x] = bufs[x]
  PROVE  /\ OnceQueued' /\ PhasesTell' /\ ToFetch' = ToFetch
         /\ Cdesc.req_id \in Ids /\ Out(Cdesc.req_id) /\ ~ DeviceHolds(Cdesc.req_id)
<1>1. /\ PhasesTell' /\ ToRead \in Nat /\ ToRead > 0 /\ ToRead' = ToRead - 1
      /\ Cdesc = CqAt(0)
      /\ \A k \in 0 .. ToRead - 2 : CqAt(k)' = CqAt(k + 1)
  BY ReadView
<1>2. PICK id : id = Cdesc.req_id
  OBVIOUS
<1>3. /\ 0 .. (ToRead - 1) - 1 = 0 .. ToRead - 2
      /\ 0 \in 0 .. ToRead - 1
      /\ \A k \in 0 .. ToRead - 2 : k + 1 \in 0 .. ToRead - 1 /\ k + 1 # 0
      /\ \A k, l \in 0 .. ToRead - 2 : k + 1 = l + 1 => k = l
  BY <1>1, SMT
<1>4. /\ id \in Ids /\ Out(id)
      /\ \A k \in 0 .. ToFetch - 1 : SqAt(k).req_id # id
      /\ \A w \in dev_work : w.req_id # id
      /\ \A k \in 0 .. ToRead - 2 : CqAt(k)'.req_id # id
  BY <1>1, <1>2, <1>3 DEF OnceQueued
<1>5. \A x \in Ids : x # id =>
        /\ req_allocated'[x] = req_allocated[x]
        /\ req_in_flight'[x] = req_in_flight[x]
        /\ bufs'[x] = bufs[x]
  BY <1>2
<1>6. /\ ToFetch' = ToFetch
      /\ \A k \in 0 .. ToFetch - 1 : SqAt(k)' = SqAt(k)
  BY DEF ToFetch, SqAt
<1>7. ASSUME NEW k \in 0 .. ToFetch - 1
      PROVE  Out(SqAt(k).req_id)' /\ bufs'[SqAt(k)'.req_id] = SqAt(k)'.nb
  <2>1. SqAt(k).req_id \in Ids /\ SqAt(k).req_id # id /\ SqAt(k)' = SqAt(k)
    BY <1>4, <1>6, QueueType
  <2>2. Out(SqAt(k).req_id) /\ bufs[SqAt(k).req_id] = SqAt(k).nb
    BY DEF OnceQueued
  <2> QED BY <1>5, <2>1, <2>2 DEF Out
<1>8. ASSUME NEW w \in dev_work PROVE Out(w.req_id)' /\ bufs'[w.req_id] = w.nb
  BY <1>4, <1>5, QueueType DEF OnceQueued, Out
<1>9. ASSUME NEW k \in 0 .. ToRead - 2
      PROVE  /\ CqAt(k)'.req_id \in Ids /\ Out(CqAt(k).req_id)'
             /\ \A l \in 0 .. ToFetch - 1 : SqAt(l)'.req_id # CqAt(k)'.req_id
             /\ \A w \in dev_work : w.req_id # CqAt(k)'.req_id
             /\ \A l \in 0 .. ToRead - 2 : CqAt(k)'.req_id = CqAt(l)'.req_id => k = l
  <2>1. CqAt(k)' = CqAt(k + 1) /\ k + 1 \in 0 .. ToRead - 1
    BY <1>1, <1>3
  <2>2. /\ CqAt(k + 1).req_id \in Ids /\ Out(CqAt(k + 1).req_id)
        /\ \A l \in 0 .. ToFetch - 1 : SqAt(l).req_id # CqAt(k + 1).req_id
        /\ \A w \in dev_work : w.req_id # CqAt(k + 1).req_id
    BY <2>1 DEF OnceQueued
  <2>3. \A l \in 0 .. ToRead - 2 : CqAt(k)'.req_id = CqAt(l)'.req_id => k = l
    BY <1>1, <1>3, <2>1, ZenonT(30) DEF OnceQueued
  <2>4. Out(CqAt(k).req_id)'
    BY <1>4, <1>5, <2>1, <2>2 DEF Out
  <2> QED BY <1>6, <2>1, <2>2, <2>3, <2>4
<1>10. OnceQueued'
  <2>1. /\ ToFetch <= Depth
        /\ \A k, l \in 0 .. ToFetch - 1 : SqAt(k)'.req_id = SqAt(l)'.req_id => k = l
        /\ \A k \in 0 .. ToFetch - 1, w \in dev_work : SqAt(k)'.req_id # w.req_id
    BY <1>6, ZenonT(30) DEF OnceQueued
  <2> QED BY <1>1, <1>3, <1>6, <1>7, <1>8, <1>9, <2>1, ZenonT(30) DEF OnceQueued
<1>11. ~ DeviceHolds(id)
  BY <1>4 DEF DeviceHolds, Unfetched, SqAt, ToFetch
<1> QED BY <1>1, <1>2, <1>4, <1>6, <1>10, <1>11

\* What the driver does to a request that is not out disturbs no queue.
LEMMA QueueFrame ==
  ASSUME RingTypeOK, OnceQueued,
         UNCHANGED <<sq_tail, sq_virt, cq_head, cq_virt, dev_sq_head, dev_work,
                     dev_cq_tail>>,
         \A x \in Ids : Out(x) =>
           /\ req_allocated'[x] = req_allocated[x]
           /\ req_in_flight'[x] = req_in_flight[x]
           /\ bufs'[x] = bufs[x]
  PROVE  OnceQueued' /\ ToFetch' = ToFetch /\ ToRead' = ToRead
<1>1. /\ ToFetch' = ToFetch /\ ToRead' = ToRead
      /\ \A k \in 0 .. ToFetch - 1 : SqAt(k)' = SqAt(k)
      /\ \A k \in 0 .. ToRead - 1 : CqAt(k)' = CqAt(k)
  BY DEF ToFetch, ToRead, SqAt, CqAt
<1>2. ASSUME NEW x \in Ids, Out(x)
      PROVE  req_allocated'[x] /\ req_in_flight'[x] /\ bufs'[x] = bufs[x]
  BY <1>2 DEF Out
<1>3. ASSUME NEW k \in 0 .. ToFetch - 1
      PROVE  Out(SqAt(k).req_id)' /\ bufs'[SqAt(k)'.req_id] = SqAt(k)'.nb
  <2>1. SqAt(k).req_id \in Ids /\ SqAt(k)' = SqAt(k)
    BY <1>1, QueueType
  <2>2. Out(SqAt(k).req_id) /\ bufs[SqAt(k).req_id] = SqAt(k).nb
    BY DEF OnceQueued
  <2> QED BY <1>2, <2>1, <2>2 DEF Out
<1>4. ASSUME NEW w \in dev_work PROVE Out(w.req_id)' /\ bufs'[w.req_id] = w.nb
  BY <1>2, QueueType DEF OnceQueued, Out
<1>5. ASSUME NEW k \in 0 .. ToRead - 1
      PROVE  CqAt(k)'.req_id \in Ids /\ Out(CqAt(k).req_id)'
  BY <1>1, <1>2 DEF OnceQueued, Out
<1>6. OnceQueued'
  <2>1. /\ ToFetch <= Depth
        /\ \A k, l \in 0 .. ToFetch - 1 : SqAt(k)'.req_id = SqAt(l)'.req_id => k = l
        /\ \A k, l \in 0 .. ToRead - 1 : CqAt(k)'.req_id = CqAt(l)'.req_id => k = l
    BY <1>1 DEF OnceQueued
  <2>2. ASSUME NEW k \in 0 .. ToFetch - 1, NEW w \in dev_work
        PROVE  SqAt(k)'.req_id # w.req_id
    <3>1. SqAt(k)' = SqAt(k)
      BY <1>1
    <3> QED BY <3>1, ZenonT(30) DEF OnceQueued
  <2>3. ASSUME NEW w \in dev_work, NEW l \in 0 .. ToRead - 1
        PROVE  w.req_id # CqAt(l)'.req_id
    <3>1. CqAt(l)' = CqAt(l)
      BY <1>1
    <3> QED BY <3>1 DEF OnceQueued
  <2>4. ASSUME NEW k \in 0 .. ToFetch - 1, NEW l \in 0 .. ToRead - 1
        PROVE  SqAt(k)'.req_id # CqAt(l)'.req_id
    <3>1. SqAt(k)' = SqAt(k) /\ CqAt(l)' = CqAt(l)
      BY <1>1
    <3> QED BY <3>1 DEF OnceQueued
  <2> QED BY <1>1, <1>3, <1>4, <1>5, <2>1, <2>2, <2>3, <2>4 DEF OnceQueued
<1> QED BY <1>1, <1>6

\* A fresh ring has nothing queued.
LEMMA QueueInit ==
  ASSUME RingInit
  PROVE  OnceQueued /\ PhasesTell /\ ToFetch = 0
<1>1. /\ 0 \in Indices /\ Ahead(0, 0) = 0 /\ Slot(0) = 0 /\ 0 <= Depth
      /\ \A k \in Ids : ~ (k < 0) /\ 0 + k < Depth
      /\ 0 + 0 < Depth
      /\ \A k \in 0 .. 0 - 1 : FALSE
      /\ 1 - 1 = 0
  BY DepthAssumption, SMT DEF Indices, Ahead, Slot, Ids
<1>2. ToFetch = 0 /\ ToRead = 0
  BY <1>1 DEF RingInit, ToFetch, ToRead
<1>3. OnceQueued
  BY <1>1, <1>2 DEF OnceQueued, RingInit
<1>4. ASSUME NEW k \in Ids PROVE CqAt(k).phase = 0 /\ PhaseAt(k) = 1
  <2>1. Slot(cq_head + k) \in Ids
    <3>1. cq_head \in Indices /\ k \in Nat
      BY <1>1, DepthAssumption, SMT DEF RingInit, Ids
    <3> QED BY <3>1, Slots
  <2> QED BY <1>1, <2>1, SMT DEF CqAt, PhaseAt, RingInit
<1>5. dev_cq_phase = PhaseAt(0)
  BY <1>1, SMT DEF RingInit, PhaseAt
<1>6. PhasesTell
  BY <1>1, <1>2, <1>4, <1>5 DEF PhasesTell
<1> QED BY <1>2, <1>3, <1>6

\* The device has been told of no descriptor the driver has not written.
Rung == Ahead(dev_sq_db, dev_sq_head) <= ToFetch

\* So it fetches only what is there.
LEMMA RungFetch ==
  ASSUME RingTypeOK, Rung, DevFetch, sq_tail' = sq_tail
  PROVE  ToFetch > 0 /\ Rung'
<1>1. /\ sq_tail \in Indices /\ dev_sq_head \in Indices /\ dev_sq_db \in Indices
      /\ dev_sq_db # dev_sq_head
      /\ dev_sq_db' = dev_sq_db /\ dev_sq_head' = Succ(dev_sq_head)
  BY DEF RingTypeOK, DevFetch
<1>2. /\ ToFetch \in Nat /\ Ahead(dev_sq_db, dev_sq_head) \in Nat
      /\ Ahead(dev_sq_db, dev_sq_head) > 0
  BY <1>1, DepthAssumption, SMT DEF Indices, Ahead, ToFetch
<1>3. ToFetch > 0
  BY <1>2, SMT DEF Rung
<1>4. /\ Ahead(dev_sq_db, Succ(dev_sq_head)) = Ahead(dev_sq_db, dev_sq_head) - 1
      /\ Ahead(sq_tail, Succ(dev_sq_head)) = ToFetch - 1
  BY <1>1, <1>2, <1>3, Distance DEF ToFetch
<1>5. Ahead(dev_sq_db, dev_sq_head) - 1 <= ToFetch - 1
  BY <1>2, SMT DEF Rung
<1>6. Ahead(dev_sq_db, dev_sq_head)' <= ToFetch'
  BY <1>1, <1>4, <1>5 DEF ToFetch
<1> QED BY <1>3, <1>6 DEF Rung
=============================================================================
