--------------------------- MODULE BufferPool_proofs ---------------------------
(***************************************************************************)
(* The buffer pool for any number of buffers and of releasing threads, and *)
(* one acquiring thread (which may release as well): a buffer is in one    *)
(* place at a time, nothing freed is used, and the counters are exact.     *)
(* With two acquirers this is false: run buffer_pool_aba.  Behind it, what *)
(* is written to the buffers: the fields of Fields, and templates of any   *)
(* length in buffers of any size.                                          *)
(***************************************************************************)
EXTENDS BufferPool, Fields, Interpolator,
        FiniteSetTheorems, SequenceTheorems, WellFoundedInduction, TLAPS

USE PoolAssumption DEF Addresses

Cell == [next : Addresses, type : {"POOL", "TMP"}]

--------------------------------------------------------------------------------
(* Lists of buffers                                                         *)

\* No two buffers of the list have the same next one, and the first is nobody's
\* next one.
Straight(m, start) ==
    \A b \in Chain(m, start) :
        /\ m[b].next # start
        /\ \A c \in Chain(m, start) : m[b].next = m[c].next => m[b].next = NULL \/ b = c

\* A list is linked, and is the least linked set.
LEMMA ChainLeast ==
    ASSUME NEW m \in [Bufs -> Cell], NEW start \in Addresses
    PROVE  /\ Chain(m, start) \subseteq Bufs
           /\ Linked(m, start, Chain(m, start))
           /\ \A S \in SUBSET Bufs : Linked(m, start, S) => Chain(m, start) \subseteq S
<1>1. start # NULL => start \in Chain(m, start)
    BY DEF Chain, Linked
<1>2. ASSUME NEW b \in Chain(m, start), m[b].next # NULL
      PROVE  m[b].next \in Chain(m, start)
    <2>1. b \in Bufs /\ m[b].next \in Bufs
        BY <1>2 DEF Chain, Cell
    <2>2. ASSUME NEW S \in SUBSET Bufs, Linked(m, start, S) PROVE m[b].next \in S
        BY <1>2, <2>2 DEF Chain, Linked
    <2> QED
        BY <2>1, <2>2 DEF Chain
<1> QED
    BY <1>1, <1>2 DEF Chain, Linked

\* A list from nowhere is empty.
LEMMA ChainNull == \A m : Chain(m, NULL) = {}
<1> TAKE m
<1>1. Linked(m, NULL, {})
    BY DEF Linked
<1> QED
    BY <1>1 DEF Chain

\* A write outside the list does not change it.
LEMMA ChainFrame ==
    ASSUME NEW m \in [Bufs -> Cell], NEW n \in [Bufs -> Cell], NEW start \in Addresses,
           \A b \in Chain(m, start) : n[b].next = m[b].next
    PROVE  /\ Chain(n, start) = Chain(m, start)
           /\ Straight(m, start) => Straight(n, start)
<1>1. Linked(n, start, Chain(m, start))
    BY ChainLeast DEF Linked
<1>2. Chain(n, start) \subseteq Chain(m, start)
    BY <1>1, ChainLeast
<1>3. Linked(m, start, Chain(n, start))
    BY <1>2, ChainLeast DEF Linked
<1>4. Chain(m, start) \subseteq Chain(n, start)
    BY <1>3, ChainLeast
<1>5. Chain(n, start) = Chain(m, start)
    BY <1>2, <1>4
<1> QED
    BY <1>5 DEF Straight

\* The list without its first buffer begins at that buffer's next.
LEMMA ChainPop ==
    ASSUME NEW m \in [Bufs -> Cell], NEW start \in Bufs, Straight(m, start)
    PROVE  /\ Chain(m, m[start].next) = Chain(m, start) \ {start}
           /\ Straight(m, m[start].next)
<1> DEFINE rest == Chain(m, start) \ {start}
<1>1. start \in Addresses /\ m[start].next \in Addresses /\ start # NULL
    BY DEF Cell
<1>2. start \in Chain(m, start) /\ Chain(m, start) \subseteq Bufs
    BY <1>1, ChainLeast DEF Linked
<1>3. Linked(m, m[start].next, rest)
    BY <1>1, <1>2, ChainLeast DEF Linked, Straight
<1>4. Chain(m, m[start].next) \subseteq rest
    BY <1>1, <1>2, <1>3, ChainLeast
<1>5. Linked(m, start, Chain(m, m[start].next) \cup {start})
    BY <1>1, ChainLeast DEF Linked
<1>6. rest \subseteq Chain(m, m[start].next)
    <2>1. Chain(m, m[start].next) \cup {start} \in SUBSET Bufs
        BY <1>1, ChainLeast
    <2> QED
        BY <1>1, <1>5, <2>1, ChainLeast
<1>7. Chain(m, m[start].next) = rest
    BY <1>4, <1>6
<1>8. CASE m[start].next = NULL
    BY <1>8, <1>7, ChainNull DEF Straight
<1>9. CASE m[start].next # NULL
    BY <1>9, <1>2, <1>7 DEF Straight
<1> QED
    BY <1>7, <1>8, <1>9

\* A buffer put in front of the list.
LEMMA ChainPush ==
    ASSUME NEW m \in [Bufs -> Cell], NEW b \in Bufs,
           b \notin Chain(m, m[b].next), Straight(m, m[b].next)
    PROVE  /\ Chain(m, b) = Chain(m, m[b].next) \cup {b}
           /\ Straight(m, b)
<1> DEFINE rest == Chain(m, m[b].next)
<1>1. b \in Addresses /\ m[b].next \in Addresses /\ b # NULL
    BY DEF Cell
<1>2. Linked(m, b, rest \cup {b})
    BY <1>1, ChainLeast DEF Linked
<1>3. Chain(m, b) \subseteq rest \cup {b}
    <2>1. rest \cup {b} \in SUBSET Bufs
        BY <1>1, ChainLeast
    <2> QED
        BY <1>1, <1>2, <2>1, ChainLeast
<1>4. Linked(m, m[b].next, Chain(m, b))
    BY <1>1, ChainLeast DEF Linked
<1>5. rest \cup {b} \subseteq Chain(m, b)
    BY <1>1, <1>4, ChainLeast DEF Linked
<1>6. Chain(m, b) = rest \cup {b}
    BY <1>3, <1>5
<1>7. \A c \in rest : m[c].next # b /\ m[c].next # m[b].next
    BY <1>1, ChainLeast DEF Linked, Straight
<1>8. m[b].next # b
    BY <1>1, ChainLeast DEF Linked
<1>9. Straight(m, b)
    BY <1>6, <1>7, <1>8 DEF Straight
<1> QED
    BY <1>6, <1>9

--------------------------------------------------------------------------------
(* Words                                                                    *)

\* Counting up and down wraps around at the ends.
LEMMA WordSteps ==
    /\ Word \in Nat /\ Word > 200 /\ Cardinality(Bufs) \in Nat /\ Cardinality(Bufs) < Word - 1
    /\ \A n \in 0 .. Word - 1 :
        /\ Plus(n) = IF n = Word - 1 THEN 0 ELSE n + 1
        /\ Minus(n) = IF n = 0 THEN Word - 1 ELSE n - 1
<1>1. Cardinality(Bufs) \in Nat
    BY FS_CardinalityType
<1>2. Word \in Nat /\ Word > 200 /\ Cardinality(Bufs) < Word - 1
    BY <1>1
<1>3. \A n \in 0 .. Word - 1 : Plus(n) = IF n = Word - 1 THEN 0 ELSE n + 1
    BY <1>2 DEF Plus
<1>4. \A n \in 0 .. Word - 1 : Minus(n) = IF n = 0 THEN Word - 1 ELSE n - 1
    BY <1>2 DEF Minus
<1> QED
    BY <1>1, <1>2, <1>3, <1>4

--------------------------------------------------------------------------------
(* The inductive invariant                                                  *)

OneAcquirer == \A s, t \in Acquirers : s = t

AcquirePcs == {"head", "next", "recheck", "cas", "taken", "empty", "grow"}

\* While finalize is at work nobody else is; afterwards one call at a time, and
\* only calls that give something back.
PhaseInv ==
    /\ Running <=> fin.pc = "idle"
    /\ pool.live <=> pool.state # "DISABLED"
    /\ ~ pool.live => fin.pc = "done"
    /\ Running => pool.init = InitCapacity
    /\ fin.pc \in {"swap", "walk", "settle"} => \A t \in Threads : At(t, "idle")
    /\ fin.pc \in {"walk", "settle", "done"} => pool.head = NULL
    /\ fin.buf # NULL => fin.pc = "walk"
    /\ ~ Running => /\ \A t \in Threads : th[t].pc \in {"idle", "type", "dead", "uncount", "last"}
                    /\ \A t, u \in Threads : At(t, "idle") \/ At(u, "idle") \/ t = u
    /\ \A t \in Threads : th[t].pc \in {"dead", "uncount", "last"} => ~ Running /\ pool.live
    /\ \A t \in Threads : th[t].pc \in AcquirePcs => t \in Acquirers

\* A thread with these locals has the buffer b to itself.
Owns(local, b) ==
    \/ /\ local.pc \in {"type", "dead", "grow", "cap", "rate", "shrink", "drop", "push",
                        "setnext", "pushcas"}
       /\ local.buf = b
    \/ local.pc = "taken" /\ local.old = b

\* What finalize has not freed yet of the list it took.
Walked == Chain(mem, fin.buf)

\* A buffer is in the list, or a caller has it, or a thread that takes it from
\* or gives it to the pool.
PlaceInv ==
    /\ FreeList \cup Walked \subseteq {b \in live : mem[b].type = "POOL"}
    /\ Straight(mem, pool.head) /\ Straight(mem, fin.buf)
    /\ \A b \in Bufs : holders[b] > 0 =>
        /\ holders[b] = 1 /\ b \in live \ (FreeList \cup Walked)
        /\ \A t \in Threads : ~ Owns(th[t], b)
    /\ \A t \in Threads, b \in Addresses : Owns(th[t], b) =>
        /\ b \in live \ (FreeList \cup Walked)
        /\ ~ At(t, "type") => mem[b].type = "POOL"
        /\ \A u \in Threads : Owns(th[u], b) => u = t

\* What a call has read still holds when it is used: the buffer the acquirer
\* saw at the head is still in the list, its next one still next, for nobody
\* else takes a buffer out; the capacity a release saw is above the floor.
Fresh(local) ==
    /\ local.pc \in {"next", "recheck", "cas"} => local.old \in FreeList
    /\ local.pc \in {"recheck", "cas"} => local.new = mem[local.old].next
    /\ local.pc = "pushcas" => mem[local.buf].next = local.old
    /\ local.pc = "rate" => local.cap >= InitCapacity
    /\ local.pc = "shrink" => local.cap > InitCapacity

ReadInv == \A t \in Threads : Fresh(th[t])

\* capacity counts the pool buffers but those not counted yet after their
\* allocation and those discounted before they are freed.
Uncounted == {b \in Bufs : \E t \in Threads : th[t].pc \in {"grow", "drop"} /\ th[t].buf = b}
Counted == {b \in live : mem[b].type = "POOL"} \ Uncounted

CapacityInv ==
    /\ (\A t \in Threads : ~ At(t, "uncount")) => pool.capacity = Cardinality(Counted)
    /\ (\E t \in Threads : At(t, "uncount")) => pool.capacity = Cardinality(Counted) + 1
    /\ (fin.pc = "done" /\ pool.live /\ \A t \in Threads : ~ At(t, "uncount") /\ ~ At(t, "last"))
            => pool.capacity # 0
    /\ ~ pool.live => pool.capacity = 0
    /\ Running => pool.capacity >= InitCapacity

\* free_count is the length of the list and the buffers taken that it still
\* counts, without those put back that it does not count yet, in a word.
Popping == {t \in Threads : At(t, "taken")}
Pushing == {t \in Threads : At(t, "count")}

FreeInv ==
    /\ IsFiniteSet(Popping) /\ IsFiniteSet(Pushing)
    /\ \E q \in Int :
        pool.free = Cardinality(FreeList) + Cardinality(Walked) + Cardinality(Popping)
                        - Cardinality(Pushing) + q * Word

PoolInv == PoolTypeOK /\ PhaseInv /\ PlaceInv /\ ReadInv /\ CapacityInv /\ FreeInv

LEMMA LocalsTyped ==
    ASSUME PoolTypeOK, NEW t \in Threads
    PROVE  /\ th[t] \in Locals
           /\ th[t].old \in Addresses /\ th[t].new \in Addresses /\ th[t].buf \in Addresses
           /\ th[t].cap \in 0 .. Word - 1
    BY DEF PoolTypeOK, Locals

LEMMA OwnedFacts ==
    ASSUME PoolTypeOK, PlaceInv, NEW t \in Threads, NEW b \in Addresses, Owns(th[t], b)
    PROVE  /\ b \in live /\ b \in Bufs /\ b \notin FreeList /\ b \notin Walked /\ holders[b] = 0
           /\ ~ At(t, "type") => mem[b].type = "POOL"
           /\ \A u \in Threads : Owns(th[u], b) => u = t
    BY DEF PoolTypeOK, PlaceInv

\* Every state that satisfies the invariant satisfies the properties.
LEMMA InvImpliesHandout == PoolInv => UniqueHandout
    BY DEF PoolInv, PlaceInv, UniqueHandout, PoolTypeOK

\* The sets that are counted are finite.
LEMMA FinitePlaces ==
    ASSUME PoolTypeOK
    PROVE  /\ IsFiniteSet(Counted) /\ Cardinality(Counted) \in 0 .. Cardinality(Bufs)
           /\ IsFiniteSet(FreeList) /\ Cardinality(FreeList) \in 0 .. Cardinality(Bufs)
           /\ IsFiniteSet(Walked) /\ Cardinality(Walked) \in 0 .. Cardinality(Bufs)
<1>1. \A S \in SUBSET Bufs : IsFiniteSet(S) /\ Cardinality(S) \in 0 .. Cardinality(Bufs)
    BY FS_Subset, FS_CardinalityType
<1>2. Counted \in SUBSET Bufs
    BY DEF PoolTypeOK, Counted
<1>3. FreeList \in SUBSET Bufs /\ Walked \in SUBSET Bufs
    BY DEF FreeList, Walked, Chain
<1> QED
    BY <1>1, <1>2, <1>3

\* Of a pool that is not running, every pool buffer that is out is counted.
LEMMA OutIsCounted ==
    ASSUME PoolInv, ~ Running
    PROVE  {b \in live : mem[b].type = "POOL"} = Counted
    BY DEF PoolInv, PhaseInv, Counted, Uncounted

LEMMA NothingOut ==
    ASSUME PoolInv, ~ pool.live
    PROVE  {b \in live : mem[b].type = "POOL"} = {}
<1>1. ~ Running /\ pool.capacity = 0
    BY DEF PoolInv, PhaseInv, CapacityInv, Running
<1>2. Cardinality(Counted) = 0
    BY <1>1, FinitePlaces DEF PoolInv, CapacityInv
<1>3. Counted = {}
    BY <1>2, FinitePlaces, FS_EmptySet DEF PoolInv
<1> QED
    BY <1>1, <1>3, OutIsCounted

LEMMA InvImpliesAlive == PoolInv => MemoryAlive
<1> SUFFICES ASSUME PoolInv PROVE MemoryAlive
    OBVIOUS
<1>1. BuffersAlive
    <2>1. ASSUME NEW t \in Threads, At(t, "next") PROVE th[t].old \in live
        BY <2>1 DEF PoolInv, ReadInv, Fresh, PlaceInv, At
    <2>2. ASSUME NEW t \in Threads, th[t].pc \in {"type", "dead", "setnext", "drop"}
          PROVE  th[t].buf \in live
        BY <2>2, LocalsTyped, OwnedFacts DEF PoolInv, Owns
    <2>3. fin.buf # NULL => fin.buf \in live
        BY ChainLeast DEF PoolInv, PlaceInv, PoolTypeOK, Walked, Linked, Cell
    <2> QED
        BY <2>1, <2>2, <2>3 DEF BuffersAlive
<1>2. PoolAlive
    <2>1. ASSUME NEW t \in Threads, ~ At(t, "idle"),
                 ~ (At(t, "type") /\ mem[th[t].buf].type = "TMP"), ~ pool.live
          PROVE  FALSE
        <3>1. At(t, "type")
            BY <2>1 DEF PoolInv, PhaseInv, Running, At
        <3>2. th[t].buf \in live /\ mem[th[t].buf].type = "POOL"
            BY <2>1, <3>1, LocalsTyped, OwnedFacts DEF PoolInv, PoolTypeOK, Owns, At, Locals
        <3> QED
            BY <2>1, <3>2, NothingOut
    <2> QED
        BY <2>1 DEF PoolAlive, PoolInv, PhaseInv
<1> QED
    BY <1>1, <1>2 DEF MemoryAlive

\* Whoever settles the pool's fate has counted right.
LEMMA InvImpliesOutlives == PoolInv => PoolOutlivesBuffers
<1> SUFFICES ASSUME PoolInv PROVE PoolOutlivesBuffers
    OBVIOUS
<1>1. ASSUME fin.pc = "done", \A t \in Threads : At(t, "idle"),
             {b \in live : mem[b].type = "POOL"} = {}, pool.live
      PROVE  FALSE
    <2>1. Counted = {}
        BY <1>1, OutIsCounted DEF PoolInv, PhaseInv
    <2>2. pool.capacity = 0
        BY <1>1, <2>1, FS_EmptySet DEF PoolInv, CapacityInv, At
    <2> QED
        BY <1>1, <2>2 DEF PoolInv, CapacityInv, At
<1> QED
    BY <1>1, NothingOut DEF PoolOutlivesBuffers

\* Between calls nothing is under way that the counters miss.
LEMMA InvImpliesExact == PoolInv => CountersExact
<1> SUFFICES ASSUME PoolInv PROVE CountersExact
    OBVIOUS
<1>1. CapacityFloor
    BY DEF CapacityFloor, PoolInv, CapacityInv, ReadInv, Fresh, At, PoolTypeOK, Locals, Threads
<1>2. ASSUME fin.pc \in {"idle", "done"}, \A t \in Threads : At(t, "idle")
      PROVE  /\ pool.capacity = Cardinality({b \in live : mem[b].type = "POOL"})
             /\ pool.free = Cardinality(FreeList)
    <2>1. Counted = {b \in live : mem[b].type = "POOL"}
        BY <1>2 DEF Counted, Uncounted, At
    <2>2. Popping = {} /\ Pushing = {} /\ Walked = {}
        BY <1>2, ChainNull DEF Popping, Pushing, Walked, PoolInv, PhaseInv, At
    <2>3. PICK q \in Int : pool.free = Cardinality(FreeList) + 0 + 0 - 0 + q * Word
        BY <2>2, FS_EmptySet DEF PoolInv, FreeInv
    <2>4. pool.free \in 0 .. Word - 1 /\ Cardinality(FreeList) \in 0 .. Word - 1
        BY FinitePlaces, WordSteps DEF PoolInv, PoolTypeOK
    <2>5. q = 0
        <3>1. q >= 1 => q * Word >= Word
            BY WordSteps
        <3>2. q <= -1 => q * Word <= 0 - Word
            BY WordSteps
        <3>3. q * Word < Word /\ q * Word > 0 - Word
            <4>1. q * Word \in Int
                BY WordSteps
            <4>2. \A x \in Int, f, c \in 0 .. Word - 1 :
                    f = c + 0 + 0 - 0 + x => x < Word /\ x > 0 - Word
                BY WordSteps
            <4> QED
                BY <2>3, <2>4, <4>1, <4>2
        <3> QED
            BY <3>1, <3>2, <3>3
    <2>6. pool.free = Cardinality(FreeList)
        BY <2>3, <2>4, <2>5, WordSteps
    <2> QED
        BY <1>2, <2>1, <2>6 DEF PoolInv, CapacityInv, At
<1> QED
    BY <1>1, <1>2 DEF CountersExact, PoolInv

--------------------------------------------------------------------------------
(* Steps that only change what a thread knows                               *)

\* Places where a buffer or a count is about to change hands.
Turning == {"taken", "grow", "drop", "dead", "uncount", "last", "count"}

\* A step of t to the locals r that moves no buffer.
Quiet(t, r) ==
    /\ th' = [th EXCEPT ![t] = r] /\ r \in Locals
    /\ UNCHANGED <<pool, mem, live, holders, fin>>
    /\ th[t].pc \notin Turning /\ r.pc \notin Turning \ {"dead"} /\ r.pc # "type"
    /\ \A b \in Addresses : Owns(r, b) => Owns(th[t], b)
    /\ r.pc # "idle" => Running \/ (r.pc = "dead" /\ th[t].pc # "idle")
    /\ r.pc = "dead" => ~ Running /\ pool.live
    /\ (r.pc # "idle" /\ At(t, "type")) => mem[th[t].buf].type = "POOL"
    /\ r.pc \in AcquirePcs => t \in Acquirers
    /\ Fresh(r)

LEMMA QuietKeeps ==
    ASSUME PoolInv, NEW t \in Threads, NEW r, Quiet(t, r)
    PROVE  PoolInv'
<1>1. /\ th'[t] = r /\ \A u \in Threads : u # t => th'[u] = th[u]
      /\ pool' = pool /\ mem' = mem /\ live' = live /\ holders' = holders /\ fin' = fin
      /\ th \in [Threads -> Locals]
    BY DEF Quiet, PoolInv, PoolTypeOK
<1>2. PoolTypeOK'
    BY <1>1 DEF Quiet, PoolInv, PoolTypeOK
<1>3. PhaseInv'
    <2>1. \A u \in Threads : th[u].pc = "idle" => th'[u].pc = "idle" \/ Running
        BY <1>1 DEF Quiet, At
    <2>2. \A u \in Threads : th'[u].pc \in {"uncount", "last"} => th[u].pc = th'[u].pc
        BY <1>1 DEF Quiet, Turning
    <2>3. \A u \in Threads : th'[u].pc \in AcquirePcs => u \in Acquirers
        BY <1>1 DEF Quiet, PoolInv, PhaseInv
    <2>4. ASSUME ~ Running, NEW u \in Threads
          PROVE  th'[u].pc \in {"idle", "type", "dead", "uncount", "last"}
        BY <1>1, <2>4 DEF Quiet, PoolInv, PhaseInv
    <2>5. ASSUME NEW u \in Threads, th'[u].pc \in {"dead", "uncount", "last"}
          PROVE  ~ Running /\ pool.live
        BY <1>1, <2>2, <2>5 DEF Quiet, PoolInv, PhaseInv
    <2>6. ASSUME ~ Running, NEW u \in Threads, NEW v \in Threads
          PROVE  th'[u].pc = "idle" \/ th'[v].pc = "idle" \/ u = v
        BY <2>1, <2>6 DEF PoolInv, PhaseInv, At
    <2>7. fin.pc \in {"swap", "walk", "settle"} => \A u \in Threads : th'[u].pc = "idle"
        BY <2>1 DEF PoolInv, PhaseInv, Running, At
    <2> QED
        BY <1>1, <2>3, <2>4, <2>5, <2>6, <2>7 DEF PoolInv, PhaseInv, Running, At
<1>4. PlaceInv'
    <2>1. FreeList' = FreeList /\ Walked' = Walked
        BY <1>1 DEF FreeList, Walked
    <2>2. \A u \in Threads, b \in Addresses : Owns(th'[u], b) => Owns(th[u], b)
        BY <1>1 DEF Quiet
    <2>3. ASSUME NEW u \in Threads, NEW b \in Addresses, Owns(th'[u], b), ~ (th'[u].pc = "type")
          PROVE  mem[b].type = "POOL"
        <3>1. Owns(th[u], b)
            BY <2>2, <2>3
        <3>2. CASE u = t /\ At(t, "type")
            BY <3>1, <3>2, <2>3, <1>1 DEF Quiet, Owns, At
        <3>3. CASE u # t \/ ~ At(t, "type")
            BY <3>1, <3>3, <2>3, <1>1 DEF PoolInv, PlaceInv, At
        <3> QED
            BY <3>2, <3>3
    <2>4. \A b \in Bufs : holders[b] > 0 =>
            /\ holders[b] = 1 /\ b \in live \ (FreeList \cup Walked)
            /\ \A u \in Threads : ~ Owns(th'[u], b)
        BY <2>2 DEF PoolInv, PlaceInv
    <2>5. \A u \in Threads, b \in Addresses : Owns(th'[u], b) =>
            /\ b \in live \ (FreeList \cup Walked)
            /\ th'[u].pc # "type" => mem[b].type = "POOL"
            /\ \A v \in Threads : Owns(th'[v], b) => v = u
        BY <2>2, <2>3 DEF PoolInv, PlaceInv
    <2> QED
        BY <1>1, <2>1, <2>4, <2>5 DEF PoolInv, PlaceInv, At
<1>5. ReadInv'
    BY <1>1 DEF Quiet, PoolInv, ReadInv, Fresh, FreeList
<1>6. CapacityInv'
    <2>1. Counted' = Counted
        <3>1. Uncounted' = Uncounted
            BY <1>1 DEF Quiet, Turning, Uncounted
        <3> QED
            BY <1>1, <3>1 DEF Counted
    <2>2. \A u \in Threads : \A pc \in {"uncount", "last"} : th'[u].pc = pc <=> th[u].pc = pc
        BY <1>1 DEF Quiet, Turning
    <2> QED
        BY <1>1, <2>1, <2>2 DEF PoolInv, CapacityInv, At, Running
<1>7. FreeInv'
    <2>1. Popping' = Popping /\ Pushing' = Pushing
        BY <1>1 DEF Quiet, Turning, Popping, Pushing, At
    <2>2. FreeList' = FreeList /\ Walked' = Walked
        BY <1>1 DEF FreeList, Walked
    <2> QED
        BY <1>1, <2>1, <2>2 DEF PoolInv, FreeInv
<1> QED
    BY <1>2, <1>3, <1>4, <1>5, <1>6, <1>7 DEF PoolInv

\* The locals of a thread that goes on to another place.
LEMMA MovedLocals ==
    ASSUME PoolTypeOK, NEW t \in Threads, NEW pc \in Places, NEW from, Go(t, from, pc)
    PROVE  /\ th[t].pc = from
           /\ \E r \in Locals :
                /\ th' = [th EXCEPT ![t] = r]
                /\ r.pc = pc /\ r.old = th[t].old /\ r.new = th[t].new /\ r.buf = th[t].buf
                /\ r.cap = th[t].cap
<1> DEFINE r == [th[t] EXCEPT !.pc = pc]
<1>1. r \in Locals /\ th' = [th EXCEPT ![t] = r] /\ th[t].pc = from
    BY LocalsTyped DEF Go, At, Locals
<1>2. r.pc = pc /\ r.old = th[t].old /\ r.new = th[t].new /\ r.buf = th[t].buf /\ r.cap = th[t].cap
    BY LocalsTyped DEF Locals
<1> QED
    BY <1>1, <1>2

\* acquire: its first check, ...
LEMMA AcquireBeginKeeps ==
    ASSUME PoolInv, NEW t \in Acquirers, AcquireBegin(t)
    PROVE  PoolInv'
<1>1. t \in Threads /\ PoolTypeOK /\ Go(t, "idle", "head") /\ "head" \in Places
    BY DEF Threads, PoolInv, AcquireBegin, Places
<1>2. PICK r \in Locals : th[t].pc = "idle" /\ th' = [th EXCEPT ![t] = r] /\ r.pc = "head"
    BY <1>1, MovedLocals
<1>3. Quiet(t, r)
    BY <1>2 DEF Quiet, Turning, Owns, Fresh, AcquirePcs, AcquireBegin, At
<1> QED
    BY <1>1, <1>3, QuietKeeps

\* ... a look at the head, ...
LEMMA AcquireHeadKeeps ==
    ASSUME PoolInv, NEW t \in Acquirers, AcquireHead(t)
    PROVE  PoolInv'
<1> DEFINE r == [th[t] EXCEPT !.pc = IF pool.head = NULL THEN "empty" ELSE "next",
                              !.old = pool.head]
<1>1. t \in Threads /\ PoolTypeOK /\ th[t].pc = "head" /\ pool.head \in Addresses
    BY DEF Threads, PoolInv, PoolTypeOK, AcquireHead, At
<1>2. r \in Locals /\ th' = [th EXCEPT ![t] = r]
    BY ZenonT(60), <1>1, LocalsTyped DEF Locals, Places, AcquireHead
<1>3. r.pc \in {"empty", "next"} /\ (r.pc = "next" => r.old = pool.head /\ r.old # NULL)
    BY <1>1, LocalsTyped DEF Locals
<1>4. Running
    BY <1>1 DEF PoolInv, PhaseInv
<1>5. r.pc = "next" => r.old \in FreeList
    BY <1>1, <1>3, ChainLeast DEF PoolInv, PoolTypeOK, FreeList, Linked, Cell
<1>6. Quiet(t, r)
    <2> HIDE DEF r
    <2> QED
        BY <1>1, <1>2, <1>3, <1>4, <1>5 DEF Quiet, Turning, Owns, Fresh, AcquirePcs, AcquireHead, At
<1> QED
    BY <1>1, <1>6, QuietKeeps

\* ... a look at its next buffer, ...
LEMMA AcquireNextKeeps ==
    ASSUME PoolInv, NEW t \in Acquirers, AcquireNext(t)
    PROVE  PoolInv'
<1> DEFINE r == [th[t] EXCEPT !.pc = "recheck", !.new = mem[th[t].old].next]
<1>1. t \in Threads /\ PoolTypeOK /\ th[t].pc = "next" /\ th[t].old \in Bufs
    BY DEF Threads, PoolInv, PoolTypeOK, AcquireNext, At
<1>2. r \in Locals /\ th' = [th EXCEPT ![t] = r]
    BY ZenonT(60), <1>1, LocalsTyped DEF Locals, Places, AcquireNext, PoolTypeOK
<1>3. r.pc = "recheck" /\ r.old = th[t].old /\ r.new = mem[th[t].old].next
    BY <1>1, LocalsTyped DEF Locals
<1>4. Running /\ th[t].old \in FreeList
    BY <1>1 DEF PoolInv, PhaseInv, ReadInv, Fresh
<1>5. Quiet(t, r)
    <2> HIDE DEF r
    <2> QED
        BY <1>1, <1>2, <1>3, <1>4 DEF Quiet, Turning, Owns, Fresh, AcquirePcs, AcquireNext, At
<1> QED
    BY <1>1, <1>5, QuietKeeps

\* ... its second check, ...
LEMMA AcquireRecheckKeeps ==
    ASSUME PoolInv, NEW t \in Acquirers, AcquireRecheck(t)
    PROVE  PoolInv'
<1>1. t \in Threads /\ PoolTypeOK /\ Go(t, "recheck", "cas") /\ "cas" \in Places
    BY DEF Threads, PoolInv, AcquireRecheck, Places
<1>2. PICK r \in Locals : /\ th[t].pc = "recheck" /\ th' = [th EXCEPT ![t] = r] /\ r.pc = "cas"
                          /\ r.old = th[t].old /\ r.new = th[t].new
    BY <1>1, MovedLocals
<1>3. Running /\ th[t].old \in FreeList /\ th[t].new = mem[th[t].old].next
    BY <1>2 DEF AcquireRecheck, PoolInv, ReadInv, Fresh, Threads
<1>4. Quiet(t, r)
    BY <1>2, <1>3 DEF Quiet, Turning, Owns, Fresh, AcquirePcs, AcquireRecheck, At
<1> QED
    BY <1>1, <1>4, QuietKeeps

\* ... a compare and swap that fails, ...
LEMMA AcquireMissKeeps ==
    ASSUME PoolInv, NEW t \in Acquirers, AcquireCas(t), ~ HeadUnchanged(t)
    PROVE  PoolInv'
<1>1. /\ t \in Threads /\ PoolTypeOK /\ Go(t, "cas", "head") /\ "head" \in Places
      /\ UNCHANGED <<pool, mem, live, holders, fin>>
    BY DEF Threads, PoolInv, AcquireCas, Places
<1>2. PICK r \in Locals : th[t].pc = "cas" /\ th' = [th EXCEPT ![t] = r] /\ r.pc = "head"
    BY <1>1, MovedLocals
<1>3. Running
    BY <1>1, <1>2 DEF PoolInv, PhaseInv
<1>4. Quiet(t, r)
    BY <1>1, <1>2, <1>3 DEF Quiet, Turning, Owns, Fresh, AcquirePcs, At
<1> QED
    BY <1>1, <1>4, QuietKeeps

\* ... or no memory to be had.
LEMMA AcquireNoMemoryKeeps ==
    ASSUME PoolInv, NEW t \in Acquirers, AcquireNoMemory(t)
    PROVE  PoolInv'
<1>1. /\ t \in Threads /\ th' = [th EXCEPT ![t] = Idle] /\ th[t].pc \in {"empty", "recheck"}
      /\ Idle \in Locals /\ Idle.pc = "idle"
    BY WordSteps DEF Threads, AcquireNoMemory, Idle, Locals, Places
<1>2. Quiet(t, Idle)
    <2>1. ~ \E b \in Addresses : Owns(Idle, b)
        BY DEF Owns, Idle
    <2> QED
        BY <1>1, <2>1 DEF Quiet, Turning, Fresh, AcquirePcs, AcquireNoMemory, At
<1> QED
    BY <1>1, <1>2, QuietKeeps

\* release: its state check, ...
LEMMA ReleaseStateKeeps ==
    ASSUME PoolInv, NEW t \in Releasers, ReleaseState(t)
    PROVE  PoolInv'
<1>1. PICK pc \in {"dead", "cap", "push"} :
        /\ Go(t, "type", pc)
        /\ pc = "dead" <=> pool.state = "FINALIZING"
    BY DEF ReleaseState
<1>2. t \in Threads /\ PoolTypeOK /\ pc \in Places
    BY DEF Threads, PoolInv, Places
<1>3. PICK r \in Locals : /\ th[t].pc = "type" /\ th' = [th EXCEPT ![t] = r] /\ r.pc = pc
                          /\ r.buf = th[t].buf
    BY <1>1, <1>2, MovedLocals
<1>4. pc = "dead" \/ Running
    BY <1>1, <1>2 DEF ReleaseState, PoolInv, PhaseInv, PoolTypeOK, Running
<1>5. Quiet(t, r)
    BY <1>1, <1>3, <1>4 DEF Quiet, Turning, Owns, Fresh, AcquirePcs, ReleaseState, At, Running
<1> QED
    BY <1>2, <1>5, QuietKeeps

\* ... a look at the capacity, ...
LEMMA ReleaseCapacityKeeps ==
    ASSUME PoolInv, NEW t \in Releasers, ReleaseCapacity(t)
    PROVE  PoolInv'
<1> DEFINE r == [th[t] EXCEPT !.pc = "rate", !.cap = pool.capacity]
<1>1. t \in Threads /\ PoolTypeOK /\ th[t].pc = "cap" /\ pool.capacity \in 0 .. Word - 1
    BY DEF Threads, PoolInv, PoolTypeOK, ReleaseCapacity, At
<1>2. r \in Locals /\ th' = [th EXCEPT ![t] = r]
    BY ZenonT(60), <1>1, LocalsTyped DEF Locals, Places, ReleaseCapacity
<1>3. r.pc = "rate" /\ r.buf = th[t].buf /\ r.cap = pool.capacity
    BY <1>1, LocalsTyped DEF Locals
<1>4. Running /\ pool.capacity >= InitCapacity
    BY <1>1 DEF PoolInv, PhaseInv, CapacityInv
<1>5. Quiet(t, r)
    <2> HIDE DEF r
    <2> QED
        BY <1>1, <1>2, <1>3, <1>4 DEF Quiet, Turning, Owns, Fresh, AcquirePcs, ReleaseCapacity, At
<1> QED
    BY <1>1, <1>5, QuietKeeps

\* ... the decision to shrink, never from the initial capacity, ...
LEMMA ReleaseRateKeeps ==
    ASSUME PoolInv, NEW t \in Releasers, ReleaseRate(t)
    PROVE  PoolInv'
<1>1. PICK pc \in {"push", "shrink"} :
        /\ Go(t, "rate", pc)
        /\ pc = "shrink" => th[t].cap # pool.init
    BY DEF ReleaseRate
<1>2. t \in Threads /\ PoolTypeOK /\ pc \in Places
    BY DEF Threads, PoolInv, Places
<1>3. PICK r \in Locals : /\ th[t].pc = "rate" /\ th' = [th EXCEPT ![t] = r] /\ r.pc = pc
                          /\ r.buf = th[t].buf /\ r.cap = th[t].cap
    BY <1>1, <1>2, MovedLocals
<1>4. Running /\ pool.init = InitCapacity
    BY <1>2, <1>3 DEF PoolInv, PhaseInv
<1>5. th[t].cap \in Nat /\ InitCapacity \in Nat /\ th[t].cap >= InitCapacity
    BY <1>2, <1>3, LocalsTyped, WordSteps DEF PoolInv, ReadInv, Fresh
<1>6. r.pc = "shrink" => r.cap > InitCapacity
    BY <1>1, <1>3, <1>4, <1>5
<1>7. Quiet(t, r)
    BY <1>1, <1>3, <1>4, <1>6 DEF Quiet, Turning, Owns, Fresh, AcquirePcs, ReleaseRate, At
<1> QED
    BY <1>2, <1>7, QuietKeeps

\* ... a capacity that has changed meanwhile, ...
LEMMA ReleaseShrinkMissKeeps ==
    ASSUME PoolInv, NEW t \in Releasers, ReleaseShrink(t), pool.capacity # th[t].cap
    PROVE  PoolInv'
<1>1. /\ t \in Threads /\ PoolTypeOK /\ Go(t, "shrink", "cap") /\ "cap" \in Places
      /\ UNCHANGED <<pool, mem, live, holders, fin>>
    BY DEF Threads, PoolInv, ReleaseShrink, Places
<1>2. PICK r \in Locals : /\ th[t].pc = "shrink" /\ th' = [th EXCEPT ![t] = r] /\ r.pc = "cap"
                          /\ r.buf = th[t].buf
    BY <1>1, MovedLocals
<1>3. Running
    BY <1>1, <1>2 DEF PoolInv, PhaseInv
<1>4. Quiet(t, r)
    BY <1>1, <1>2, <1>3 DEF Quiet, Turning, Owns, Fresh, AcquirePcs, At
<1> QED
    BY <1>1, <1>4, QuietKeeps

\* ... a look at the head, ...
LEMMA ReleaseHeadKeeps ==
    ASSUME PoolInv, NEW t \in Releasers, ReleaseHead(t)
    PROVE  PoolInv'
<1> DEFINE r == [th[t] EXCEPT !.pc = "setnext", !.old = pool.head]
<1>1. t \in Threads /\ PoolTypeOK /\ th[t].pc = "push" /\ pool.head \in Addresses
    BY DEF Threads, PoolInv, PoolTypeOK, ReleaseHead, At
<1>2. r \in Locals /\ th' = [th EXCEPT ![t] = r]
    BY ZenonT(60), <1>1, LocalsTyped DEF Locals, Places, ReleaseHead
<1>3. r.pc = "setnext" /\ r.buf = th[t].buf
    BY <1>1, LocalsTyped DEF Locals
<1>4. Running
    BY <1>1 DEF PoolInv, PhaseInv
<1>5. Quiet(t, r)
    <2> HIDE DEF r
    <2> QED
        BY <1>1, <1>2, <1>3, <1>4 DEF Quiet, Turning, Owns, Fresh, AcquirePcs, ReleaseHead, At
<1> QED
    BY <1>1, <1>5, QuietKeeps

\* ... and a push that fails.
LEMMA ReleaseMissKeeps ==
    ASSUME PoolInv, NEW t \in Releasers, ReleaseCas(t), ~ HeadUnchanged(t)
    PROVE  PoolInv'
<1>1. /\ t \in Threads /\ PoolTypeOK /\ Go(t, "pushcas", "push") /\ "push" \in Places
      /\ UNCHANGED <<pool, mem, live, holders, fin>>
    BY DEF Threads, PoolInv, ReleaseCas, Places
<1>2. PICK r \in Locals : /\ th[t].pc = "pushcas" /\ th' = [th EXCEPT ![t] = r] /\ r.pc = "push"
                          /\ r.buf = th[t].buf
    BY <1>1, MovedLocals
<1>3. Running
    BY <1>1, <1>2 DEF PoolInv, PhaseInv
<1>4. Quiet(t, r)
    BY <1>1, <1>2, <1>3 DEF Quiet, Turning, Owns, Fresh, AcquirePcs, At
<1> QED
    BY <1>1, <1>4, QuietKeeps

--------------------------------------------------------------------------------
(* What a step of one thread must show for each part of the invariant       *)

\* t goes on with the locals r.
Steps(t, r) ==
    /\ th' = [th EXCEPT ![t] = r] /\ r \in Locals
    /\ UNCHANGED fin

LEMMA StepFacts ==
    ASSUME PoolTypeOK, NEW t \in Threads, NEW r, Steps(t, r)
    PROVE  th'[t] = r /\ \A u \in Threads : u # t => th'[u] = th[u]
    BY DEF Steps, PoolTypeOK

\* The phases: the pool is neither finalized nor freed, and while it is
\* finalized t only gives back.
LEMMA PhaseKept ==
    ASSUME PoolTypeOK, PhaseInv, NEW t \in Threads, NEW r, Steps(t, r),
           pool'.state = pool.state, pool'.live = pool.live, pool'.init = pool.init,
           pool'.head = pool.head \/ Running,
           \/ r.pc = "idle" \/ Running
           \/ r.pc \in {"type", "dead", "uncount", "last"} /\ ~ At(t, "idle")
           \/ r.pc = "type" /\ MayCall(t),
           r.pc \in {"dead", "uncount", "last"} => ~ Running /\ pool.live,
           r.pc \in AcquirePcs => t \in Acquirers
    PROVE  PhaseInv'
<1>1. th'[t] = r /\ (\A u \in Threads : u # t => th'[u] = th[u]) /\ fin' = fin
    BY StepFacts DEF Steps
<1>2. \A u \in Threads : th'[u].pc \in AcquirePcs => u \in Acquirers
    BY <1>1 DEF PhaseInv
<1>3. ASSUME ~ Running, NEW u \in Threads
      PROVE  th'[u].pc \in {"idle", "type", "dead", "uncount", "last"}
    BY <1>1, <1>3 DEF PhaseInv
<1>4. ASSUME NEW u \in Threads, th'[u].pc \in {"dead", "uncount", "last"}
      PROVE  ~ Running /\ pool.live
    BY <1>1, <1>4 DEF PhaseInv
<1>5. ASSUME ~ Running, NEW u \in Threads, NEW v \in Threads
      PROVE  th'[u].pc = "idle" \/ th'[v].pc = "idle" \/ u = v
    BY <1>1, <1>5 DEF PhaseInv, At, MayCall
<1>6. fin.pc \in {"swap", "walk", "settle"} => \A u \in Threads : th'[u].pc = "idle"
    BY <1>1 DEF PhaseInv, At, MayCall, Running
<1> QED
    BY <1>1, <1>2, <1>3, <1>4, <1>5, <1>6 DEF PhaseInv, Running, At

\* The places: one buffer moves, from where no other thread has it to one
\* place only.
LEMMA PlaceMoved ==
    ASSUME PoolTypeOK, PlaceInv, NEW t \in Threads, NEW r, Steps(t, r), NEW b \in Bufs,
           Straight(mem', pool'.head), Straight(mem', fin'.buf),
           \A c \in Bufs \ {b} :
               /\ c \in FreeList' <=> c \in FreeList
               /\ c \in Walked' <=> c \in Walked
               /\ c \in live' <=> c \in live
               /\ holders'[c] = holders[c]
               /\ mem'[c].type = mem[c].type,
           FreeList' \subseteq Bufs, Walked' \subseteq Bufs, live' \subseteq Bufs,
           \A u \in Threads \ {t} : ~ Owns(th[u], b),
           \A c \in Addresses : Owns(r, c) => c = b,
           b \in FreeList' \cup Walked' =>
               b \in live' /\ mem'[b].type = "POOL" /\ ~ (holders'[b] > 0) /\ ~ Owns(r, b),
           holders'[b] > 0 => holders'[b] = 1 /\ b \in live' /\ ~ Owns(r, b),
           Owns(r, b) => b \in live' /\ (r.pc # "type" => mem'[b].type = "POOL")
    PROVE  PlaceInv'
<1>1. th'[t] = r /\ \A u \in Threads : u # t => th'[u] = th[u]
    BY StepFacts
<1>2. FreeList' \cup Walked' \subseteq {c \in live' : mem'[c].type = "POOL"}
    BY DEF PlaceInv
<1>3. ASSUME NEW c \in Bufs, holders'[c] > 0
      PROVE  /\ holders'[c] = 1 /\ c \in live' \ (FreeList' \cup Walked')
             /\ \A u \in Threads : ~ Owns(th'[u], c)
    <2>1. CASE c = b
        BY <1>1, <1>3, <2>1
    <2>2. CASE c # b
        BY <1>1, <1>3, <2>2 DEF PlaceInv
    <2> QED
        BY <2>1, <2>2
<1>4. ASSUME NEW u \in Threads, NEW c \in Addresses, Owns(th'[u], c)
      PROVE  /\ c \in live' \ (FreeList' \cup Walked')
             /\ th'[u].pc # "type" => mem'[c].type = "POOL"
             /\ \A v \in Threads : Owns(th'[v], c) => v = u
    <2>1. CASE c = b
        BY <1>1, <1>4, <2>1
    <2>2. CASE c # b
        <3>1. u # t /\ Owns(th[u], c) /\ th'[u] = th[u]
            BY <1>1, <1>4, <2>2
        <3>2. c \in live /\ c \in Bufs /\ c \notin FreeList /\ c \notin Walked
            BY <3>1 DEF PlaceInv, PoolTypeOK
        <3>3. th[u].pc # "type" => mem[c].type = "POOL"
            BY <3>1 DEF PlaceInv, At
        <3>4. ASSUME NEW v \in Threads, Owns(th'[v], c) PROVE v = u
            <4>1. v # t /\ Owns(th[v], c)
                BY <1>1, <2>2, <3>4
            <4> QED
                BY <3>1, <4>1 DEF PlaceInv
        <3> QED
            BY <2>2, <3>1, <3>2, <3>3, <3>4
    <2> QED
        BY <2>1, <2>2
<1> QED
    BY <1>2, <1>3, <1>4 DEF PlaceInv, At

\* No buffer moves.
LEMMA PlaceStill ==
    ASSUME PoolTypeOK, PlaceInv, NEW t \in Threads, NEW r, Steps(t, r),
           pool'.head = pool.head, mem' = mem, live' = live, holders' = holders,
           \A c \in Addresses : Owns(r, c) => Owns(th[t], c) /\ r.pc # "type" /\ th[t].pc # "type"
    PROVE  PlaceInv'
<1>1. th'[t] = r /\ (\A u \in Threads : u # t => th'[u] = th[u]) /\ fin' = fin
    BY StepFacts DEF Steps
<1>2. FreeList' = FreeList /\ Walked' = Walked
    BY <1>1 DEF FreeList, Walked
<1>3. \A u \in Threads, c \in Addresses : Owns(th'[u], c) =>
        Owns(th[u], c) /\ (th'[u].pc # "type" => th[u].pc # "type")
    BY <1>1
<1>4. ASSUME NEW u \in Threads, NEW c \in Addresses, Owns(th'[u], c)
      PROVE  /\ c \in live \ (FreeList \cup Walked)
             /\ th'[u].pc # "type" => mem[c].type = "POOL"
             /\ \A v \in Threads : Owns(th'[v], c) => v = u
    BY <1>3, <1>4 DEF PlaceInv, At
<1>5. \A c \in Bufs : holders[c] > 0 =>
        /\ holders[c] = 1 /\ c \in live \ (FreeList \cup Walked)
        /\ \A u \in Threads : ~ Owns(th'[u], c)
    BY <1>3 DEF PlaceInv
<1> QED
    BY <1>1, <1>2, <1>4, <1>5 DEF PlaceInv, At

\* What the others have read.
LEMMA ReadsKept ==
    ASSUME PoolTypeOK, ReadInv, NEW t \in Threads, NEW r, Steps(t, r),
           \A u \in Threads \ {t} :
               /\ th[u].pc \in {"next", "recheck", "cas"} =>
                     th[u].old \in FreeList' /\ mem'[th[u].old].next = mem[th[u].old].next
               /\ th[u].pc = "pushcas" => mem'[th[u].buf].next = mem[th[u].buf].next,
           r.pc \notin {"next", "recheck", "cas", "rate", "shrink"},
           r.pc = "pushcas" => mem'[r.buf].next = r.old
    PROVE  ReadInv'
<1>1. th'[t] = r /\ \A u \in Threads : u # t => th'[u] = th[u]
    BY StepFacts
<1>2. ASSUME NEW u \in Threads
      PROVE  /\ th'[u].pc \in {"next", "recheck", "cas"} => th'[u].old \in FreeList'
             /\ th'[u].pc \in {"recheck", "cas"} => th'[u].new = mem'[th'[u].old].next
             /\ th'[u].pc = "pushcas" => mem'[th'[u].buf].next = th'[u].old
             /\ th'[u].pc = "rate" => th'[u].cap >= InitCapacity
             /\ th'[u].pc = "shrink" => th'[u].cap > InitCapacity
    <2>1. CASE u = t
        BY <1>1, <2>1
    <2>2. CASE u # t
        BY <1>1, <2>2 DEF ReadInv, Fresh
    <2> QED
        BY <2>1, <2>2
<1> QED
    BY <1>2 DEF ReadInv, Fresh

\* Nothing is counted or waits to be.
LEMMA CapacityStill ==
    ASSUME PoolTypeOK, CapacityInv, NEW t \in Threads, NEW r, Steps(t, r),
           Counted' = Counted, pool'.capacity = pool.capacity,
           pool'.live = pool.live, pool'.state = pool.state,
           th[t].pc \notin {"uncount", "last"}, r.pc \notin {"uncount", "last"}
    PROVE  CapacityInv'
<1>1. th'[t] = r /\ (\A u \in Threads : u # t => th'[u] = th[u]) /\ fin' = fin
    BY StepFacts DEF Steps
<1>2. \A u \in Threads : \A pc \in {"uncount", "last"} : th'[u].pc = pc <=> th[u].pc = pc
    BY <1>1
<1> QED
    BY <1>1, <1>2 DEF CapacityInv, At, Running

LEMMA FreeStill ==
    ASSUME PoolTypeOK, FreeInv, NEW t \in Threads, NEW r, Steps(t, r),
           FreeList' = FreeList, Walked' = Walked, pool'.free = pool.free,
           th[t].pc \notin {"taken", "count"}, r.pc \notin {"taken", "count"}
    PROVE  FreeInv'
<1>1. th'[t] = r /\ \A u \in Threads : u # t => th'[u] = th[u]
    BY StepFacts
<1>2. Popping' = Popping /\ Pushing' = Pushing
    BY <1>1 DEF Popping, Pushing, At
<1> QED
    BY <1>2 DEF FreeInv

\* Writes to a buffer outside the lists leave the lists alone.
LEMMA ListsFrame ==
    ASSUME PoolTypeOK, PlaceInv, PoolTypeOK', NEW b,
           b \notin FreeList, b \notin Walked,
           \A c \in Bufs : c # b => mem'[c] = mem[c],
           pool'.head = pool.head, fin'.buf = fin.buf
    PROVE  /\ FreeList' = FreeList /\ Walked' = Walked
           /\ FreeList \subseteq Bufs /\ Walked \subseteq Bufs
           /\ Straight(mem', pool'.head) /\ Straight(mem', fin'.buf)
<1>1. mem \in [Bufs -> Cell] /\ mem' \in [Bufs -> Cell]
    BY DEF PoolTypeOK, Cell
<1>2. pool.head \in Addresses /\ fin.buf \in Addresses
    BY DEF PoolTypeOK
<1>3. \A c \in Chain(mem, pool.head) : mem'[c].next = mem[c].next
    BY DEF FreeList, Chain
<1>4. \A c \in Chain(mem, fin.buf) : mem'[c].next = mem[c].next
    BY DEF Walked, Chain
<1>5. Chain(mem', pool.head) = Chain(mem, pool.head) /\ Straight(mem', pool.head)
    BY <1>1, <1>2, <1>3, ChainFrame DEF PlaceInv
<1>6. Chain(mem', fin.buf) = Chain(mem, fin.buf) /\ Straight(mem', fin.buf)
    BY <1>1, <1>2, <1>4, ChainFrame DEF PlaceInv
<1>7. Chain(mem, pool.head) \subseteq Bufs /\ Chain(mem, fin.buf) \subseteq Bufs
    BY DEF Chain
<1> QED
    BY <1>5, <1>6, <1>7 DEF FreeList, Walked

\* What the others have read is not in a buffer outside the list.
LEMMA ReadsElsewhere ==
    ASSUME PoolTypeOK, PlaceInv, ReadInv, NEW t \in Threads, NEW b \in Bufs,
           b \notin FreeList, \A u \in Threads \ {t} : ~ Owns(th[u], b),
           \A c \in Bufs : c # b => mem'[c] = mem[c],
           FreeList \subseteq FreeList'
    PROVE  \A u \in Threads \ {t} :
               /\ th[u].pc \in {"next", "recheck", "cas"} =>
                     th[u].old \in FreeList' /\ mem'[th[u].old].next = mem[th[u].old].next
               /\ th[u].pc = "pushcas" => mem'[th[u].buf].next = mem[th[u].buf].next
<1> TAKE u \in Threads \ {t}
<1>1. CASE th[u].pc \in {"next", "recheck", "cas"}
    <2>1. th[u].old \in FreeList /\ th[u].old \in Bufs /\ th[u].old # b
        BY <1>1 DEF ReadInv, Fresh, FreeList, Chain
    <2> QED
        BY <1>1, <2>1
<1>2. CASE th[u].pc = "pushcas"
    <2>1. Owns(th[u], th[u].buf)
        BY <1>2 DEF Owns
    <2>2. th[u].buf \in Bufs /\ th[u].buf # b
        BY <2>1, LocalsTyped, OwnedFacts
    <2> QED
        BY <1>2, <2>2
<1> QED
    BY <1>1, <1>2

--------------------------------------------------------------------------------
(* Buffers that change hands                                                *)

IdleFacts == Idle \in Locals /\ Idle.pc = "idle" /\ \A b : ~ Owns(Idle, b)

LEMMA IdleIs == IdleFacts
    BY WordSteps DEF IdleFacts, Idle, Locals, Places, Owns

\* A buffer just allocated is nowhere in the pool.
LEMMA NewBuffer ==
    ASSUME PoolTypeOK, PlaceInv, NEW b \in Bufs, b \notin live
    PROVE  /\ b \notin FreeList /\ b \notin Walked /\ holders[b] = 0
           /\ \A u \in Threads : ~ Owns(th[u], b)
    BY DEF PoolTypeOK, PlaceInv

\* A temporary buffer.
LEMMA TemporaryKeeps ==
    ASSUME PoolInv, NEW t \in Acquirers, Temporary(t), UNCHANGED <<pool, fin>>,
           th[t].pc \in {"idle", "recheck", "empty"}
    PROVE  PoolInv'
<1>1. PICK b \in Bufs : MallocSingle(b, "TMP") /\ HandOut(b)
    BY DEF Temporary
<1>2. /\ t \in Threads /\ Idle \in Locals /\ PoolTypeOK /\ PlaceInv
      /\ th' = [th EXCEPT ![t] = Idle] /\ Idle.pc = "idle" /\ \A c : ~ Owns(Idle, c)
    BY IdleIs DEF Temporary, Threads, IdleFacts, PoolInv
<1>3. /\ b \notin live /\ live' = live \cup {b} /\ holders' = [holders EXCEPT ![b] = @ + 1]
      /\ mem' = [mem EXCEPT ![b] = [next |-> NULL, type |-> "TMP"]]
    BY <1>1 DEF MallocSingle, HandOut
<1>4. PoolTypeOK'
    BY <1>2, <1>3 DEF PoolTypeOK
<1>5. Steps(t, Idle)
    BY <1>2 DEF Steps
<1>6. /\ b \notin FreeList /\ b \notin Walked /\ holders[b] = 0
      /\ \A u \in Threads : ~ Owns(th[u], b)
    BY <1>2, <1>3, NewBuffer
<1>7. /\ \A c \in Bufs : c # b => mem'[c] = mem[c] /\ holders'[c] = holders[c]
      /\ mem'[b].type = "TMP" /\ holders'[b] = 1
    BY <1>2, <1>3, <1>6 DEF PoolTypeOK
<1>8. /\ FreeList' = FreeList /\ Walked' = Walked
      /\ FreeList \subseteq Bufs /\ Walked \subseteq Bufs
      /\ Straight(mem', pool'.head) /\ Straight(mem', fin'.buf)
    BY <1>2, <1>4, <1>6, <1>7, ListsFrame
<1>9. PhaseInv'
    BY <1>2, <1>5, PhaseKept DEF PoolInv, AcquirePcs
<1>10. PlaceInv'
    <2>1. live' \subseteq Bufs
        BY <1>4 DEF PoolTypeOK
    <2> QED
        BY <1>2, <1>3, <1>5, <1>6, <1>7, <1>8, <2>1, PlaceMoved
<1>11. ReadInv'
    BY <1>2, <1>5, <1>6, <1>7, <1>8, ReadsElsewhere, ReadsKept DEF PoolInv
<1>12. CapacityInv'
    <2>1. Counted' = Counted
        <3>1. Uncounted' = Uncounted
            BY <1>2, StepFacts, <1>5 DEF Uncounted
        <3> QED
            BY <1>3, <1>7, <3>1 DEF Counted, PoolInv, PoolTypeOK
    <2> QED
        BY <1>2, <1>5, <2>1, CapacityStill DEF PoolInv
<1>13. FreeInv'
    BY <1>2, <1>5, <1>8, FreeStill DEF PoolInv
<1> QED
    BY <1>4, <1>9, <1>10, <1>11, <1>12, <1>13 DEF PoolInv

\* A pool that grows.
LEMMA GrowKeeps ==
    ASSUME PoolInv, NEW t \in Acquirers, AcquireEmpty(t), pool.auto
    PROVE  PoolInv'
<1>1. PICK b \in Bufs :
        MallocSingle(b, "POOL") /\ th' = [th EXCEPT ![t].pc = "grow", ![t].buf = b]
    BY DEF AcquireEmpty
<1> DEFINE r == [th[t] EXCEPT !.pc = "grow", !.buf = b]
<1>2. t \in Threads /\ PoolTypeOK /\ PlaceInv /\ th[t].pc = "empty"
    BY DEF Threads, PoolInv, AcquireEmpty, At
<1>3. r \in Locals /\ th' = [th EXCEPT ![t] = r] /\ r.pc = "grow" /\ r.buf = b
    BY ZenonT(60), <1>1, <1>2, LocalsTyped DEF Locals, Places
<1> HIDE DEF r
<1>4. /\ b \notin live /\ live' = live \cup {b} /\ UNCHANGED <<pool, holders, fin>>
      /\ mem' = [mem EXCEPT ![b] = [next |-> NULL, type |-> "POOL"]]
    BY <1>1 DEF MallocSingle, AcquireEmpty
<1>5. PoolTypeOK' /\ Steps(t, r)
    BY <1>2, <1>3, <1>4 DEF PoolTypeOK, Steps
<1>6. /\ b \notin FreeList /\ b \notin Walked /\ holders[b] = 0
      /\ \A u \in Threads : ~ Owns(th[u], b)
    BY <1>2, <1>4, NewBuffer
<1>7. /\ \A c \in Bufs : c # b => mem'[c] = mem[c]
      /\ mem'[b].type = "POOL"
    BY <1>2, <1>4 DEF PoolTypeOK
<1>8. /\ FreeList' = FreeList /\ Walked' = Walked
      /\ FreeList \subseteq Bufs /\ Walked \subseteq Bufs
      /\ Straight(mem', pool'.head) /\ Straight(mem', fin'.buf)
    BY <1>2, <1>4, <1>5, <1>6, <1>7, ListsFrame
<1>9. Running
    BY <1>2 DEF PoolInv, PhaseInv
<1>10. PhaseInv'
    BY <1>2, <1>3, <1>4, <1>5, <1>9, PhaseKept DEF PoolInv
<1>11. PlaceInv'
    <2>1. live' \subseteq Bufs
        BY <1>5 DEF PoolTypeOK
    <2>2. \A c \in Addresses : Owns(r, c) => c = b
        BY <1>3 DEF Owns
    <2>3. \A c \in Bufs \ {b} :
               /\ c \in FreeList' <=> c \in FreeList
               /\ c \in Walked' <=> c \in Walked
               /\ c \in live' <=> c \in live
               /\ holders'[c] = holders[c]
               /\ mem'[c].type = mem[c].type
        BY <1>4, <1>7, <1>8
    <2>4. b \notin FreeList' \cup Walked' /\ ~ (holders'[b] > 0)
        BY <1>4, <1>6, <1>8
    <2>5. b \in live' /\ mem'[b].type = "POOL"
        BY <1>4, <1>7
    <2> QED
        BY <1>2, <1>5, <1>6, <1>8, <2>1, <2>2, <2>3, <2>4, <2>5, PlaceMoved
<1>12. ReadInv'
    BY <1>2, <1>3, <1>5, <1>6, <1>7, <1>8, ReadsElsewhere, ReadsKept DEF PoolInv
<1>13. CapacityInv'
    <2>1. Counted' = Counted
        <3>1. Uncounted' = Uncounted \cup {b}
            BY <1>2, <1>3, <1>5, StepFacts DEF Uncounted
        <3> QED
            BY <1>2, <1>4, <1>7, <3>1 DEF Counted, PoolTypeOK
    <2> QED
        BY <1>2, <1>3, <1>4, <1>5, <2>1, CapacityStill DEF PoolInv
<1>14. FreeInv'
    BY <1>2, <1>3, <1>4, <1>5, <1>8, FreeStill DEF PoolInv
<1> QED
    BY <1>5, <1>10, <1>11, <1>12, <1>13, <1>14 DEF PoolInv

\* What a thread knows of the buffer it has.
LEMMA OwnBuffer ==
    ASSUME PoolTypeOK, PlaceInv, NEW t \in Threads, NEW b \in Addresses, Owns(th[t], b)
    PROVE  /\ b \in Bufs /\ b \in live /\ b \notin FreeList /\ b \notin Walked
           /\ ~ (holders[b] > 0) /\ holders[b] = 0
           /\ ~ At(t, "type") => mem[b].type = "POOL"
           /\ \A u \in Threads \ {t} : ~ Owns(th[u], b)
    BY OwnedFacts

\* The buffer by which the pool grew goes to the caller.
LEMMA AcquireGrowKeeps ==
    ASSUME PoolInv, NEW t \in Acquirers, AcquireGrow(t)
    PROVE  PoolInv'
<1>1. /\ t \in Threads /\ PoolTypeOK /\ PlaceInv /\ th[t].pc = "grow"
      /\ th' = [th EXCEPT ![t] = Idle] /\ holders' = [holders EXCEPT ![th[t].buf] = @ + 1]
      /\ pool' = [pool EXCEPT !.capacity = Plus(@)] /\ UNCHANGED <<mem, live, fin>>
    BY DEF Threads, PoolInv, AcquireGrow, Return, At, HandOut
<1>2. PICK b \in Addresses : b = th[t].buf /\ Owns(th[t], b)
    BY <1>1, LocalsTyped DEF Owns
<1>3. /\ b \in Bufs /\ b \in live /\ b \notin FreeList /\ b \notin Walked
      /\ holders[b] = 0 /\ mem[b].type = "POOL"
      /\ \A u \in Threads \ {t} : ~ Owns(th[u], b)
    BY <1>1, <1>2, OwnBuffer DEF At
<1>4. Running /\ Idle \in Locals /\ Idle.pc = "idle" /\ \A c : ~ Owns(Idle, c)
    BY <1>1, IdleIs DEF PoolInv, PhaseInv, IdleFacts
<1>5. pool.capacity = Cardinality(Counted) /\ \A u \in Threads : ~ At(u, "uncount")
    BY <1>4 DEF PoolInv, PhaseInv, CapacityInv, At
<1>6. Steps(t, Idle)
    BY <1>1, <1>4 DEF Steps
<1>7. th'[t] = Idle /\ \A u \in Threads : u # t => th'[u] = th[u]
    BY <1>1, <1>6, StepFacts
<1>8. Counted' = Counted \cup {b} /\ b \notin Counted
    <2>1. b \in Uncounted
        BY <1>1, <1>2, <1>3 DEF Uncounted
    <2>2. \A u \in Threads : u # t /\ th[u].pc \in {"grow", "drop"} => th[u].buf # b
        BY <1>3 DEF Owns
    <2>3. Uncounted' = Uncounted \ {b}
        BY <1>1, <1>2, <1>4, <1>7, <2>2 DEF Uncounted
    <2> QED
        BY <1>1, <1>3, <2>1, <2>3 DEF Counted
<1>9. /\ Cardinality(Counted') = Cardinality(Counted) + 1
      /\ Cardinality(Counted) \in Nat
      /\ pool'.capacity = pool.capacity + 1
    <2>1. Counted' \in SUBSET Bufs
        BY <1>1 DEF Counted, PoolTypeOK
    <2>2. Cardinality(Counted') <= Cardinality(Bufs)
        BY <2>1, FS_Subset
    <2>3. Cardinality(Counted') = Cardinality(Counted) + 1 /\ Cardinality(Counted) \in Nat
        <3>1. IsFiniteSet(Counted) /\ Cardinality(Counted) \in Nat
            BY <1>1, FinitePlaces, WordSteps
        <3>2. Cardinality(Counted \cup {b}) = Cardinality(Counted) + 1
            BY <1>8, <3>1, FS_AddElement
        <3> QED
            BY <1>8, <3>1, <3>2
    <2>4. pool.capacity \in 0 .. Word - 1 /\ pool.capacity < Word - 1
        BY <1>5, <2>2, <2>3, WordSteps
    <2>5. pool'.capacity = Plus(pool.capacity)
        BY <1>1 DEF PoolTypeOK
    <2> QED
        BY <2>3, <2>4, <2>5, WordSteps
<1>10. PoolTypeOK' /\ pool'.capacity \in 0 .. Word - 1
    <2>1. pool'.capacity \in 0 .. Word - 1
        BY <1>1, WordSteps DEF PoolTypeOK
    <2>2. /\ pool'.head = pool.head /\ pool'.free = pool.free /\ pool'.state = pool.state
          /\ pool'.init = pool.init /\ pool'.auto = pool.auto /\ pool'.live = pool.live
        BY <1>1 DEF PoolTypeOK
    <2>3. /\ holders' \in [Bufs -> Nat]
          /\ th' \in [Threads -> Locals]
        BY <1>1, <1>2, <1>3, <1>4 DEF PoolTypeOK
    <2>4. pool' = [pool EXCEPT !.capacity = pool'.capacity]
        BY <1>1 DEF PoolTypeOK
    <2> QED
        BY <1>1, <2>1, <2>3, <2>4 DEF PoolTypeOK
<1>11. /\ pool'.head = pool.head /\ pool'.free = pool.free /\ pool'.state = pool.state
       /\ pool'.init = pool.init /\ pool'.live = pool.live
       /\ holders'[b] = 1 /\ \A c \in Bufs : c # b => holders'[c] = holders[c]
    BY <1>1, <1>2, <1>3 DEF PoolTypeOK
<1>12. FreeList' = FreeList /\ Walked' = Walked /\ FreeList \subseteq Bufs /\ Walked \subseteq Bufs
    BY <1>1, <1>11 DEF FreeList, Walked, Chain
<1>13. PhaseInv'
    BY <1>1, <1>4, <1>6, <1>11, PhaseKept DEF PoolInv, AcquirePcs
<1>14. PlaceInv'
    <2>1. Straight(mem', pool'.head) /\ Straight(mem', fin'.buf) /\ live' \subseteq Bufs
        BY <1>1, <1>11 DEF PlaceInv, PoolTypeOK
    <2>2. \A c \in Bufs \ {b} :
               /\ c \in FreeList' <=> c \in FreeList
               /\ c \in Walked' <=> c \in Walked
               /\ c \in live' <=> c \in live
               /\ holders'[c] = holders[c]
               /\ mem'[c].type = mem[c].type
        BY <1>1, <1>11, <1>12
    <2> QED
        BY <1>1, <1>3, <1>4, <1>6, <1>11, <1>12, <2>1, <2>2, PlaceMoved
<1>15. ReadInv'
    BY <1>1, <1>3, <1>4, <1>6, <1>12, ReadsElsewhere, ReadsKept DEF PoolInv
<1>16. CapacityInv'
    <2>1. ~ \E u \in Threads : th'[u].pc = "uncount"
        BY <1>4, <1>5, <1>7 DEF At
    <2> QED
        BY <1>1, <1>4, <1>5, <1>9, <1>11, <2>1 DEF PoolInv, PhaseInv, CapacityInv, At, Running
<1>17. FreeInv'
    BY <1>1, <1>4, <1>6, <1>11, <1>12, FreeStill DEF PoolInv
<1> QED
    BY <1>10, <1>13, <1>14, <1>15, <1>16, <1>17 DEF PoolInv

\* free_count moves with what it counts.
LEMMA FreeUp ==
    ASSUME NEW f \in 0 .. Word - 1, NEW n \in Int, \E q \in Int : f = n + q * Word
    PROVE  /\ \E q \in Int : Plus(f) = (n + 1) + q * Word
           /\ \E q \in Int : Minus(f) = (n - 1) + q * Word
           /\ Plus(f) \in 0 .. Word - 1 /\ Minus(f) \in 0 .. Word - 1
<1>1. PICK q \in Int : f = n + q * Word
    OBVIOUS
<1>2. \A k \in Int : k * Word \in Int /\ (k - 1) * Word = k * Word - Word /\ (k + 1) * Word = k * Word + Word
    BY WordSteps
<1>3. Plus(f) = (n + 1) + q * Word \/ Plus(f) = (n + 1) + (q - 1) * Word
    <2>1. PICK w \in Int : w = q * Word /\ (q - 1) * Word = w - Word
        BY <1>2
    <2> QED
        BY <1>1, <2>1, WordSteps
<1>4. Minus(f) = (n - 1) + q * Word \/ Minus(f) = (n - 1) + (q + 1) * Word
    <2>1. PICK w \in Int : w = q * Word /\ (q + 1) * Word = w + Word
        BY <1>2
    <2> QED
        BY <1>1, <2>1, WordSteps
<1>5. Plus(f) \in 0 .. Word - 1 /\ Minus(f) \in 0 .. Word - 1
    BY WordSteps
<1>6. q - 1 \in Int /\ q + 1 \in Int
    OBVIOUS
<1>7. \E k \in Int : Plus(f) = (n + 1) + k * Word
    BY <1>3, <1>6
<1>8. \E k \in Int : Minus(f) = (n - 1) + k * Word
    BY <1>4, <1>6
<1> QED
    BY <1>5, <1>7, <1>8

\* The pool keeps its type when one of its counters changes.
LEMMA CounterTyped ==
    ASSUME PoolTypeOK, NEW n \in 0 .. Word - 1
    PROVE  /\ [pool EXCEPT !.free = n] \in
                [head : Addresses, free : 0 .. Word - 1, capacity : 0 .. Word - 1,
                 state : {"RUNNING", "FINALIZING", "DISABLED"}, init : {0, InitCapacity},
                 auto : BOOLEAN, live : BOOLEAN]
           /\ [pool EXCEPT !.capacity = n] \in
                [head : Addresses, free : 0 .. Word - 1, capacity : 0 .. Word - 1,
                 state : {"RUNNING", "FINALIZING", "DISABLED"}, init : {0, InitCapacity},
                 auto : BOOLEAN, live : BOOLEAN]
           /\ LET new == [pool EXCEPT !.free = n]
              IN  /\ new.free = n /\ new.capacity = pool.capacity /\ new.head = pool.head
                  /\ new.state = pool.state /\ new.init = pool.init /\ new.live = pool.live
           /\ LET new == [pool EXCEPT !.capacity = n]
              IN  /\ new.capacity = n /\ new.free = pool.free /\ new.head = pool.head
                  /\ new.state = pool.state /\ new.init = pool.init /\ new.live = pool.live
    BY DEF PoolTypeOK

\* The buffer taken from the list goes to the caller.
LEMMA AcquireTakenKeeps ==
    ASSUME PoolInv, NEW t \in Acquirers, AcquireTaken(t)
    PROVE  PoolInv'
<1>1. /\ t \in Threads /\ PoolTypeOK /\ PlaceInv /\ th[t].pc = "taken"
      /\ th' = [th EXCEPT ![t] = Idle] /\ holders' = [holders EXCEPT ![th[t].old] = @ + 1]
      /\ pool' = [pool EXCEPT !.free = Minus(pool.free)] /\ UNCHANGED <<live, fin>>
      /\ mem' = [mem EXCEPT ![th[t].old].next = NULL]
    BY DEF Threads, PoolInv, AcquireTaken, Return, At, HandOut
<1>2. PICK b \in Addresses : b = th[t].old /\ Owns(th[t], b)
    BY <1>1, LocalsTyped DEF Owns
<1>3. /\ b \in Bufs /\ b \in live /\ b \notin FreeList /\ b \notin Walked
      /\ holders[b] = 0 /\ mem[b].type = "POOL"
      /\ \A u \in Threads \ {t} : ~ Owns(th[u], b)
    BY <1>1, <1>2, OwnBuffer DEF At
<1>4. Running /\ Idle \in Locals /\ Idle.pc = "idle" /\ \A c : ~ Owns(Idle, c)
    BY <1>1, IdleIs DEF PoolInv, PhaseInv, IdleFacts
<1>5. Steps(t, Idle) /\ th'[t] = Idle /\ \A u \in Threads : u # t => th'[u] = th[u]
    BY <1>1, <1>4, StepFacts DEF Steps
<1>6. pool.free \in 0 .. Word - 1 /\ Minus(pool.free) \in 0 .. Word - 1
    BY <1>1, WordSteps DEF PoolTypeOK
<1>7. /\ pool'.head = pool.head /\ pool'.capacity = pool.capacity /\ pool'.state = pool.state
      /\ pool'.init = pool.init /\ pool'.live = pool.live /\ pool'.free = Minus(pool.free)
    BY <1>1, <1>6, CounterTyped
<1>8. /\ holders'[b] = 1 /\ \A c \in Bufs : c # b => holders'[c] = holders[c] /\ mem'[c] = mem[c]
      /\ mem'[b].type = "POOL" /\ mem' \in [Bufs -> Cell] /\ holders' \in [Bufs -> Nat]
    BY <1>1, <1>2, <1>3 DEF PoolTypeOK, Cell
<1>9. PoolTypeOK'
    BY <1>1, <1>4, <1>6, <1>8, CounterTyped DEF PoolTypeOK, Cell
<1>10. /\ FreeList' = FreeList /\ Walked' = Walked /\ FreeList \subseteq Bufs /\ Walked \subseteq Bufs
       /\ Straight(mem', pool'.head) /\ Straight(mem', fin'.buf)
    BY <1>1, <1>3, <1>7, <1>8, <1>9, ListsFrame
<1>11. PhaseInv'
    BY <1>1, <1>4, <1>5, <1>7, PhaseKept DEF PoolInv, AcquirePcs
<1>12. PlaceInv'
    <2>1. live' \subseteq Bufs
        BY <1>1 DEF PoolTypeOK
    <2>2. \A c \in Bufs \ {b} :
               /\ c \in FreeList' <=> c \in FreeList
               /\ c \in Walked' <=> c \in Walked
               /\ c \in live' <=> c \in live
               /\ holders'[c] = holders[c]
               /\ mem'[c].type = mem[c].type
        BY <1>1, <1>8, <1>10
    <2> QED
        BY <1>1, <1>3, <1>4, <1>5, <1>8, <1>10, <2>1, <2>2, PlaceMoved
<1>13. ReadInv'
    BY <1>1, <1>3, <1>4, <1>5, <1>8, <1>10, ReadsElsewhere, ReadsKept DEF PoolInv
<1>14. CapacityInv'
    <2>1. Uncounted' = Uncounted
        BY <1>1, <1>4, <1>5 DEF Uncounted
    <2>2. \A c \in live : mem'[c].type = mem[c].type
        BY <1>1, <1>3, <1>8 DEF PoolTypeOK
    <2>3. Counted' = Counted
        BY <1>1, <2>1, <2>2 DEF Counted
    <2> QED
        BY <1>1, <1>4, <1>5, <1>7, <2>3, CapacityStill DEF PoolInv
<1>15. FreeInv'
    <2>1. Popping' = Popping \ {t} /\ t \in Popping /\ Pushing' = Pushing
        BY <1>1, <1>4, <1>5 DEF Popping, Pushing, At
    <2>2. /\ IsFiniteSet(Popping) /\ IsFiniteSet(Pushing)
          /\ Cardinality(Popping) \in Nat /\ Cardinality(Pushing) \in Nat
        BY FS_CardinalityType DEF PoolInv, FreeInv
    <2>3. IsFiniteSet(Popping') /\ Cardinality(Popping') = Cardinality(Popping) - 1
        BY <2>1, <2>2, FS_RemoveElement
    <2>4. PICK n \in Int : n = Cardinality(FreeList) + Cardinality(Walked) + Cardinality(Popping)
                                    - Cardinality(Pushing)
        BY <1>1, <2>2, FinitePlaces, WordSteps
    <2>5. \E q \in Int : Minus(pool.free) = (n - 1) + q * Word
        BY ZenonT(60), <1>6, <2>4, FreeUp DEF PoolInv, FreeInv
    <2>6. n - 1 = Cardinality(FreeList') + Cardinality(Walked') + Cardinality(Popping')
                    - Cardinality(Pushing')
        BY <1>1, <1>10, <2>1, <2>2, <2>3, <2>4, FinitePlaces, WordSteps
    <2> QED
        BY <1>7, <2>1, <2>2, <2>3, <2>5, <2>6 DEF FreeInv
<1> QED
    BY <1>9, <1>11, <1>12, <1>13, <1>14, <1>15 DEF PoolInv

\* The head is taken: it is the buffer seen there, and its next one is still the
\* one seen.
LEMMA AcquireTakesKeeps ==
    ASSUME PoolInv, OneAcquirer, NEW t \in Acquirers, AcquireCas(t), HeadUnchanged(t)
    PROVE  PoolInv'
<1>1. /\ t \in Threads /\ PoolTypeOK /\ PlaceInv /\ Go(t, "cas", "taken") /\ "taken" \in Places
      /\ pool' = [pool EXCEPT !.head = th[t].new] /\ UNCHANGED <<mem, live, holders, fin>>
      /\ pool.head = th[t].old
    BY DEF Threads, PoolInv, AcquireCas, HeadUnchanged, Places
<1>2. PICK r \in Locals : /\ th[t].pc = "cas" /\ th' = [th EXCEPT ![t] = r] /\ r.pc = "taken"
                          /\ r.old = th[t].old
    BY <1>1, MovedLocals
<1>3. th[t].old \in FreeList /\ th[t].new = mem[th[t].old].next
    BY <1>1, <1>2 DEF PoolInv, ReadInv, Fresh
<1>4. PICK b \in Bufs : b = pool.head /\ b = r.old /\ b \in FreeList /\ th[t].new = mem[b].next
    BY <1>1, <1>2, <1>3 DEF FreeList, Chain
<1>5. mem \in [Bufs -> Cell] /\ mem[b].next \in Addresses
    BY DEF PoolInv, PoolTypeOK, Cell
<1>6. /\ pool'.head = mem[b].next /\ pool'.free = pool.free /\ pool'.capacity = pool.capacity
      /\ pool'.state = pool.state /\ pool'.init = pool.init /\ pool'.live = pool.live
    BY <1>1, <1>4 DEF PoolTypeOK
<1>7. PoolTypeOK'
    <2>1. pool' = [pool EXCEPT !.head = mem[b].next]
        BY <1>1, <1>4
    <2>2. th' \in [Threads -> Locals]
        BY <1>1, <1>2 DEF PoolTypeOK
    <2> QED
        BY <1>1, <1>5, <2>1, <2>2 DEF PoolTypeOK
<1>8. Steps(t, r) /\ th'[t] = r /\ \A u \in Threads : u # t => th'[u] = th[u]
    BY <1>1, <1>2, StepFacts DEF Steps
<1>9. Running
    BY <1>1, <1>2 DEF PoolInv, PhaseInv
<1>10. FreeList' = FreeList \ {b} /\ Straight(mem', pool'.head)
    <2>1. Straight(mem, b)
        BY <1>1, <1>4 DEF PlaceInv
    <2>2. Chain(mem, mem[b].next) = Chain(mem, b) \ {b} /\ Straight(mem, mem[b].next)
        BY <1>5, <2>1, ChainPop
    <2> QED
        BY <1>1, <1>4, <1>6, <2>2 DEF FreeList
<1>11. Walked' = Walked /\ Walked = {}
    BY <1>1, <1>9, ChainNull DEF Walked, PoolInv, PhaseInv
<1>12. /\ b \in live /\ mem[b].type = "POOL" /\ ~ (holders[b] > 0)
       /\ \A u \in Threads : ~ Owns(th[u], b)
    BY <1>4 DEF PoolInv, PlaceInv
<1>13. PhaseInv'
    BY <1>1, <1>2, <1>6, <1>8, <1>9, PhaseKept DEF PoolInv
<1>14. PlaceInv'
    <2>1. live' \subseteq Bufs /\ FreeList' \subseteq Bufs /\ Walked' \subseteq Bufs
        BY <1>1, <1>10, <1>11 DEF PoolTypeOK, FreeList, Chain
    <2>2. \A c \in Addresses : Owns(r, c) => c = b
        BY <1>2, <1>4 DEF Owns
    <2>3. Straight(mem', fin'.buf)
        BY <1>1 DEF PlaceInv
    <2>4. b \notin FreeList' /\ b \notin Walked' /\ ~ (holders'[b] > 0) /\ b \in live'
          /\ mem'[b].type = "POOL"
        BY <1>1, <1>10, <1>11, <1>12
    <2>5. \A c \in Bufs \ {b} :
               /\ c \in FreeList' <=> c \in FreeList
               /\ c \in Walked' <=> c \in Walked
               /\ c \in live' <=> c \in live
               /\ holders'[c] = holders[c]
               /\ mem'[c].type = mem[c].type
        BY <1>1, <1>10, <1>11
    <2> QED
        BY <1>1, <1>8, <1>10, <1>12, <2>1, <2>2, <2>3, <2>4, <2>5, PlaceMoved
<1>15. ReadInv'
    <2>1. \A u \in Threads \ {t} : th[u].pc \notin {"next", "recheck", "cas"}
        BY DEF OneAcquirer, PoolInv, PhaseInv, AcquirePcs
    <2> QED
        BY <1>1, <1>2, <1>8, <2>1, ReadsKept DEF PoolInv
<1>16. CapacityInv'
    <2>1. Uncounted' = Uncounted
        BY <1>1, <1>2, <1>8 DEF Uncounted
    <2>2. Counted' = Counted
        BY <1>1, <2>1 DEF Counted
    <2> QED
        BY <1>1, <1>2, <1>6, <1>8, <2>2, CapacityStill DEF PoolInv
<1>17. FreeInv'
    <2>1. Popping' = Popping \cup {t} /\ t \notin Popping /\ Pushing' = Pushing
        BY <1>1, <1>2, <1>8 DEF Popping, Pushing, At
    <2>2. /\ IsFiniteSet(Popping) /\ IsFiniteSet(Pushing)
          /\ Cardinality(Popping) \in Nat /\ Cardinality(Pushing) \in Nat
        BY FS_CardinalityType DEF PoolInv, FreeInv
    <2>3. IsFiniteSet(Popping') /\ Cardinality(Popping') = Cardinality(Popping) + 1
        BY <2>1, <2>2, FS_AddElement
    <2>4. /\ IsFiniteSet(FreeList) /\ Cardinality(FreeList) \in Nat
          /\ Cardinality(Walked) \in Nat
        BY <1>1, FinitePlaces, WordSteps
    <2>5. Cardinality(FreeList') = Cardinality(FreeList) - 1
        BY <1>4, <1>10, <2>4, FS_RemoveElement
    <2>6. Cardinality(FreeList') + Cardinality(Walked') + Cardinality(Popping') - Cardinality(Pushing')
            = Cardinality(FreeList) + Cardinality(Walked) + Cardinality(Popping) - Cardinality(Pushing)
        BY <1>11, <2>1, <2>2, <2>3, <2>4, <2>5
    <2> QED
        BY <1>6, <2>1, <2>2, <2>3, <2>6 DEF PoolInv, FreeInv
<1> QED
    BY <1>7, <1>13, <1>14, <1>15, <1>16, <1>17 DEF PoolInv

\* A caller gives a buffer back.
LEMMA ReleaseBeginKeeps ==
    ASSUME PoolInv, NEW t \in Releasers, ReleaseBegin(t)
    PROVE  PoolInv'
<1>1. /\ t \in Threads /\ PoolTypeOK /\ PlaceInv /\ MayCall(t) /\ th[t].pc = "idle"
      /\ UNCHANGED <<pool, mem, live, fin>>
    BY DEF Threads, PoolInv, ReleaseBegin, MayCall, At
<1>2. PICK b \in live : /\ holders[b] > 0 /\ holders' = [holders EXCEPT ![b] = @ - 1]
                        /\ th' = [th EXCEPT ![t].pc = "type", ![t].buf = b]
    BY DEF ReleaseBegin
<1> DEFINE r == [th[t] EXCEPT !.pc = "type", !.buf = b]
<1>3. b \in Bufs /\ live \subseteq Bufs
    BY <1>1 DEF PoolTypeOK
<1>4. r \in Locals /\ th' = [th EXCEPT ![t] = r] /\ r.pc = "type" /\ r.buf = b
    BY ZenonT(60), <1>1, <1>2, <1>3, LocalsTyped DEF Locals, Places
<1> HIDE DEF r
<1>5. Steps(t, r) /\ th'[t] = r /\ \A u \in Threads : u # t => th'[u] = th[u]
    BY <1>1, <1>4, StepFacts DEF Steps
<1>6. /\ holders[b] = 1 /\ b \notin FreeList /\ b \notin Walked
      /\ \A u \in Threads : ~ Owns(th[u], b)
    BY <1>2, <1>3 DEF PoolInv, PlaceInv
<1>7. holders'[b] = 0 /\ \A c \in Bufs : c # b => holders'[c] = holders[c]
    BY <1>1, <1>2, <1>3, <1>6 DEF PoolTypeOK
<1>8. PoolTypeOK'
    <2>1. holders' \in [Bufs -> Nat]
        BY <1>1, <1>2, <1>3, <1>6 DEF PoolTypeOK
    <2> QED
        BY <1>1, <1>4, <2>1 DEF PoolTypeOK
<1>9. FreeList' = FreeList /\ Walked' = Walked /\ FreeList \subseteq Bufs /\ Walked \subseteq Bufs
    BY <1>1 DEF FreeList, Walked, Chain
<1>10. PhaseInv'
    BY <1>1, <1>4, <1>5, PhaseKept DEF PoolInv, AcquirePcs
<1>11. PlaceInv'
    <2>1. Straight(mem', pool'.head) /\ Straight(mem', fin'.buf)
        BY <1>1 DEF PlaceInv
    <2>2. \A c \in Addresses : Owns(r, c) => c = b
        BY <1>4 DEF Owns
    <2>3. \A c \in Bufs \ {b} :
               /\ c \in FreeList' <=> c \in FreeList
               /\ c \in Walked' <=> c \in Walked
               /\ c \in live' <=> c \in live
               /\ holders'[c] = holders[c]
               /\ mem'[c].type = mem[c].type
        BY <1>1, <1>7, <1>9
    <2>4. b \notin FreeList' /\ b \notin Walked' /\ ~ (holders'[b] > 0) /\ b \in live'
          /\ live' \subseteq Bufs
        BY <1>1, <1>3, <1>6, <1>7, <1>9
    <2> QED
        BY <1>1, <1>3, <1>4, <1>5, <1>6, <1>9, <2>1, <2>2, <2>3, <2>4, PlaceMoved
<1>12. ReadInv'
    BY <1>1, <1>3, <1>4, <1>5, <1>6, <1>9, ReadsElsewhere, ReadsKept DEF PoolInv
<1>13. CapacityInv'
    <2>1. Uncounted' = Uncounted
        BY <1>1, <1>4, <1>5 DEF Uncounted
    <2>2. Counted' = Counted
        BY <1>1, <2>1 DEF Counted
    <2> QED
        BY <1>1, <1>4, <1>5, <2>2, CapacityStill DEF PoolInv
<1>14. FreeInv'
    BY <1>1, <1>4, <1>5, <1>9, FreeStill DEF PoolInv
<1> QED
    BY <1>8, <1>10, <1>11, <1>12, <1>13, <1>14 DEF PoolInv

\* t frees the buffer it has.
LEMMA FreedKeeps ==
    ASSUME PoolInv, NEW t \in Threads, NEW r, Steps(t, r), r.pc \in {"idle", "uncount"},
           th[t].pc \in {"type", "dead", "drop"}, Free(th[t].buf),
           UNCHANGED <<pool, mem, holders>>
    PROVE  /\ PoolTypeOK' /\ PlaceInv' /\ ReadInv' /\ FreeInv'
           /\ th[t].buf \in live /\ live' = live \ {th[t].buf}
           /\ th'[t] = r /\ \A u \in Threads : u # t => th'[u] = th[u]
           /\ \A u \in Threads \ {t} : ~ Owns(th[u], th[t].buf)
           /\ th[t].pc # "type" => mem[th[t].buf].type = "POOL"
<1>1. PoolTypeOK /\ PlaceInv /\ fin' = fin /\ pool' = pool /\ mem' = mem /\ holders' = holders
    BY DEF PoolInv, Steps
<1>2. PICK b \in Addresses : b = th[t].buf /\ Owns(th[t], b)
    BY <1>1, LocalsTyped DEF Owns
<1>3. /\ b \in Bufs /\ b \in live /\ b \notin FreeList /\ b \notin Walked /\ ~ (holders[b] > 0)
      /\ ~ At(t, "type") => mem[b].type = "POOL"
      /\ \A u \in Threads \ {t} : ~ Owns(th[u], b)
    BY <1>1, <1>2, OwnBuffer
<1>4. th'[t] = r /\ \A u \in Threads : u # t => th'[u] = th[u]
    BY <1>1, StepFacts
<1>5. live' = live \ {b}
    BY <1>2 DEF Free
<1>6. PoolTypeOK'
    BY <1>1, <1>5 DEF PoolTypeOK, Steps
<1>7. FreeList' = FreeList /\ Walked' = Walked /\ FreeList \subseteq Bufs /\ Walked \subseteq Bufs
    BY <1>1 DEF FreeList, Walked, Chain
<1>8. PlaceInv'
    <2>1. Straight(mem', pool'.head) /\ Straight(mem', fin'.buf)
        BY <1>1 DEF PlaceInv
    <2>2. \A c \in Addresses : ~ Owns(r, c)
        BY DEF Owns
    <2>3. \A c \in Bufs \ {b} :
               /\ c \in FreeList' <=> c \in FreeList
               /\ c \in Walked' <=> c \in Walked
               /\ c \in live' <=> c \in live
               /\ holders'[c] = holders[c]
               /\ mem'[c].type = mem[c].type
        BY <1>1, <1>5, <1>7
    <2>4. live' \subseteq Bufs /\ b \notin FreeList' /\ b \notin Walked' /\ ~ (holders'[b] > 0)
        BY <1>1, <1>3, <1>6, <1>7 DEF PoolTypeOK
    <2> QED
        BY <1>1, <1>3, <1>7, <2>1, <2>2, <2>3, <2>4, PlaceMoved
<1>9. ReadInv'
    BY <1>1, <1>3, <1>7, ReadsElsewhere, ReadsKept DEF PoolInv
<1>10. FreeInv'
    BY <1>1, <1>7, FreeStill DEF PoolInv
<1> QED
    BY <1>2, <1>3, <1>4, <1>5, <1>6, <1>8, <1>9, <1>10 DEF At

\* A temporary buffer goes back to the system, ...
LEMMA ReleaseTemporaryKeeps ==
    ASSUME PoolInv, NEW t \in Releasers, ReleaseTemporary(t)
    PROVE  PoolInv'
<1>1. /\ t \in Threads /\ th[t].pc = "type" /\ th' = [th EXCEPT ![t] = Idle]
      /\ mem[th[t].buf].type = "TMP" /\ Free(th[t].buf) /\ UNCHANGED <<pool, mem, holders, fin>>
      /\ Idle \in Locals /\ Idle.pc = "idle"
    BY IdleIs DEF Threads, ReleaseTemporary, Return, At, IdleFacts
<1>2. Steps(t, Idle)
    BY <1>1 DEF Steps
<1>3. /\ PoolTypeOK' /\ PlaceInv' /\ ReadInv' /\ FreeInv'
      /\ live' = live \ {th[t].buf}
      /\ th'[t] = Idle /\ \A u \in Threads : u # t => th'[u] = th[u]
    BY <1>1, <1>2, FreedKeeps
<1>4. PhaseInv'
    BY <1>1, <1>2, PhaseKept DEF PoolInv, AcquirePcs
<1>5. CapacityInv'
    <2>1. Uncounted' = Uncounted
        BY <1>1, <1>3 DEF Uncounted
    <2>2. Counted' = Counted
        BY <1>1, <1>3, <2>1 DEF Counted
    <2> QED
        BY <1>1, <1>2, <2>2, CapacityStill DEF PoolInv
<1> QED
    BY <1>3, <1>4, <1>5 DEF PoolInv

\* ... so does one by which the capacity has shrunk, ...
LEMMA ReleaseDropKeeps ==
    ASSUME PoolInv, NEW t \in Releasers, ReleaseDrop(t)
    PROVE  PoolInv'
<1>1. /\ t \in Threads /\ th[t].pc = "drop" /\ th' = [th EXCEPT ![t] = Idle]
      /\ Free(th[t].buf) /\ UNCHANGED <<pool, mem, holders, fin>>
      /\ Idle \in Locals /\ Idle.pc = "idle"
    BY IdleIs DEF Threads, ReleaseDrop, Return, At, IdleFacts
<1>2. Steps(t, Idle)
    BY <1>1 DEF Steps
<1>3. /\ PoolTypeOK' /\ PlaceInv' /\ ReadInv' /\ FreeInv'
      /\ live' = live \ {th[t].buf} /\ th[t].buf \in live
      /\ th'[t] = Idle /\ \A u \in Threads : u # t => th'[u] = th[u]
      /\ \A u \in Threads \ {t} : ~ Owns(th[u], th[t].buf)
    BY <1>1, <1>2, FreedKeeps
<1>4. PhaseInv'
    BY <1>1, <1>2, PhaseKept DEF PoolInv, AcquirePcs
<1>5. CapacityInv'
    <2>1. \A u \in Threads \ {t} : th[u].pc \in {"grow", "drop"} => th[u].buf # th[t].buf
        BY <1>3 DEF Owns
    <2>2. th[t].buf \in Bufs
        BY <1>3 DEF PoolInv, PoolTypeOK
    <2>3. Uncounted' = Uncounted \ {th[t].buf} /\ th[t].buf \in Uncounted
        BY <1>1, <1>3, <2>1, <2>2 DEF Uncounted
    <2>4. Counted' = Counted
        BY <1>1, <1>3, <2>3 DEF Counted
    <2> QED
        BY <1>1, <1>2, <2>4, CapacityStill DEF PoolInv
<1> QED
    BY <1>3, <1>4, <1>5 DEF PoolInv

\* ... and one that comes back after finalize, ...
LEMMA ReleaseDeadKeeps ==
    ASSUME PoolInv, NEW t \in Releasers, ReleaseDead(t)
    PROVE  PoolInv'
<1>1. /\ t \in Threads /\ PoolTypeOK /\ Go(t, "dead", "uncount") /\ "uncount" \in Places
      /\ Free(th[t].buf) /\ UNCHANGED <<pool, mem, holders, fin>>
    BY DEF Threads, PoolInv, ReleaseDead, Places
<1>2. PICK r \in Locals : th[t].pc = "dead" /\ th' = [th EXCEPT ![t] = r] /\ r.pc = "uncount"
    BY <1>1, MovedLocals
<1>3. Steps(t, r)
    BY <1>1, <1>2 DEF Steps
<1>4. /\ PoolTypeOK' /\ PlaceInv' /\ ReadInv' /\ FreeInv'
      /\ live' = live \ {th[t].buf} /\ th[t].buf \in live
      /\ th'[t] = r /\ \A u \in Threads : u # t => th'[u] = th[u]
      /\ mem[th[t].buf].type = "POOL"
    BY <1>1, <1>2, <1>3, FreedKeeps
<1>5. ~ Running /\ pool.live /\ \A u \in Threads : u # t => th[u].pc = "idle"
    BY <1>1, <1>2 DEF PoolInv, PhaseInv, At
<1>6. PhaseInv'
    BY <1>1, <1>2, <1>3, <1>5, PhaseKept DEF PoolInv, At, AcquirePcs
<1>7. CapacityInv'
    <2>1. Uncounted = {} /\ Uncounted' = {}
        BY <1>2, <1>4, <1>5 DEF Uncounted
    <2>2. Counted' = Counted \ {th[t].buf} /\ th[t].buf \in Counted
        BY <1>1, <1>4, <2>1 DEF Counted
    <2>3. IsFiniteSet(Counted) /\ Cardinality(Counted) \in Nat
        BY <1>1, FinitePlaces, WordSteps
    <2>4. Cardinality(Counted') = Cardinality(Counted) - 1
        BY <2>2, <2>3, FS_RemoveElement
    <2>5. pool.capacity = Cardinality(Counted)
        BY <1>2, <1>5 DEF PoolInv, CapacityInv, At
    <2>6. pool'.capacity = Cardinality(Counted') + 1 /\ At(t, "uncount")'
        BY <1>1, <1>2, <1>4, <2>3, <2>4, <2>5 DEF At
    <2> QED
        BY <1>1, <1>5, <2>6 DEF CapacityInv, Running
<1> QED
    BY <1>4, <1>6, <1>7 DEF PoolInv

\* ... which is discounted, ...
LEMMA ReleaseUncountKeeps ==
    ASSUME PoolInv, NEW t \in Releasers, ReleaseUncount(t)
    PROVE  PoolInv'
<1>1. /\ t \in Threads /\ PoolTypeOK /\ Go(t, "uncount", "last") /\ "last" \in Places
      /\ pool' = [pool EXCEPT !.capacity = Minus(pool.capacity)]
      /\ UNCHANGED <<mem, live, holders, fin>>
    BY DEF Threads, PoolInv, ReleaseUncount, Places
<1>2. PICK r \in Locals : th[t].pc = "uncount" /\ th' = [th EXCEPT ![t] = r] /\ r.pc = "last"
    BY <1>1, MovedLocals
<1>3. Steps(t, r) /\ th'[t] = r /\ \A u \in Threads : u # t => th'[u] = th[u]
    BY <1>1, <1>2, StepFacts DEF Steps
<1>4. ~ Running /\ pool.live /\ \A u \in Threads : u # t => th[u].pc = "idle"
    BY <1>1, <1>2 DEF PoolInv, PhaseInv, At
<1>5. /\ pool.capacity \in 0 .. Word - 1 /\ Minus(pool.capacity) \in 0 .. Word - 1
      /\ Cardinality(Counted) \in Nat
    BY <1>1, WordSteps, FinitePlaces DEF PoolTypeOK
<1>6. /\ pool'.head = pool.head /\ pool'.free = pool.free /\ pool'.state = pool.state
      /\ pool'.init = pool.init /\ pool'.live = pool.live /\ pool'.capacity = Minus(pool.capacity)
    BY <1>1, <1>5, CounterTyped
<1>7. pool.capacity = Cardinality(Counted) + 1 /\ pool'.capacity = Cardinality(Counted)
    BY <1>1, <1>2, <1>5, <1>6, WordSteps DEF PoolInv, CapacityInv, At
<1>8. PoolTypeOK'
    BY <1>1, <1>2, <1>5, CounterTyped DEF PoolTypeOK
<1>9. PhaseInv'
    BY <1>1, <1>2, <1>3, <1>4, <1>6, PhaseKept DEF PoolInv, At, AcquirePcs
<1>10. PlaceInv'
    BY <1>1, <1>2, <1>3, <1>6, PlaceStill DEF PoolInv, Owns
<1>11. FreeList' = FreeList /\ Walked' = Walked
    BY <1>1, <1>6 DEF FreeList, Walked
<1>12. ReadInv'
    <2>1. \A u \in Threads \ {t} : th[u].pc = "idle"
        BY <1>4
    <2> QED
        BY <1>1, <1>2, <1>3, <2>1, ReadsKept DEF PoolInv
<1>13. CapacityInv'
    <2>1. Uncounted' = Uncounted
        BY <1>1, <1>2, <1>3 DEF Uncounted
    <2>2. Counted' = Counted
        BY <1>1, <2>1 DEF Counted
    <2>3. At(t, "last")' /\ \A u \in Threads : ~ At(u, "uncount")'
        BY <1>1, <1>2, <1>3, <1>4 DEF At
    <2> QED
        BY <1>1, <1>4, <1>6, <1>7, <2>2, <2>3 DEF CapacityInv, Running
<1>14. FreeInv'
    BY <1>1, <1>2, <1>3, <1>6, <1>11, FreeStill DEF PoolInv
<1> QED
    BY <1>8, <1>9, <1>10, <1>12, <1>13, <1>14 DEF PoolInv

\* Whoever finds nothing counted frees the pool.
LEMMA FreeIfEmptyFacts ==
    ASSUME PoolTypeOK, FreePoolIfEmpty
    PROVE  /\ pool.live
           /\ pool' \in [head : Addresses, free : 0 .. Word - 1, capacity : 0 .. Word - 1,
                         state : {"RUNNING", "FINALIZING", "DISABLED"}, init : {0, InitCapacity},
                         auto : BOOLEAN, live : BOOLEAN]
           /\ pool'.head = pool.head /\ pool'.free = pool.free /\ pool'.capacity = pool.capacity
           /\ pool'.init = pool.init
           /\ pool.capacity = 0 => pool'.state = "DISABLED" /\ pool'.live = FALSE
           /\ pool.capacity # 0 => pool'.state = pool.state /\ pool'.live = pool.live
    BY DEF PoolTypeOK, FreePoolIfEmpty

\* ... and, if it was the last, takes the pool along.
LEMMA ReleaseLastKeeps ==
    ASSUME PoolInv, NEW t \in Releasers, ReleaseLast(t)
    PROVE  PoolInv'
<1>1. /\ t \in Threads /\ PoolTypeOK /\ th[t].pc = "last" /\ th' = [th EXCEPT ![t] = Idle]
      /\ FreePoolIfEmpty /\ UNCHANGED <<mem, live, holders, fin>>
      /\ Idle \in Locals /\ Idle.pc = "idle" /\ \A c : ~ Owns(Idle, c)
    BY IdleIs DEF Threads, PoolInv, ReleaseLast, Return, At, IdleFacts
<1>2. Steps(t, Idle) /\ th'[t] = Idle /\ \A u \in Threads : u # t => th'[u] = th[u]
    BY <1>1, StepFacts DEF Steps
<1>3. /\ pool.live /\ pool'.head = pool.head /\ pool'.free = pool.free
      /\ pool'.capacity = pool.capacity /\ pool'.init = pool.init
      /\ pool.capacity = 0 => pool'.state = "DISABLED" /\ pool'.live = FALSE
      /\ pool.capacity # 0 => pool'.state = pool.state /\ pool'.live = pool.live
    BY <1>1, FreeIfEmptyFacts
<1>4. ~ Running /\ fin.pc = "done" /\ \A u \in Threads : th'[u].pc = "idle"
    <2>1. ~ Running /\ \A u \in Threads : u # t => th[u].pc = "idle"
        BY <1>1 DEF PoolInv, PhaseInv, At
    <2>2. fin.pc = "done"
        BY <1>1, <2>1 DEF PoolInv, PhaseInv, PoolTypeOK, At
    <2> QED
        BY <1>1, <1>2, <2>1, <2>2
<1>5. PoolTypeOK'
    BY <1>1, FreeIfEmptyFacts DEF PoolTypeOK
<1>6. PhaseInv'
    BY <1>1, <1>3, <1>4 DEF PoolInv, PhaseInv, At, Running, AcquirePcs
<1>7. PlaceInv'
    BY <1>1, <1>2, <1>3, PlaceStill DEF PoolInv
<1>8. FreeList' = FreeList /\ Walked' = Walked
    BY <1>1, <1>3 DEF FreeList, Walked
<1>9. ReadInv'
    BY <1>4 DEF ReadInv, Fresh
<1>10. CapacityInv'
    <2>1. Uncounted' = {} /\ Uncounted = {}
        BY <1>1, <1>4 DEF Uncounted, PoolInv, PhaseInv
    <2>2. Counted' = Counted
        BY <1>1, <2>1 DEF Counted
    <2>3. pool.capacity = Cardinality(Counted)
        <3>1. \A u \in Threads : th[u].pc # "uncount"
            BY <1>1, <1>4 DEF PoolInv, PhaseInv, At
        <3> QED
            BY <3>1 DEF PoolInv, CapacityInv, At
    <2>4. \A u \in Threads : ~ At(u, "uncount")' /\ ~ At(u, "last")'
        BY <1>4 DEF At
    <2>5. pool'.capacity # 0 \/ ~ pool'.live
        BY <1>3
    <2>6. ~ pool'.live => pool'.capacity = 0
        BY <1>3
    <2>7. ~ Running'
        BY <1>3, <1>4 DEF Running
    <2> QED
        BY <1>3, <2>2, <2>3, <2>4, <2>5, <2>6, <2>7 DEF CapacityInv
<1>11. FreeInv'
    BY <1>1, <1>2, <1>3, <1>8, FreeStill DEF PoolInv
<1> QED
    BY <1>5, <1>6, <1>7, <1>9, <1>10, <1>11 DEF PoolInv

\* A capacity above the initial one shrinks.
LEMMA ReleaseShrinksKeeps ==
    ASSUME PoolInv, NEW t \in Releasers, ReleaseShrink(t), pool.capacity = th[t].cap
    PROVE  PoolInv'
<1>1. /\ t \in Threads /\ PoolTypeOK /\ Go(t, "shrink", "drop") /\ "drop" \in Places
      /\ pool' = [pool EXCEPT !.capacity = pool.capacity - 1]
      /\ UNCHANGED <<mem, live, holders, fin>>
    BY DEF Threads, PoolInv, ReleaseShrink, Places
<1>2. PICK r \in Locals : /\ th[t].pc = "shrink" /\ th' = [th EXCEPT ![t] = r] /\ r.pc = "drop"
                          /\ r.buf = th[t].buf
    BY <1>1, MovedLocals
<1>3. Steps(t, r) /\ th'[t] = r /\ \A u \in Threads : u # t => th'[u] = th[u]
    BY <1>1, <1>2, StepFacts DEF Steps
<1>4. Running
    BY <1>1, <1>2 DEF PoolInv, PhaseInv
<1>5. pool.capacity > InitCapacity /\ pool.capacity \in 0 .. Word - 1
    BY <1>1, <1>2 DEF PoolInv, ReadInv, Fresh, PoolTypeOK
<1>6. pool.capacity - 1 >= InitCapacity /\ pool.capacity - 1 \in 0 .. Word - 1
    BY <1>5, WordSteps
<1>7. /\ pool'.head = pool.head /\ pool'.free = pool.free /\ pool'.state = pool.state
      /\ pool'.init = pool.init /\ pool'.live = pool.live /\ pool'.capacity = pool.capacity - 1
    BY <1>1, <1>6, CounterTyped
<1>8. PoolTypeOK'
    BY <1>1, <1>2, <1>6, CounterTyped DEF PoolTypeOK
<1>9. PhaseInv'
    BY <1>1, <1>2, <1>3, <1>4, <1>7, PhaseKept DEF PoolInv, AcquirePcs
<1>10. PlaceInv'
    <2>1. \A c \in Addresses : Owns(r, c) => Owns(th[t], c)
        BY <1>2 DEF Owns
    <2> QED
        BY <1>1, <1>2, <1>3, <1>7, <2>1, PlaceStill DEF PoolInv
<1>11. FreeList' = FreeList /\ Walked' = Walked
    BY <1>1, <1>7 DEF FreeList, Walked
<1>12. ReadInv'
    <2>1. \A u \in Threads \ {t} : th[u].pc \in {"next", "recheck", "cas"} => th[u].old \in FreeList
        BY DEF PoolInv, ReadInv, Fresh
    <2> QED
        BY <1>1, <1>2, <1>3, <1>11, <2>1, ReadsKept DEF PoolInv
<1>13. CapacityInv'
    <2>1. PICK b \in Addresses : b = th[t].buf /\ Owns(th[t], b)
        BY <1>1, <1>2, LocalsTyped DEF Owns
    <2>2. /\ b \in Bufs /\ b \in live /\ mem[b].type = "POOL"
          /\ \A u \in Threads \ {t} : ~ Owns(th[u], b)
        BY <1>1, <1>2, <2>1, OwnBuffer DEF PoolInv, At
    <2>3. \A u \in Threads : th[u].pc \in {"grow", "drop"} => th[u].buf # b
        BY <1>2, <2>2 DEF Owns
    <2>4. Uncounted' = Uncounted \cup {b} /\ b \notin Uncounted
        BY <1>1, <1>2, <1>3, <2>1, <2>2, <2>3 DEF Uncounted
    <2>5. Counted' = Counted \ {b} /\ b \in Counted
        BY <1>1, <2>2, <2>4 DEF Counted
    <2>6. IsFiniteSet(Counted) /\ Cardinality(Counted) \in Nat
        BY <1>1, FinitePlaces, WordSteps
    <2>7. Cardinality(Counted') = Cardinality(Counted) - 1
        BY <2>5, <2>6, FS_RemoveElement
    <2>8. \A u \in Threads : ~ At(u, "uncount") /\ ~ At(u, "uncount")'
        BY <1>2, <1>3, <1>4 DEF PoolInv, PhaseInv, At
    <2>9. pool'.capacity = Cardinality(Counted') /\ pool'.live /\ fin'.pc # "done"
        BY <1>1, <1>4, <1>7, <2>7, <2>8 DEF PoolInv, CapacityInv, PhaseInv
    <2> QED
        BY <1>6, <1>7, <2>8, <2>9 DEF CapacityInv
<1>14. FreeInv'
    BY <1>1, <1>2, <1>3, <1>7, <1>11, FreeStill DEF PoolInv
<1> QED
    BY <1>8, <1>9, <1>10, <1>12, <1>13, <1>14 DEF PoolInv

\* The pushed buffer points to the head seen.
LEMMA ReleaseNextKeeps ==
    ASSUME PoolInv, NEW t \in Releasers, ReleaseNext(t)
    PROVE  PoolInv'
<1>1. /\ t \in Threads /\ PoolTypeOK /\ PlaceInv /\ Go(t, "setnext", "pushcas") /\ "pushcas" \in Places
      /\ mem' = [mem EXCEPT ![th[t].buf].next = th[t].old]
      /\ UNCHANGED <<pool, live, holders, fin>>
    BY DEF Threads, PoolInv, ReleaseNext, Places
<1>2. PICK r \in Locals : /\ th[t].pc = "setnext" /\ th' = [th EXCEPT ![t] = r] /\ r.pc = "pushcas"
                          /\ r.buf = th[t].buf /\ r.old = th[t].old
    BY <1>1, MovedLocals
<1>3. Steps(t, r) /\ th'[t] = r /\ \A u \in Threads : u # t => th'[u] = th[u]
    BY <1>1, <1>2, StepFacts DEF Steps
<1>4. PICK b \in Addresses : b = th[t].buf /\ Owns(th[t], b)
    BY <1>1, <1>2, LocalsTyped DEF Owns
<1>5. /\ b \in Bufs /\ b \in live /\ b \notin FreeList /\ b \notin Walked /\ ~ (holders[b] > 0)
      /\ mem[b].type = "POOL"
      /\ \A u \in Threads \ {t} : ~ Owns(th[u], b)
    BY <1>1, <1>2, <1>4, OwnBuffer DEF At
<1>6. /\ \A c \in Bufs : c # b => mem'[c] = mem[c]
      /\ mem'[b].type = "POOL" /\ mem'[b].next = th[t].old /\ mem' \in [Bufs -> Cell]
    BY <1>1, <1>4, <1>5, LocalsTyped DEF PoolTypeOK, Cell
<1>7. PoolTypeOK'
    BY <1>1, <1>2, <1>6 DEF PoolTypeOK, Cell
<1>8. /\ FreeList' = FreeList /\ Walked' = Walked /\ FreeList \subseteq Bufs /\ Walked \subseteq Bufs
      /\ Straight(mem', pool'.head) /\ Straight(mem', fin'.buf)
    BY <1>1, <1>5, <1>6, <1>7, ListsFrame
<1>9. Running
    BY <1>1, <1>2 DEF PoolInv, PhaseInv
<1>10. PhaseInv'
    BY <1>1, <1>2, <1>3, <1>9, PhaseKept DEF PoolInv, AcquirePcs
<1>11. PlaceInv'
    <2>1. \A c \in Addresses : Owns(r, c) => c = b
        BY <1>2, <1>4 DEF Owns
    <2>2. \A c \in Bufs \ {b} :
               /\ c \in FreeList' <=> c \in FreeList
               /\ c \in Walked' <=> c \in Walked
               /\ c \in live' <=> c \in live
               /\ holders'[c] = holders[c]
               /\ mem'[c].type = mem[c].type
        BY <1>1, <1>6, <1>8
    <2>3. b \notin FreeList' /\ b \notin Walked' /\ ~ (holders'[b] > 0) /\ b \in live'
          /\ live' \subseteq Bufs /\ mem'[b].type = "POOL"
        BY <1>1, <1>5, <1>6, <1>8 DEF PoolTypeOK
    <2>4. t \in Threads /\ PoolTypeOK /\ PlaceInv /\ Steps(t, r)
        BY <1>1, <1>3
    <2>5. b \in Bufs /\ \A u \in Threads \ {t} : ~ Owns(th[u], b)
        BY SMTT(60), <1>5
    <2> QED
        BY <1>8, <2>1, <2>2, <2>3, <2>4, <2>5, PlaceMoved
<1>12. ReadInv'
    <2>1. r.pc = "pushcas" => mem'[r.buf].next = r.old
        BY <1>2, <1>4, <1>6
    <2> QED
        BY <1>1, <1>2, <1>3, <1>5, <1>6, <1>8, <2>1, ReadsElsewhere, ReadsKept DEF PoolInv
<1>13. CapacityInv'
    <2>1. Uncounted' = Uncounted
        BY <1>1, <1>2, <1>3 DEF Uncounted
    <2>2. \A c \in live : mem'[c].type = mem[c].type
        BY <1>1, <1>5, <1>6 DEF PoolTypeOK
    <2>3. Counted' = Counted
        BY <1>1, <2>1, <2>2 DEF Counted
    <2> QED
        BY <1>1, <1>2, <1>3, <2>3, CapacityStill DEF PoolInv
<1>14. FreeInv'
    BY <1>1, <1>2, <1>3, <1>8, FreeStill DEF PoolInv
<1> QED
    BY <1>7, <1>10, <1>11, <1>12, <1>13, <1>14 DEF PoolInv

\* A push that succeeds.
LEMMA ReleasePushesKeeps ==
    ASSUME PoolInv, NEW t \in Releasers, ReleaseCas(t), HeadUnchanged(t)
    PROVE  PoolInv'
<1>1. /\ t \in Threads /\ PoolTypeOK /\ PlaceInv /\ Go(t, "pushcas", "count") /\ "count" \in Places
      /\ pool' = [pool EXCEPT !.head = th[t].buf] /\ UNCHANGED <<mem, live, holders, fin>>
      /\ pool.head = th[t].old
    BY DEF Threads, PoolInv, ReleaseCas, HeadUnchanged, Places
<1>2. PICK r \in Locals : th[t].pc = "pushcas" /\ th' = [th EXCEPT ![t] = r] /\ r.pc = "count"
    BY <1>1, MovedLocals
<1>3. PICK b \in Addresses : b = th[t].buf /\ Owns(th[t], b)
    BY <1>1, <1>2, LocalsTyped DEF Owns
<1>4. /\ b \in Bufs /\ b \in live /\ b \notin FreeList /\ b \notin Walked /\ ~ (holders[b] > 0)
      /\ mem[b].type = "POOL"
      /\ \A u \in Threads \ {t} : ~ Owns(th[u], b)
    BY <1>1, <1>2, <1>3, OwnBuffer DEF At
<1>5. mem[b].next = pool.head /\ mem \in [Bufs -> Cell]
    BY <1>1, <1>2, <1>3 DEF PoolInv, ReadInv, Fresh, PoolTypeOK, Cell
<1>6. /\ pool'.head = b /\ pool'.free = pool.free /\ pool'.capacity = pool.capacity
      /\ pool'.state = pool.state /\ pool'.init = pool.init /\ pool'.live = pool.live
    BY <1>1, <1>3 DEF PoolTypeOK
<1>7. PoolTypeOK'
    <2>1. pool' = [pool EXCEPT !.head = b] /\ b \in Addresses
        BY <1>1, <1>3
    <2>2. th' \in [Threads -> Locals]
        BY <1>1, <1>2 DEF PoolTypeOK
    <2> QED
        BY <1>1, <2>1, <2>2 DEF PoolTypeOK
<1>8. Steps(t, r) /\ th'[t] = r /\ \A u \in Threads : u # t => th'[u] = th[u]
    BY <1>1, <1>2, StepFacts DEF Steps
<1>9. Running
    BY <1>1, <1>2 DEF PoolInv, PhaseInv
<1>10. FreeList' = FreeList \cup {b} /\ Straight(mem', pool'.head)
    <2>1. Straight(mem, mem[b].next) /\ b \notin Chain(mem, mem[b].next)
        BY <1>1, <1>4, <1>5 DEF PlaceInv, FreeList
    <2>2. Chain(mem, b) = Chain(mem, mem[b].next) \cup {b} /\ Straight(mem, b)
        BY <1>4, <1>5, <2>1, ChainPush
    <2> QED
        BY <1>1, <1>5, <1>6, <2>2 DEF FreeList
<1>11. Walked' = Walked /\ Walked = {}
    BY <1>1, <1>9, ChainNull DEF Walked, PoolInv, PhaseInv
<1>12. PhaseInv'
    BY <1>1, <1>2, <1>6, <1>8, <1>9, PhaseKept DEF PoolInv, AcquirePcs
<1>13. PlaceInv'
    <2>1. live' \subseteq Bufs /\ FreeList' \subseteq Bufs /\ Walked' \subseteq Bufs
        BY <1>1, <1>4, <1>10, <1>11 DEF PoolTypeOK, FreeList, Chain
    <2>2. \A c \in Addresses : ~ Owns(r, c)
        BY <1>2 DEF Owns
    <2>3. Straight(mem', fin'.buf)
        BY <1>1 DEF PlaceInv
    <2>4. /\ ~ (holders'[b] > 0) /\ b \in live' /\ mem'[b].type = "POOL"
          /\ t \in Threads /\ PoolTypeOK /\ PlaceInv /\ Steps(t, r) /\ b \in Bufs
          /\ \A u \in Threads \ {t} : ~ Owns(th[u], b)
        BY <1>1, <1>4, <1>8
    <2>5. \A c \in Bufs \ {b} :
               /\ c \in FreeList' <=> c \in FreeList
               /\ c \in Walked' <=> c \in Walked
               /\ c \in live' <=> c \in live
               /\ holders'[c] = holders[c]
               /\ mem'[c].type = mem[c].type
        BY <1>1, <1>10, <1>11
    <2> QED
        BY <1>10, <2>1, <2>2, <2>3, <2>4, <2>5, PlaceMoved
<1>14. ReadInv'
    <2>1. \A u \in Threads \ {t} :
            th[u].pc \in {"next", "recheck", "cas"} => th[u].old \in FreeList'
        BY <1>10 DEF PoolInv, ReadInv, Fresh
    <2> QED
        BY <1>1, <1>2, <1>8, <2>1, ReadsKept DEF PoolInv
<1>15. CapacityInv'
    <2>1. Uncounted' = Uncounted
        BY <1>1, <1>2, <1>8 DEF Uncounted
    <2>2. Counted' = Counted
        BY <1>1, <2>1 DEF Counted
    <2> QED
        BY <1>1, <1>2, <1>6, <1>8, <2>2, CapacityStill DEF PoolInv
<1>16. FreeInv'
    <2>1. Pushing' = Pushing \cup {t} /\ t \notin Pushing /\ Popping' = Popping
        BY <1>1, <1>2, <1>8 DEF Popping, Pushing, At
    <2>2. /\ IsFiniteSet(Popping) /\ IsFiniteSet(Pushing)
          /\ Cardinality(Popping) \in Nat /\ Cardinality(Pushing) \in Nat
        BY FS_CardinalityType DEF PoolInv, FreeInv
    <2>3. IsFiniteSet(Pushing') /\ Cardinality(Pushing') = Cardinality(Pushing) + 1
        BY <2>1, <2>2, FS_AddElement
    <2>4. /\ IsFiniteSet(FreeList) /\ Cardinality(FreeList) \in Nat
          /\ Cardinality(Walked) \in Nat
        BY <1>1, FinitePlaces, WordSteps
    <2>5. Cardinality(FreeList') = Cardinality(FreeList) + 1
        BY <1>4, <1>10, <2>4, FS_AddElement
    <2>6. Cardinality(FreeList') + Cardinality(Walked') + Cardinality(Popping') - Cardinality(Pushing')
            = Cardinality(FreeList) + Cardinality(Walked) + Cardinality(Popping) - Cardinality(Pushing)
        BY <1>11, <2>1, <2>2, <2>3, <2>4, <2>5
    <2> QED
        BY <1>6, <2>1, <2>2, <2>3, <2>6 DEF PoolInv, FreeInv
<1> QED
    BY <1>7, <1>12, <1>13, <1>14, <1>15, <1>16 DEF PoolInv

\* The pushed buffer is counted.
LEMMA ReleaseCountKeeps ==
    ASSUME PoolInv, NEW t \in Releasers, ReleaseCount(t)
    PROVE  PoolInv'
<1>1. /\ t \in Threads /\ PoolTypeOK /\ PlaceInv /\ th[t].pc = "count"
      /\ th' = [th EXCEPT ![t] = Idle]
      /\ pool' = [pool EXCEPT !.free = Plus(pool.free)] /\ UNCHANGED <<mem, live, holders, fin>>
      /\ Idle \in Locals /\ Idle.pc = "idle" /\ \A c : ~ Owns(Idle, c)
    BY IdleIs DEF Threads, PoolInv, ReleaseCount, Return, At, IdleFacts
<1>2. Steps(t, Idle) /\ th'[t] = Idle /\ \A u \in Threads : u # t => th'[u] = th[u]
    BY <1>1, StepFacts DEF Steps
<1>3. pool.free \in 0 .. Word - 1 /\ Plus(pool.free) \in 0 .. Word - 1
    BY <1>1, WordSteps DEF PoolTypeOK
<1>4. /\ pool'.head = pool.head /\ pool'.capacity = pool.capacity /\ pool'.state = pool.state
      /\ pool'.init = pool.init /\ pool'.live = pool.live /\ pool'.free = Plus(pool.free)
    BY <1>1, <1>3, CounterTyped
<1>5. PoolTypeOK'
    BY <1>1, <1>3, CounterTyped DEF PoolTypeOK
<1>6. FreeList' = FreeList /\ Walked' = Walked
    BY <1>1, <1>4 DEF FreeList, Walked
<1>7. PhaseInv'
    BY <1>1, <1>2, <1>4, PhaseKept DEF PoolInv, AcquirePcs
<1>8. PlaceInv'
    BY <1>1, <1>2, <1>4, PlaceStill
<1>9. ReadInv'
    <2>1. \A u \in Threads \ {t} : th[u].pc \in {"next", "recheck", "cas"} => th[u].old \in FreeList
        BY DEF PoolInv, ReadInv, Fresh
    <2> QED
        BY <1>1, <1>2, <1>6, <2>1, ReadsKept DEF PoolInv
<1>10. CapacityInv'
    <2>1. Uncounted' = Uncounted
        BY <1>1, <1>2 DEF Uncounted
    <2>2. Counted' = Counted
        BY <1>1, <2>1 DEF Counted
    <2> QED
        BY <1>1, <1>2, <1>4, <2>2, CapacityStill DEF PoolInv
<1>11. FreeInv'
    <2>1. Pushing' = Pushing \ {t} /\ t \in Pushing /\ Popping' = Popping
        BY <1>1, <1>2 DEF Popping, Pushing, At
    <2>2. /\ IsFiniteSet(Popping) /\ IsFiniteSet(Pushing)
          /\ Cardinality(Popping) \in Nat /\ Cardinality(Pushing) \in Nat
        BY FS_CardinalityType DEF PoolInv, FreeInv
    <2>3. IsFiniteSet(Pushing') /\ Cardinality(Pushing') = Cardinality(Pushing) - 1
        BY <2>1, <2>2, FS_RemoveElement
    <2>4. PICK n \in Int : n = Cardinality(FreeList) + Cardinality(Walked) + Cardinality(Popping)
                                    - Cardinality(Pushing)
        BY <1>1, <2>2, FinitePlaces, WordSteps
    <2>5. \E q \in Int : Plus(pool.free) = (n + 1) + q * Word
        BY <1>3, <2>4, FreeUp DEF PoolInv, FreeInv
    <2>6. n + 1 = Cardinality(FreeList') + Cardinality(Walked') + Cardinality(Popping')
                    - Cardinality(Pushing')
        BY <1>1, <1>6, <2>1, <2>2, <2>3, <2>4, FinitePlaces, WordSteps
    <2> QED
        BY <1>4, <2>1, <2>2, <2>3, <2>5, <2>6 DEF FreeInv
<1> QED
    BY <1>5, <1>7, <1>8, <1>9, <1>10, <1>11 DEF PoolInv

--------------------------------------------------------------------------------
(* Finalize                                                                 *)

\* While finalize is at work nobody has a buffer in hand.
LEMMA AllIdle ==
    ASSUME \A t \in Threads : th[t].pc = "idle"
    PROVE  /\ Uncounted = {} /\ Popping = {} /\ Pushing = {}
           /\ \A t \in Threads : ~ At(t, "uncount") /\ ~ At(t, "last")
           /\ \A t \in Threads : \A b : ~ Owns(th[t], b)
           /\ ReadInv
    BY DEF Uncounted, Popping, Pushing, At, Owns, ReadInv, Fresh

LEMMA FinalizeBeginKeeps ==
    ASSUME PoolInv, FinalizeBegin
    PROVE  PoolInv'
<1>1. /\ PoolTypeOK /\ pool.live /\ Running /\ fin.pc = "idle" /\ \A t \in Threads : th[t].pc = "idle"
      /\ pool' = [pool EXCEPT !.state = "FINALIZING"] /\ fin' = [fin EXCEPT !.pc = "swap"]
      /\ UNCHANGED <<mem, live, holders, th>>
    BY DEF PoolInv, FinalizeBegin, At
<1>2. /\ pool'.head = pool.head /\ pool'.free = pool.free /\ pool'.capacity = pool.capacity
      /\ pool'.state = "FINALIZING" /\ pool'.init = pool.init /\ pool'.live = pool.live
      /\ fin'.pc = "swap" /\ fin'.buf = fin.buf
    BY <1>1 DEF PoolTypeOK
<1>3. PoolTypeOK'
    BY <1>1 DEF PoolTypeOK
<1>4. FreeList' = FreeList /\ Walked' = Walked
    BY <1>1, <1>2 DEF FreeList, Walked
<1>5. PhaseInv'
    BY <1>1, <1>2 DEF PoolInv, PhaseInv, At, Running, AcquirePcs
<1>6. PlaceInv'
    BY <1>1, <1>2, <1>4 DEF PoolInv, PlaceInv, At
<1>7. ReadInv'
    BY <1>1 DEF ReadInv, Fresh
<1>8. CapacityInv'
    <2>1. Uncounted' = Uncounted
        BY <1>1 DEF Uncounted
    <2>2. Counted' = Counted
        BY <1>1, <2>1 DEF Counted
    <2> QED
        BY <1>1, <1>2, <2>2 DEF PoolInv, CapacityInv, At, Running
<1>9. FreeInv'
    <2>1. Popping' = Popping /\ Pushing' = Pushing
        BY <1>1 DEF Popping, Pushing, At
    <2> QED
        BY <1>2, <1>4, <2>1 DEF PoolInv, FreeInv
<1> QED
    BY <1>3, <1>5, <1>6, <1>7, <1>8, <1>9 DEF PoolInv

LEMMA FinalizeSwapKeeps ==
    ASSUME PoolInv, FinalizeSwap
    PROVE  PoolInv'
<1>1. /\ PoolTypeOK /\ pool.live /\ fin.pc = "swap"
      /\ pool' = [pool EXCEPT !.head = NULL] /\ fin' = [pc |-> "walk", buf |-> pool.head]
      /\ UNCHANGED <<mem, live, holders, th>>
    BY DEF PoolInv, FinalizeSwap
<1>2. /\ pool'.head = NULL /\ pool'.free = pool.free /\ pool'.capacity = pool.capacity
      /\ pool'.state = pool.state /\ pool'.init = pool.init /\ pool'.live = pool.live
      /\ fin'.pc = "walk" /\ fin'.buf = pool.head
    BY <1>1 DEF PoolTypeOK
<1>3. PoolTypeOK'
    BY <1>1 DEF PoolTypeOK
<1>4. ~ Running /\ (\A t \in Threads : th[t].pc = "idle") /\ fin.buf = NULL
    BY <1>1 DEF PoolInv, PhaseInv, At
<1>5. FreeList' = {} /\ Walked' = FreeList /\ Walked = {}
    BY <1>1, <1>2, <1>4, ChainNull DEF FreeList, Walked
<1>6. PhaseInv'
    BY <1>1, <1>2, <1>4 DEF PoolInv, PhaseInv, At, Running, AcquirePcs
<1>7. PlaceInv'
    <2>1. Straight(mem', pool'.head)
        BY <1>2, ChainNull DEF Straight
    <2>2. Straight(mem', fin'.buf)
        BY <1>1, <1>2 DEF PoolInv, PlaceInv
    <2> QED
        BY <1>1, <1>5, <2>1, <2>2 DEF PoolInv, PlaceInv, At
<1>8. ReadInv'
    BY <1>1, <1>4 DEF ReadInv, Fresh
<1>9. CapacityInv'
    <2>1. Uncounted' = Uncounted
        BY <1>1 DEF Uncounted
    <2>2. Counted' = Counted
        BY <1>1, <2>1 DEF Counted
    <2> QED
        BY <1>1, <1>2, <1>4, <2>2 DEF PoolInv, CapacityInv, At, Running
<1>10. FreeInv'
    <2>1. Popping' = Popping /\ Pushing' = Pushing
        BY <1>1 DEF Popping, Pushing, At
    <2>2. /\ Cardinality(FreeList) \in Nat /\ Cardinality(Walked) = 0 /\ Cardinality(FreeList') = 0
          /\ Cardinality(Walked') = Cardinality(FreeList)
        BY <1>1, <1>5, FinitePlaces, WordSteps, FS_EmptySet
    <2>3. Cardinality(FreeList) + Cardinality(Walked) = Cardinality(FreeList') + Cardinality(Walked')
        BY <2>2
    <2> QED
        BY <1>2, <2>1, <2>3 DEF PoolInv, FreeInv
<1> QED
    BY <1>3, <1>6, <1>7, <1>8, <1>9, <1>10 DEF PoolInv

LEMMA FinalizeWalkKeeps ==
    ASSUME PoolInv, FinalizeWalk
    PROVE  PoolInv'
<1>1. /\ PoolTypeOK /\ PlaceInv /\ pool.live /\ fin.pc = "walk" /\ fin.buf # NULL /\ Free(fin.buf)
      /\ pool' = [pool EXCEPT !.free = Minus(pool.free), !.capacity = Minus(pool.capacity)]
      /\ fin' = [fin EXCEPT !.buf = mem[fin.buf].next]
      /\ UNCHANGED <<mem, holders, th>>
    BY DEF PoolInv, FinalizeWalk
<1>2. PICK b \in Bufs : b = fin.buf /\ b \in live /\ live' = live \ {b}
    BY <1>1 DEF PoolTypeOK, Free
<1>3. mem \in [Bufs -> Cell] /\ mem[b].next \in Addresses
    BY <1>1 DEF PoolTypeOK, Cell
<1>4. /\ pool.free \in 0 .. Word - 1 /\ Minus(pool.free) \in 0 .. Word - 1
      /\ pool.capacity \in 0 .. Word - 1 /\ Minus(pool.capacity) \in 0 .. Word - 1
    BY <1>1, WordSteps DEF PoolTypeOK
<1>5. /\ pool'.head = pool.head /\ pool'.free = Minus(pool.free)
      /\ pool'.capacity = Minus(pool.capacity)
      /\ pool'.state = pool.state /\ pool'.init = pool.init /\ pool'.live = pool.live
      /\ fin'.pc = "walk" /\ fin'.buf = mem[b].next
    BY <1>1, <1>2 DEF PoolTypeOK
<1>6. PoolTypeOK'
    BY <1>1, <1>2, <1>3, <1>4 DEF PoolTypeOK
<1>7. ~ Running /\ (\A t \in Threads : th[t].pc = "idle") /\ pool.head = NULL
    BY <1>1 DEF PoolInv, PhaseInv, At
<1>8. /\ Walked' = Walked \ {b} /\ Straight(mem', fin'.buf) /\ b \in Walked
      /\ FreeList' = {} /\ FreeList = {}
    <2>1. Straight(mem, b)
        BY <1>1, <1>2 DEF PlaceInv
    <2>2. Chain(mem, mem[b].next) = Chain(mem, b) \ {b} /\ Straight(mem, mem[b].next)
        BY <1>3, <2>1, ChainPop
    <2>3. b \in Chain(mem, b)
        BY <1>3, ChainLeast DEF Linked
    <2> QED
        BY <1>1, <1>2, <1>5, <1>7, <2>2, <2>3, ChainNull DEF Walked, FreeList
<1>9. mem[b].type = "POOL"
    BY <1>1, <1>8 DEF PlaceInv
<1>10. PhaseInv'
    BY <1>1, <1>5, <1>7 DEF PoolInv, PhaseInv, At, Running, AcquirePcs
<1>11. PlaceInv'
    <2>1. Straight(mem', pool'.head)
        BY <1>5, <1>7, ChainNull DEF Straight
    <2>2. FreeList' \cup Walked' \subseteq {c \in live' : mem'[c].type = "POOL"}
        BY <1>1, <1>2, <1>8 DEF PlaceInv
    <2>3. \A c \in Bufs : holders'[c] > 0 =>
            /\ holders'[c] = 1 /\ c \in live' \ (FreeList' \cup Walked')
            /\ \A t \in Threads : ~ Owns(th'[t], c)
        BY <1>1, <1>2, <1>8 DEF PlaceInv
    <2>4. \A t \in Threads : \A c : ~ Owns(th'[t], c)
        BY <1>1, <1>7, AllIdle
    <2> QED
        BY <1>8, <2>1, <2>2, <2>3, <2>4 DEF PlaceInv
<1>12. ReadInv'
    BY <1>1, <1>7 DEF ReadInv, Fresh
<1>13. CapacityInv'
    <2>1. Uncounted = {} /\ Uncounted' = {}
        BY <1>1, <1>7 DEF Uncounted
    <2>2. Counted' = Counted \ {b} /\ b \in Counted
        BY <1>1, <1>2, <1>9, <2>1 DEF Counted
    <2>3. IsFiniteSet(Counted) /\ Cardinality(Counted) \in Nat
        BY <1>1, FinitePlaces, WordSteps
    <2>4. Cardinality(Counted') = Cardinality(Counted) - 1 /\ Cardinality(Counted) # 0
        BY <2>2, <2>3, FS_RemoveElement, FS_EmptySet
    <2>5. pool.capacity = Cardinality(Counted)
        BY <1>7 DEF PoolInv, CapacityInv, At
    <2>6. pool'.capacity = Cardinality(Counted')
        BY <1>4, <1>5, <2>3, <2>4, <2>5, WordSteps
    <2> QED
        BY <1>1, <1>5, <1>7, <2>6 DEF CapacityInv, Running, At
<1>14. FreeInv'
    <2>1. Popping' = Popping /\ Pushing' = Pushing
        BY <1>1 DEF Popping, Pushing, At
    <2>2. /\ IsFiniteSet(Popping) /\ IsFiniteSet(Pushing)
          /\ Cardinality(Popping) \in Nat /\ Cardinality(Pushing) \in Nat
        BY FS_CardinalityType DEF PoolInv, FreeInv
    <2>3. /\ IsFiniteSet(Walked) /\ Cardinality(Walked) \in Nat
          /\ Cardinality(FreeList) = 0 /\ Cardinality(FreeList') = 0
        BY <1>1, <1>8, FinitePlaces, WordSteps, FS_EmptySet
    <2>4. Cardinality(Walked') = Cardinality(Walked) - 1
        BY <1>8, <2>3, FS_RemoveElement
    <2>5. PICK n \in Int : n = Cardinality(FreeList) + Cardinality(Walked) + Cardinality(Popping)
                                    - Cardinality(Pushing)
        BY <2>2, <2>3
    <2>6. \E q \in Int : Minus(pool.free) = (n - 1) + q * Word
        BY ZenonT(60), <1>4, <2>5, FreeUp DEF PoolInv, FreeInv
    <2>7. n - 1 = Cardinality(FreeList') + Cardinality(Walked') + Cardinality(Popping')
                    - Cardinality(Pushing')
        BY <2>1, <2>2, <2>3, <2>4, <2>5
    <2> QED
        BY <1>5, <2>1, <2>2, <2>6, <2>7 DEF FreeInv
<1> QED
    BY <1>6, <1>10, <1>11, <1>12, <1>13, <1>14 DEF PoolInv

LEMMA FinalizeFieldsKeeps ==
    ASSUME PoolInv, FinalizeFields
    PROVE  PoolInv'
<1>1. /\ PoolTypeOK /\ PlaceInv /\ pool.live /\ fin.pc = "walk" /\ fin.buf = NULL
      /\ pool' = [pool EXCEPT !.init = 0, !.auto = FALSE]
      /\ fin' = [fin EXCEPT !.pc = "settle"]
      /\ UNCHANGED <<mem, live, holders, th>>
    BY DEF PoolInv, FinalizeFields
<1>2. /\ pool'.head = pool.head /\ pool'.free = pool.free /\ pool'.capacity = pool.capacity
      /\ pool'.state = pool.state /\ pool'.live = pool.live
      /\ fin'.pc = "settle" /\ fin'.buf = fin.buf
    BY <1>1 DEF PoolTypeOK
<1>3. PoolTypeOK'
    BY <1>1 DEF PoolTypeOK
<1>4. ~ Running
    BY <1>1 DEF PoolInv, PhaseInv
<1>5. FreeList' = FreeList /\ Walked' = Walked
    BY <1>1, <1>2 DEF FreeList, Walked
<1>6. PhaseInv'
    BY <1>1, <1>2, <1>4 DEF PoolInv, PhaseInv, At, Running, AcquirePcs
<1>7. PlaceInv'
    BY <1>1, <1>2, <1>5 DEF PlaceInv, At
<1>8. ReadInv'
    BY <1>1, <1>5 DEF PoolInv, ReadInv, Fresh
<1>9. CapacityInv'
    <2>1. Uncounted' = Uncounted
        BY <1>1 DEF Uncounted
    <2>2. Counted' = Counted
        BY <1>1, <2>1 DEF Counted
    <2> QED
        BY <1>1, <1>2, <1>4, <2>2 DEF PoolInv, CapacityInv, At, Running
<1>10. FreeInv'
    <2>1. Popping' = Popping /\ Pushing' = Pushing
        BY <1>1 DEF Popping, Pushing, At
    <2> QED
        BY <1>2, <1>5, <2>1 DEF PoolInv, FreeInv
<1> QED
    BY <1>3, <1>6, <1>7, <1>8, <1>9, <1>10 DEF PoolInv

LEMMA FinalizeSettleKeeps ==
    ASSUME PoolInv, FinalizeSettle
    PROVE  PoolInv'
<1>1. /\ PoolTypeOK /\ PlaceInv /\ fin.pc = "settle" /\ FreePoolIfEmpty
      /\ fin' = [fin EXCEPT !.pc = "done"]
      /\ UNCHANGED <<mem, live, holders, th>>
    BY DEF PoolInv, FinalizeSettle
<1>2. /\ pool.live /\ pool'.head = pool.head /\ pool'.free = pool.free
      /\ pool'.capacity = pool.capacity /\ pool'.init = pool.init
      /\ pool.capacity = 0 => pool'.state = "DISABLED" /\ pool'.live = FALSE
      /\ pool.capacity # 0 => pool'.state = pool.state /\ pool'.live = pool.live
    BY <1>1, FreeIfEmptyFacts
<1>3. fin'.pc = "done" /\ fin'.buf = fin.buf
    BY <1>1 DEF PoolTypeOK
<1>4. PoolTypeOK'
    BY <1>1, FreeIfEmptyFacts DEF PoolTypeOK
<1>5. ~ Running /\ \A t \in Threads : th[t].pc = "idle"
    BY <1>1 DEF PoolInv, PhaseInv, At
<1>6. FreeList' = FreeList /\ Walked' = Walked
    BY <1>1, <1>2, <1>3 DEF FreeList, Walked
<1>7. PhaseInv'
    BY <1>1, <1>2, <1>3, <1>5 DEF PoolInv, PhaseInv, At, Running, AcquirePcs
<1>8. PlaceInv'
    BY <1>1, <1>2, <1>3, <1>6 DEF PlaceInv, At
<1>9. ReadInv'
    BY <1>1, <1>5 DEF ReadInv, Fresh
<1>10. CapacityInv'
    <2>1. Uncounted' = Uncounted
        BY <1>1 DEF Uncounted
    <2>2. Counted' = Counted
        BY <1>1, <2>1 DEF Counted
    <2>3. pool.capacity = Cardinality(Counted)
        BY <1>5 DEF PoolInv, CapacityInv, At
    <2>4. ~ Running' /\ \A t \in Threads : ~ At(t, "uncount")'
        BY <1>1, <1>2, <1>5 DEF Running, At
    <2> QED
        BY <1>2, <2>2, <2>3, <2>4 DEF CapacityInv
<1>11. FreeInv'
    <2>1. Popping' = Popping /\ Pushing' = Pushing
        BY <1>1 DEF Popping, Pushing, At
    <2> QED
        BY <1>2, <1>6, <2>1 DEF PoolInv, FreeInv
<1> QED
    BY <1>4, <1>7, <1>8, <1>9, <1>10, <1>11 DEF PoolInv

--------------------------------------------------------------------------------
(* The theorems                                                             *)

\* Every step keeps the invariant.
LEMMA PoolNext == PoolInv /\ OneAcquirer /\ [Next]_vars => PoolInv'
<1> SUFFICES ASSUME PoolInv, OneAcquirer, [Next]_vars PROVE PoolInv'
    OBVIOUS
<1>1. ASSUME NEW t \in Acquirers, AcquireBegin(t) \/ AcquireStep(t)
      PROVE  PoolInv'
    <2>1. CASE AcquireBegin(t)
        BY <2>1, AcquireBeginKeeps
    <2>2. CASE AcquireHead(t)
        BY <2>2, AcquireHeadKeeps
    <2>3. CASE AcquireNext(t)
        BY <2>3, AcquireNextKeeps
    <2>4. CASE AcquireRecheck(t)
        BY <2>4, AcquireRecheckKeeps
    <2>5. CASE AcquireTemporary(t)
        BY <2>5, TemporaryKeeps DEF AcquireTemporary
    <2>6. CASE AcquireCas(t)
        BY <2>6, AcquireMissKeeps, AcquireTakesKeeps
    <2>7. CASE AcquireTaken(t)
        BY <2>7, AcquireTakenKeeps
    <2>8. CASE AcquireEmpty(t)
        <3>1. CASE pool.auto
            BY <2>8, <3>1, GrowKeeps
        <3>2. CASE ~ pool.auto
            BY <2>8, <3>2, TemporaryKeeps DEF AcquireEmpty, At
        <3> QED
            BY <3>1, <3>2
    <2>9. CASE AcquireNoMemory(t)
        BY <2>9, AcquireNoMemoryKeeps
    <2>10. CASE AcquireGrow(t)
        BY <2>10, AcquireGrowKeeps
    <2> QED
        BY <1>1, <2>1, <2>2, <2>3, <2>4, <2>5, <2>6, <2>7, <2>8, <2>9, <2>10 DEF AcquireStep
<1>2. ASSUME NEW t \in Releasers, ReleaseBegin(t) \/ ReleaseStep(t)
      PROVE  PoolInv'
    <2>1. CASE ReleaseBegin(t)
        BY <2>1, ReleaseBeginKeeps
    <2>2. CASE ReleaseTemporary(t)
        BY <2>2, ReleaseTemporaryKeeps
    <2>3. CASE ReleaseState(t)
        BY <2>3, ReleaseStateKeeps
    <2>4. CASE ReleaseDead(t)
        BY <2>4, ReleaseDeadKeeps
    <2>5. CASE ReleaseUncount(t)
        BY <2>5, ReleaseUncountKeeps
    <2>6. CASE ReleaseLast(t)
        BY <2>6, ReleaseLastKeeps
    <2>7. CASE ReleaseCapacity(t)
        BY <2>7, ReleaseCapacityKeeps
    <2>8. CASE ReleaseRate(t)
        BY <2>8, ReleaseRateKeeps
    <2>9. CASE ReleaseShrink(t)
        BY <2>9, ReleaseShrinkMissKeeps, ReleaseShrinksKeeps
    <2>10. CASE ReleaseDrop(t)
        BY <2>10, ReleaseDropKeeps
    <2>11. CASE ReleaseHead(t)
        BY <2>11, ReleaseHeadKeeps
    <2>12. CASE ReleaseNext(t)
        BY <2>12, ReleaseNextKeeps
    <2>13. CASE ReleaseCas(t)
        BY <2>13, ReleaseMissKeeps, ReleasePushesKeeps
    <2>14. CASE ReleaseCount(t)
        BY <2>14, ReleaseCountKeeps
    <2> QED
        BY <1>2, <2>1, <2>2, <2>3, <2>4, <2>5, <2>6, <2>7, <2>8, <2>9, <2>10, <2>11, <2>12, <2>13,
           <2>14 DEF ReleaseStep
<1>3. CASE FinalizeBegin \/ FinalizeStep
    BY <1>3, FinalizeBeginKeeps, FinalizeSwapKeeps, FinalizeWalkKeeps, FinalizeFieldsKeeps,
       FinalizeSettleKeeps DEF FinalizeStep
<1>4. CASE UNCHANGED vars
    <2>1. FreeList' = FreeList /\ Walked' = Walked /\ Uncounted' = Uncounted /\ Popping' = Popping
          /\ Pushing' = Pushing
        BY <1>4 DEF vars, FreeList, Walked, Uncounted, Popping, Pushing, At
    <2>2. Counted' = Counted
        BY <1>4, <2>1 DEF vars, Counted
    <2>3. PoolTypeOK' /\ PhaseInv'
        BY <1>4 DEF vars, PoolInv, PoolTypeOK, PhaseInv, Running, At
    <2>4. PlaceInv' /\ ReadInv'
        BY <1>4, <2>1 DEF vars, PoolInv, PlaceInv, ReadInv, Fresh, At
    <2>5. CapacityInv' /\ FreeInv'
        BY <1>4, <2>1, <2>2 DEF vars, PoolInv, CapacityInv, FreeInv, Running, At
    <2> QED
        BY <2>3, <2>4, <2>5 DEF PoolInv
<1> QED
    BY <1>1, <1>2, <1>3, <1>4 DEF Next, Finished

\* A set of numbers has a least one.
LEMMA LeastNumber ==
    ASSUME NEW T \in SUBSET Nat, T # {}
    PROVE  \E m \in T : \A k \in T : m <= k
<1> DEFINE Less == {pair \in Nat \X Nat : pair[1] < pair[2]}
<1>1. Less = OpToRel(<, Nat)
    BY DEF OpToRel
<1>2. IsWellFoundedOn(Less, Nat)
    BY <1>1, NatLessThanWellFounded
<1>3. \A k, m \in Nat : k < m => <<k, m>> \in Less
    OBVIOUS
<1> HIDE DEF Less
<1>4. PICK m \in T : \A k \in T : ~ (<<k, m>> \in Less)
    BY <1>2, WFMin
<1>5. \A k \in T : ~ (k < m)
    BY <1>3, <1>4
<1> QED
    BY <1>5

\* A fresh pool has the buffers of its list, and they are all in it.
LEMMA PoolInit == Init => PoolInv
<1> SUFFICES ASSUME Init PROVE PoolInv
    OBVIOUS
<1> DEFINE n == InitCapacity
<1>1. n \in Nat /\ n >= 1 /\ n < Word /\ n <= Cardinality(Bufs)
    BY WordSteps
<1>2. PICK list \in [1 .. n -> Bufs], auto \in BOOLEAN :
        /\ \A i, j \in 1 .. n : list[i] = list[j] => i = j
        /\ live = {list[i] : i \in 1 .. n}
        /\ pool = [head |-> list[1], free |-> n, capacity |-> n, state |-> "RUNNING", init |-> n,
                   auto |-> auto, live |-> TRUE]
        /\ mem = [b \in Bufs |->
                    [next |-> IF \E i \in 1 .. n - 1 : list[i] = b
                              THEN list[1 + CHOOSE i \in 1 .. n - 1 : list[i] = b]
                              ELSE NULL,
                     type |-> "POOL"]]
    BY DEF Init
<1>3. holders = [b \in Bufs |-> 0] /\ th = [t \in Threads |-> Idle] /\ fin = [pc |-> "idle", buf |-> NULL]
    BY DEF Init
<1>4. ASSUME NEW i \in 1 .. n
      PROVE  mem[list[i]].next = IF i < n THEN list[i + 1] ELSE NULL
    <2>1. list[i] \in Bufs
        BY <1>1
    <2>2. CASE i < n
        <3>1. i \in 1 .. n - 1
            BY <1>1, <2>2
        <3>2. (CHOOSE k \in 1 .. n - 1 : list[k] = list[i]) = i
            <4>1. PICK k : k = CHOOSE m \in 1 .. n - 1 : list[m] = list[i]
                OBVIOUS
            <4>2. k \in 1 .. n - 1 /\ list[k] = list[i]
                BY <3>1, <4>1
            <4>3. k \in 1 .. n
                BY <1>1, <4>2
            <4> QED
                BY <1>2, <4>1, <4>2, <4>3
        <3>3. 1 + i = i + 1
            BY <1>1
        <3> QED
            BY <1>2, <2>1, <2>2, <3>1, <3>2, <3>3
    <2>3. CASE ~ (i < n)
        <3>1. i = n
            BY <1>1, <2>3
        <3>2. ~ \E k \in 1 .. n - 1 : list[k] = list[i]
            BY <1>1, <1>2, <3>1
        <3> QED
            BY <1>2, <2>1, <2>3, <3>2
    <2> QED
        BY <2>2, <2>3
<1>5. mem \in [Bufs -> Cell] /\ \A b \in Bufs : mem[b].type = "POOL"
    <2>1. ASSUME NEW b \in Bufs PROVE mem[b] \in Cell
        <3>1. CASE \E i \in 1 .. n - 1 : list[i] = b
            <4>1. PICK i \in 1 .. n - 1 : list[i] = b
                BY <3>1
            <4>2. i \in 1 .. n /\ i < n /\ i + 1 \in 1 .. n
                BY <1>1, <4>1
            <4>3. mem[b].next \in Addresses
                BY <1>4, <4>1, <4>2
            <4> QED
                BY <1>2, <4>3 DEF Cell
        <3>2. CASE ~ \E i \in 1 .. n - 1 : list[i] = b
            BY <1>2, <3>2 DEF Cell
        <3> QED
            BY <3>1, <3>2
    <2> QED
        BY <1>2, <2>1
<1>6. PoolTypeOK
    <2>1. Idle \in Locals /\ live \subseteq Bufs /\ list[1] \in Addresses
        BY <1>1, <1>2, IdleIs DEF IdleFacts
    <2>2. pool \in [head : Addresses, free : 0 .. Word - 1, capacity : 0 .. Word - 1,
                    state : {"RUNNING", "FINALIZING", "DISABLED"}, init : {0, InitCapacity},
                    auto : BOOLEAN, live : BOOLEAN]
        BY <1>1, <1>2, <2>1
    <2> QED
        BY <1>3, <1>5, <2>1, <2>2 DEF PoolTypeOK, Cell
<1>7. /\ pool.head = list[1] /\ pool.free = n /\ pool.capacity = n /\ Running /\ pool.live
      /\ pool.init = n /\ fin.pc = "idle" /\ fin.buf = NULL
      /\ (\A t \in Threads : th[t].pc = "idle") /\ \A b \in Bufs : holders[b] = 0
    BY <1>2, <1>3, IdleIs DEF Running, IdleFacts
<1>8. FreeList = live
    <2>1. list[1] \in Addresses /\ live \subseteq Bufs /\ 1 \in 1 .. n
        BY <1>1, <1>2
    <2>2. Linked(mem, list[1], live)
        <3>1. ASSUME NEW b \in live, mem[b].next # NULL PROVE mem[b].next \in live
            <4>1. PICK i \in 1 .. n : b = list[i]
                BY <1>2
            <4>2. i < n /\ mem[b].next = list[i + 1]
                BY <1>4, <3>1, <4>1
            <4>3. i + 1 \in 1 .. n
                BY <1>1, <4>2
            <4>4. \A k \in 1 .. n : list[k] \in live
                BY <1>2
            <4> HIDE DEF n
            <4> QED
                BY <4>2, <4>3, <4>4
        <3> QED
            BY ZenonT(60), <1>2, <2>1, <3>1 DEF Linked
    <2>3. Chain(mem, list[1]) \subseteq live
        BY <1>5, <2>1, <2>2, ChainLeast
    <2>4. \A i \in 1 .. n : list[i] \in Chain(mem, list[1])
        <3> DEFINE Missing == {i \in 1 .. n : list[i] \notin Chain(mem, list[1])}
        <3>1. SUFFICES ASSUME Missing # {} PROVE FALSE
            OBVIOUS
        <3>2. PICK m \in Missing : \A k \in Missing : m <= k
            <4>1. Missing \in SUBSET Nat
                BY <1>1
            <4> QED
                BY <3>1, <4>1, LeastNumber
        <3>3. list[1] # NULL /\ Linked(mem, list[1], Chain(mem, list[1]))
            BY ZenonT(60), <1>2, <1>5, <2>1, ChainLeast
        <3>4. m # 1
            BY <3>2, <3>3 DEF Linked
        <3>5. m - 1 \in 1 .. n /\ m - 1 < n /\ (m - 1) + 1 = m /\ m - 1 \notin Missing /\ m \in 1 .. n
            BY <1>1, <3>2, <3>4
        <3>6. list[m - 1] \in Chain(mem, list[1]) /\ mem[list[m - 1]].next = list[m]
            BY <1>4, <3>5
        <3>7. list[m] # NULL
            BY <3>5
        <3> QED
            BY <3>2, <3>3, <3>6, <3>7 DEF Linked
    <2>5. live \subseteq Chain(mem, list[1])
        <3> SUFFICES ASSUME NEW b \in live PROVE b \in Chain(mem, list[1])
            OBVIOUS
        <3>1. PICK i \in 1 .. n : b = list[i]
            BY <1>2
        <3> QED
            BY <2>4, <3>1
    <2>6. FreeList = Chain(mem, list[1])
        BY <1>7 DEF FreeList
    <2> QED
        BY <2>3, <2>5, <2>6
<1>9. Walked = {}
    BY <1>7, ChainNull DEF Walked
<1>10. IsFiniteSet(live) /\ Cardinality(live) = n
    <2>1. list \in Bijection(1 .. n, live)
        BY <1>2 DEF Bijection, Injection, Surjection, IsInjective
    <2>2. IsFiniteSet(1 .. n) /\ Cardinality(1 .. n) = n
        BY <1>1, FS_Interval
    <2> QED
        BY <2>1, <2>2, FS_Bijection DEF ExistsBijection
<1>11. PhaseInv
    BY <1>7 DEF PhaseInv, Running, At, AcquirePcs
<1>12. PlaceInv
    <2>1. Straight(mem, pool.head)
        <3>1. ASSUME NEW b \in live, NEW c \in live
              PROVE  /\ mem[b].next # list[1]
                     /\ mem[b].next = mem[c].next => mem[b].next = NULL \/ b = c
            <4>1. PICK i \in 1 .. n, j \in 1 .. n : b = list[i] /\ c = list[j]
                BY <1>2
            <4>2. list[1] # NULL /\ \A k \in 1 .. n : list[k] # NULL
                BY <1>1
            <4>3. mem[b].next # list[1]
                <5>1. i < n => i + 1 \in 1 .. n /\ i + 1 # 1 /\ 1 \in 1 .. n
                    BY <1>1
                <5> QED
                    BY SMTT(60), <1>2, <1>4, <4>1, <4>2, <5>1
            <4>4. mem[b].next = mem[c].next => mem[b].next = NULL \/ b = c
                <5>1. CASE i < n /\ j < n
                    <6>1. i + 1 \in 1 .. n /\ j + 1 \in 1 .. n /\ (i + 1 = j + 1 => i = j)
                        BY <1>1, <5>1
                    <6> QED
                        BY SMTT(60), <1>2, <1>4, <4>1, <5>1, <6>1
                <5>2. CASE ~ (i < n)
                    BY <1>4, <4>1, <5>2
                <5>3. CASE ~ (j < n)
                    BY <1>4, <4>1, <5>3
                <5> QED
                    BY <5>1, <5>2, <5>3
            <4> QED
                BY <4>3, <4>4
        <3> QED
            BY <1>7, <1>8, <3>1 DEF Straight, FreeList
    <2>2. Straight(mem, fin.buf)
        BY <1>7, ChainNull DEF Straight
    <2>3. \A t \in Threads : \A b : ~ Owns(th[t], b)
        BY <1>7, AllIdle
    <2>4. live \subseteq Bufs
        BY <1>6 DEF PoolTypeOK
    <2>5. FreeList \cup Walked \subseteq {b \in live : mem[b].type = "POOL"}
        BY <1>5, <1>8, <1>9, <2>4
    <2>6. \A b \in Bufs : ~ (holders[b] > 0)
        BY <1>7
    <2> QED
        BY <2>1, <2>2, <2>3, <2>5, <2>6 DEF PlaceInv
<1>13. ReadInv
    BY <1>7, AllIdle
<1>14. CapacityInv
    <2>1. Uncounted = {} /\ \A t \in Threads : ~ At(t, "uncount")
        BY <1>7, AllIdle
    <2>2. Counted = live
        BY <1>5, <1>6, <2>1 DEF Counted, PoolTypeOK
    <2> QED
        BY <1>1, <1>7, <1>10, <2>1, <2>2 DEF CapacityInv
<1>15. FreeInv
    <2>1. Popping = {} /\ Pushing = {}
        BY <1>7, AllIdle
    <2>2. 0 \in Int /\ 0 * Word = 0
        BY WordSteps
    <2>3. n = Cardinality(FreeList) + Cardinality(Walked) + Cardinality(Popping) - Cardinality(Pushing)
                + 0 * Word
        BY <1>1, <1>8, <1>9, <1>10, <2>1, <2>2, FS_EmptySet
    <2> QED
        BY <1>7, <2>1, <2>2, <2>3, FS_EmptySet DEF FreeInv
<1> QED
    BY <1>6, <1>11, <1>12, <1>13, <1>14, <1>15 DEF PoolInv

\* With one acquirer the buffers stay in one place each, the counters follow
\* them, and what a call has read still holds when it is used.
THEOREM PoolInvariance ==
    ASSUME OneAcquirer
    PROVE  Spec => []PoolInv
<1>1. PoolInv /\ [Next]_vars => PoolInv'
    BY PoolNext
<1> QED
    BY <1>1, PoolInit, PTL DEF Spec

\* A buffer is never given to two callers, nor to one while it is in the free
\* list or freed (clog_buffer_pool_acquire, clog_buffer_pool_release).
THEOREM HandoutIsUnique ==
    ASSUME OneAcquirer
    PROVE  Spec => []UniqueHandout
    BY PoolInvariance, InvImpliesHandout, PTL

\* No call and no step of finalize touches a freed buffer or the freed pool.
THEOREM MemoryStaysAlive ==
    ASSUME OneAcquirer
    PROVE  Spec => []MemoryAlive
    BY PoolInvariance, InvImpliesAlive, PTL

\* The counters keep to their words, the capacity to its floor, and between
\* calls both say what is there.
THEOREM CountersAreExact ==
    ASSUME OneAcquirer
    PROVE  Spec => []CountersExact
    BY PoolInvariance, InvImpliesExact, PTL

\* The pool is freed after its last buffer, and not forgotten.
THEOREM PoolIsFreedLast ==
    ASSUME OneAcquirer
    PROVE  Spec => []PoolOutlivesBuffers
    BY PoolInvariance, InvImpliesOutlives, PTL

--------------------------------------------------------------------------------
(* Fields                                                                   *)

HIDE PoolAssumption DEF Addresses

\* The folds of the code and of what is expected of it.
DigitTo(c, n, d) == 10 * n + d
ValueSteps == INSTANCE SequenceFolds WITH Op <- DigitTo
LastDigitTo(c, r, i) == LastDigit(r, i)
LastSteps == INSTANCE SequenceFolds WITH Op <- LastDigitTo
NextDigitTo(c, r, index) == NextDigit(r, index)
NextSteps == INSTANCE SequenceFolds WITH Op <- NextDigitTo
AddTo(c, n, k) == n + k
TotalSteps == INSTANCE SequenceFolds WITH Op <- AddTo

LEMMA MaxValuesAre ==
    /\ MaxValues(0) = 1 /\ MaxValues(1) = 10 /\ MaxValues(2) = 100 /\ MaxValues(3) = 1000
    /\ MaxValues(4) = 10000 /\ MaxValues(5) = 100000 /\ MaxValues(6) = 1000000
    /\ MaxValues(7) = 10000000 /\ MaxValues(8) = 100000000 /\ MaxValues(9) = 1000000000
    /\ MaxValues(10) = 1000000000
BY DEF MaxValues

LEMMA Tens ==
    /\ \A i \in 0 .. 8 : MaxValues(i + 1) = 10 * MaxValues(i)
    /\ \A i \in 0 .. 10 : MaxValues(i) \in Nat /\ MaxValues(i) > 0
    /\ \A i, j \in 0 .. 10 : i <= j => MaxValues(i) <= MaxValues(j)
<1>1. \A i \in 0 .. 10 : i \in {0, 1, 2, 3, 4, 5, 6, 7, 8, 9, 10}
    OBVIOUS
<1>2. \A i \in 0 .. 8 : MaxValues(i + 1) = 10 * MaxValues(i)
    BY <1>1, MaxValuesAre
<1>3. \A i \in 0 .. 10 : MaxValues(i) \in Nat /\ MaxValues(i) > 0
    BY <1>1, MaxValuesAre
<1>4. \A i \in 0 .. 9 : MaxValues(i) <= MaxValues(i + 1)
    BY <1>1, MaxValuesAre
<1>5. ASSUME NEW i \in 0 .. 10, NEW j \in 0 .. 10, i <= j PROVE MaxValues(i) <= MaxValues(j)
    <2> DEFINE Above == {k \in 0 .. 10 : k >= i => MaxValues(i) <= MaxValues(k)}
    <2>1. 0 \in Above
        BY <1>3
    <2>2. ASSUME NEW k \in 1 .. 10, k - 1 \in Above PROVE k \in Above
        <3>1. k - 1 \in 0 .. 9 /\ k - 1 \in 0 .. 10 /\ k \in 0 .. 10 /\ (k - 1) + 1 = k
            OBVIOUS
        <3>2. MaxValues(k - 1) <= MaxValues(k)
            BY <1>4, <3>1
        <3>3. /\ MaxValues(k) \in Nat /\ MaxValues(k - 1) \in Nat /\ MaxValues(i) \in Nat
              /\ k = i \/ k - 1 >= i \/ k < i
            BY <1>3, <3>1
        <3> QED
            BY <2>2, <3>1, <3>2, <3>3
    <2> HIDE DEF Above
    <2>3. 10 \in Nat /\ j \in 0 .. 10
        OBVIOUS
    <2>4. 0 .. 10 \subseteq Above
        BY <2>1, <2>2, <2>3, ValueSteps!FromZero
    <2> QED
        BY <1>5, <2>3, <2>4 DEF Above
<1> QED
    BY <1>2, <1>3, <1>5

\* The number that the first digits make.
PrefixValues(P, digits) == P[0] = 0 /\ \A i \in 1 .. Len(digits) : P[i] = 10 * P[i - 1] + digits[i]

LEMMA ValueIs ==
    ASSUME NEW digits \in Seq(Nat)
    PROVE  \E P \in [0 .. Len(digits) -> Nat] : PrefixValues(P, digits) /\ Value(digits) = P[Len(digits)]
<1> DEFINE A == Nat
<1>1. ValueSteps!Keeps(NULL, A, Nat) /\ 0 \in A
    BY DEF ValueSteps!Keeps, DigitTo
<1>2. ValueSteps!Fold(NULL, 0, digits) = Value(digits)
    BY DEF ValueSteps!Fold, ValueSteps!FoldLeft, ValueSteps!MapThenFoldSet, ValueSteps!Max,
           FoldLeft, MapThenFoldSet, Max, DigitTo, Value
<1> HIDE DEF A
<1>3. \E P \in [0 .. Len(digits) -> A] :
        ValueSteps!Steps(P, NULL, 0, digits) /\ ValueSteps!Fold(NULL, 0, digits) = P[Len(digits)]
    <2> DEFINE Z == Nat
    <2>1. ValueSteps!Keeps(NULL, A, Z) /\ digits \in Seq(Z)
        BY <1>1
    <2> HIDE DEF Z
    <2> QED
        BY <1>1, <2>1, ValueSteps!Partial
<1>4. PICK P \in [0 .. Len(digits) -> A] :
        ValueSteps!Steps(P, NULL, 0, digits) /\ Value(digits) = P[Len(digits)]
    BY <1>2, <1>3
<1>5. PrefixValues(P, digits)
    BY <1>4 DEF ValueSteps!Steps, DigitTo, PrefixValues
<1> QED
    BY <1>4, <1>5 DEF A

LEMMA ValueEmpty == Value(<<>>) = 0
<1>1. <<>> \in Seq(Nat) /\ Len(<<>>) = 0
    OBVIOUS
<1> QED
    BY <1>1, ValueIs DEF PrefixValues

\* A digit behind the others, and one before them.
LEMMA ValueAppend ==
    ASSUME NEW s \in Seq(Nat), NEW d \in Nat
    PROVE  Value(s) \in Nat /\ Value(Append(s, d)) = 10 * Value(s) + d
<1> DEFINE t == Append(s, d)
           n == Len(s)
<1>1. /\ t \in Seq(Nat) /\ Len(t) = n + 1 /\ t[n + 1] = d /\ \A i \in 1 .. n : t[i] = s[i]
      /\ n \in Nat /\ n + 1 \in 1 .. n + 1 /\ (n + 1) - 1 = n
    OBVIOUS
<1> HIDE DEF t
<1>2. PICK P \in [0 .. Len(t) -> Nat] : PrefixValues(P, t) /\ Value(t) = P[Len(t)]
    BY <1>1, ValueIs
<1>3. PICK Q \in [0 .. n -> Nat] : PrefixValues(Q, s) /\ Value(s) = Q[n]
    BY ValueIs
<1> DEFINE Same == {i \in 0 .. n : P[i] = Q[i]}
<1>4. 0 \in Same
    BY <1>1, <1>2, <1>3 DEF PrefixValues
<1>5. ASSUME NEW i \in 1 .. n, i - 1 \in Same PROVE i \in Same
    <2>1. i \in 0 .. n /\ i \in 1 .. Len(t) /\ t[i] = s[i]
        BY <1>1
    <2>2. P[i] = 10 * P[i - 1] + s[i] /\ Q[i] = 10 * Q[i - 1] + s[i]
        BY <1>2, <1>3, <2>1 DEF PrefixValues
    <2>3. P[i - 1] = Q[i - 1]
        BY <1>5
    <2> QED
        BY <2>1, <2>2, <2>3
<1> HIDE DEF Same
<1>6. n \in Same
    <2>1. 0 .. n \subseteq Same
        BY <1>1, <1>4, <1>5, ValueSteps!FromZero
    <2> QED
        BY <1>1, <2>1
<1>7. P[n] = Q[n] /\ Q[n] \in Nat
    BY <1>1, <1>3, <1>6 DEF Same
<1>8. P[n + 1] = 10 * P[n] + d
    BY <1>1, <1>2 DEF PrefixValues
<1> QED
    BY <1>1, <1>2, <1>3, <1>7, <1>8 DEF t

LEMMA ValueBefore ==
    ASSUME NEW s \in Seq(Nat), NEW d \in Nat, Len(s) \in 0 .. 9
    PROVE  Value(<<d>> \o s) = MaxValues(Len(s)) * d + Value(s)
<1> DEFINE t == <<d>> \o s
           n == Len(s)
<1>1. /\ t \in Seq(Nat) /\ Len(t) = n + 1 /\ t[1] = d /\ \A i \in 1 .. n : t[i + 1] = s[i]
      /\ n \in 0 .. 9 /\ n \in Nat /\ \A i \in 1 .. n : s[i] \in Nat
    OBVIOUS
<1> HIDE DEF t
<1>2. PICK P \in [0 .. Len(t) -> Nat] : PrefixValues(P, t) /\ Value(t) = P[Len(t)]
    BY <1>1, ValueIs
<1>3. PICK Q \in [0 .. n -> Nat] : PrefixValues(Q, s) /\ Value(s) = Q[n]
    BY ValueIs
<1> HIDE DEF n
<1> DEFINE Good == {i \in 0 .. n : P[i + 1] = MaxValues(i) * d + Q[i]}
<1>4. 0 \in Good
    <2>1. P[1] = 10 * P[0] + d /\ P[0] = 0 /\ Q[0] = 0
        <3>1. 1 \in 1 .. Len(t) /\ 1 - 1 = 0
            BY <1>1
        <3>2. P[1] = 10 * P[1 - 1] + t[1]
            BY <1>2, <3>1 DEF PrefixValues
        <3> QED
            BY <1>1, <1>2, <1>3, <3>1, <3>2 DEF PrefixValues
    <2> QED
        BY <1>1, <2>1, MaxValuesAre
<1>5. ASSUME NEW i \in 1 .. n, i - 1 \in Good PROVE i \in Good
    <2>1. /\ i \in 0 .. n /\ i + 1 \in 1 .. Len(t) /\ (i + 1) - 1 = i /\ t[i + 1] = s[i]
          /\ i - 1 \in 0 .. 8 /\ (i - 1) + 1 = i /\ i - 1 \in 0 .. 10 /\ i - 1 \in 0 .. n
        <3>1. /\ i \in 0 .. n /\ i + 1 \in 1 .. n + 1 /\ (i + 1) - 1 = i
              /\ i - 1 \in 0 .. 8 /\ (i - 1) + 1 = i /\ i - 1 \in 0 .. 10 /\ i - 1 \in 0 .. n
            <4>1. n \in 0 .. 9
                BY <1>1
            <4> QED
                BY <4>1
        <3>2. t[i + 1] = s[i]
            BY <1>1
        <3> QED
            BY <1>1, <3>1, <3>2
    <2>2. P[i + 1] = 10 * P[i] + s[i] /\ Q[i] = 10 * Q[i - 1] + s[i]
        <3>1. P[i + 1] = 10 * P[(i + 1) - 1] + t[i + 1]
            BY <1>2, <2>1 DEF PrefixValues
        <3>2. Q[i] = 10 * Q[i - 1] + s[i]
            BY <1>3 DEF PrefixValues, n
        <3> QED
            BY <2>1, <3>1, <3>2
    <2>3. P[i] = MaxValues(i - 1) * d + Q[i - 1]
        BY <1>5, <2>1
    <2>4. MaxValues(i) = 10 * MaxValues(i - 1) /\ MaxValues(i - 1) \in Nat
        BY <2>1, Tens
    <2>5. Q[i - 1] \in Nat /\ s[i] \in Nat
        BY <1>1, <1>3, <2>1
    <2> DEFINE m == MaxValues(i - 1)
    <2>6. 10 * (m * d + Q[i - 1]) + s[i] = (10 * m) * d + (10 * Q[i - 1] + s[i])
        <3> HIDE DEF m
        <3>1. m \in Nat
            BY <2>4 DEF m
        <3> QED
            BY <2>5, <3>1
    <2> QED
        BY <2>1, <2>2, <2>3, <2>4, <2>6
<1> HIDE DEF Good
<1>6. n \in Good
    <2>1. 0 .. n \subseteq Good
        BY <1>1, <1>4, <1>5, ValueSteps!FromZero
    <2> QED
        BY <1>1, <2>1
<1> QED
    BY <1>1, <1>2, <1>3, <1>6 DEF Good, t, n

DigitRecords == [digits : Seq(0 .. 9), value : Nat]

\* Value takes digits to a number; 0 .. 9 are naturals.
LEMMA DigitsAreNat == ASSUME NEW s \in Seq(0 .. 9) PROVE s \in Seq(Nat) /\ Value(s) \in Nat
<1>1. s \in Seq(Nat) /\ Append(s, 0) \in Seq(Nat) /\ 0 \in Nat
    OBVIOUS
<1> QED
    BY <1>1, ValueAppend

LEMMA ByTen == \A v \in Nat : v = 10 * (v \div 10) + (v % 10) /\ v % 10 \in 0 .. 9 /\ v \div 10 \in Nat
    OBVIOUS

LEMMA DivMod ==
    ASSUME NEW v \in Nat, NEW m \in Nat, m > 0
    PROVE  v = m * (v \div m) + (v % m) /\ v % m \in 0 .. m - 1 /\ v \div m \in Nat
    OBVIOUS

\* Digit by digit from the last: what is left of the value belongs before the digits.
LEMMA LastDigitKeeps ==
    ASSUME NEW r \in DigitRecords, NEW i \in 1 .. 9, Len(r.digits) = i - 1, NEW value,
           value = MaxValues(i - 1) * r.value + Value(r.digits)
    PROVE  LET q == LastDigit(r, i) IN
           /\ q \in DigitRecords /\ Len(q.digits) = i
           /\ value = MaxValues(i) * q.value + Value(q.digits)
<1> DEFINE d == r.value % 10
           v == r.value \div 10
           s == r.digits
           m == MaxValues(i - 1)
<1>1. r.value \in Nat /\ s \in Seq(0 .. 9) /\ s \in Seq(Nat) /\ Value(s) \in Nat
    BY DigitsAreNat DEF DigitRecords
<1>2. r.value = 10 * v + d /\ d \in 0 .. 9 /\ v \in Nat
    BY <1>1, ByTen
<1>3. LastDigit(r, i) = [digits |-> <<d>> \o s, value |-> v]
    BY DEF LastDigit
<1>4. i - 1 \in 0 .. 8 /\ i - 1 \in 0 .. 9 /\ i - 1 \in 0 .. 10 /\ (i - 1) + 1 = i
    OBVIOUS
<1>5. MaxValues(i) = 10 * m /\ m \in Nat
    BY <1>4, Tens
<1> HIDE DEF d, v, s
<1>6. <<d>> \o s \in Seq(0 .. 9) /\ Len(<<d>> \o s) = i
    <2>1. Len(s) = i - 1
        BY DEF s
    <2>2. <<d>> \in Seq(0 .. 9) /\ Len(<<d>>) = 1
        BY <1>2
    <2>3. <<d>> \o s \in Seq(0 .. 9) /\ Len(<<d>> \o s) = Len(<<d>>) + Len(s)
        BY <1>1, <2>2, ConcatProperties
    <2> QED
        BY <1>4, <2>1, <2>2, <2>3
<1>7. Value(<<d>> \o s) = m * d + Value(s)
    <2>1. Len(s) = i - 1
        BY DEF s
    <2>2. Len(s) \in 0 .. 9 /\ d \in Nat
        BY <1>2, <1>4, <2>1
    <2> QED
        BY <1>1, <2>1, <2>2, ValueBefore
<1>8. value = m * (10 * v + d) + Value(s)
    BY <1>2 DEF s
<1> HIDE DEF m
<1>9. m * (10 * v + d) + Value(s) = (10 * m) * v + (m * d + Value(s))
    <2>1. d \in Nat
        BY <1>2
    <2> QED
        BY <1>1, <1>2, <1>5, <2>1
<1> QED
    BY <1>2, <1>3, <1>5, <1>6, <1>7, <1>8, <1>9 DEF DigitRecords

LEMMA PaddedIs ==
    ASSUME NEW width \in 1 .. 9, NEW value \in Nat, value < MaxValues(width)
    PROVE  LET digits == PaddedDigits(value, width) IN
           digits \in Seq(0 .. 9) /\ Len(digits) = width /\ Value(digits) = value
<1> DEFINE s == [i \in 1 .. width |-> i]
           base == [digits |-> <<>>, value |-> value]
<1>1. s \in Seq(1 .. 9) /\ Len(s) = width /\ width \in Nat /\ \A i \in 1 .. width : s[i] = i /\ i \in 1 .. 9
    OBVIOUS
<1>2. base \in DigitRecords /\ base.digits = <<>> /\ base.value = value
    BY DEF DigitRecords
<1>3. LastSteps!Keeps(NULL, DigitRecords, 1 .. 9)
    <2> SUFFICES ASSUME NEW r \in DigitRecords, NEW i \in 1 .. 9 PROVE LastDigit(r, i) \in DigitRecords
        BY DEF LastSteps!Keeps, LastDigitTo
    <2>1. <<r.value % 10>> \o r.digits \in Seq(0 .. 9) /\ r.value \div 10 \in Nat
        <3>1. r.value % 10 \in 0 .. 9 /\ r.value \div 10 \in Nat /\ r.digits \in Seq(0 .. 9)
            BY ByTen DEF DigitRecords
        <3>2. <<r.value % 10>> \in Seq(0 .. 9)
            BY <3>1
        <3> QED
            BY <3>1, <3>2, ConcatProperties
    <2> QED
        BY <2>1 DEF LastDigit, DigitRecords
<1>4. LastSteps!Fold(NULL, base, s).digits = PaddedDigits(value, width)
    BY DEF LastSteps!Fold, LastSteps!FoldLeft, LastSteps!MapThenFoldSet, LastSteps!Max,
           FoldLeft, MapThenFoldSet, Max, LastDigitTo, PaddedDigits
<1> HIDE DEF s, base
<1>5. PICK P \in [0 .. Len(s) -> DigitRecords] :
        LastSteps!Steps(P, NULL, base, s) /\ LastSteps!Fold(NULL, base, s) = P[Len(s)]
    <2> DEFINE Z == 1 .. 9
    <2>1. LastSteps!Keeps(NULL, DigitRecords, Z) /\ s \in Seq(Z)
        BY <1>1, <1>3
    <2> HIDE DEF Z
    <2> QED
        BY <1>2, <2>1, LastSteps!Partial
<1>6. P[0] = base /\ \A i \in 1 .. width : P[i] = LastDigit(P[i - 1], i)
    BY <1>1, <1>5 DEF LastSteps!Steps, LastDigitTo
<1> DEFINE Right(i) == /\ P[i] \in DigitRecords /\ Len(P[i].digits) = i
                       /\ value = MaxValues(i) * P[i].value + Value(P[i].digits)
           Good == {i \in 0 .. width : Right(i)}
<1>7. 0 \in Good
    <2>1. Value(<<>>) = 0 /\ MaxValues(0) = 1 /\ Len(<<>>) = 0 /\ 0 \in 0 .. width
        BY <1>1, ValueEmpty, MaxValuesAre
    <2>2. Right(0)
        BY <1>2, <1>6, <2>1
    <2> QED
        BY <2>1, <2>2
<1>8. ASSUME NEW i \in 1 .. width, i - 1 \in Good PROVE i \in Good
    <2>1. i \in 1 .. 9 /\ P[i] = LastDigit(P[i - 1], i) /\ i \in 0 .. width
        BY <1>1, <1>6
    <2>2. Right(i - 1)
        <3> HIDE DEF Right
        <3> QED
            BY <1>8
    <2> DEFINE q == P[i - 1]
    <2>3. q \in DigitRecords /\ Len(q.digits) = i - 1 /\ value = MaxValues(i - 1) * q.value + Value(q.digits)
        BY <2>2
    <2> HIDE DEF q
    <2>4. LET u == LastDigit(q, i) IN
          /\ u \in DigitRecords /\ Len(u.digits) = i
          /\ value = MaxValues(i) * u.value + Value(u.digits)
        BY <2>1, <2>3, LastDigitKeeps
    <2>5. Right(i)
        BY <2>1, <2>4 DEF q
    <2> HIDE DEF Right
    <2> QED
        BY <2>1, <2>5
<1> HIDE DEF Good
<1>9. Right(width)
    <2>1. 0 .. width \subseteq Good
        BY <1>1, <1>7, <1>8, LastSteps!FromZero
    <2>2. width \in Good
        BY <1>1, <2>1
    <2> QED
        BY <2>2 DEF Good
<1> DEFINE r == P[width]
<1>10. PaddedDigits(value, width) = r.digits
    BY <1>1, <1>4, <1>5
<1>11. r \in DigitRecords /\ Len(r.digits) = width /\ value = MaxValues(width) * r.value + Value(r.digits)
    BY <1>9
<1> HIDE DEF r
<1>12. r.value \in Nat /\ r.digits \in Seq(0 .. 9) /\ Value(r.digits) \in Nat
    BY <1>11, DigitsAreNat DEF DigitRecords
<1>13. r.value = 0
    <2> DEFINE m == MaxValues(width)
               u == Value(r.digits)
    <2>1. m \in Nat /\ value < m /\ value = m * r.value + u /\ u \in Nat
        <3>1. width \in 0 .. 10
            OBVIOUS
        <3> QED
            BY <1>11, <1>12, <3>1, Tens
    <2> HIDE DEF m, u
    <2>2. r.value >= 1 => m * r.value >= m
        <3>1. ASSUME NEW k \in Nat PROVE m * (k + 1) = m * k + m /\ m * k \in Nat
            BY <2>1
        <3>2. r.value >= 1 => r.value - 1 \in Nat /\ r.value = (r.value - 1) + 1
            BY <1>12
        <3>3. r.value >= 1 => m * r.value = m * (r.value - 1) + m /\ m * (r.value - 1) \in Nat
            BY <3>1, <3>2
        <3> QED
            BY <2>1, <3>3
    <2>3. m * r.value \in Nat
        BY <1>12, <2>1
    <2> QED
        BY <1>12, <2>1, <2>2, <2>3
<1>14. Value(r.digits) = value
    <2>1. MaxValues(width) \in Nat
        <3>1. width \in 0 .. 10
            OBVIOUS
        <3> QED
            BY <3>1, Tens
    <2> QED
        BY <1>11, <1>12, <1>13, <2>1
<1> QED
    BY <1>10, <1>11, <1>12, <1>14

\* The digits of the value that are not zero begin at the power that is not above it.
LEMMA FirstIndexIs ==
    ASSUME NEW width \in 1 .. 10, NEW value \in Nat, value > 0,
           value < MaxValues(width), value < MaxValues(9)
    PROVE  LET first == FirstIndex(value, width) IN
           first \in 0 .. 8 /\ first < width /\ MaxValues(first) <= value /\ value < MaxValues(first + 1)
<1> DEFINE Is(i) == MaxValues(i) <= value /\ \A j \in i + 1 .. width : MaxValues(j) > value
           first == FirstIndex(value, width)
<1>1. \E i \in 0 .. width : Is(i)
    <2> SUFFICES ASSUME \A i \in 0 .. width : ~Is(i) PROVE FALSE
        OBVIOUS
    <2> DEFINE Below == {i \in 0 .. width : MaxValues(i) <= value}
    <2>1. 0 \in Below
        BY MaxValuesAre
    <2>2. ASSUME NEW i \in 1 .. width, i - 1 \in Below PROVE i \in Below
        <3>1. i \in 0 .. width /\ i - 1 \in 0 .. width /\ (i - 1) + 1 = i
            OBVIOUS
        <3>2. ~Is(i - 1) /\ MaxValues(i - 1) <= value
            BY <2>2, <3>1
        <3>3. PICK j \in (i - 1) + 1 .. width : ~(MaxValues(j) > value)
            BY <3>2
        <3>4. i \in 0 .. 10 /\ j \in 0 .. 10 /\ i <= j
            BY <3>1, <3>3
        <3>5. MaxValues(i) <= MaxValues(j) /\ MaxValues(i) \in Nat /\ MaxValues(j) \in Nat
            BY <3>4, Tens
        <3>6. MaxValues(i) <= value
            BY <3>3, <3>5
        <3> QED
            BY <3>1, <3>6
    <2> HIDE DEF Below
    <2>3. width \in Nat /\ width \in 0 .. width /\ width \in 0 .. 10
        OBVIOUS
    <2>4. 0 .. width \subseteq Below
        BY <2>1, <2>2, <2>3, ValueSteps!FromZero
    <2>5. MaxValues(width) <= value /\ MaxValues(width) \in Nat
        BY <2>3, <2>4, Tens DEF Below
    <2> QED
        BY <2>5
<1>2. first = CHOOSE i \in 0 .. width : Is(i)
    BY DEF FirstIndex
<1> HIDE DEF first, Is
<1>3. first \in 0 .. width /\ Is(first)
    BY <1>1, <1>2
<1>4. MaxValues(first) <= value /\ \A j \in first + 1 .. width : MaxValues(j) > value
    BY <1>3 DEF Is
<1>5. first < width /\ first < 9
    <2>1. first \in 0 .. 10 /\ width \in 0 .. 10 /\ 9 \in 0 .. 10
        BY <1>3
    <2>2. MaxValues(first) \in Nat /\ MaxValues(9) \in Nat /\ (9 <= first => MaxValues(9) <= MaxValues(first))
        BY <2>1, Tens
    <2>3. first # width
        BY <1>4, <2>1, <2>2
    <2>4. ~(9 <= first)
        BY <1>4, <2>2
    <2> QED
        BY <1>3, <2>1, <2>3, <2>4
<1>6. first \in 0 .. 8 /\ first + 1 \in first + 1 .. width /\ first + 1 \in 0 .. 10
    BY <1>3, <1>5
<1>7. value < MaxValues(first + 1)
    <2>1. MaxValues(first + 1) > value /\ MaxValues(first + 1) \in Nat
        BY <1>4, <1>6, Tens
    <2> QED
        BY <2>1
<1> QED
    BY <1>4, <1>5, <1>6, <1>7 DEF first

\* Digit by digit from the first: what is left of the value belongs behind the digits.
Written(value, k, r) ==
    /\ r \in DigitRecords /\ r.value < MaxValues(k)
    /\ value = MaxValues(k) * Value(r.digits) + r.value

LEMMA NextDigitKeeps ==
    ASSUME NEW r, NEW k \in 0 .. 8, NEW value, Written(value, k + 1, r)
    PROVE  LET q == NextDigit(r, k) IN
           /\ Written(value, k, q)
           /\ q.digits = Append(r.digits, r.value \div MaxValues(k))
<1> DEFINE m == MaxValues(k)
           d == r.value \div m
           v == r.value % m
           s == r.digits
           u == Value(s)
<1>1. k \in 0 .. 10 /\ k + 1 \in 0 .. 10 /\ m \in Nat /\ m > 0 /\ MaxValues(k + 1) = 10 * m
    <2>1. k \in 0 .. 10 /\ k + 1 \in 0 .. 10
        OBVIOUS
    <2> QED
        BY <2>1, Tens
<1>2. r.value \in Nat /\ s \in Seq(0 .. 9) /\ s \in Seq(Nat) /\ u \in Nat
    BY DigitsAreNat DEF Written, DigitRecords
<1>3. NextDigit(r, k) = [digits |-> Append(s, d), value |-> v]
    BY DEF NextDigit
<1>4. r.value < 10 * m /\ value = (10 * m) * u + r.value
    BY <1>1 DEF Written
<1> HIDE DEF s, u, m
<1>5. r.value = m * d + v /\ v \in Nat /\ v < m /\ d \in Nat
    <2>1. r.value = m * d + v /\ v \in 0 .. m - 1 /\ d \in Nat
        BY <1>1, <1>2, DivMod
    <2> HIDE DEF d, v
    <2> QED
        BY <1>1, <2>1
<1> HIDE DEF d, v
<1>6. d \in 0 .. 9
    <2>1. d >= 10 => m * d >= m * 10
        <3>1. ASSUME NEW j \in Nat PROVE m * (j + 10) = m * j + m * 10 /\ m * j \in Nat
            BY <1>1
        <3>2. d >= 10 => d - 10 \in Nat /\ d = (d - 10) + 10
            BY <1>5
        <3>3. d >= 10 => m * d = m * (d - 10) + m * 10 /\ m * (d - 10) \in Nat
            BY <3>1, <3>2
        <3> QED
            BY <1>1, <3>3
    <2>2. m * d \in Nat /\ m * 10 = 10 * m
        BY <1>1, <1>5
    <2>3. ~(d >= 10)
        BY <1>1, <1>2, <1>4, <1>5, <2>1, <2>2
    <2> QED
        BY <1>5, <2>3
<1>7. Append(s, d) \in Seq(0 .. 9) /\ Value(Append(s, d)) = 10 * u + d
    <2>1. Value(Append(s, d)) = 10 * u + d
        BY <1>2, <1>5, ValueAppend DEF u
    <2>2. Append(s, d) \in Seq(0 .. 9)
        BY <1>2, <1>6
    <2> QED
        BY <2>1, <2>2
<1>8. value = m * (10 * u + d) + v
    <2>1. value = (10 * m) * u + (m * d + v)
        BY <1>4, <1>5
    <2> QED
        BY <1>1, <1>2, <1>5, <2>1
<1>9. [digits |-> Append(s, d), value |-> v] \in DigitRecords
    BY <1>5, <1>7 DEF DigitRecords
<1> QED
    BY <1>3, <1>5, <1>7, <1>8, <1>9 DEF Written, m, d, s

LEMMA PlainIs ==
    ASSUME NEW width \in 1 .. 10, NEW value \in Nat,
           value < MaxValues(width), value < MaxValues(9)
    PROVE  LET digits == PlainDigits(value, width) IN
           /\ digits \in Seq(0 .. 9) /\ Len(digits) \in 1 .. width /\ Value(digits) = value
           /\ digits[1] = 0 => Len(digits) = 1
<1> DEFINE digits == PlainDigits(value, width)
<1>1. CASE value = 0
    <2>1. digits = <<0>>
        BY <1>1 DEF PlainDigits
    <2>2. <<0>> = Append(<<>>, 0) /\ <<>> \in Seq(Nat) /\ 0 \in Nat
        OBVIOUS
    <2>3. Value(<<0>>) = 10 * Value(<<>>) + 0
        BY <2>2, ValueAppend
    <2>4. Value(<<0>>) = 0
        BY <2>3, ValueEmpty
    <2>5. <<0>> \in Seq(0 .. 9) /\ Len(<<0>>) = 1 /\ 1 \in 1 .. width
        OBVIOUS
    <2> QED
        BY <1>1, <2>1, <2>4, <2>5
<1>2. CASE value # 0
    <2> DEFINE first == FirstIndex(value, width)
               s == [i \in 1 .. first + 1 |-> first + 1 - i]
               base == [digits |-> <<>>, value |-> value]
               Z == 0 .. 8
               n == first + 1
    <2>1. first \in 0 .. 8 /\ first < width /\ MaxValues(first) <= value /\ value < MaxValues(first + 1)
        BY <1>2, FirstIndexIs
    <2> HIDE DEF first
    <2>2. /\ n \in Nat /\ n \in 1 .. width /\ s \in Seq(Z) /\ Len(s) = n
          /\ \A i \in 1 .. n : s[i] = n - i /\ s[i] \in Z
        BY <2>1
    <2>3. base \in DigitRecords /\ base.digits = <<>> /\ base.value = value
        BY DEF DigitRecords
    <2> DEFINE A == [digits : Seq(Nat), value : Nat]
    <2>4. NextSteps!Keeps(NULL, A, Z) /\ base \in A
        <3>1. ASSUME NEW r \in A, NEW k \in Z PROVE NextDigit(r, k) \in A
            <4>1. MaxValues(k) \in Nat /\ MaxValues(k) > 0
                <5>1. k \in 0 .. 10
                    OBVIOUS
                <5> QED
                    BY <5>1, Tens
            <4>2. r.value \in Nat /\ r.digits \in Seq(Nat)
                OBVIOUS
            <4>3. r.value \div MaxValues(k) \in Nat /\ r.value % MaxValues(k) \in 0 .. MaxValues(k) - 1
                BY <4>1, <4>2, DivMod
            <4>4. r.value % MaxValues(k) \in Nat
                BY <4>1, <4>3
            <4>5. Append(r.digits, r.value \div MaxValues(k)) \in Seq(Nat)
                BY <4>2, <4>3
            <4> QED
                BY <4>4, <4>5 DEF NextDigit
        <3>2. base \in A
            <4>1. <<>> \in Seq(Nat)
                OBVIOUS
            <4> QED
                BY <4>1
        <3> HIDE DEF A, Z, base
        <3> QED
            BY <3>1, <3>2 DEF NextSteps!Keeps, NextDigitTo
    <2>5. NextSteps!Fold(NULL, base, s).digits = digits
        BY <1>2 DEF NextSteps!Fold, NextSteps!FoldLeft, NextSteps!MapThenFoldSet, NextSteps!Max,
           FoldLeft, MapThenFoldSet, Max, NextDigitTo, PlainDigits, first
    <2> HIDE DEF s, base, Z, A, digits
    <2>6. PICK P \in [0 .. Len(s) -> A] :
            NextSteps!Steps(P, NULL, base, s) /\ NextSteps!Fold(NULL, base, s) = P[Len(s)]
        BY <2>2, <2>4, NextSteps!Partial
    <2>7. P[0] = base /\ \A i \in 1 .. n : P[i] = NextDigit(P[i - 1], n - i)
        <3>1. P[0] = base /\ \A i \in 1 .. Len(s) : P[i] = NextDigit(P[i - 1], s[i])
            BY <2>6 DEF NextSteps!Steps, NextDigitTo
        <3> HIDE DEF n
        <3>2. ASSUME NEW i \in 1 .. n PROVE P[i] = NextDigit(P[i - 1], n - i)
            BY <2>2, <3>1
        <3> QED
            BY <3>1, <3>2
    <2> DEFINE Right(i) == /\ Written(value, n - i, P[i]) /\ Len(P[i].digits) = i
                           /\ i > 0 => P[i].digits[1] # 0
               Good == {i \in 0 .. n : Right(i)}
    <2>8. 0 \in Good
        <3>1. Written(value, n, base)
            <4>1. MaxValues(n) \in Nat
                <5>1. n \in 0 .. 10
                    BY <2>1
                <5> QED
                    BY <5>1, Tens
            <4>2. value < MaxValues(n)
                BY <2>1
            <4>3. MaxValues(n) * 0 + value = value
                BY <4>1
            <4> QED
                BY <2>3, <4>2, <4>3, ValueEmpty DEF Written
        <3>2. Len(<<>>) = 0 /\ n - 0 = n /\ 0 \in 0 .. n
            BY <2>1, <2>2
        <3> QED
            BY <2>3, <2>7, <3>1, <3>2
    <2>9. ASSUME NEW i \in 1 .. n, i - 1 \in Good PROVE i \in Good
        <3> DEFINE k == n - i
                   q == P[i - 1]
        <3>1. /\ k \in 0 .. 8 /\ n - (i - 1) = k + 1 /\ i \in 0 .. n
              /\ i = 1 => k = first
            BY <2>1
        <3>2. Right(i - 1)
            <4> HIDE DEF Right
            <4> QED
                BY <2>9
        <3>3. Written(value, k + 1, q) /\ Len(q.digits) = i - 1 /\ (i - 1 > 0 => q.digits[1] # 0)
            BY <3>1, <3>2
        <3>4. P[i] = NextDigit(q, k)
            BY <2>7
        <3>5. i = 1 => q = base
            BY <2>7
        <3> HIDE DEF k, q, n
        <3>6. Written(value, k, P[i]) /\ P[i].digits = Append(q.digits, q.value \div MaxValues(k))
            BY <3>1, <3>3, <3>4, NextDigitKeeps
        <3>7. q.digits \in Seq(0 .. 9)
            BY <3>3 DEF Written, DigitRecords
        <3>8. Len(P[i].digits) = i /\ P[i].digits[1] # 0
            <4>1. CASE i = 1
                <5>1. P[i].digits = Append(<<>>, value \div MaxValues(first))
                    BY <2>3, <3>1, <3>5, <3>6, <4>1
                <5>2. Len(P[i].digits) = 1 /\ P[i].digits[1] = value \div MaxValues(first)
                    BY <5>1
                <5>3. value \div MaxValues(first) # 0
                    <6> DEFINE m == MaxValues(first)
                    <6>1. m \in Nat /\ m > 0
                        <7>1. first \in 0 .. 10
                            BY <2>1
                        <7> QED
                            BY <7>1, Tens
                    <6>2. m <= value
                        BY <2>1
                    <6> HIDE DEF m
                    <6>3. value = m * (value \div m) + (value % m) /\ value % m \in 0 .. m - 1
                        BY <6>1, DivMod
                    <6>4. value \div m = 0 => m * (value \div m) = 0
                        BY <6>1
                    <6>5. value \div m # 0
                        BY <6>1, <6>2, <6>3, <6>4
                    <6> QED
                        BY <6>5 DEF m
                <5> QED
                    BY <4>1, <5>2, <5>3
            <4>2. CASE i # 1
                <5>1. i \in Nat /\ i - 1 > 0 /\ 1 \in 1 .. Len(q.digits) /\ (i - 1) + 1 = i
                    BY <2>2, <3>3, <4>2
                <5>2. Len(P[i].digits) = Len(q.digits) + 1 /\ P[i].digits[1] = q.digits[1]
                    BY <3>6, <3>7, <5>1, AppendProperties
                <5> QED
                    BY <3>3, <5>1, <5>2
            <4> QED
                BY <4>1, <4>2
        <3>9. Right(i)
            BY <3>6, <3>8 DEF k
        <3> HIDE DEF Right
        <3> QED
            BY <3>1, <3>9
    <2> HIDE DEF Good
    <2>10. Right(n)
        <3>1. n \in Nat
            BY <2>2
        <3> HIDE DEF n
        <3>2. 0 .. n \subseteq Good
            BY <2>8, <2>9, <3>1, NextSteps!FromZero
        <3>3. n \in Good
            BY <3>1, <3>2
        <3> QED
            BY <3>3 DEF Good
    <2> DEFINE r == P[n]
    <2>11. digits = r.digits
        BY <2>2, <2>5, <2>6
    <2>12. Written(value, n - n, r) /\ Len(r.digits) = n /\ (n > 0 => r.digits[1] # 0)
        BY <2>10
    <2> HIDE DEF r, n
    <2>13. n - n = 0 /\ n > 0
        BY <2>2
    <2>14. r.digits \in Seq(0 .. 9) /\ r.value \in Nat /\ r.value < 1 /\ value = 1 * Value(r.digits) + r.value
        BY <2>12, <2>13, MaxValuesAre DEF Written, DigitRecords
    <2>15. Value(r.digits) \in Nat
        BY <2>14, DigitsAreNat
    <2>16. Value(r.digits) = value
        BY <2>14, <2>15
    <2> QED
        BY <2>2, <2>11, <2>12, <2>13, <2>14, <2>16 DEF digits
<1> QED
    BY <1>1, <1>2

LEMMA TotalIs ==
    ASSUME NEW s \in Seq(Nat)
    PROVE  \E P \in [0 .. Len(s) -> Nat] :
            P[0] = 0 /\ (\A i \in 1 .. Len(s) : P[i] = P[i - 1] + s[i]) /\ Total(s) = P[Len(s)]
<1> DEFINE A == Nat
           Z == Nat
<1>1. TotalSteps!Keeps(NULL, A, Z) /\ 0 \in A /\ s \in Seq(Z)
    BY DEF TotalSteps!Keeps, AddTo
<1>2. TotalSteps!Fold(NULL, 0, s) = Total(s)
    BY DEF TotalSteps!Fold, TotalSteps!FoldLeft, TotalSteps!MapThenFoldSet, TotalSteps!Max,
           FoldLeft, MapThenFoldSet, Max, AddTo, Total
<1> HIDE DEF A, Z
<1>3. PICK P \in [0 .. Len(s) -> A] :
        TotalSteps!Steps(P, NULL, 0, s) /\ TotalSteps!Fold(NULL, 0, s) = P[Len(s)]
    BY <1>1, TotalSteps!Partial
<1>4. P[0] = 0 /\ \A i \in 1 .. Len(s) : P[i] = P[i - 1] + s[i]
    BY <1>3 DEF TotalSteps!Steps, AddTo
<1> QED
    BY <1>2, <1>3, <1>4 DEF A

\* The leap years up to y.
Leaps(y) == y \div 4 - y \div 100 + y \div 400

LEMMA LeapsStep ==
    ASSUME NEW y \in Nat, y > 0
    PROVE  /\ Leaps(y) \in Int /\ Leaps(y - 1) \in Int
           /\ Leaps(y) = Leaps(y - 1) + (IF IsLeapYear(y) THEN 1 ELSE 0)
<1>1. (y \div 4) - ((y - 1) \div 4) = IF y % 4 = 0 THEN 1 ELSE 0
    OBVIOUS
<1>2. (y \div 100) - ((y - 1) \div 100) = IF y % 100 = 0 THEN 1 ELSE 0
    OBVIOUS
<1>3. (y \div 400) - ((y - 1) \div 400) = IF y % 400 = 0 THEN 1 ELSE 0
    OBVIOUS
<1>4. (y % 400 = 0 => y % 100 = 0) /\ (y % 100 = 0 => y % 4 = 0)
    OBVIOUS
<1>5. /\ y \div 4 \in Int /\ y \div 100 \in Int /\ y \div 400 \in Int
      /\ (y - 1) \div 4 \in Int /\ (y - 1) \div 100 \in Int /\ (y - 1) \div 400 \in Int
    OBVIOUS
<1> QED
    BY <1>1, <1>2, <1>3, <1>4, <1>5 DEF Leaps, IsLeapYear

\* The days of the years since 1970, and of the months of a year.
DaysOfYears(n) == Total([i \in 1 .. n |-> IF IsLeapYear(1969 + i) THEN 366 ELSE 365])
DaysOfMonths(year, month) == Total([m \in 1 .. month - 1 |-> DaysInMonth(year, m)])

LEMMA YearDays ==
    ASSUME NEW n \in Nat
    PROVE  DaysOfYears(n) = 365 * n + Leaps(1969 + n) - 477
<1> DEFINE s == [i \in 1 .. n |-> IF IsLeapYear(1969 + i) THEN 366 ELSE 365]
<1>1. n \in Nat
    OBVIOUS
<1>2. s \in Seq(Nat) /\ Len(s) = n /\ \A i \in 1 .. n : s[i] = IF IsLeapYear(1969 + i) THEN 366 ELSE 365
    OBVIOUS
<1> HIDE DEF s
<1>3. PICK P \in [0 .. n -> Nat] :
        P[0] = 0 /\ (\A i \in 1 .. n : P[i] = P[i - 1] + s[i]) /\ Total(s) = P[n]
    <2>1. \E P \in [0 .. Len(s) -> Nat] :
            P[0] = 0 /\ (\A i \in 1 .. Len(s) : P[i] = P[i - 1] + s[i]) /\ Total(s) = P[Len(s)]
        <3>1. s \in Seq(Nat)
            BY <1>2
        <3> QED
            BY <3>1, TotalIs
    <2>2. Len(s) = n
        BY <1>2
    <2> QED
        BY <2>1, <2>2
<1> DEFINE Good == {i \in 0 .. n : P[i] = 365 * i + Leaps(1969 + i) - 477}
<1>4. 0 \in Good
    <2>1. Leaps(1969) = 477 /\ 1969 + 0 = 1969
        BY DEF Leaps
    <2> QED
        BY <1>1, <1>3, <2>1
<1>5. ASSUME NEW i \in 1 .. n, i - 1 \in Good PROVE i \in Good
    <2>1. i \in 0 .. n /\ i \in Nat /\ 1969 + i \in Nat /\ 1969 + i > 0 /\ 1969 + (i - 1) = (1969 + i) - 1
        BY <1>1
    <2>2. P[i] = P[i - 1] + s[i] /\ s[i] = IF IsLeapYear(1969 + i) THEN 366 ELSE 365
        BY <1>2, <1>3
    <2> DEFINE a == Leaps(1969 + i)
               b == Leaps((1969 + i) - 1)
    <2>3. P[i - 1] = 365 * (i - 1) + b - 477
        BY <1>5, <2>1
    <2>4. a \in Int /\ b \in Int /\ a = b + (IF IsLeapYear(1969 + i) THEN 1 ELSE 0)
        BY <2>1, LeapsStep
    <2> HIDE DEF a, b
    <2>5. P[i] = 365 * i + a - 477
        BY <2>1, <2>2, <2>3, <2>4
    <2> QED
        BY <2>1, <2>5 DEF a
<1> HIDE DEF Good
<1>6. n \in Good
    <2>1. n \in Nat
        BY <1>1
    <2>2. \A i \in 1 .. n : i - 1 \in Good => i \in Good
        BY <1>5
    <2>3. 0 .. n \subseteq Good
        BY <1>4, <2>1, <2>2, TotalSteps!FromZero
    <2> QED
        BY <2>1, <2>3
<1>7. Total(s) = 365 * n + Leaps(1969 + n) - 477
    BY <1>3, <1>6 DEF Good
<1> QED
    BY <1>7 DEF s, DaysOfYears

MonthStart(month) == <<0, 31, 59, 90, 120, 151, 181, 212, 243, 273, 304, 334>>[month]

LEMMA MonthDays ==
    ASSUME NEW year \in Nat, NEW month \in 1 .. 12
    PROVE  DaysOfMonths(year, month) = MonthStart(month) + (IF month > 2 /\ IsLeapYear(year) THEN 1 ELSE 0)
<1> DEFINE n == month - 1
           s == [m \in 1 .. n |-> DaysInMonth(year, m)]
           leap == IF IsLeapYear(year) THEN 1 ELSE 0
           After(i) == MonthStart(i + 1) + (IF i >= 2 THEN leap ELSE 0)
<1>1. n \in 0 .. 11 /\ n \in Nat
    OBVIOUS
<1>2. \A m \in 1 .. 11 :
        /\ DaysInMonth(year, m) \in Nat
        /\ MonthStart(m + 1) = MonthStart(m) + DaysInMonth(year, m) - (IF m = 2 THEN leap ELSE 0)
        /\ MonthStart(m) \in Nat
    <2>1. \A m \in 1 .. 11 : m \in {1, 2, 3, 4, 5, 6, 7, 8, 9, 10, 11}
        OBVIOUS
    <2>2. /\ MonthStart(1) = 0 /\ MonthStart(2) = 31 /\ MonthStart(3) = 59 /\ MonthStart(4) = 90
          /\ MonthStart(5) = 120 /\ MonthStart(6) = 151 /\ MonthStart(7) = 181 /\ MonthStart(8) = 212
          /\ MonthStart(9) = 243 /\ MonthStart(10) = 273 /\ MonthStart(11) = 304 /\ MonthStart(12) = 334
        BY DEF MonthStart
    <2>3. /\ DaysInMonth(year, 1) = 31 /\ DaysInMonth(year, 2) = 28 + leap /\ DaysInMonth(year, 3) = 31
          /\ DaysInMonth(year, 4) = 30 /\ DaysInMonth(year, 5) = 31 /\ DaysInMonth(year, 6) = 30
          /\ DaysInMonth(year, 7) = 31 /\ DaysInMonth(year, 8) = 31 /\ DaysInMonth(year, 9) = 30
          /\ DaysInMonth(year, 10) = 31 /\ DaysInMonth(year, 11) = 30
        BY DEF DaysInMonth
    <2>4. leap \in {0, 1}
        OBVIOUS
    <2> HIDE DEF leap
    <2> QED
        BY <2>1, <2>2, <2>3, <2>4
<1>3. leap \in {0, 1}
    OBVIOUS
<1>4. s \in Seq(Nat) /\ Len(s) = n /\ \A m \in 1 .. n : s[m] = DaysInMonth(year, m)
    <2> HIDE DEF n
    <2>1. \A m \in 1 .. n : m \in 1 .. 11
        BY <1>1
    <2>2. s \in [1 .. n -> Nat]
        BY <1>2, <2>1
    <2> QED
        BY <1>1, <2>2
<1> HIDE DEF n, s, leap
<1>5. PICK P \in [0 .. n -> Nat] :
        P[0] = 0 /\ (\A i \in 1 .. n : P[i] = P[i - 1] + s[i]) /\ Total(s) = P[n]
    BY <1>4, TotalIs
<1> DEFINE Good == {i \in 0 .. n : P[i] = After(i)}
<1>6. 0 \in Good
    <2>1. MonthStart(1) = 0 /\ 0 + 1 = 1
        BY DEF MonthStart
    <2> QED
        BY <1>1, <1>5, <2>1
<1>7. ASSUME NEW i \in 1 .. n, i - 1 \in Good PROVE i \in Good
    <2>1. i \in 0 .. n /\ i \in 1 .. 11 /\ (i - 1) + 1 = i
        BY <1>1
    <2>2. P[i] = P[i - 1] + DaysInMonth(year, i)
        BY <1>4, <1>5
    <2>3. P[i - 1] = MonthStart(i) + (IF i - 1 >= 2 THEN leap ELSE 0)
        BY <1>7, <2>1
    <2> DEFINE a == MonthStart(i)
               b == MonthStart(i + 1)
               c == DaysInMonth(year, i)
    <2>4. c \in Nat /\ a \in Nat /\ b = a + c - (IF i = 2 THEN leap ELSE 0)
        BY <1>2, <2>1
    <2> HIDE DEF a, b, c
    <2>5. P[i] = b + (IF i >= 2 THEN leap ELSE 0)
        BY <1>3, <2>1, <2>2, <2>3, <2>4 DEF a, c
    <2> QED
        BY <2>1, <2>5 DEF b
<1> HIDE DEF Good
<1>8. n \in Good
    <2>1. 0 .. n \subseteq Good
        BY <1>1, <1>6, <1>7, TotalSteps!FromZero
    <2> QED
        BY <1>1, <2>1
<1>9. Total(s) = After(n)
    BY <1>5, <1>8 DEF Good
<1>10. n + 1 = month /\ (n >= 2 <=> month > 2)
    BY <1>1 DEF n
<1> QED
    BY <1>9, <1>10 DEF s, n, leap, DaysOfMonths

LEMMA DatesCounted ==
    ASSUME NEW d, d.year \in Nat, d.year >= 1970, d.month \in 1 .. 12, d.day \in Nat, d.minute \in Nat
    PROVE  TimestampOf(d, 480) = 1440 * CivilDays(d) + d.minute - 480
<1> DEFINE years == DaysOfYears(d.year - 1970)
           months == DaysOfMonths(d.year, d.month)
           before == Leaps(d.year - 1)
           now == Leaps(d.year)
           leap == IF IsLeapYear(d.year) THEN 1 ELSE 0
           m == (d.month + 9) % 12
<1>1. years = 365 * (d.year - 1970) + before - 477
    <2>1. d.year - 1970 \in Nat /\ 1969 + (d.year - 1970) = d.year - 1
        OBVIOUS
    <2> QED
        BY <2>1, YearDays
<1>2. months = MonthStart(d.month) + (IF d.month > 2 /\ IsLeapYear(d.year) THEN 1 ELSE 0)
    BY MonthDays
<1>3. before \in Int /\ now \in Int /\ now = before + leap /\ leap \in {0, 1}
    BY LeapsStep
<1>4. TimestampOf(d, 480) = 1440 * (years + months + d.day - 1) + d.minute - 480
    BY DEF TimestampOf, DaysOfYears, DaysOfMonths
<1> HIDE DEF years, months, m
<1>5. CivilDays(d) = IF d.month <= 2
                     THEN 365 * (d.year - 1) + before + (153 * m + 2) \div 5 + d.day - 1 - 719468
                     ELSE 365 * d.year + now + (153 * m + 2) \div 5 + d.day - 1 - 719468
    <2> DEFINE y == IF d.month <= 2 THEN d.year - 1 ELSE d.year
    <2>1. CivilDays(d) = 365 * y + y \div 4 - y \div 100 + y \div 400 + (153 * m + 2) \div 5 + d.day - 1 - 719468
        BY DEF CivilDays, m
    <2> DEFINE e == (153 * m + 2) \div 5
               f == y \div 4
               g == y \div 100
               h == y \div 400
    <2>2. e \in Int /\ f \in Int /\ g \in Int /\ h \in Int /\ y \in Int
        BY DEF m
    <2>3. Leaps(y) = f - g + h
        BY DEF Leaps
    <2>4. 365 * y + f - g + h + e + d.day - 1 - 719468 = 365 * y + (f - g + h) + e + d.day - 1 - 719468
        <3> HIDE DEF e, f, g, h, y
        <3> QED
            BY <2>2
    <2>5. CivilDays(d) = 365 * y + Leaps(y) + e + d.day - 1 - 719468
        BY <2>1, <2>3, <2>4
    <2> QED
        BY <2>5
<1> HIDE DEF before, now, leap
<1>6. months \in Nat /\ years \in Int
    <2>1. MonthStart(d.month) \in Nat
        BY DEF MonthStart
    <2> QED
        BY <1>1, <1>2, <1>3, <2>1
<1>7. CivilDays(d) = years + months + d.day - 1
    <2>1. d.month \in {1, 2, 3, 4, 5, 6, 7, 8, 9, 10, 11, 12}
        OBVIOUS
    <2>2. \A k \in {1, 2} : d.month = k => /\ (153 * m + 2) \div 5 = MonthStart(k) + 306
                                           /\ d.month <= 2 /\ ~(d.month > 2)
        BY DEF m, MonthStart
    <2>3. \A k \in 3 .. 12 : d.month = k => /\ (153 * m + 2) \div 5 = MonthStart(k) - 59
                                            /\ ~(d.month <= 2) /\ d.month > 2
        BY DEF m, MonthStart
    <2> DEFINE e == (153 * m + 2) \div 5
               f == MonthStart(d.month)
    <2>4. f \in Nat
        BY DEF MonthStart
    <2>5. CASE d.month \in {1, 2}
        <3>1. e = f + 306 /\ d.month <= 2 /\ ~(d.month > 2)
            BY <2>2, <2>5
        <3>2. CivilDays(d) = 365 * (d.year - 1) + before + e + d.day - 1 - 719468 /\ months = f
            BY <1>2, <1>5, <2>4, <3>1
        <3> HIDE DEF e, f
        <3> QED
            BY <1>1, <1>3, <2>4, <3>1, <3>2
    <2>6. CASE d.month \in 3 .. 12
        <3>1. e = f - 59 /\ ~(d.month <= 2) /\ d.month > 2
            BY <2>3, <2>6
        <3>2. CivilDays(d) = 365 * d.year + now + e + d.day - 1 - 719468 /\ months = f + leap
            BY <1>2, <1>5, <2>4, <3>1 DEF leap
        <3> HIDE DEF e, f
        <3> QED
            BY <1>1, <1>3, <2>4, <3>1, <3>2
    <2> QED
        BY <2>1, <2>5, <2>6
<1> QED
    BY <1>4, <1>7

LEMMA PaddedWidths ==
    ASSUME NEW f \in PaddedFields
    PROVE  f.width \in 2 .. 4 /\ f.max \in Nat /\ f.max < MaxValues(f.width)
<1>1. ASSUME NEW w \in 2 .. 4, NEW m \in Nat, f = Field(w, m), m < MaxValues(w)
      PROVE  f.width \in 2 .. 4 /\ f.max \in Nat /\ f.max < MaxValues(f.width)
    BY <1>1 DEF Field
<1>2. \/ f = Field(4, 9999) \/ f = Field(2, 12) \/ f = Field(2, 31)
      \/ f = Field(2, 23) \/ f = Field(2, 59) \/ f = Field(3, 999)
    BY DEF PaddedFields
<1>3. 9999 < MaxValues(4) /\ 12 < MaxValues(2) /\ 31 < MaxValues(2) /\ 23 < MaxValues(2)
      /\ 59 < MaxValues(2) /\ 999 < MaxValues(3)
    BY MaxValuesAre
<1>4. 4 \in 2 .. 4 /\ 2 \in 2 .. 4 /\ 3 \in 2 .. 4 /\ 9999 \in Nat /\ 12 \in Nat /\ 31 \in Nat
      /\ 23 \in Nat /\ 59 \in Nat /\ 999 \in Nat
    OBVIOUS
<1> QED
    BY <1>1, <1>2, <1>3, <1>4

LEMMA PlainWidths ==
    ASSUME NEW f \in PlainFields
    PROVE  /\ (f.width = 6 /\ f.max = 999999) \/ (f.width = 10 /\ f.max = MaxTid)
           /\ f \notin PaddedFields
<1>1. f = Field(6, 999999) \/ f = Field(10, MaxTid)
    BY DEF PlainFields
<1>2. ASSUME NEW w, NEW m, f = Field(w, m) PROVE f.width = w /\ f.max = m
    BY <1>2 DEF Field
<1>3. (f.width = 6 /\ f.max = 999999) \/ (f.width = 10 /\ f.max = MaxTid)
    <2>1. CASE f = Field(6, 999999)
        BY <1>2, <2>1
    <2>2. CASE f = Field(10, MaxTid)
        BY <1>2, <2>2
    <2> QED
        BY <1>1, <2>1, <2>2
<1>4. f \notin PaddedFields
    BY <1>3, PaddedWidths
<1> QED
    BY <1>3, <1>4

LEMMA PaddedPrinted ==
    ASSUME NEW call, call.field \in PaddedFields, call.value \in Nat, call.value <= call.field.max
    PROVE  LET digits == NumToStr(call) IN
           Value(digits) = call.value /\ digits \in Seq(0 .. 9) /\ Len(digits) = call.field.width
<1>1. PICK width, max, value : width = call.field.width /\ max = call.field.max /\ value = call.value
    OBVIOUS
<1>2. value \in Nat /\ value <= max
    BY <1>1
<1>3. width \in 2 .. 4 /\ max \in Nat /\ max < MaxValues(width)
    BY <1>1, PaddedWidths
<1>4. width \in 1 .. 9 /\ width \in 0 .. 10
    BY <1>3
<1>5. MaxValues(width) \in Nat
    BY <1>4, Tens
<1>6. value < MaxValues(width)
    BY <1>2, <1>3, <1>5
<1> DEFINE digits == PaddedDigits(value, width)
<1>7. digits \in Seq(0 .. 9) /\ Len(digits) = width /\ Value(digits) = value
    BY <1>2, <1>4, <1>6, PaddedIs
<1>8. NumToStr(call) = digits
    BY <1>1 DEF NumToStr
<1> HIDE DEF digits
<1> QED
    BY <1>1, <1>7, <1>8

LEMMA PlainPrinted ==
    ASSUME NEW call, call.field \in PlainFields, call.value \in Nat, call.value <= call.field.max,
           call.value < MaxValues(9)
    PROVE  LET digits == NumToStr(call) IN
           /\ Value(digits) = call.value /\ digits \in Seq(0 .. 9)
           /\ Len(digits) \in 1 .. call.field.width
           /\ digits[1] = 0 => Len(digits) = 1
<1>1. PICK width, max, value : width = call.field.width /\ max = call.field.max /\ value = call.value
    OBVIOUS
<1>2. value \in Nat /\ value <= max /\ value < MaxValues(9)
    BY <1>1
<1>3. (width = 6 /\ max = 999999) \/ width = 10
    BY <1>1, PlainWidths
<1>4. call.field \notin PaddedFields
    BY PlainWidths
<1>5. width \in 1 .. 10
    BY <1>3
<1>6. value < MaxValues(width)
    <2>1. CASE width = 6 /\ max = 999999
        BY <1>2, <2>1, MaxValuesAre
    <2>2. CASE width = 10
        <3>1. MaxValues(10) = MaxValues(9)
            BY MaxValuesAre
        <3> QED
            BY <1>2, <2>2, <3>1
    <2> QED
        BY <1>3, <2>1, <2>2
<1> DEFINE digits == PlainDigits(value, width)
<1>7. /\ digits \in Seq(0 .. 9) /\ Len(digits) \in 1 .. width /\ Value(digits) = value
      /\ digits[1] = 0 => Len(digits) = 1
    BY <1>2, <1>5, <1>6, PlainIs
<1>8. NumToStr(call) = digits
    BY <1>1, <1>4 DEF NumToStr
<1> HIDE DEF digits
<1> QED
    BY <1>1, <1>7, <1>8

\* FieldsRendered (clog_num_to_str, clog_timestamp_of_datetime), for every number, every
\* date since 1970 and any greatest thread id.
THEOREM FieldsAreRendered ==
    fieldCall \in NumberCalls(Nat) \cup DateCalls(Nat \ 0 .. 1969, Nat, Nat) \cup {NULL} => FieldsRendered
<1> SUFFICES ASSUME fieldCall \in NumberCalls(Nat) \cup DateCalls(Nat \ 0 .. 1969, Nat, Nat), fieldCall # NULL
             PROVE  FieldsRendered
    BY DEF FieldsRendered
<1>1. CASE fieldCall \in NumberCalls(Nat)
    <2>1. /\ "value" \in DOMAIN fieldCall /\ fieldCall.value \in Nat
          /\ fieldCall.field \in PaddedFields \cup PlainFields
          /\ fieldCall.value <= fieldCall.field.max
        BY <1>1 DEF NumberCalls
    <2>2. MaxValues(9) = 1000000000
        BY MaxValuesAre
    <2>3. CASE fieldCall.field \in PaddedFields
        BY <2>1, <2>3, PaddedPrinted DEF FieldsRendered
    <2>4. CASE fieldCall.field \in PlainFields
        <3>1. fieldCall.field \notin PaddedFields
            BY <2>4, PlainWidths
        <3>2. fieldCall.value < 1000000000 => fieldCall.value < MaxValues(9)
            BY <2>2
        <3> QED
            BY <2>1, <2>4, <3>1, <3>2, PlainPrinted DEF FieldsRendered
    <2> QED
        BY <2>1, <2>3, <2>4
<1>2. CASE fieldCall \in DateCalls(Nat \ 0 .. 1969, Nat, Nat)
    <2>1. /\ "value" \notin DOMAIN fieldCall
          /\ fieldCall.year \in Nat /\ fieldCall.year >= 1970 /\ fieldCall.month \in 1 .. 12
          /\ fieldCall.day \in Nat /\ fieldCall.minute \in Nat
        BY <1>2 DEF DateCalls
    <2>2. TimestampOf(fieldCall, 480) = 1440 * CivilDays(fieldCall) + fieldCall.minute - 480
        BY <2>1, DatesCounted
    <2> QED
        BY <2>1, <2>2 DEF FieldsRendered
<1> QED
    BY <1>1, <1>2

--------------------------------------------------------------------------------
(* Templates                                                                *)

\* The loops of the code and of what is expected of it.
CopySteps == INSTANCE SequenceFolds WITH Op <- CopyMark
RenderSteps == INSTANCE SequenceFolds WITH Op <- Render
ParseTo(f, p, k) == ParseNode(f, p)
ParseSteps == INSTANCE SequenceFolds WITH Op <- ParseTo
WriteSteps == INSTANCE SequenceFolds WITH Op <- WriteNode
ExpandSteps == INSTANCE SequenceFolds WITH Op <- Expanded

FormatTexts == Seq(Marks \cup {"v"})

LEMMA TextFacts ==
    /\ <<>> \in FormatTexts
    /\ \A a, b \in FormatTexts : a \o b \in FormatTexts /\ Len(a \o b) = Len(a) + Len(b)
    /\ \A a \in FormatTexts : a \o <<>> = a /\ Len(a) \in Nat
    /\ \A a, b, c \in FormatTexts : (a \o b) \o c = a \o (b \o c)
    /\ \A n \in Nat : Shown(n) \in FormatTexts /\ Len(Shown(n)) = n
<1> PICK S : S = Marks \cup {"v"}
    OBVIOUS
<1>1. FormatTexts = Seq(S) /\ "v" \in S
    BY DEF FormatTexts
<1>2. <<>> \in FormatTexts
    BY <1>1
<1>3. ASSUME NEW a \in FormatTexts PROVE a \o <<>> = a /\ Len(a) \in Nat
    BY <1>1, ConcatEmptySeq
<1>4. ASSUME NEW a \in FormatTexts, NEW b \in FormatTexts
      PROVE  a \o b \in FormatTexts /\ Len(a \o b) = Len(a) + Len(b)
    BY <1>1, ConcatProperties
<1>5. ASSUME NEW a \in FormatTexts, NEW b \in FormatTexts, NEW c \in FormatTexts
      PROVE  (a \o b) \o c = a \o (b \o c)
    BY <1>1, ConcatAssociative
<1>6. ASSUME NEW n \in Nat PROVE Shown(n) \in FormatTexts /\ Len(Shown(n)) = n
    BY <1>1 DEF Shown
<1> QED
    BY <1>2, <1>3, <1>4, <1>5, <1>6

LEMMA EarliestIs ==
    ASSUME NEW T \in SUBSET Nat, T # {}
    PROVE  Earliest(T) \in T /\ \A k \in T : Earliest(T) <= k
<1>1. \E m \in T : \A k \in T : m <= k
    BY LeastNumber
<1> QED
    BY <1>1 DEF Earliest

LEMMA PlaceholderEndIs ==
    ASSUME NEW f \in Seq(Marks), NEW i \in 1 .. Len(f)
    PROVE  LET end == PlaceholderEnd(f, i) IN
           \/ end = 0
           \/ end \in i + 2 .. Len(f) /\ f[end] = "}" /\ \A k \in i + 1 .. end - 1 : f[k] \in NameMarks
<1> DEFINE ends == {j \in i + 2 .. Len(f) : f[j] = "}" /\ \A k \in i + 1 .. j - 1 : f[k] \in NameMarks}
<1>1. ends \in SUBSET Nat
    <2>1. i + 2 .. Len(f) \subseteq Nat
        OBVIOUS
    <2> QED
        BY <2>1
<1>2. CASE ends = {}
    BY <1>2 DEF PlaceholderEnd
<1>3. CASE ends # {}
    <2>1. PlaceholderEnd(f, i) = Earliest(ends)
        BY <1>3 DEF PlaceholderEnd
    <2>2. Earliest(ends) \in ends
        <3> HIDE DEF ends
        <3> QED
            BY <1>1, <1>3, EarliestIs
    <2> QED
        BY <2>1, <2>2
<1> QED
    BY <1>2, <1>3

LEMMA PlaceholderEndNat ==
    ASSUME NEW f \in Seq(Marks), NEW i \in 1 .. Len(f)
    PROVE  PlaceholderEnd(f, i) \in 0 .. Len(f)
<1>1. PICK end : end = PlaceholderEnd(f, i)
    OBVIOUS
<1>2. end = 0 \/ end \in i + 2 .. Len(f)
    BY <1>1, PlaceholderEndIs
<1>3. Len(f) \in Nat /\ i \in Nat
    OBVIOUS
<1>4. end \in 0 .. Len(f)
    BY <1>2, <1>3
<1> QED
    BY <1>1, <1>4

LEMMA NameIs ==
    ASSUME NEW f \in Seq(Marks), NEW i \in 1 .. Len(f), PlaceholderEnd(f, i) # 0
    PROVE  PlaceholderName(f, i) \in FormatTexts
<1>1. PICK end : end = PlaceholderEnd(f, i)
    OBVIOUS
<1>2. end \in i + 2 .. Len(f)
    BY <1>1, PlaceholderEndIs
<1>3. end \in Nat /\ i + 1 \in 1 .. Len(f) /\ end - 1 \in 1 .. Len(f)
    BY <1>2
<1>4. SubSeq(f, i + 1, end - 1) \in Seq(Marks)
    BY <1>3, SubSeqProperties
<1>5. Seq(Marks) \subseteq FormatTexts
    <2> PICK S : S = Marks
        OBVIOUS
    <2>1. \A x \in Seq(S) : x \in Seq(S \cup {"v"})
        OBVIOUS
    <2> QED
        BY <2>1 DEF FormatTexts
<1> QED
    BY <1>1, <1>4, <1>5 DEF PlaceholderName

LEMMA WidthIs == ASSUME NEW name, NEW value \in Nat PROVE Width(name, value) \in Nat
BY DEF Width

\* A brace with a meaning, one that opens a placeholder, a backslash that goes.
Opening(f, k) == Means(f, k, "{")
EscapeMark(f, k) == f[k] = "\\" /\ k < Len(f) /\ f[k + 1] \in {"{", "}"}
Brace(f, k) == Means(f, k, "{") \/ Means(f, k, "}")

LEMMA TextEndIs ==
    ASSUME NEW f \in Seq(Marks), NEW i \in 1 .. Len(f)
    PROVE  LET end == TextEnd(f, i) IN
           /\ end \in i .. Len(f) + 1
           /\ \A k \in i .. end - 1 : ~Brace(f, k)
           /\ end <= Len(f) => Brace(f, end)
<1> DEFINE stops == {k \in i .. Len(f) : f[k] \in {"{", "}"} /\ ~Escaped(f, k)}
<1>1. stops \subseteq i .. Len(f)
    OBVIOUS
<1>2. stops \in SUBSET Nat /\ \A k \in i .. Len(f) : k \in stops <=> Brace(f, k)
    <2>1. i .. Len(f) \subseteq Nat
        OBVIOUS
    <2>2. \A k : f[k] \in {"{", "}"} /\ ~Escaped(f, k) <=> Brace(f, k)
        BY DEF Brace, Means, Escaped
    <2> QED
        BY <1>1, <2>1, <2>2
<1>3. TextEnd(f, i) = IF stops = {} THEN Len(f) + 1 ELSE Earliest(stops)
    BY DEF TextEnd
<1> HIDE DEF stops
<1>4. CASE stops = {}
    <2>1. TextEnd(f, i) = Len(f) + 1 /\ Len(f) + 1 \in i .. Len(f) + 1 /\ ~(Len(f) + 1 <= Len(f))
        BY <1>3, <1>4
    <2>2. \A k \in i .. Len(f) + 1 - 1 : ~Brace(f, k)
        BY <1>2, <1>4
    <2> QED
        BY <2>1, <2>2
<1>5. CASE stops # {}
    <2> DEFINE end == Earliest(stops)
    <2>1. end \in stops /\ \A k \in stops : end <= k
        BY <1>2, <1>5, EarliestIs
    <2>2. end \in i .. Len(f)
        BY <1>1, <2>1
    <2>3. end \in i .. Len(f) + 1 /\ Brace(f, end)
        BY <1>2, <2>1, <2>2
    <2>4. \A k \in i .. end - 1 : k \in i .. Len(f) /\ ~(end <= k)
        BY <2>2
    <2>5. \A k \in i .. end - 1 : ~Brace(f, k)
        <3>1. \A k \in i .. end - 1 : k \in i .. Len(f) /\ k \notin stops
            BY <2>1, <2>4
        <3> QED
            BY <1>2, <3>1
    <2> QED
        BY <1>3, <1>5, <2>3, <2>5
<1> QED
    BY <1>4, <1>5

\* What the marks stand for, from the first on.
Rendered(R, call) ==
    /\ R[0] = <<>>
    /\ \A k \in 1 .. Len(call.template) :
         R[k] = R[k - 1] \o Stands(call.template, k, call.value)

LEMMA StandsFacts ==
    ASSUME NEW f \in Seq(Marks), NEW k \in 1 .. Len(f), NEW value \in Nat
    PROVE  Stands(f, k, value) \in FormatTexts
<1>1. Shown(Width(PlaceholderName(f, k), value)) \in FormatTexts
    BY WidthIs, TextFacts
<1>2. <<>> \in FormatTexts /\ <<f[k]>> \in FormatTexts
    BY DEF FormatTexts
<1> HIDE DEF FormatTexts
<1> QED
    BY <1>1, <1>2 DEF Stands

LEMMA RenderingIs ==
    ASSUME NEW call, call.template \in Seq(Marks), call.value \in Nat
    PROVE  \E R \in [0 .. Len(call.template) -> FormatTexts] :
               Rendered(R, call) /\ Rendering(call) = R[Len(call.template)]
<1> DEFINE n == Len(call.template)
           s == [k \in 1 .. n |-> k]
           A == FormatTexts
           Z == 1 .. n
<1>1. n \in Nat /\ s \in Seq(Z) /\ Len(s) = n /\ <<>> \in A /\ \A k \in 1 .. n : s[k] = k
    BY DEF FormatTexts
<1>2. RenderSteps!Keeps(call, A, Z)
    <2> SUFFICES ASSUME NEW a \in A, NEW k \in Z PROVE Render(call, a, k) \in A
        BY DEF RenderSteps!Keeps
    <2>1. Stands(call.template, k, call.value) \in FormatTexts
        BY StandsFacts
    <2> QED
        BY <2>1, ConcatProperties DEF FormatTexts, Render
<1>3. RenderSteps!Fold(call, <<>>, s) = Rendering(call)
    BY DEF RenderSteps!Fold, RenderSteps!FoldLeft, RenderSteps!MapThenFoldSet, RenderSteps!Max,
           FoldLeft, MapThenFoldSet, Max, Rendering
<1> HIDE DEF A, Z, s
<1>4. PICK R \in [0 .. Len(s) -> A] :
        RenderSteps!Steps(R, call, <<>>, s) /\ RenderSteps!Fold(call, <<>>, s) = R[Len(s)]
    BY <1>1, <1>2, RenderSteps!Partial
<1>5. Rendered(R, call)
    BY <1>1, <1>4 DEF RenderSteps!Steps, Render, Rendered
<1> QED
    BY <1>1, <1>3, <1>4, <1>5 DEF A

LEMMA UnescapedIs ==
    ASSUME NEW f \in Seq(Marks), NEW i \in 1 .. Len(f), NEW end \in i .. Len(f) + 1
    PROVE  \E U \in [0 .. end - i -> FormatTexts] :
               /\ U[0] = <<>> /\ Unescaped(f, i, end) = U[end - i]
               /\ \A k \in 1 .. end - i : U[k] = CopyMark(f, U[k - 1], i + k - 1)
<1> DEFINE n == end - i
           s == [k \in 1 .. n |-> i + k - 1]
           A == FormatTexts
           Z == 1 .. Len(f)
<1>1. n \in Nat /\ s \in Seq(Z) /\ Len(s) = n /\ <<>> \in A /\ \A k \in 1 .. n : s[k] = i + k - 1
    BY DEF FormatTexts
<1>2. CopySteps!Keeps(f, A, Z)
    <2> SUFFICES ASSUME NEW a \in A, NEW k \in Z PROVE CopyMark(f, a, k) \in A
        BY DEF CopySteps!Keeps
    <2>1. f[k] \in Marks \cup {"v"}
        OBVIOUS
    <2>2. Append(a, f[k]) \in A
        BY <2>1, AppendProperties DEF FormatTexts
    <2> HIDE DEF A
    <2> QED
        BY <2>2 DEF CopyMark
<1>3. CopySteps!Fold(f, <<>>, s) = Unescaped(f, i, end)
    BY DEF CopySteps!Fold, CopySteps!FoldLeft, CopySteps!MapThenFoldSet, CopySteps!Max,
           FoldLeft, MapThenFoldSet, Max, Unescaped
<1> HIDE DEF A, Z, s
<1>4. PICK U \in [0 .. Len(s) -> A] :
        CopySteps!Steps(U, f, <<>>, s) /\ CopySteps!Fold(f, <<>>, s) = U[Len(s)]
    <2>1. <<>> \in A /\ s \in Seq(Z)
        BY <1>1
    <2>2. \A base \in A, t \in Seq(Z) : \E U \in [0 .. Len(t) -> A] :
            CopySteps!Steps(U, f, base, t) /\ CopySteps!Fold(f, base, t) = U[Len(t)]
        BY <1>2, CopySteps!Partial
    <2> QED
        BY <2>1, <2>2
<1>5. U[0] = <<>> /\ \A k \in 1 .. n : U[k] = CopyMark(f, U[k - 1], i + k - 1)
    BY <1>1, <1>4 DEF CopySteps!Steps
<1> QED
    BY <1>1, <1>3, <1>4, <1>5 DEF A

\* Where a piece of the template begins: no placeholder reaches there and no
\* backslash stands before it.
Piece(f, i) ==
    /\ \A j \in 1 .. i - 1 : Opening(f, j) => PlaceholderEnd(f, j) < i
    /\ i <= Len(f) => ~Escaped(f, i)

LEMMA TextStands ==
    ASSUME NEW f \in Seq(Marks), NEW i \in 1 .. Len(f), Piece(f, i), NEW value \in Nat,
           NEW k \in i .. TextEnd(f, i) - 1
    PROVE  Stands(f, k, value) = IF EscapeMark(f, k) THEN <<>> ELSE <<f[k]>>
<1> DEFINE end == TextEnd(f, i)
<1>1. end \in i .. Len(f) + 1 /\ \A j \in i .. end - 1 : ~Brace(f, j)
    BY TextEndIs
<1> HIDE DEF end
<1>2. k \in i .. Len(f) /\ k \in i .. end - 1
    BY <1>1 DEF end
<1>3. ~Opening(f, k) /\ \A j \in i .. end - 1 : ~Opening(f, j)
    <2>1. \A j : Opening(f, j) => Brace(f, j)
        BY DEF Brace, Opening
    <2> QED
        BY <1>1, <1>2, <2>1
<1>4. ASSUME NEW j \in 1 .. k - 1, Opening(f, j), k <= PlaceholderEnd(f, j) PROVE FALSE
    <2>1. CASE j < i
        <3>1. j \in 1 .. i - 1 /\ j \in 1 .. Len(f) /\ i \in Nat /\ k \in Nat /\ i <= k
            BY <1>2, <2>1
        <3>2. PlaceholderEnd(f, j) < i
            BY <1>4, <3>1 DEF Piece
        <3>3. PICK last : last = PlaceholderEnd(f, j)
            OBVIOUS
        <3>4. last \in 0 .. Len(f) /\ last < i /\ k <= last
            BY <1>4, <3>1, <3>2, <3>3, PlaceholderEndNat
        <3> QED
            BY <3>1, <3>4
    <2>2. CASE ~(j < i)
        <3>1. j \in i .. end - 1
            BY <1>1, <1>2, <2>2
        <3> QED
            BY <1>3, <1>4, <3>1
    <2> QED
        BY <2>1, <2>2
<1> QED
    BY <1>3, <1>4 DEF Stands, EscapeMark, Opening

LEMMA TextRendered ==
    ASSUME NEW call, call.template \in Seq(Marks), call.value \in Nat,
           NEW R \in [0 .. Len(call.template) -> FormatTexts], Rendered(R, call),
           NEW i \in 1 .. Len(call.template), Piece(call.template, i)
    PROVE  LET end == TextEnd(call.template, i)
               text == Unescaped(call.template, i, end)
           IN text \in FormatTexts /\ R[end - 1] = R[i - 1] \o text
<1> DEFINE f == call.template
           end == TextEnd(f, i)
<1>1. end \in i .. Len(f) + 1 /\ f \in Seq(Marks) /\ i \in 1 .. Len(f) /\ Len(f) \in Nat
    BY TextEndIs
<1>2. \A k \in i .. end - 1 : Stands(f, k, call.value) = IF EscapeMark(f, k) THEN <<>> ELSE <<f[k]>>
    BY TextStands
<1>3. \A k \in 1 .. Len(f) : R[k] = R[k - 1] \o Stands(f, k, call.value)
    BY DEF Rendered
<1> HIDE DEF f, end
<1>4. PICK U \in [0 .. end - i -> FormatTexts] :
        /\ U[0] = <<>> /\ Unescaped(f, i, end) = U[end - i]
        /\ \A k \in 1 .. end - i : U[k] = CopyMark(f, U[k - 1], i + k - 1)
    BY <1>1, UnescapedIs
<1> DEFINE n == end - i
           Same == {k \in 0 .. n : R[i - 1 + k] = R[i - 1] \o U[k]}
<1>5. n \in Nat /\ n \in 0 .. n /\ i - 1 \in 0 .. Len(f) /\ i - 1 + n = end - 1 /\ i - 1 + 0 = i - 1 /\ 0 \in 0 .. n
    BY <1>1
<1>6. R[i - 1] \in FormatTexts
    BY <1>5 DEF f
<1>7. 0 \in Same
    <2>1. R[i - 1] \o <<>> = R[i - 1]
        BY <1>6, TextFacts
    <2> QED
        BY <1>4, <1>5, <2>1
<1>8. ASSUME NEW k \in 1 .. n, k - 1 \in Same PROVE k \in Same
    <2> DEFINE m == i + k - 1
    <2>1. /\ m \in 1 .. Len(f) /\ m \in i .. end - 1 /\ k \in 0 .. n /\ k - 1 \in 0 .. n
          /\ i - 1 + k = m /\ i - 1 + (k - 1) = m - 1
        BY <1>1, <1>5
    <2> HIDE DEF m
    <2>2. R[m] = R[m - 1] \o Stands(f, m, call.value) /\ R[m - 1] = R[i - 1] \o U[k - 1]
        BY <1>3, <1>8, <2>1
    <2>3. U[k] = CopyMark(f, U[k - 1], m) /\ U[k - 1] \in FormatTexts
        BY <1>4, <2>1 DEF m
    <2>4. R[i - 1] \o U[k - 1] \in FormatTexts
        BY <1>6, <2>3, TextFacts
    <2>5. CASE EscapeMark(f, m)
        <3>1. Stands(f, m, call.value) = <<>> /\ U[k] = U[k - 1]
            BY <1>2, <2>1, <2>3, <2>5 DEF EscapeMark, CopyMark
        <3>2. R[m] = R[i - 1] \o U[k - 1]
            BY <2>2, <2>4, <3>1, TextFacts
        <3> QED
            BY <2>1, <3>1, <3>2
    <2>6. CASE ~EscapeMark(f, m)
        <3>1. Stands(f, m, call.value) = <<f[m]>> /\ U[k] = Append(U[k - 1], f[m])
            BY <1>2, <2>1, <2>3, <2>6 DEF EscapeMark, CopyMark
        <3>2. f[m] \in Marks \cup {"v"}
            BY <1>1, <2>1
        <3>3. <<f[m]>> \in FormatTexts /\ Append(U[k - 1], f[m]) = U[k - 1] \o <<f[m]>>
            <4>1. PICK mark \in Marks \cup {"v"} : mark = f[m]
                BY <3>2
            <4>2. <<mark>> \in Seq(Marks \cup {"v"})
                OBVIOUS
            <4>3. Append(U[k - 1], mark) = U[k - 1] \o <<mark>>
                BY <2>3, AppendIsConcat DEF FormatTexts
            <4> QED
                BY <4>1, <4>2, <4>3 DEF FormatTexts
        <3>4. (R[i - 1] \o U[k - 1]) \o <<f[m]>> = R[i - 1] \o (U[k - 1] \o <<f[m]>>)
            <4>1. R[i - 1] \in FormatTexts /\ U[k - 1] \in FormatTexts /\ <<f[m]>> \in FormatTexts
                BY <1>6, <2>3, <3>3
            <4>2. \A a, b, c \in FormatTexts : (a \o b) \o c = a \o (b \o c)
                BY TextFacts
            <4> QED
                BY <4>1, <4>2
        <3>5. R[m] = R[i - 1] \o U[k]
            BY <2>2, <3>1, <3>3, <3>4
        <3> QED
            BY <2>1, <3>5
    <2> QED
        BY <2>5, <2>6
<1> HIDE DEF Same
<1>9. 0 .. n \subseteq Same
    BY <1>5, <1>7, <1>8, CopySteps!FromZero
<1>10. R[end - 1] = R[i - 1] \o U[n]
    BY <1>5, <1>9 DEF Same
<1>11. U[n] \in FormatTexts
    BY <1>4, <1>5
<1> QED
    BY <1>4, <1>10, <1>11 DEF f, end

LEMMA OneMoreOneLess ==
    ASSUME NEW a \in Int, NEW b \in Int, NEW k \in a .. b
    PROVE  (k + 1) - 1 = k
OBVIOUS

LEMMA PlacesAreNumbers ==
    ASSUME NEW S, NEW f \in Seq(S), NEW i \in 1 .. Len(f)
    PROVE  i + 2 \in Int /\ Len(f) \in Int
OBVIOUS

\* Within a placeholder no other begins, and no backslash ends it.
LEMMA PlaceholderFacts ==
    ASSUME NEW f \in Seq(Marks), NEW i \in 1 .. Len(f), NEW end, end = PlaceholderEnd(f, i), end # 0
    PROVE  /\ end \in i + 2 .. Len(f) /\ \A k \in i + 1 .. end : ~Opening(f, k)
           /\ ~Escaped(f, end + 1)
<1>1. end \in i + 2 .. Len(f) /\ f[end] = "}" /\ \A k \in i + 1 .. end - 1 : f[k] \in NameMarks
    BY PlaceholderEndIs
<1>2. \A k \in i + 1 .. end : k = end \/ k \in i + 1 .. end - 1
    <2>1. end \in i + 2 .. Len(f)
        BY <1>1
    <2> QED
        BY <2>1
<1>3. \A k \in i + 1 .. end : ~Opening(f, k)
    <2>1. \A k \in i + 1 .. end : f[k] = "}" \/ f[k] \in NameMarks
        BY <1>1, <1>2
    <2>2. \A k : f[k] = "}" \/ f[k] \in NameMarks => ~Opening(f, k)
        BY DEF Opening, Means, NameMarks
    <2> QED
        BY <2>1, <2>2
<1>4. (end + 1) - 1 = end
    <2>1. i + 2 \in Int /\ Len(f) \in Int
        BY PlacesAreNumbers
    <2>2. end \in i + 2 .. Len(f)
        BY <1>1
    <2> QED
        BY <2>1, <2>2, OneMoreOneLess
<1>5. ~Escaped(f, end + 1)
    <2>1. f[(end + 1) - 1] = "}"
        BY <1>1, <1>4
    <2>2. f[(end + 1) - 1] # "\\"
        BY <2>1
    <2> QED
        BY <2>2 DEF Escaped
<1> QED
    BY <1>1, <1>3, <1>5

LEMMA PlaceholderRendered ==
    ASSUME NEW call, call.template \in Seq(Marks), call.value \in Nat,
           NEW R \in [0 .. Len(call.template) -> FormatTexts], Rendered(R, call),
           NEW i \in 1 .. Len(call.template), Opening(call.template, i),
           NEW end, end = PlaceholderEnd(call.template, i), end # 0
    PROVE  R[end] = R[i - 1] \o Shown(Width(PlaceholderName(call.template, i), call.value))
<1> PICK v : v = Width(PlaceholderName(call.template, i), call.value)
    OBVIOUS
<1> DEFINE f == call.template
<1>1. f \in Seq(Marks) /\ i \in 1 .. Len(f) /\ Len(f) \in Nat /\ end = PlaceholderEnd(f, i)
    OBVIOUS
<1>2. Stands(f, i, call.value) = Shown(v) /\ Opening(f, i)
    BY DEF Stands, Opening
<1>3. \A k \in 1 .. Len(f) : R[k] = R[k - 1] \o Stands(f, k, call.value)
    BY DEF Rendered
<1> HIDE DEF f
<1>4. end \in i + 2 .. Len(f) /\ \A k \in i + 1 .. end : ~Opening(f, k)
    BY <1>1, PlaceholderFacts
<1>5. ASSUME NEW k \in i + 1 .. end PROVE Stands(f, k, call.value) = <<>>
    <2>1. ~Opening(f, k)
        BY <1>4
    <2>2. i \in 1 .. k - 1 /\ k <= end
        <3>1. i \in Nat /\ i >= 1 /\ Len(f) \in Nat
            BY <1>1
        <3>2. end \in i + 2 .. Len(f)
            BY <1>4
        <3> QED
            BY <3>1, <3>2
    <2>3. k <= PlaceholderEnd(f, i)
        BY <1>1, <2>2
    <2> QED
        BY <1>2, <2>1, <2>2, <2>3 DEF Stands, Opening
<1> DEFINE n == end - i
           Same == {k \in 0 .. n : R[i + k] = R[i - 1] \o Shown(v)}
<1>6. /\ n \in Nat /\ n \in 0 .. n /\ 0 \in 0 .. n /\ i + 0 = i /\ i + n = end
      /\ i - 1 \in 0 .. Len(f) /\ end \in 1 .. Len(f)
    <2>1. end \in i + 2 .. Len(f)
        BY <1>4
    <2>2. i \in Nat /\ i >= 1 /\ i <= Len(f) /\ Len(f) \in Nat
        BY <1>1
    <2> HIDE DEF n
    <2>3. n = end - i
        BY DEF n
    <2> QED
        BY <2>1, <2>2, <2>3
<1>7. 0 \in Same
    BY <1>1, <1>2, <1>3, <1>6
<1>8. R[i - 1] \o Shown(v) \in FormatTexts
    <2>1. R[i - 1] \in FormatTexts
        BY <1>6 DEF f
    <2>2. v \in Nat
        BY WidthIs
    <2> QED
        BY <2>1, <2>2, TextFacts
<1>9. ASSUME NEW k \in 1 .. n, k - 1 \in Same PROVE k \in Same
    <2>1. /\ i + k \in 1 .. Len(f) /\ i + k \in i + 1 .. end /\ k \in 0 .. n
          /\ i + (k - 1) = (i + k) - 1
        BY <1>1, <1>6
    <2>2. R[(i + k) - 1] = R[i - 1] \o Shown(v)
        BY <1>9, <2>1
    <2>3. R[i + k] = R[(i + k) - 1] \o <<>>
        BY <1>3, <1>5, <2>1
    <2>4. R[i + k] = R[i - 1] \o Shown(v)
        BY <1>8, <2>2, <2>3, TextFacts
    <2> QED
        BY <2>1, <2>4
<1> HIDE DEF Same
<1>10. 0 .. n \subseteq Same
    BY <1>6, <1>7, <1>9, CopySteps!FromZero
<1> QED
    BY <1>6, <1>10 DEF Same

--------------------------------------------------------------------------------
LEMMA BraceFacts ==
    ASSUME NEW f \in Seq(Marks), NEW k \in 1 .. Len(f)
    PROVE  /\ Opening(f, k) <=> f[k] = "{" /\ ~Escaped(f, k)
           /\ Brace(f, k) => ~Escaped(f, k)
           /\ Brace(f, k) /\ f[k] = "}" => ~Opening(f, k) /\ Means(f, k, "}")
           /\ Brace(f, k) /\ f[k] # "}" => Opening(f, k)
BY DEF Opening, Brace, Means, Escaped

\* The next piece of a template.
LEMMA PlaceholderPiece ==
    ASSUME NEW f \in Seq(Marks), NEW i \in 1 .. Len(f), Piece(f, i),
           NEW end, end = PlaceholderEnd(f, i), end # 0
    PROVE  Piece(f, end + 1)
<1>1. end \in i + 2 .. Len(f) /\ ~Escaped(f, end + 1)
    BY PlaceholderFacts
<1>2. \A k \in i + 1 .. end : ~Opening(f, k)
    BY PlaceholderFacts
<1>3. ASSUME NEW j \in 1 .. (end + 1) - 1, Opening(f, j) PROVE PlaceholderEnd(f, j) < end + 1
    <2>1. j \in 1 .. i - 1 \/ j = i \/ j \in i + 1 .. end
        BY <1>1
    <2>2. CASE j \in 1 .. i - 1
        <3>1. PICK last : last = PlaceholderEnd(f, j)
            OBVIOUS
        <3>2. last < i
            BY <1>3, <2>2, <3>1 DEF Piece
        <3>3. j \in 1 .. Len(f)
            BY <2>2
        <3>4. last \in 0 .. Len(f)
            BY <3>1, <3>3, PlaceholderEndNat
        <3>5. last < end + 1
            BY <1>1, <3>2, <3>4
        <3> QED
            BY <3>1, <3>5
    <2>3. CASE j = i
        <3>1. end < end + 1
            BY <1>1
        <3> QED
            BY <2>3, <3>1
    <2>4. CASE j \in i + 1 .. end
        BY <1>2, <1>3, <2>4
    <2> QED
        BY <2>1, <2>2, <2>3, <2>4
<1> QED
    BY <1>1, <1>3 DEF Piece

LEMMA TextPiece ==
    ASSUME NEW f \in Seq(Marks), NEW i \in 1 .. Len(f), Piece(f, i), NEW end, end = TextEnd(f, i)
    PROVE  /\ end \in i .. Len(f) + 1 /\ Piece(f, end)
           /\ \A k \in i .. end - 1 : ~Opening(f, k)
<1>1. end \in i .. Len(f) + 1
    BY TextEndIs
<1>2. \A k \in i .. end - 1 : ~Opening(f, k)
    <2>1. \A k : Opening(f, k) => Brace(f, k)
        BY DEF Brace, Opening
    <2>2. \A k \in i .. end - 1 : ~Brace(f, k)
        BY TextEndIs
    <2> QED
        BY <2>1, <2>2
<1>3. ASSUME NEW j \in 1 .. end - 1, Opening(f, j) PROVE PlaceholderEnd(f, j) < end
    <2>1. j \in 1 .. i - 1 \/ j \in i .. end - 1
        BY <1>1
    <2>2. CASE j \in 1 .. i - 1
        <3>1. PICK last : last = PlaceholderEnd(f, j)
            OBVIOUS
        <3>2. last < i
            BY <1>3, <2>2, <3>1 DEF Piece
        <3>3. j \in 1 .. Len(f)
            BY <2>2
        <3>4. last \in 0 .. Len(f)
            BY <3>1, <3>3, PlaceholderEndNat
        <3>5. last < end
            BY <1>1, <3>2, <3>4
        <3> QED
            BY <3>1, <3>5
    <2>3. CASE j \in i .. end - 1
        BY <1>2, <1>3, <2>3
    <2> QED
        BY <2>1, <2>2, <2>3
<1>4. ASSUME end <= Len(f) PROVE ~Escaped(f, end)
    <2>1. end \in 1 .. Len(f)
        BY <1>1, <1>4
    <2>2. Brace(f, end)
        BY <1>4, TextEndIs
    <2> QED
        BY <2>1, <2>2, BraceFacts
<1> QED
    BY <1>1, <1>2, <1>3, <1>4 DEF Piece

\* No text of a template whose braces pair up ends at a '}'.
LEMMA TextEndsOpen ==
    ASSUME NEW f \in Seq(Marks), WellFormed(f), NEW i \in 1 .. Len(f), Piece(f, i),
           NEW end, end = TextEnd(f, i), end <= Len(f)
    PROVE  f[end] # "}"
<1>1. end \in i .. Len(f) + 1 /\ \A k \in i .. end - 1 : ~Opening(f, k)
    BY TextPiece
<1>2. end \in 1 .. Len(f) /\ i <= end /\ i \in Nat
    <2>1. end \in i .. Len(f) + 1
        BY <1>1
    <2> QED
        BY <2>1
<1>3. \A j \in 1 .. end : j \in 1 .. i - 1 \/ j \in i .. end - 1 \/ j = end
    BY <1>2
<1>4. \A j \in 1 .. i - 1 : Opening(f, j) => PlaceholderEnd(f, j) # end
    <2>1. ~(end < i)
        BY <1>2
    <2> QED
        BY <2>1 DEF Piece
<1>5. Brace(f, end)
    BY TextEndIs
<1>6. ASSUME f[end] = "}" PROVE FALSE
    <2>1. Means(f, end, "}") /\ ~Opening(f, end)
        BY <1>2, <1>5, <1>6, BraceFacts
    <2>2. PICK j \in 1 .. end : Opening(f, j) /\ PlaceholderEnd(f, j) = end
        BY <1>2, <2>1 DEF WellFormed, Opening
    <2> QED
        BY <1>1, <1>3, <1>4, <2>1, <2>2
<1> QED
    BY <1>6

--------------------------------------------------------------------------------
\* The nodes of a template, and what they spell.
FormatNodes == [handle : BOOLEAN, text : FormatTexts]
Spelling(T, call, nodes) ==
    /\ T[0] = <<>>
    /\ \A n \in 1 .. Len(nodes) : T[n] = T[n - 1] \o Expand(call, nodes[n])
Spelt(call, nodes, text) ==
    \E T \in [0 .. Len(nodes) -> FormatTexts] : Spelling(T, call, nodes) /\ T[Len(nodes)] = text

\* What has been appended to is not empty.
LEMMA AppendedIsSome ==
    ASSUME NEW S, NEW s \in Seq(S), NEW x \in S
    PROVE  Append(s, x) # <<>>
BY AppendProperties

LEMMA AddNode ==
    ASSUME NEW call, NEW nodes \in Seq(FormatNodes), NEW node \in FormatNodes,
           NEW text, Spelt(call, nodes, text),
           NEW longer \in FormatTexts, longer = text \o Expand(call, node)
    PROVE  Append(nodes, node) \in Seq(FormatNodes) /\ Spelt(call, Append(nodes, node), longer)
<1> DEFINE n == Len(nodes)
           more == Append(nodes, node)
<1>1. /\ n \in Nat /\ more \in Seq(FormatNodes) /\ Len(more) = n + 1 /\ more[n + 1] = node
      /\ \A k \in 1 .. n : more[k] = nodes[k]
    BY AppendProperties
<1>2. PICK T \in [0 .. n -> FormatTexts] : Spelling(T, call, nodes) /\ T[n] = text
    BY DEF Spelt
<1> DEFINE U == [k \in 0 .. n + 1 |-> IF k = n + 1 THEN longer ELSE T[k]]
<1> HIDE DEF more
<1>3. U \in [0 .. n + 1 -> FormatTexts] /\ U[0] = T[0] /\ U[n + 1] = longer
    BY <1>1, <1>2
<1>4. ASSUME NEW k \in 1 .. n + 1 PROVE U[k] = U[k - 1] \o Expand(call, more[k])
    <2>1. CASE k = n + 1
        <3>1. U[k] = longer /\ U[k - 1] = T[n]
            BY <1>1, <2>1
        <3> QED
            BY <1>1, <1>2, <2>1, <3>1
    <2>2. CASE k # n + 1
        <3>1. k \in 1 .. n /\ U[k] = T[k] /\ U[k - 1] = T[k - 1]
            BY <1>1, <2>2
        <3> QED
            BY <1>1, <1>2, <3>1 DEF Spelling
    <2> QED
        BY <2>1, <2>2
<1> HIDE DEF U
<1>5. Spelling(U, call, more)
    BY <1>1, <1>2, <1>3, <1>4 DEF Spelling
<1>6. Spelt(call, more, longer)
    BY <1>1, <1>3, <1>5 DEF Spelt
<1> QED
    BY <1>1, <1>6 DEF more

KnownTo(f, n) ==
    \A k \in 1 .. n : Opening(f, k) => PlaceholderName(f, k) \in Registered

LEMMA KnownIs == ASSUME NEW f PROVE Known(f) <=> KnownTo(f, Len(f))
BY DEF Known, KnownTo, Opening

Parses(f) == [at : 1 .. Len(f) + 1, res : {"MORE", "SUCCESS", "INVALID_PARAM", "FAIL", "UNDEFINED"},
              nodes : Seq(FormatNodes)]

\* What has been parsed before p.at.
Parsed(call, R, p) ==
    /\ p.at \in 1 .. Len(call.template) + 1 /\ p.nodes \in Seq(FormatNodes)
    /\ Piece(call.template, p.at) /\ KnownTo(call.template, p.at - 1)
    /\ Spelt(call, p.nodes, R[p.at - 1]) /\ (p.at # 1 => p.nodes # <<>>)

\* After i calls of clog_interpolator_parse_format.
ParseInv(call, R, i, p) ==
    /\ p.res \in {"MORE", "SUCCESS", "FAIL", "UNDEFINED"}
    /\ p.res \in {"MORE", "SUCCESS"} => Parsed(call, R, p)
    /\ p.res = "MORE" => p.at > i
    /\ p.res = "SUCCESS" => p.at = Len(call.template) + 1
    /\ p.res \in {"FAIL", "UNDEFINED"} => ~Known(call.template)

LEMMA NodeFacts ==
    \A text \in FormatTexts :
        /\ Node(TRUE, text) \in FormatNodes /\ Node(FALSE, text) \in FormatNodes
        /\ \A call : /\ Expand(call, Node(TRUE, text)) = Shown(Width(text, call.value))
                     /\ Expand(call, Node(FALSE, text)) = text
BY DEF Node, FormatNodes, Expand

LEMMA EndIs ==
    ASSUME NEW f, NEW p \in Parses(f), NEW res \in {"SUCCESS", "INVALID_PARAM", "FAIL"}
    PROVE  LET q == End(p, res) IN
           /\ q \in Parses(f) /\ q.at = p.at /\ q.nodes = p.nodes
           /\ q.res = IF p.nodes = <<>> THEN "UNDEFINED" ELSE res
BY DEF End, Parses

\* What is known so far of a template's placeholders, with the next piece of it.
LEMMA KnownFurther ==
    ASSUME NEW f \in Seq(Marks), NEW i \in 1 .. Len(f), KnownTo(f, i - 1), NEW end \in i .. Len(f),
           \A k \in i + 1 .. end : ~Opening(f, k),
           Opening(f, i) => PlaceholderName(f, i) \in Registered
    PROVE  KnownTo(f, end)
<1>1. \A k \in 1 .. end : k \in 1 .. i - 1 \/ k = i \/ k \in i + 1 .. end
    OBVIOUS
<1> QED
    BY <1>1 DEF KnownTo

LEMMA PlaceholderParsed ==
    ASSUME NEW call, call.template \in Seq(Marks), call.value \in Nat, WellFormed(call.template),
           NEW R \in [0 .. Len(call.template) -> FormatTexts], Rendered(R, call),
           NEW p \in Parses(call.template), Parsed(call, R, p), p.res = "MORE",
           p.at <= Len(call.template), Opening(call.template, p.at), NEW i \in Nat, p.at >= i
    PROVE  LET q == ParsePlaceholder(call.template, p)
           IN q \in Parses(call.template) /\ ParseInv(call, R, i, q)
<1> DEFINE f == call.template
           at == p.at
           end == PlaceholderEnd(f, at)
           q == ParsePlaceholder(f, p)
<1>1. f \in Seq(Marks) /\ Len(f) \in Nat /\ at \in 1 .. Len(f) /\ at \in Nat
    BY DEF Parsed
<1>2. end # 0
    BY <1>1 DEF WellFormed, Opening
<1>3. /\ Piece(f, at) /\ KnownTo(f, at - 1) /\ p.nodes \in Seq(FormatNodes) /\ Spelt(call, p.nodes, R[at - 1])
      /\ Opening(f, at)
    BY DEF Parsed
<1> PICK name : name = PlaceholderName(f, at)
    OBVIOUS
<1>4. R[end] = R[at - 1] \o Shown(Width(name, call.value)) /\ name \in FormatTexts
    BY <1>1, <1>2, <1>3, PlaceholderRendered, NameIs
<1> HIDE DEF f, at, end
<1>5. end \in at + 2 .. Len(f) /\ (\A k \in at + 1 .. end : ~Opening(f, k)) /\ Piece(f, end + 1)
    BY <1>1, <1>2, <1>3, PlaceholderFacts, PlaceholderPiece DEF end
<1>6. CASE name \notin Registered
    <2>1. q = End(p, "FAIL")
        BY <1>2, <1>6 DEF ParsePlaceholder, f, at, end
    <2>2. ~Known(f)
        BY <1>1, <1>3, <1>6 DEF Known, Opening
    <2>3. q \in Parses(f) /\ q.res \in {"FAIL", "UNDEFINED"}
        BY <2>1, EndIs DEF f
    <2> HIDE DEF q
    <2> QED
        BY <2>2, <2>3 DEF ParseInv, f, q
<1>7. CASE name \in Registered
    <2> PICK node : node = Node(TRUE, name)
        OBVIOUS
    <2> DEFINE more == Append(p.nodes, node)
    <2>1. q = [p EXCEPT !.at = end + 1, !.nodes = more]
        BY <1>2, <1>7 DEF ParsePlaceholder, f, at, end
    <2>2. end \in at .. Len(f) /\ end + 1 \in 1 .. Len(f) + 1 /\ (end + 1) - 1 = end /\ end \in 0 .. Len(f)
        <3>1. end \in at + 2 .. Len(f)
            BY <1>5
        <3> QED
            BY <1>1, <3>1
    <2>3. R[end] \in FormatTexts
        BY <2>2 DEF f
    <2>4. more \in Seq(FormatNodes) /\ Spelt(call, more, R[end]) /\ more # <<>>
        <3>1. node \in FormatNodes /\ Expand(call, node) = Shown(Width(name, call.value))
            BY <1>4, NodeFacts
        <3>2. more \in Seq(FormatNodes) /\ Spelt(call, more, R[end])
            BY <1>3, <1>4, <2>3, <3>1, AddNode
        <3>3. more # <<>>
            BY <1>3, <3>1, AppendedIsSome
        <3> QED
            BY <3>2, <3>3
    <2>5. KnownTo(f, end)
        BY <1>1, <1>3, <1>5, <1>7, <2>2, KnownFurther
    <2> HIDE DEF more
    <2>6. q.at = end + 1 /\ q.nodes = more /\ q.res = "MORE" /\ q \in Parses(f)
        BY <2>1, <2>2, <2>4 DEF Parses, f
    <2> HIDE DEF q
    <2>7. Parsed(call, R, q)
        BY <1>5, <2>2, <2>4, <2>5, <2>6 DEF Parsed, f
    <2>8. end + 1 > i
        BY <1>1, <2>2 DEF at
    <2>9. q \in Parses(f) /\ ParseInv(call, R, i, q)
        BY <2>6, <2>7, <2>8 DEF ParseInv
    <2> QED
        BY <2>9 DEF q, f
<1> QED
    BY <1>6, <1>7

LEMMA TextParsed ==
    ASSUME NEW call, call.template \in Seq(Marks), call.value \in Nat, WellFormed(call.template),
           NEW R \in [0 .. Len(call.template) -> FormatTexts], Rendered(R, call),
           NEW p \in Parses(call.template), Parsed(call, R, p), p.res = "MORE",
           p.at <= Len(call.template), ~Opening(call.template, p.at), NEW i \in Nat, p.at >= i
    PROVE  LET q == ParseText(call.template, p)
           IN q \in Parses(call.template) /\ ParseInv(call, R, i, q)
<1> PICK node : node = Node(FALSE, Unescaped(call.template, p.at, TextEnd(call.template, p.at)))
    OBVIOUS
<1> DEFINE f == call.template
           at == p.at
           end == TextEnd(f, at)
           text == Unescaped(f, at, end)
           more == Append(p.nodes, node)
           q == ParseText(f, p)
<1>1. f \in Seq(Marks) /\ Len(f) \in Nat /\ at \in 1 .. Len(f) /\ at \in Nat
    BY DEF Parsed
<1>2. /\ Piece(f, at) /\ KnownTo(f, at - 1) /\ p.nodes \in Seq(FormatNodes) /\ Spelt(call, p.nodes, R[at - 1])
      /\ ~Opening(f, at)
    BY DEF Parsed
<1>15. node = Node(FALSE, text)
    OBVIOUS
<1>3. text \in FormatTexts /\ R[end - 1] = R[at - 1] \o text
    BY <1>1, <1>2, TextRendered
<1> HIDE DEF f, at, end
<1>4. /\ end \in at .. Len(f) + 1 /\ Piece(f, end) /\ \A k \in at .. end - 1 : ~Opening(f, k)
      /\ end <= Len(f) => Brace(f, end)
    BY <1>1, <1>2, TextPiece, TextEndIs DEF end
<1>5. end <= Len(f) => Opening(f, end)
    <2> SUFFICES ASSUME end <= Len(f) PROVE Opening(f, end)
        OBVIOUS
    <2>1. end \in at .. Len(f) + 1
        BY <1>4
    <2>2. end \in 1 .. Len(f)
        BY <1>1, <2>1
    <2>3. WellFormed(f)
        BY DEF f
    <2>4. f[end] # "}"
        BY <1>1, <1>2, <2>3, TextEndsOpen DEF end
    <2> QED
        BY <1>1, <1>4, <2>2, <2>4, BraceFacts
<1>6. end # at
    BY <1>1, <1>2, <1>5
<1>7. q = [p EXCEPT !.at = end, !.nodes = more]
    <2>1. end <= Len(f) => f[end] # "}"
        BY <1>5 DEF Opening, Means
    <2> QED
        BY <2>1 DEF ParseText, f, at, end
<1>8. end - 1 \in at .. Len(f) /\ end \in 1 .. Len(f) + 1 /\ end - 1 \in 0 .. Len(f) /\ end > i
    <2>1. end \in at .. Len(f) + 1 /\ at >= i
        BY <1>4 DEF at
    <2> QED
        BY <1>1, <1>6, <2>1
<1>9. R[end - 1] \in FormatTexts
    BY <1>8 DEF f
<1> HIDE DEF text
<1>10. more \in Seq(FormatNodes) /\ Spelt(call, more, R[end - 1]) /\ more # <<>>
    <2>1. node \in FormatNodes /\ Expand(call, node) = text
        BY <1>3, <1>15, NodeFacts
    <2>2. more \in Seq(FormatNodes) /\ Spelt(call, more, R[end - 1])
        BY <1>2, <1>3, <1>9, <2>1, AddNode
    <2>3. more # <<>>
        BY <1>2, <2>1, AppendProperties
    <2> QED
        BY <2>2, <2>3
<1>11. KnownTo(f, end - 1)
    <2>1. \A k \in at + 1 .. end - 1 : ~Opening(f, k)
        <3>1. \A k \in at + 1 .. end - 1 : k \in at .. end - 1
            BY <1>1, <1>8
        <3> QED
            BY <1>4, <3>1
    <2> QED
        BY <1>1, <1>2, <1>8, <2>1, KnownFurther
<1> HIDE DEF more
<1>12. q.at = end /\ q.nodes = more /\ q.res = "MORE" /\ q \in Parses(f)
    BY <1>7, <1>8, <1>10 DEF Parses, f
<1> HIDE DEF q
<1>13. Parsed(call, R, q)
    BY <1>4, <1>8, <1>10, <1>11, <1>12 DEF Parsed, f
<1>14. q \in Parses(f) /\ ParseInv(call, R, i, q)
    BY <1>8, <1>12, <1>13 DEF ParseInv
<1> QED
    BY <1>14 DEF q, f

LEMMA NodeCases ==
    ASSUME NEW f \in Seq(Marks), NEW p \in Parses(f)
    PROVE  /\ p.res # "MORE" => ParseNode(f, p) = p
           /\ p.res = "MORE" /\ p.at > Len(f) => ParseNode(f, p) = End(p, "SUCCESS")
           /\ p.res = "MORE" /\ p.at <= Len(f) =>
                ParseNode(f, p) = IF f[p.at] = "{" THEN ParsePlaceholder(f, p) ELSE ParseText(f, p)
<1>1. p.at > Len(f) <=> ~(p.at <= Len(f))
    BY DEF Parses
<1> QED
    BY <1>1 DEF ParseNode

LEMMA NodeIsParsed ==
    ASSUME NEW f \in Seq(Marks), NEW p \in Parses(f)
    PROVE  ParseNode(f, p) \in Parses(f)
<1>1. /\ p.at \in 1 .. Len(f) + 1 /\ p.nodes \in Seq(FormatNodes) /\ Len(f) \in Nat
      /\ p.res \in {"MORE", "SUCCESS", "INVALID_PARAM", "FAIL", "UNDEFINED"}
    BY DEF Parses
<1>2. CASE p.res # "MORE" \/ p.at > Len(f)
    <2>1. ParseNode(f, p) = p \/ ParseNode(f, p) = End(p, "SUCCESS")
        BY <1>2, NodeCases
    <2> QED
        BY <2>1, EndIs
<1>3. CASE p.res = "MORE" /\ p.at <= Len(f)
    <2> DEFINE end == PlaceholderEnd(f, p.at)
               last == TextEnd(f, p.at)
    <2>1. p.at \in 1 .. Len(f)
        BY <1>1, <1>3
    <2>2. end = 0 \/ end + 1 \in 1 .. Len(f) + 1
        <3>1. end \in 0 .. Len(f)
            BY <2>1, PlaceholderEndNat
        <3> QED
            BY <1>1, <3>1
    <2>3. last \in p.at .. Len(f) + 1 /\ last \in 1 .. Len(f) + 1
        <3>1. last \in p.at .. Len(f) + 1
            BY <2>1, TextEndIs
        <3> QED
            BY <2>1, <3>1
    <2>4. Unescaped(f, p.at, last) \in FormatTexts
        <3> DEFINE n == last - p.at
        <3>1. PICK U \in [0 .. n -> FormatTexts] : Unescaped(f, p.at, last) = U[n]
            BY <2>1, <2>3, UnescapedIs
        <3>2. n \in 0 .. n
            BY <2>1, <2>3
        <3> QED
            BY <3>1, <3>2
    <2>5. /\ end # 0 => Append(p.nodes, Node(TRUE, PlaceholderName(f, p.at))) \in Seq(FormatNodes)
          /\ Append(p.nodes, Node(FALSE, Unescaped(f, p.at, last))) \in Seq(FormatNodes)
        <3>1. end # 0 => PlaceholderName(f, p.at) \in FormatTexts
            BY <2>1, NameIs
        <3> QED
            BY <1>1, <2>4, <3>1, NodeFacts, AppendProperties
    <2>6. ParsePlaceholder(f, p) \in Parses(f)
        <3>1. End(p, "INVALID_PARAM") \in Parses(f) /\ End(p, "FAIL") \in Parses(f)
            BY EndIs
        <3>2. end # 0 => [p EXCEPT !.at = end + 1, !.nodes = Append(@, Node(TRUE, PlaceholderName(f, p.at)))] \in Parses(f)
            BY <1>1, <2>2, <2>5 DEF Parses
        <3> QED
            BY <3>1, <3>2 DEF ParsePlaceholder
    <2>7. ParseText(f, p) \in Parses(f)
        <3>1. End(p, "SUCCESS") \in Parses(f)
            BY EndIs
        <3>2. [p EXCEPT !.at = last, !.nodes = Append(@, Node(FALSE, Unescaped(f, p.at, last)))] \in Parses(f)
            BY <1>1, <2>3, <2>5 DEF Parses
        <3> QED
            BY <3>1, <3>2 DEF ParseText
    <2>8. ParseNode(f, p) = ParsePlaceholder(f, p) \/ ParseNode(f, p) = ParseText(f, p)
        <3>1. ~(p.at > Len(f))
            BY <1>1, <1>3
        <3> QED
            BY <1>3, <3>1, NodeCases
    <2> QED
        BY <2>6, <2>7, <2>8
<1> QED
    BY <1>1, <1>2, <1>3

\* One call of clog_interpolator_parse_format.
LEMMA ParseKeeps ==
    ASSUME NEW call, call.template \in Seq(Marks) \ {<<>>}, call.value \in Nat, WellFormed(call.template),
           NEW R \in [0 .. Len(call.template) -> FormatTexts], Rendered(R, call),
           NEW p \in Parses(call.template), NEW i \in Nat, ParseInv(call, R, i, p)
    PROVE  ParseInv(call, R, i + 1, ParseNode(call.template, p))
<1> DEFINE f == call.template
<1>1. p.at \in Nat /\ Len(f) \in Nat /\ i + 1 \in Nat
    BY DEF Parses
<1>2. CASE p.res # "MORE"
    <2>1. ParseNode(f, p) = p
        BY <1>2, NodeCases
    <2> QED
        BY <1>2, <2>1 DEF ParseInv, Parsed
<1>3. CASE p.res = "MORE" /\ p.at > Len(f)
    <2>1. p.at = Len(f) + 1 /\ Parsed(call, R, p)
        BY <1>3 DEF ParseInv, Parsed
    <2> DEFINE q == End(p, "SUCCESS")
    <2>2. q.at = p.at /\ q.nodes = p.nodes /\ q.res = "SUCCESS"
        <3>1. p.nodes # <<>>
            <4>1. Len(f) # 0
                BY EmptySeq
            <4> QED
                BY <1>1, <2>1, <4>1 DEF Parsed
        <3> QED
            BY <3>1, EndIs
    <2>3. ParseNode(f, p) = q
        BY <1>3, NodeCases
    <2> HIDE DEF q
    <2>4. Parsed(call, R, q)
        BY <2>1, <2>2 DEF Parsed
    <2>5. ParseInv(call, R, i + 1, q)
        BY <2>1, <2>2, <2>4 DEF ParseInv
    <2> QED
        BY <2>3, <2>5
<1>4. CASE p.res = "MORE" /\ p.at <= Len(f)
    <2>1. Parsed(call, R, p) /\ p.at >= i + 1 /\ p.at \in 1 .. Len(f)
        BY <1>1, <1>4 DEF ParseInv, Parsed
    <2>2. Piece(f, p.at)
        BY <2>1 DEF Parsed
    <2>3. Opening(f, p.at) <=> f[p.at] = "{"
        <3>1. ~Escaped(f, p.at)
            BY <1>4, <2>2 DEF Piece
        <3> QED
            BY <2>1, <3>1, BraceFacts
    <2>4. CASE Opening(f, p.at)
        <3>1. ParseNode(f, p) = ParsePlaceholder(f, p)
            BY <1>4, <2>3, <2>4, NodeCases
        <3>2. ParseInv(call, R, i + 1, ParsePlaceholder(f, p))
            BY <1>1, <1>4, <2>1, <2>4, PlaceholderParsed
        <3> QED
            BY <3>1, <3>2
    <2>5. CASE ~Opening(f, p.at)
        <3>1. ParseNode(f, p) = ParseText(f, p)
            BY <1>4, <2>3, <2>5, NodeCases
        <3>2. ParseInv(call, R, i + 1, ParseText(f, p))
            BY <1>1, <1>4, <2>1, <2>5, TextParsed
        <3> QED
            BY <3>1, <3>2
    <2> QED
        BY <2>4, <2>5
<1> QED
    BY <1>1, <1>2, <1>3, <1>4

\* clog_interpolator_parse: what it accepts, and the nodes it makes of that.
LEMMA FormatParsed ==
    ASSUME NEW call, call.template \in Seq(Marks) \ {<<>>}, call.value \in Nat, WellFormed(call.template),
           NEW R \in [0 .. Len(call.template) -> FormatTexts], Rendered(R, call)
    PROVE  LET p == ParseFormat(call.template) IN
           /\ p.res = "SUCCESS" <=> Known(call.template)
           /\ p.res = "SUCCESS" =>
                p.nodes \in Seq(FormatNodes) \ {<<>>} /\ Spelt(call, p.nodes, R[Len(call.template)])
<1> DEFINE f == call.template
           m == Len(f) + 1
           s == [k \in 1 .. m |-> k]
           A == Parses(f)
           Z == Nat
           base == [at |-> 1, res |-> "MORE", nodes |-> <<>>]
<1>1. /\ f \in Seq(Marks) /\ Len(f) \in Nat /\ m \in Nat /\ s \in Seq(Z) /\ Len(s) = m
      /\ base \in A /\ m = Len(f) + 1
    BY DEF Parses
<1>2. ParseSteps!Keeps(f, A, Z)
    BY NodeIsParsed DEF ParseSteps!Keeps, ParseTo
<1>3. ParseSteps!Fold(f, base, s) = ParseFormat(f)
    BY DEF ParseSteps!Fold, ParseSteps!FoldLeft, ParseSteps!MapThenFoldSet, ParseSteps!Max,
           FoldLeft, MapThenFoldSet, Max, ParseFormat, ParseTo
<1>4. ParseInv(call, R, 0, base)
    <2>1. base.at = 1 /\ base.res = "MORE" /\ base.nodes = <<>>
        OBVIOUS
    <2>2. R[0] = <<>> /\ 1 - 1 = 0 /\ 0 \in 0 .. Len(f)
        BY <1>1 DEF Rendered
    <2>3. Piece(f, 1) /\ KnownTo(f, 0)
        BY <1>1 DEF Piece, KnownTo, Escaped
    <2>4. Spelt(call, <<>>, <<>>) /\ <<>> \in Seq(FormatNodes)
        <3> DEFINE T == [k \in 0 .. 0 |-> <<>>]
        <3>1. T \in [0 .. 0 -> FormatTexts] /\ T[0] = <<>> /\ Len(<<>>) = 0
            BY TextFacts
        <3> HIDE DEF T
        <3>2. Spelling(T, call, <<>>)
            BY <3>1 DEF Spelling
        <3> QED
            BY <3>1, <3>2 DEF Spelt
    <2> HIDE DEF base
    <2>5. Parsed(call, R, base)
        BY <1>1, <2>1, <2>2, <2>3, <2>4 DEF Parsed
    <2> QED
        BY <2>1, <2>5 DEF ParseInv
<1> HIDE DEF A, Z, m, s, base
<1>5. PICK P \in [0 .. Len(s) -> A] :
        ParseSteps!Steps(P, f, base, s) /\ ParseSteps!Fold(f, base, s) = P[Len(s)]
    BY <1>1, <1>2, ParseSteps!Partial
<1> DEFINE Good == {i \in 0 .. m : ParseInv(call, R, i, P[i])}
<1>6. 0 \in Good
    BY <1>1, <1>4, <1>5 DEF ParseSteps!Steps
<1>7. ASSUME NEW i \in 1 .. m, i - 1 \in Good PROVE i \in Good
    <2>1. P[i] = ParseNode(f, P[i - 1])
        BY <1>1, <1>5 DEF ParseSteps!Steps, ParseTo
    <2>2. i - 1 \in Nat /\ P[i - 1] \in A /\ (i - 1) + 1 = i /\ i \in 0 .. m
        <3>1. m \in Nat
            BY <1>1
        <3>2. i - 1 \in Nat /\ i - 1 \in 0 .. m /\ (i - 1) + 1 = i /\ i \in 0 .. m
            BY <3>1
        <3> QED
            BY <1>1, <1>5, <3>2
    <2>3. ParseInv(call, R, i - 1, P[i - 1])
        BY <1>7
    <2>4. ParseInv(call, R, (i - 1) + 1, ParseNode(f, P[i - 1]))
        BY <2>2, <2>3, ParseKeeps DEF A
    <2> QED
        BY <2>1, <2>2, <2>4
<1> HIDE DEF Good
<1>8. m \in Good
    <2>1. 0 .. m \subseteq Good
        BY <1>1, <1>6, <1>7, ParseSteps!FromZero
    <2>2. m \in 0 .. m
        BY <1>1
    <2> QED
        BY <2>1, <2>2
<1>9. ParseInv(call, R, m, P[m]) /\ ParseFormat(f) = P[m]
    BY <1>1, <1>3, <1>5, <1>8 DEF Good
<1>10. PICK p : p = ParseFormat(f)
    OBVIOUS
<1>11. p.res # "MORE"
    <2>1. p.res = "MORE" => p.at > m /\ p.at \in 1 .. m
        BY <1>1, <1>9, <1>10 DEF ParseInv, Parsed
    <2> QED
        BY <1>1, <2>1
<1>12. p.res = "SUCCESS" =>
         Known(f) /\ p.nodes \in Seq(FormatNodes) \ {<<>>} /\ Spelt(call, p.nodes, R[Len(f)])
    <2>1. p.res = "SUCCESS" => p.at = m /\ Parsed(call, R, p)
        BY <1>1, <1>9, <1>10 DEF ParseInv
    <2>2. m - 1 = Len(f)
        BY <1>1
    <2>3. KnownTo(f, Len(f)) => Known(f)
        BY KnownIs
    <2>4. m # 1
        BY <1>1, EmptySeq
    <2> QED
        BY <2>1, <2>2, <2>3, <2>4 DEF Parsed
<1>13. p.res # "SUCCESS" => ~Known(f)
    BY <1>9, <1>10, <1>11 DEF ParseInv
<1> QED
    BY <1>10, <1>12, <1>13

--------------------------------------------------------------------------------
Outcomes == [res : {"SUCCESS", "FAIL", "INVALID_PARAM"}, stop : BOOLEAN, offset : Nat, out : FormatTexts,
             outside : BOOLEAN]

\* clog_interpolator_interpolate, when the nodes so far spell text and leave room.
Whole(call, text, r) ==
    /\ ~r.outside
    /\ \/ r.res = "SUCCESS" /\ ~r.stop /\ r.out = text /\ r.offset = Len(text)
       \/ r.res = "INVALID_PARAM" /\ Narrow(call)
Full(call, r) == ~r.outside /\ (r.res # "SUCCESS" \/ (~r.stop /\ r.offset >= call.size))

LEMMA AnswerIs ==
    ASSUME NEW call, call.value \in Nat, NEW name, NEW left \in Int
    PROVE  LET length == Answer(call, name, left) IN
           \/ length = Width(name, call.value)
           \/ length = -1 /\ name # LineBreak /\ call.handler = "number" /\ left < call.room
           \/ left >= 0 /\ length = left /\ left < Width(name, call.value)
<1>1. Width(name, call.value) = IF name = LineBreak THEN 1 ELSE call.value
    BY DEF Width
<1>2. CASE name = LineBreak
    <2>1. Answer(call, name, left) = 1
        BY <1>2 DEF Answer
    <2> QED
        BY <1>1, <1>2, <2>1
<1>3. CASE name # LineBreak /\ call.handler = "number" /\ 0 <= left /\ left < call.room
    <2>1. Answer(call, name, left) = -1
        BY <1>3 DEF Answer
    <2> QED
        BY <1>3, <2>1
<1>4. CASE name # LineBreak /\ call.handler = "copy" /\ 0 <= left /\ left < call.value
    <2>1. Answer(call, name, left) = left
        BY <1>4 DEF Answer
    <2> QED
        BY <1>1, <1>4, <2>1
<1>5. CASE /\ name # LineBreak
           /\ ~(call.handler = "number" /\ 0 <= left /\ left < call.room)
           /\ ~(call.handler = "copy" /\ 0 <= left /\ left < call.value)
    <2>1. Answer(call, name, left) = call.value
        BY <1>5 DEF Answer
    <2> QED
        BY <1>1, <1>5, <2>1
<1> QED
    BY <1>2, <1>3, <1>4, <1>5

OutcomeGrown(r, count, text, past) ==
    [r EXCEPT !.offset = @ + count, !.out = @ \o text, !.outside = @ \/ past]

LEMMA OutcomeGrows ==
    ASSUME NEW r \in Outcomes, NEW n \in Nat, NEW x, r.out \o x \in FormatTexts, NEW past \in BOOLEAN
    PROVE  LET q == OutcomeGrown(r, n, x, past) IN
           /\ q \in Outcomes /\ q.res = r.res /\ q.stop = r.stop
           /\ q.offset = r.offset + n /\ q.out = r.out \o x /\ (q.outside => r.outside \/ past)
<1>1. /\ r.res \in {"SUCCESS", "FAIL", "INVALID_PARAM"} /\ r.stop \in BOOLEAN /\ r.offset + n \in Nat
      /\ (r.outside \/ past) \in BOOLEAN
    BY DEF Outcomes
<1> PICK more : more = (r.outside \/ past)
    OBVIOUS
<1> PICK offset : offset = r.offset + n
    OBVIOUS
<1> PICK longer : longer = r.out \o x
    OBVIOUS
<1> DEFINE q == [r EXCEPT !.offset = offset, !.out = longer, !.outside = more]
<1>2. /\ q \in Outcomes /\ q.res = r.res /\ q.stop = r.stop
      /\ q.offset = offset /\ q.out = longer /\ q.outside = more
    BY <1>1 DEF Outcomes
<1> QED
    BY <1>2 DEF OutcomeGrown

LEMMA OutcomeKept ==
    ASSUME NEW call, call.value \in Nat, call.size \in Nat, NEW node \in FormatNodes, NEW r \in Outcomes
    PROVE  WriteNode(call, r, node) \in Outcomes
<1> DEFINE left == call.size - r.offset
           name == node.text
           length == Answer(call, name, left)
           past == left < 0
           beyond == Beyond(name, left)
<1>1. left \in Int /\ r.out \in FormatTexts /\ past \in BOOLEAN /\ beyond \in BOOLEAN
    BY DEF Outcomes, Beyond
<1>2. length \in Int
    <2>1. Width(name, call.value) \in Nat
        BY WidthIs
    <2> QED
        BY <1>1, <2>1, AnswerIs
<1>3. name \in FormatTexts
    BY DEF FormatNodes
<1>4. /\ Len(name) \in Nat /\ r.out \o name \in FormatTexts
      /\ length \in Nat => r.out \o Shown(length) \in FormatTexts
    BY <1>1, <1>3, TextFacts
<1>5. /\ [r EXCEPT !.res = "FAIL"] \in Outcomes /\ [r EXCEPT !.res = "INVALID_PARAM"] \in Outcomes
      /\ [r EXCEPT !.stop = TRUE, !.out = <<>>] \in Outcomes
    BY TextFacts DEF Outcomes
<1> DEFINE told == OutcomeGrown(r, Len(name), name, past)
           shown == OutcomeGrown(r, length, Shown(length), beyond)
<1>6. told \in Outcomes /\ (length \in Nat => shown \in Outcomes)
    <2> HIDE DEF past, beyond, length
    <2>1. told \in Outcomes
        BY <1>1, <1>4, OutcomeGrows
    <2>2. length \in Nat => shown \in Outcomes
        BY <1>1, <1>4, OutcomeGrows
    <2> QED
        BY <2>1, <2>2
<1>7. \/ WriteNode(call, r, node) = r
      \/ WriteNode(call, r, node) = [r EXCEPT !.res = "FAIL"]
      \/ WriteNode(call, r, node) = [r EXCEPT !.res = "INVALID_PARAM"]
      \/ WriteNode(call, r, node) = [r EXCEPT !.stop = TRUE, !.out = <<>>]
      \/ WriteNode(call, r, node) = told
      \/ ~(length < 0) /\ WriteNode(call, r, node) = shown
    BY DEF WriteNode, WriteText, CallHandler, OutcomeGrown
<1>8. ~(length < 0) => length \in Nat
    BY <1>2
<1> HIDE DEF told, shown, length
<1> QED
    BY <1>5, <1>6, <1>7, <1>8

\* A node is written whole where there was room before it, or the call fails.
LEMMA NodeWritten ==
    ASSUME NEW call, call.value \in Nat \ {0}, call.size \in Nat, call.room \in Nat,
           NEW text \in FormatTexts, Len(text) < call.size, NEW node \in FormatNodes,
           NEW r \in Outcomes, Whole(call, text, r)
    PROVE  LET q == WriteNode(call, r, node)
               longer == text \o Expand(call, node)
           IN IF Len(longer) < call.size THEN Whole(call, longer, q) ELSE Full(call, q)
<1> DEFINE name == node.text
           x == Expand(call, node)
           longer == text \o x
           left == call.size - r.offset
           length == Answer(call, name, left)
           q == WriteNode(call, r, node)
<1>1. /\ x \in FormatTexts /\ longer \in FormatTexts /\ Len(longer) = Len(text) + Len(x)
      /\ Len(x) \in Nat /\ Len(text) \in Nat
    <2>1. x \in FormatTexts
        BY WidthIs, TextFacts DEF Expand, FormatNodes
    <2> HIDE DEF x
    <2> QED
        BY <2>1, TextFacts
<1> PICK w : w = Width(name, call.value)
    OBVIOUS
<1>2. w \in Nat \ {0}
    BY DEF Width
<1>3. node.handle => x = Shown(w) /\ Len(x) = w
    BY <1>2, TextFacts DEF Expand
<1>4. ~node.handle => x = name
    BY DEF Expand
<1>5. r.offset \in Nat /\ r.out \in FormatTexts /\ ~r.outside
    BY DEF Outcomes, Whole
<1> HIDE DEF x, longer, length
<1>6. CASE r.res = "INVALID_PARAM" /\ Narrow(call)
    <2>1. q = r
        BY <1>6 DEF WriteNode
    <2> QED
        BY <1>5, <1>6, <2>1 DEF Whole, Full, longer, x
<1>7. CASE r.res = "SUCCESS" /\ ~r.stop /\ r.out = text /\ r.offset = Len(text)
    <2>1. left \in Nat \ {0} /\ left = call.size - Len(text)
        BY <1>1, <1>7
    <2>2. Len(longer) < call.size <=> Len(x) < left
        BY <1>1, <2>1
    <2>3. ~(left < 0) /\ ~Beyond(name, left)
        BY <2>1 DEF Beyond
    <2>4. CASE ~node.handle /\ Len(x) >= left
        <3>1. q = [r EXCEPT !.res = "FAIL"]
            BY <1>4, <1>7, <2>1, <2>4 DEF WriteNode, WriteText
        <3>2. q.res = "FAIL" /\ ~q.outside
            BY <1>5, <3>1 DEF Outcomes
        <3>3. ~(Len(longer) < call.size)
            BY <1>1, <2>1, <2>2, <2>4
        <3> HIDE DEF q
        <3> QED
            BY <3>2, <3>3 DEF Full, longer, x, q
    <2>5. CASE ~node.handle /\ ~(Len(x) >= left)
        <3> DEFINE past == left < 0
                   told == OutcomeGrown(r, Len(x), x, past)
        <3>1. q = told
            BY <1>4, <1>7, <2>5 DEF WriteNode, WriteText, OutcomeGrown
        <3>2. /\ told.res = "SUCCESS" /\ ~told.stop /\ told.offset = Len(text) + Len(x) /\ told.out = text \o x
              /\ ~told.outside
            <4>1. past \in BOOLEAN /\ ~past /\ r.out \o x \in FormatTexts
                BY <1>1, <1>7, <2>3 DEF longer
            <4> HIDE DEF past
            <4>2. /\ told.res = r.res /\ told.stop = r.stop
                  /\ told.offset = r.offset + Len(x) /\ told.out = r.out \o x
                  /\ (told.outside => r.outside \/ past)
                BY <1>1, <4>1, OutcomeGrows
            <4> HIDE DEF told
            <4> QED
                BY <1>5, <1>7, <4>1, <4>2
        <3> HIDE DEF told, q
        <3>3. Len(longer) < call.size
            BY <1>1, <2>1, <2>2, <2>5
        <3> QED
            BY <1>1, <3>1, <3>2, <3>3 DEF Whole, longer, x, q
    <2>6. \/ length = w
          \/ length = -1 /\ name # LineBreak /\ call.handler = "number" /\ left < call.room
          \/ length = left /\ left < w
        BY <2>1, AnswerIs DEF length
    <2>7. CASE node.handle /\ length = -1 /\ name # LineBreak /\ call.handler = "number" /\ left < call.room
        <3>1. q = [r EXCEPT !.res = "INVALID_PARAM"]
            BY <1>7, <2>7 DEF WriteNode, CallHandler, length
        <3>2. q.res = "INVALID_PARAM" /\ ~q.outside
            BY <1>5, <3>1 DEF Outcomes
        <3>3. Len(longer) < call.size => Narrow(call)
            <4>1. w = call.value
                BY <2>7 DEF Width
            <4> QED
                BY <1>2, <1>3, <2>1, <2>2, <2>7, <4>1 DEF Narrow
        <3> HIDE DEF q
        <3> QED
            BY <3>2, <3>3 DEF Whole, Full, longer, x, q
    <2>8. CASE node.handle /\ length \in Nat \ {0} /\ (length = w \/ (length = left /\ left < w))
        <3> DEFINE beyond == Beyond(name, left)
                   shown == OutcomeGrown(r, length, Shown(length), beyond)
        <3>1. q = shown
            <4>1. ~(length < 0) /\ length # 0
                BY <2>8
            <4> QED
                BY <1>7, <2>8, <4>1 DEF WriteNode, CallHandler, OutcomeGrown, length
        <3>2. /\ shown.res = "SUCCESS" /\ ~shown.stop /\ shown.offset = Len(text) + length
              /\ shown.out = text \o Shown(length) /\ ~shown.outside
            <4>1. beyond \in BOOLEAN /\ ~beyond /\ r.out \o Shown(length) \in FormatTexts
                BY <1>5, <2>3, <2>8, TextFacts DEF Beyond
            <4> HIDE DEF beyond
            <4>2. /\ shown.res = r.res /\ shown.stop = r.stop
                  /\ shown.offset = r.offset + length /\ shown.out = r.out \o Shown(length)
                  /\ (shown.outside => r.outside \/ beyond)
                BY <2>8, <4>1, OutcomeGrows
            <4> HIDE DEF shown
            <4> QED
                BY <1>5, <1>7, <4>1, <4>2
        <3> HIDE DEF shown, q
        <3>3. CASE Len(longer) < call.size
            <4>1. length = w
                BY <1>2, <1>3, <2>1, <2>2, <2>8, <3>3
            <4> QED
                BY <1>1, <1>3, <2>8, <3>1, <3>2, <3>3, <4>1 DEF Whole, longer, x, q
        <3>4. CASE ~(Len(longer) < call.size)
            <4>1. Len(text) + length >= call.size
                BY <1>1, <1>2, <1>3, <2>1, <2>2, <2>8, <3>4
            <4> QED
                BY <3>1, <3>2, <3>4, <4>1 DEF Full, longer, x, q
        <3> QED
            BY <3>3, <3>4
    <2>9. length = w \/ (length = left /\ left < w) => length \in Nat \ {0}
        BY <1>2, <2>1
    <2> QED
        BY <2>4, <2>5, <2>6, <2>7, <2>8, <2>9
<1> QED
    BY <1>6, <1>7 DEF Whole

\* What the nodes but the last spell.
LEMMA ExpansionIs ==
    ASSUME NEW call, call.value \in Nat, NEW nodes \in Seq(FormatNodes) \ {<<>>},
           NEW T \in [0 .. Len(nodes) -> FormatTexts], Spelling(T, call, nodes)
    PROVE  Expansion(call, Front(nodes)) = T[Len(nodes) - 1]
<1> DEFINE A == FormatTexts
<1> PICK n, s : n = Len(nodes) - 1 /\ s = Front(nodes)
    OBVIOUS
<1>1. /\ Len(nodes) \in Nat \ {0} /\ n \in Nat /\ n \in 0 .. n
      /\ s \in Seq(FormatNodes) /\ Len(s) = n /\ \A i \in 1 .. n : s[i] = nodes[i] /\ i \in 1 .. Len(nodes)
    <2>1. Len(nodes) \in Nat \ {0}
        BY EmptySeq
    <2>2. n \in Nat /\ n \in 0 .. n /\ \A i \in 1 .. n : i \in 1 .. Len(nodes) /\ nodes[i] \in FormatNodes
        BY <2>1, ElementOfSeq
    <2>3. s = SubSeq(nodes, 1, n)
        BY DEF Front
    <2>4. s \in Seq(FormatNodes) /\ Len(s) = n
        <3> DEFINE B == FormatNodes
        <3>1. n \in Int /\ 1 \in Int /\ 1 <= n + 1 /\ n - 1 + 1 = n
            BY <2>2
        <3>2. \A j \in 1 .. n : nodes[j] \in B
            BY <2>2
        <3> HIDE DEF B
        <3>3. SubSeq(nodes, 1, n) \in Seq(B)
            BY <3>1, <3>2, SubSeqProperties
        <3>4. Len(SubSeq(nodes, 1, n)) = n
            BY <3>1, <3>2, SubSeqProperties
        <3> QED
            BY <2>3, <3>3, <3>4 DEF B
    <2>5. ASSUME NEW i \in 1 .. n PROVE s[i] = nodes[i]
        <3>1. /\ n \in Int /\ 1 \in Int /\ (\A j \in 1 .. n : nodes[j] \in FormatNodes)
              /\ i \in 1 .. n - 1 + 1 /\ 1 + i - 1 = i
            BY <2>2
        <3>2. \A j \in 1 .. n - 1 + 1 : SubSeq(nodes, 1, n)[j] = nodes[1 + j - 1]
            BY <3>1, SubSeqProperties
        <3> QED
            BY <2>3, <3>1, <3>2
    <2> QED
        BY <2>1, <2>2, <2>4, <2>5
<1>2. ExpandSteps!Keeps(call, A, FormatNodes)
    <2> SUFFICES ASSUME NEW a \in A, NEW node \in FormatNodes PROVE Expanded(call, a, node) \in A
        BY DEF ExpandSteps!Keeps
    <2>1. Expand(call, node) \in FormatTexts
        BY WidthIs, TextFacts DEF Expand, FormatNodes
    <2> QED
        BY <2>1, TextFacts DEF Expanded
<1>3. ExpandSteps!Fold(call, <<>>, s) = Expansion(call, s)
    BY DEF ExpandSteps!Fold, ExpandSteps!FoldLeft, ExpandSteps!MapThenFoldSet, ExpandSteps!Max,
           FoldLeft, MapThenFoldSet, Max, Expansion
<1>4. PICK U \in [0 .. Len(s) -> A] :
        ExpandSteps!Steps(U, call, <<>>, s) /\ ExpandSteps!Fold(call, <<>>, s) = U[Len(s)]
    <2>1. <<>> \in A
        BY TextFacts
    <2> HIDE DEF A
    <2> QED
        BY <1>1, <1>2, <2>1, ExpandSteps!Partial
<1>5. U[0] = <<>> /\ \A i \in 1 .. n : U[i] = U[i - 1] \o Expand(call, nodes[i])
    BY <1>1, <1>4 DEF ExpandSteps!Steps, Expanded
<1>6. T[0] = <<>> /\ \A i \in 1 .. n : T[i] = T[i - 1] \o Expand(call, nodes[i])
    BY <1>1 DEF Spelling
<1> DEFINE Same == {i \in 0 .. n : U[i] = T[i]}
<1>7. 0 \in Same
    BY <1>1, <1>5, <1>6
<1>8. ASSUME NEW i \in 1 .. n, i - 1 \in Same PROVE i \in Same
    <2>1. i \in 0 .. n /\ U[i - 1] = T[i - 1]
        BY <1>1, <1>8
    <2> QED
        BY <1>5, <1>6, <2>1
<1> HIDE DEF Same
<1>9. 0 .. n \subseteq Same
    BY <1>1, <1>7, <1>8, ExpandSteps!FromZero
<1>10. n \in Same
    BY <1>1, <1>9
<1> QED
    BY <1>1, <1>3, <1>4, <1>10 DEF Same

LEMMA SumIsNoLess ==
    ASSUME NEW k \in Nat, NEW l \in Nat, NEW m, m = k + l
    PROVE  k <= m /\ m \in Nat
OBVIOUS

LEMMA NodesWritten ==
    ASSUME NEW call, call.value \in Nat \ {0}, call.size \in Nat \ {0}, call.room \in Nat,
           NEW nodes \in Seq(FormatNodes) \ {<<>>}, NEW text \in FormatTexts, Spelt(call, nodes, text),
           Len(Expansion(call, Front(nodes))) < call.size
    PROVE  LET r == Interpolate(call, nodes) IN
           /\ ~r.outside
           /\ IF Len(text) < call.size
              THEN \/ r.res = "SUCCESS" /\ r.out = text /\ r.offset = Len(text)
                   \/ r.res = "INVALID_PARAM" /\ Narrow(call)
              ELSE r.res # "SUCCESS"
<1> DEFINE n == Len(nodes)
           A == Outcomes
           base == [res |-> "SUCCESS", stop |-> FALSE, offset |-> 0, out |-> <<>>, outside |-> FALSE]
           last == FoldLeft(LAMBDA s, node : WriteNode(call, s, node), base, nodes)
<1>1. n \in Nat \ {0} /\ base \in A /\ n - 1 \in Nat
    BY TextFacts, EmptySeq DEF Outcomes
<1>2. PICK T \in [0 .. n -> FormatTexts] : Spelling(T, call, nodes) /\ T[n] = text
    BY DEF Spelt
<1>3. Len(T[n - 1]) < call.size
    BY <1>2, ExpansionIs
<1>4. Whole(call, T[0], base)
    <2>1. T[0] = <<>> /\ Len(<<>>) = 0
        BY <1>2 DEF Spelling
    <2> QED
        BY <2>1 DEF Whole
<1>5. WriteSteps!Keeps(call, A, FormatNodes)
    BY OutcomeKept DEF WriteSteps!Keeps
<1>6. WriteSteps!Fold(call, base, nodes) = last
    BY DEF WriteSteps!Fold, WriteSteps!FoldLeft, WriteSteps!MapThenFoldSet, WriteSteps!Max,
           FoldLeft, MapThenFoldSet, Max
<1>7. Interpolate(call, nodes) =
        IF last.res = "SUCCESS" /\ ~last.stop /\ last.offset >= call.size
        THEN [last EXCEPT !.res = "NO_MEMORY"] ELSE last
    BY DEF Interpolate
<1> HIDE DEF A, base, last
<1>8. PICK P \in [0 .. Len(nodes) -> A] :
        WriteSteps!Steps(P, call, base, nodes) /\ WriteSteps!Fold(call, base, nodes) = P[Len(nodes)]
    BY <1>1, <1>5, WriteSteps!Partial
<1> DEFINE Good == {i \in 0 .. n - 1 : Len(T[i]) < call.size => Whole(call, T[i], P[i])}
<1>9. 0 \in Good
    BY <1>1, <1>4, <1>8 DEF WriteSteps!Steps
<1>10. ASSUME NEW i \in 1 .. n
       PROVE  /\ T[i - 1] \in FormatTexts /\ P[i - 1] \in Outcomes /\ nodes[i] \in FormatNodes
              /\ T[i] = T[i - 1] \o Expand(call, nodes[i]) /\ P[i] = WriteNode(call, P[i - 1], nodes[i])
              /\ Len(T[i - 1]) <= Len(T[i]) /\ Len(T[i]) \in Nat /\ Len(T[i - 1]) \in Nat
    <2>1. i - 1 \in 0 .. n /\ i \in 0 .. n
        BY <1>1
    <2>2. T[i - 1] \in FormatTexts /\ P[i - 1] \in Outcomes /\ nodes[i] \in FormatNodes
        BY <1>2, <1>8, <2>1, ElementOfSeq DEF A
    <2>3. T[i] = T[i - 1] \o Expand(call, nodes[i]) /\ P[i] = WriteNode(call, P[i - 1], nodes[i])
        BY <1>2, <1>8 DEF Spelling, WriteSteps!Steps
    <2>4. Expand(call, nodes[i]) \in FormatTexts
        BY <2>2, WidthIs, TextFacts DEF Expand, FormatNodes
    <2> PICK before, x : before = T[i - 1] /\ x = Expand(call, nodes[i])
        OBVIOUS
    <2>5. Len(before \o x) = Len(before) + Len(x) /\ Len(x) \in Nat /\ Len(before) \in Nat
        BY <2>2, <2>4, TextFacts
    <2>6. Len(before) <= Len(before \o x) /\ Len(before \o x) \in Nat
        BY <2>5, SumIsNoLess
    <2> QED
        BY <2>2, <2>3, <2>5, <2>6
<1>11. ASSUME NEW i \in 1 .. n - 1, i - 1 \in Good PROVE i \in Good
    <2>1. i \in 1 .. n /\ i \in 0 .. n - 1
        BY <1>1
    <2>2. SUFFICES ASSUME Len(T[i]) < call.size PROVE Whole(call, T[i], P[i])
        BY <2>1
    <2>3. Len(T[i - 1]) < call.size /\ Whole(call, T[i - 1], P[i - 1])
        <3> PICK l, m : l = Len(T[i - 1]) /\ m = Len(T[i])
            OBVIOUS
        <3>1. l \in Nat /\ m \in Nat /\ l <= m /\ m < call.size
            BY <1>10, <2>1, <2>2
        <3>2. l < call.size
            BY <3>1
        <3> QED
            BY <1>11, <3>2
    <2>4. /\ T[i - 1] \in FormatTexts /\ P[i - 1] \in Outcomes /\ nodes[i] \in FormatNodes
          /\ T[i] = T[i - 1] \o Expand(call, nodes[i]) /\ P[i] = WriteNode(call, P[i - 1], nodes[i])
        BY <1>10, <2>1
    <2>5. Len(T[i - 1] \o Expand(call, nodes[i])) < call.size
        BY <2>2, <2>4
    <2>6. Whole(call, T[i - 1] \o Expand(call, nodes[i]), WriteNode(call, P[i - 1], nodes[i]))
        BY <2>3, <2>4, <2>5, NodeWritten
    <2> QED
        BY <2>4, <2>6
<1> HIDE DEF Good
<1>12. n - 1 \in Good
    <2>1. 0 .. n - 1 \subseteq Good
        BY <1>1, <1>9, <1>11, WriteSteps!FromZero
    <2>2. n - 1 \in 0 .. n - 1
        BY <1>1
    <2> QED
        BY <2>1, <2>2
<1>13. Whole(call, T[n - 1], P[n - 1])
    BY <1>3, <1>12 DEF Good
<1>14. last = P[n] /\ last \in Outcomes
    <2>1. n \in 0 .. Len(nodes)
        BY <1>1
    <2> QED
        BY <1>6, <1>8, <2>1 DEF A
<1>15. IF Len(text) < call.size THEN Whole(call, text, last) ELSE Full(call, last)
    <2>1. n \in 1 .. n
        BY <1>1
    <2> PICK before, r, node : before = T[n - 1] /\ r = P[n - 1] /\ node = nodes[n]
        OBVIOUS
    <2>2. before \in FormatTexts /\ r \in Outcomes /\ node \in FormatNodes
        BY <1>10, <2>1
    <2>3. text = before \o Expand(call, node) /\ last = WriteNode(call, r, node)
        BY <1>2, <1>10, <1>14, <2>1
    <2>4. Len(before) < call.size /\ Whole(call, before, r)
        BY <1>3, <1>13
    <2> QED
        BY <2>2, <2>3, <2>4, NodeWritten
<1> DEFINE full == [last EXCEPT !.res = "NO_MEMORY"]
<1>16. full.res = "NO_MEMORY" /\ full.outside = last.outside
    BY <1>14 DEF Outcomes
<1> HIDE DEF full
<1>17. PICK r : r = Interpolate(call, nodes)
    OBVIOUS
<1>18. r = IF last.res = "SUCCESS" /\ ~last.stop /\ last.offset >= call.size THEN full ELSE last
    BY <1>7, <1>17 DEF full
<1>19. CASE Len(text) < call.size
    <2>1. ~(last.res = "SUCCESS" /\ last.offset >= call.size)
        <3>1. Len(text) \in Nat
            BY TextFacts
        <3> QED
            BY <1>15, <1>19, <3>1 DEF Whole
    <2>2. r = last
        BY <1>18, <2>1
    <2> QED
        BY <1>15, <1>17, <1>19, <2>2 DEF Whole
<1>20. CASE ~(Len(text) < call.size)
    BY <1>15, <1>16, <1>17, <1>18, <1>20 DEF Full
<1> QED
    BY <1>19, <1>20

(* What a template that is accepted comes to, in a buffer of any size, for a *)
(* template of any length and a value of any length, if nothing comes after  *)
(* the part that fills the buffer: the text it stands for, within the        *)
(* buffer, or a refusal (clog_interpolator_parse and                         *)
(* clog_interpolator_interpolate).                                           *)
THEOREM FormatsAreRendered ==
    formatCall \in FormatCalls(Seq(Marks), Nat, Nat \ {0, 1}) \cup {NULL} => FormatRendered
<1> SUFFICES ASSUME formatCall \in FormatCalls(Seq(Marks), Nat, Nat \ {0, 1}), formatCall # NULL
             PROVE  FormatRendered
    BY DEF FormatRendered
<1> DEFINE call == formatCall
           f == call.template
           p == ParseFormat(f)
<1>1. f \in Seq(Marks) \ {<<>>} /\ call.value \in Nat /\ call.room \in Nat /\ call.size \in Nat \ {0}
    BY DEF FormatCalls
<1>2. PICK R \in [0 .. Len(f) -> FormatTexts] : Rendered(R, call) /\ Rendering(call) = R[Len(f)]
    BY <1>1, RenderingIs
<1>3. Rendering(call) \in FormatTexts
    <2>1. Len(f) \in 0 .. Len(f)
        BY <1>1
    <2> QED
        BY <1>2, <2>1
<1>4. ASSUME WellFormed(f)
      PROVE  /\ p.res = "SUCCESS" <=> Known(f)
             /\ p.res = "SUCCESS" =>
                  p.nodes \in Seq(FormatNodes) \ {<<>>} /\ Spelt(call, p.nodes, Rendering(call))
    BY <1>1, <1>2, <1>4, FormatParsed
<1>5. ASSUME WellFormed(f), p.res = "SUCCESS", call.value > 0,
             Len(Expansion(call, Front(p.nodes))) < call.size
      PROVE  LET r == Interpolate(call, p.nodes)
                 text == Rendering(call)
             IN /\ ~r.outside
                /\ IF Len(text) < call.size
                   THEN \/ r.res = "SUCCESS" /\ r.out = text /\ r.offset = Len(text)
                        \/ r.res = "INVALID_PARAM" /\ Narrow(call)
                   ELSE r.res # "SUCCESS"
    <2>1. call.value \in Nat \ {0}
        BY <1>1, <1>5
    <2> PICK nodes : nodes = p.nodes
        OBVIOUS
    <2>2. nodes \in Seq(FormatNodes) \ {<<>>} /\ Spelt(call, nodes, Rendering(call))
        BY <1>4, <1>5
    <2>3. Len(Expansion(call, Front(nodes))) < call.size
        BY <1>5
    <2> HIDE DEF p
    <2> QED
        BY <1>1, <1>3, <2>1, <2>2, <2>3, NodesWritten
<1> QED
    BY <1>4, <1>5 DEF FormatRendered

================================================================================
