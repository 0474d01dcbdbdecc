------------------------------- MODULE BufferPool -------------------------------
(***************************************************************************)
(* source/utils/clog_buffer_pool.c: a lock-free stack of buffers that      *)
(* grows when it is empty, shrinks while few of its buffers are in use,    *)
(* and outlives its finalization until the last buffer comes back.  One    *)
(* action per access to shared memory.  Buffers are addresses: malloc may  *)
(* hand out a freed one again.                                             *)
(*                                                                         *)
(* A thread stops at an access to freed memory: such a step has no meaning *)
(* in C, and the properties say whether it can come to that.               *)
(***************************************************************************)
EXTENDS Integers, FiniteSets, Pointers

CONSTANTS
    Acquirers,      \* threads that call clog_buffer_pool_acquire
    Releasers,      \* threads that call clog_buffer_pool_release
    Bufs,           \* addresses malloc can return for a buffer
    InitCapacity,   \* init_capacity
    Threshold,      \* threshold, per cent
    Word            \* size of uintptr_t: counters wrap around here

ASSUME PoolAssumption ==
    /\ IsFiniteSet(Bufs)
    /\ NULL \notin Bufs
    /\ InitCapacity \in 1 .. Cardinality(Bufs)
    /\ Threshold \in 1 .. 99
    /\ Word \in Nat /\ Word > 100 * (Cardinality(Bufs) + 2)

Threads == Acquirers \cup Releasers
Addresses == Bufs \cup {NULL}

VARIABLES
    pool,       \* *pool; live: allocated
    mem,        \* the buffers: next and type
    live,       \* the buffers allocated
    holders,    \* history: to how many callers at once a buffer belongs
    th,         \* per thread: where it is and its locals
    fin         \* clog_buffer_pool_finalize: where it is, and its buffer

vars == <<pool, mem, live, holders, th, fin>>

Idle == [pc |-> "idle", old |-> NULL, new |-> NULL, buf |-> NULL, cap |-> 0]

Places ==
    {"idle", "head", "next", "recheck", "cas", "taken", "empty", "grow", "type", "dead",
     "uncount", "last", "cap", "rate", "shrink", "drop", "push", "setnext", "pushcas", "count"}

Locals ==
    [pc : Places, old : Addresses, new : Addresses, buf : Addresses, cap : 0 .. Word - 1]

PoolTypeOK ==
    /\ pool \in [head : Addresses, free : 0 .. Word - 1, capacity : 0 .. Word - 1,
                 state : {"RUNNING", "FINALIZING", "DISABLED"}, init : {0, InitCapacity},
                 auto : BOOLEAN, live : BOOLEAN]
    /\ mem \in [Bufs -> [next : Addresses, type : {"POOL", "TMP"}]]
    /\ live \subseteq Bufs
    /\ holders \in [Bufs -> Nat]
    /\ th \in [Threads -> Locals]
    /\ fin \in [pc : {"idle", "swap", "walk", "settle", "done"}, buf : Addresses]

\* clog_buffer_pool_initialize: InitCapacity buffers in a list of any order.
Init ==
    /\ \E list \in [1 .. InitCapacity -> Bufs], auto \in BOOLEAN :
        /\ \A i, j \in 1 .. InitCapacity : list[i] = list[j] => i = j
        /\ live = {list[i] : i \in 1 .. InitCapacity}
        /\ pool = [head |-> list[1], free |-> InitCapacity, capacity |-> InitCapacity,
                   state |-> "RUNNING", init |-> InitCapacity, auto |-> auto,
                   live |-> TRUE]
        /\ mem = [b \in Bufs |->
                    [next |-> IF \E i \in 1 .. InitCapacity - 1 : list[i] = b
                              THEN list[1 + CHOOSE i \in 1 .. InitCapacity - 1 : list[i] = b]
                              ELSE NULL,
                     type |-> "POOL"]]
    /\ holders = [b \in Bufs |-> 0]
    /\ th = [t \in Threads |-> Idle]
    /\ fin = [pc |-> "idle", buf |-> NULL]

--------------------------------------------------------------------------------
Running == pool.state = "RUNNING"
Minus(n) == (n - 1) % Word
Plus(n) == (n + 1) % Word

At(t, pc) == th[t].pc = pc
Go(t, from, to) == At(t, from) /\ th' = [th EXCEPT ![t].pc = to]
Return(t, from) == At(t, from) /\ th' = [th EXCEPT ![t] = Idle]

\* clog_atomic_cas of the head: by address only.
HeadUncheckedMutant(t) == TRUE
HeadUnchanged(t) == pool.head = th[t].old

\* A call begins.  Callers stay out of finalize, as clog_context_destroy sees to,
\* and give the buffers that are still out back one at a time.
MayCall(t) ==
    /\ At(t, "idle")
    /\ Running \/ (fin.pc = "done" /\ \A u \in Threads : At(u, "idle"))

\* clog_buffer_pool_malloc_single
MallocSingle(b, type) ==
    /\ b \notin live
    /\ live' = live \cup {b}
    /\ mem' = [mem EXCEPT ![b] = [next |-> NULL, type |-> type]]

\* Acquire returns b: from here on the caller may use it and release it.
HandOut(b) == holders' = [holders EXCEPT ![b] = @ + 1]

\* A temporary buffer goes straight to the caller.
Temporary(t) ==
    /\ \E b \in Bufs : MallocSingle(b, "TMP") /\ HandOut(b)
    /\ th' = [th EXCEPT ![t] = Idle]

Free(b) == b \in live /\ live' = live \ {b}

--------------------------------------------------------------------------------
(* clog_buffer_pool_acquire                                                 *)

\* The first state check.
AcquireBegin(t) ==
    /\ MayCall(t) /\ pool.live /\ Running
    /\ Go(t, "idle", "head")
    /\ UNCHANGED <<pool, mem, live, holders, fin>>

\* Load pool->head.
AcquireHead(t) ==
    /\ pool.live /\ At(t, "head")
    /\ th' = [th EXCEPT ![t].pc = IF pool.head = NULL THEN "empty" ELSE "next",
                        ![t].old = pool.head]
    /\ UNCHANGED <<pool, mem, live, holders, fin>>

\* Load buffer->next of a buffer that is not ours yet.
AcquireNext(t) ==
    /\ At(t, "next") /\ th[t].old \in live
    /\ th' = [th EXCEPT ![t].pc = "recheck", ![t].new = mem[th[t].old].next]
    /\ UNCHANGED <<pool, mem, live, holders, fin>>

\* The second state check.
AcquireRecheck(t) ==
    /\ pool.live /\ Running
    /\ Go(t, "recheck", "cas")
    /\ UNCHANGED <<pool, mem, live, holders, fin>>

\* Either check fails: a temporary buffer from the system.
AcquireTemporary(t) ==
    /\ pool.live /\ ~ Running
    /\ th[t].pc \in {"idle", "recheck"} /\ (At(t, "idle") => MayCall(t))
    /\ Temporary(t)
    /\ UNCHANGED <<pool, fin>>

\* Compare and swap of the head; if it fails, load the head again.
AcquireCas(t) ==
    /\ pool.live /\ At(t, "cas")
    /\ IF HeadUnchanged(t)
       THEN pool' = [pool EXCEPT !.head = th[t].new] /\ Go(t, "cas", "taken")
       ELSE UNCHANGED pool /\ Go(t, "cas", "head")
    /\ UNCHANGED <<mem, live, holders, fin>>

\* free_count - 1, buffer->next = 0, return the buffer.
AcquireTaken(t) ==
    /\ pool.live /\ Return(t, "taken") /\ HandOut(th[t].old)
    /\ pool' = [pool EXCEPT !.free = Minus(@)]
    /\ mem' = [mem EXCEPT ![th[t].old].next = NULL]
    /\ UNCHANGED <<live, fin>>

\* Nothing in the pool: grow, or help out with a temporary buffer.
AcquireEmpty(t) ==
    /\ pool.live /\ At(t, "empty")
    /\ IF pool.auto
       THEN \E b \in Bufs :
                /\ MallocSingle(b, "POOL")
                /\ th' = [th EXCEPT ![t].pc = "grow", ![t].buf = b]
                /\ UNCHANGED holders
       ELSE Temporary(t)
    /\ UNCHANGED <<pool, fin>>

\* malloc fails: the caller gets NULL.
AcquireNoMemory(t) ==
    /\ th[t].pc \in {"empty", "recheck"} /\ (At(t, "recheck") => ~ Running)
    /\ th' = [th EXCEPT ![t] = Idle]
    /\ UNCHANGED <<pool, mem, live, holders, fin>>

\* capacity + 1, return the buffer; the mutant does not count.
AcquireGrowUncounted(t) ==
    /\ pool.live /\ Return(t, "grow") /\ HandOut(th[t].buf)
    /\ UNCHANGED <<pool, mem, live, fin>>

AcquireGrow(t) ==
    /\ pool.live /\ Return(t, "grow") /\ HandOut(th[t].buf)
    /\ pool' = [pool EXCEPT !.capacity = Plus(@)]
    /\ UNCHANGED <<mem, live, fin>>

AcquireStep(t) ==
    \/ AcquireHead(t) \/ AcquireNext(t) \/ AcquireRecheck(t) \/ AcquireTemporary(t)
    \/ AcquireCas(t) \/ AcquireTaken(t) \/ AcquireEmpty(t) \/ AcquireNoMemory(t)
    \/ AcquireGrow(t)

--------------------------------------------------------------------------------
(* clog_buffer_pool_release                                                 *)

\* A caller gives back a buffer it holds.
ReleaseBegin(t) ==
    /\ MayCall(t)
    /\ \E b \in live :
        /\ holders[b] > 0
        /\ holders' = [holders EXCEPT ![b] = @ - 1]
        /\ th' = [th EXCEPT ![t].pc = "type", ![t].buf = b]
    /\ UNCHANGED <<pool, mem, live, fin>>

ReleaseTemporary(t) ==
    /\ Return(t, "type") /\ mem[th[t].buf].type = "TMP"
    /\ Free(th[t].buf)
    /\ UNCHANGED <<pool, mem, holders, fin>>

\* The state check, and the split on auto_manager.
ReleaseState(t) ==
    /\ pool.live
    /\ At(t, "type") /\ mem[th[t].buf].type = "POOL"
    /\ Go(t, "type", IF pool.state = "FINALIZING" THEN "dead"
                     ELSE IF pool.auto THEN "cap" ELSE "push")
    /\ UNCHANGED <<pool, mem, live, holders, fin>>

\* Finalizing: free the buffer, ...
ReleaseDead(t) ==
    /\ Go(t, "dead", "uncount") /\ Free(th[t].buf)
    /\ UNCHANGED <<pool, mem, holders, fin>>

\* ... capacity - 1, ...
ReleaseUncountForgotten(t) ==
    pool.live /\ Go(t, "uncount", "last") /\ UNCHANGED <<pool, mem, live, holders, fin>>

ReleaseUncount(t) ==
    /\ pool.live /\ Go(t, "uncount", "last")
    /\ pool' = [pool EXCEPT !.capacity = Minus(@)]
    /\ UNCHANGED <<mem, live, holders, fin>>

\* With nothing left the pool itself goes; release and finalize both do this.
FreePoolIfEmpty ==
    /\ pool.live
    /\ pool' = IF pool.capacity = 0 THEN [pool EXCEPT !.state = "DISABLED", !.live = FALSE]
                                    ELSE pool

ReleaseLast(t) ==
    /\ Return(t, "last") /\ FreePoolIfEmpty
    /\ UNCHANGED <<mem, live, holders, fin>>

\* auto_manager: load capacity, ...
ReleaseCapacity(t) ==
    /\ pool.live /\ At(t, "cap")
    /\ th' = [th EXCEPT ![t].pc = "rate", ![t].cap = pool.capacity]
    /\ UNCHANGED <<pool, mem, live, holders, fin>>

\* The occupancy in per cent, in unsigned arithmetic.
Rate(free, capacity) == (100 - ((free * 100) % Word) \div capacity) % Word

\* ... load free_count, and keep the buffer or shrink.
ReleaseRate(t) ==
    /\ pool.live /\ th[t].cap # 0
    /\ Go(t, "rate", IF Rate(pool.free, th[t].cap) > Threshold \/ th[t].cap = pool.init
                     THEN "push" ELSE "shrink")
    /\ UNCHANGED <<pool, mem, live, holders, fin>>

\* Compare and swap of the capacity.
ReleaseShrink(t) ==
    /\ pool.live
    /\ IF pool.capacity = th[t].cap
       THEN /\ pool' = [pool EXCEPT !.capacity = th[t].cap - 1]
            /\ Go(t, "shrink", "drop")
       ELSE Go(t, "shrink", "cap") /\ UNCHANGED pool
    /\ UNCHANGED <<mem, live, holders, fin>>

ReleaseDrop(t) ==
    /\ Return(t, "drop") /\ Free(th[t].buf)
    /\ UNCHANGED <<pool, mem, holders, fin>>

\* Push: load the head, ...
ReleaseHead(t) ==
    /\ pool.live /\ At(t, "push")
    /\ th' = [th EXCEPT ![t].pc = "setnext", ![t].old = pool.head]
    /\ UNCHANGED <<pool, mem, live, holders, fin>>

\* ... store it in buffer->next, ...
ReleaseNext(t) ==
    /\ th[t].buf \in live /\ Go(t, "setnext", "pushcas")
    /\ mem' = [mem EXCEPT ![th[t].buf].next = th[t].old]
    /\ UNCHANGED <<pool, live, holders, fin>>

\* ... compare and swap the head, ...
ReleaseCas(t) ==
    /\ pool.live
    /\ IF HeadUnchanged(t)
       THEN pool' = [pool EXCEPT !.head = th[t].buf] /\ Go(t, "pushcas", "count")
       ELSE UNCHANGED pool /\ Go(t, "pushcas", "push")
    /\ UNCHANGED <<mem, live, holders, fin>>

\* ... free_count + 1.
ReleaseCount(t) ==
    /\ pool.live /\ Return(t, "count")
    /\ pool' = [pool EXCEPT !.free = Plus(@)]
    /\ UNCHANGED <<mem, live, holders, fin>>

ReleaseStep(t) ==
    \/ ReleaseTemporary(t) \/ ReleaseState(t) \/ ReleaseDead(t) \/ ReleaseUncount(t)
    \/ ReleaseLast(t) \/ ReleaseCapacity(t) \/ ReleaseRate(t) \/ ReleaseShrink(t)
    \/ ReleaseDrop(t) \/ ReleaseHead(t) \/ ReleaseNext(t) \/ ReleaseCas(t)
    \/ ReleaseCount(t)

--------------------------------------------------------------------------------
(* clog_buffer_pool_finalize: once, while buffers may still be out          *)

FinalizeBegin ==
    /\ pool.live /\ Running /\ fin.pc = "idle"
    /\ \A t \in Threads : At(t, "idle")
    /\ pool' = [pool EXCEPT !.state = "FINALIZING"]
    /\ fin' = [fin EXCEPT !.pc = "swap"]
    /\ UNCHANGED <<mem, live, holders, th>>

\* The loop that takes the whole list.
FinalizeSwap ==
    /\ pool.live /\ fin.pc = "swap"
    /\ pool' = [pool EXCEPT !.head = NULL]
    /\ fin' = [pc |-> "walk", buf |-> pool.head]
    /\ UNCHANGED <<mem, live, holders, th>>

\* One buffer of the list: free it, count it out.
FinalizeWalk ==
    /\ pool.live /\ fin.pc = "walk" /\ fin.buf # NULL
    /\ Free(fin.buf)
    /\ fin' = [fin EXCEPT !.buf = mem[fin.buf].next]
    /\ pool' = [pool EXCEPT !.free = Minus(@), !.capacity = Minus(@)]
    /\ UNCHANGED <<mem, holders, th>>

\* init_capacity = 0, auto_manager = false.
FinalizeFields ==
    /\ pool.live /\ fin.pc = "walk" /\ fin.buf = NULL
    /\ pool' = [pool EXCEPT !.init = 0, !.auto = FALSE]
    /\ fin' = [fin EXCEPT !.pc = "settle"]
    /\ UNCHANGED <<mem, live, holders, th>>

\* With every buffer back the pool goes now, else with the last buffer.
FinalizeSettle ==
    /\ fin.pc = "settle" /\ FreePoolIfEmpty
    /\ fin' = [fin EXCEPT !.pc = "done"]
    /\ UNCHANGED <<mem, live, holders, th>>

FinalizeStep == FinalizeSwap \/ FinalizeWalk \/ FinalizeFields \/ FinalizeSettle

\* The pool is gone; so may be every buffer.
Finished == ~ pool.live /\ UNCHANGED vars

Next ==
    \/ \E t \in Acquirers : AcquireBegin(t) \/ AcquireStep(t)
    \/ \E t \in Releasers : ReleaseBegin(t) \/ ReleaseStep(t)
    \/ FinalizeBegin
    \/ FinalizeStep
    \/ Finished

Spec == Init /\ [][Next]_vars

--------------------------------------------------------------------------------
(* Properties                                                               *)

\* S has the buffer a list starts with, if any, and with a buffer the next one.
Linked(m, start, S) ==
    /\ start # NULL => start \in S
    /\ \A b \in S : m[b].next # NULL => m[b].next \in S

\* The buffers of the list: in every such set.
Chain(m, start) == {b \in Bufs : \A S \in SUBSET Bufs : Linked(m, start, S) => b \in S}

\* The buffers that head and the next fields link together.
FreeList == Chain(mem, pool.head)

\* A buffer belongs to one caller at a time, and while it does it is neither
\* freed nor in the free list for the next acquire to hand out again.
\* (clog_buffer_pool_acquire against release, shrink and finalize; the test
\* MultiThreadUniqueEntryCheck looks for the same.)
UniqueHandout ==
    /\ \A b \in Bufs : holders[b] <= 1
    /\ {b \in Bufs : holders[b] > 0} \subseteq live \ FreeList

BuffersAlive ==
    /\ \A t \in Threads :
        /\ At(t, "next") => th[t].old \in live
        /\ th[t].pc \in {"type", "dead", "setnext", "drop"} => th[t].buf \in live
    /\ fin.buf # NULL => fin.buf \in live

PoolAlive ==
    /\ \A t \in Threads :
        (~ At(t, "idle") /\ ~ (At(t, "type") /\ mem[th[t].buf].type = "TMP")) => pool.live
    /\ fin.pc \in {"swap", "walk", "settle"} => pool.live

\* No thread stands before an access to a freed buffer: not acquire at
\* buffer->next, not release at its push or its shrink, not finalize in its walk.
\* Nor does one stand before an access to the freed pool; so the pool is freed
\* once.  Every step of a call but those of a temporary buffer's release reads or
\* writes the pool.
MemoryAlive == BuffersAlive /\ PoolAlive

CapacityFloor ==
    Running =>
        /\ pool.capacity >= InitCapacity
        /\ \A t \in Releasers : th[t].pc \in {"rate", "shrink"} => th[t].cap >= InitCapacity

\* The counters are words.  However releases that shrink the pool race with
\* acquires that grow it, a running pool never shrinks below its initial
\* capacity; so the capacity that release divides by is never 0.  Between calls
\* they say what the memory holds: capacity counts every pool buffer allocated,
\* in or out, and free_count those in the free list.  They are all that finalize
\* and the last release have to decide by.
CountersExact ==
    /\ PoolTypeOK
    /\ CapacityFloor
    /\ (pool.live /\ fin.pc \in {"idle", "done"} /\ \A t \in Threads : At(t, "idle")) =>
            /\ pool.capacity = Cardinality({b \in live : mem[b].type = "POOL"})
            /\ pool.free = Cardinality(FreeList)

\* The pool outlives its buffers, and is not leaked once it is finalized and
\* the last of them is back: clog_buffer_pool_finalize and the last
\* clog_buffer_pool_release decide that between them.
PoolOutlivesBuffers ==
    LET out == {b \in live : mem[b].type = "POOL"}
    IN  /\ ~ pool.live => out = {}
        /\ (fin.pc = "done" /\ (\A t \in Threads : At(t, "idle")) /\ out = {}) => ~ pool.live

================================================================================
