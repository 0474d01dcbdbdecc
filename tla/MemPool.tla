-------------------------------- MODULE MemPool --------------------------------
(***************************************************************************)
(* source/utils/clog_mem_pool.c: free lists of blocks by size class, for   *)
(* one thread.  A size beyond the largest class, or asked for while the    *)
(* pool does not run, comes from the system.                               *)
(***************************************************************************)
EXTENDS Naturals, FiniteSets, TLC

CONSTANTS
    Classes,    \* 1 .. n: the size classes, smallest first
    MaxLevel,   \* init takes a level up to this
    PreNum,     \* [Classes -> Nat]: blocks init allocates for a class
    PreLevel,   \* [Classes -> level]: from which level on it does
    MaxBlocks,  \* bound: blocks ever allocated; they are numbered
    NULL

SYSTEM == 0   \* block->where is CLOG_MEM_BLOCK_SYSTEM

VARIABLES
    heapState,      \* heap->state
    heapUsed, heapAllocated, heapHead, heapTail,
    blocks,         \* live blocks: the class and the next of each
    allocated,      \* the number of blocks ever allocated
    inUse           \* what the caller has acquired and not released

mpVars == <<heapState, heapUsed, heapAllocated, heapHead, heapTail, blocks, allocated, inUse>>

MpInit ==
    /\ heapState = [c \in Classes |-> "NOT_INIT"]
    /\ heapUsed = [c \in Classes |-> 0] /\ heapAllocated = [c \in Classes |-> 0]
    /\ heapHead = [c \in Classes |-> NULL] /\ heapTail = [c \in Classes |-> NULL]
    /\ blocks = <<>> /\ allocated = 0 /\ inUse = {}

Block(class, next) == [class |-> class, next |-> next]
Live == DOMAIN blocks
FreeBlocks(bs) == [b \in Live \ bs |-> blocks[b]]

\* init, called once or again after finalize: every list is new; the allocation
\* of its blocks may stop early.
\* Blocks are numbered class by class.
Setup(level) ==
    /\ \A c \in Classes : heapState[c] \in {"NOT_INIT", "TERMINATED"}
    /\ \E got \in [Classes -> 0 .. MaxBlocks] :
        LET before[c \in 0 .. Cardinality(Classes)] ==
                IF c = 0 THEN allocated ELSE before[c - 1] + got[c]
            Mine(c) == before[c - 1] + 1 .. before[c]
            ClassOf(b) == CHOOSE c \in Classes : b \in Mine(c)
            top == before[Cardinality(Classes)]
        IN  /\ \A c \in Classes : got[c] <= (IF level >= PreLevel[c] THEN PreNum[c] ELSE 0)
            /\ top <= MaxBlocks
            /\ allocated' = top
            /\ blocks' = [b \in allocated + 1 .. top |->
                 Block(ClassOf(b), IF b = before[ClassOf(b)] THEN NULL ELSE b + 1)] @@ blocks
            /\ heapHead' = [c \in Classes |-> IF got[c] = 0 THEN NULL ELSE before[c - 1] + 1]
            /\ heapTail' = [c \in Classes |-> IF got[c] = 0 THEN NULL ELSE before[c]]
            /\ heapAllocated' = got
    /\ heapUsed' = [c \in Classes |-> 0]
    /\ heapState' = [c \in Classes |-> "RUNNING"]
    /\ UNCHANGED inUse

New(class) ==
    /\ allocated < MaxBlocks
    /\ allocated' = allocated + 1
    /\ blocks' = (allocated' :> Block(class, NULL)) @@ blocks
    /\ inUse' = inUse \cup {allocated'}

\* acquire of a size of no class, or from a heap that is not running.
AcquireSystem ==
    /\ New(SYSTEM)
    /\ UNCHANGED <<heapState, heapUsed, heapAllocated, heapHead, heapTail>>

AcquireNew(c) ==
    /\ heapState[c] = "RUNNING" /\ heapHead[c] = NULL
    /\ New(c)
    /\ heapAllocated' = [heapAllocated EXCEPT ![c] = @ + 1]
    /\ heapUsed' = [heapUsed EXCEPT ![c] = @ + 1]
    /\ UNCHANGED <<heapState, heapHead, heapTail>>

AcquireFree(c) ==
    /\ heapState[c] = "RUNNING" /\ heapHead[c] # NULL
    /\ LET next == blocks[heapHead[c]].next IN
         /\ heapHead' = [heapHead EXCEPT ![c] = next]
         /\ heapTail' = [heapTail EXCEPT ![c] = IF next = NULL THEN NULL ELSE @]
    /\ heapUsed' = [heapUsed EXCEPT ![c] = @ + 1]
    /\ inUse' = inUse \cup {heapHead[c]}
    /\ UNCHANGED <<heapState, heapAllocated, blocks, allocated>>

ReleaseSystem(b) ==
    /\ blocks[b].class = SYSTEM
    /\ blocks' = FreeBlocks({b}) /\ inUse' = inUse \ {b}
    /\ UNCHANGED <<heapState, heapUsed, heapAllocated, heapHead, heapTail, allocated>>

\* The block goes behind the tail.  Its own next is left as it is.
ReleaseRunning(b) ==
    LET c == blocks[b].class IN
      /\ c # SYSTEM /\ heapState[c] = "RUNNING"
      /\ IF heapTail[c] = NULL
           THEN heapHead' = [heapHead EXCEPT ![c] = b] /\ UNCHANGED blocks
           ELSE blocks' = [blocks EXCEPT ![heapTail[c]].next = b] /\ UNCHANGED heapHead
      /\ heapTail' = [heapTail EXCEPT ![c] = b]
      /\ heapUsed' = [heapUsed EXCEPT ![c] = @ - 1]
      /\ inUse' = inUse \ {b}
      /\ UNCHANGED <<heapState, heapAllocated, allocated>>

\* After finalize a heap block goes to the system.
ReleaseStopping(b) ==
    LET c == blocks[b].class IN
      /\ c # SYSTEM /\ heapState[c] # "RUNNING"
      /\ IF heapUsed[c] # 0 /\ heapState[c] = "STOPPING"
           THEN /\ heapUsed' = [heapUsed EXCEPT ![c] = @ - 1]
                /\ heapAllocated' = [heapAllocated EXCEPT ![c] = @ - 1]
           ELSE UNCHANGED <<heapUsed, heapAllocated>>
      /\ heapState' = [heapState EXCEPT ![c] = IF heapUsed[c] = 0 THEN "TERMINATED" ELSE @]
      /\ blocks' = FreeBlocks({b}) /\ inUse' = inUse \ {b}
      /\ UNCHANGED <<heapHead, heapTail, allocated>>

Release(b) == ReleaseSystem(b) \/ ReleaseRunning(b) \/ ReleaseStopping(b)

\* finalize frees the list of every heap; what its walk does to a list that
\* has no end is left out.
Ends(c) == heapTail[c] # NULL => blocks[heapTail[c]].next = NULL
Listed(c) ==
    LET upTo[n \in 0 .. MaxBlocks] ==
            IF n = 0 THEN {heapHead[c]} \ {NULL}
            ELSE upTo[n - 1] \cup ({blocks[b].next : b \in upTo[n - 1]} \ {NULL})
    IN upTo[MaxBlocks]
Finalize ==
    /\ \A c \in Classes : heapState[c] = "RUNNING" /\ Ends(c)
    /\ blocks' = FreeBlocks(UNION {Listed(c) : c \in Classes})
    /\ heapAllocated' = [c \in Classes |-> heapAllocated[c] - Cardinality(Listed(c))]
    /\ heapState' = [c \in Classes |-> IF heapUsed[c] = 0 THEN "TERMINATED" ELSE "STOPPING"]
    /\ UNCHANGED <<heapUsed, heapHead, heapTail, allocated, inUse>>

MpNext ==
    \/ AcquireSystem \/ Finalize
    \/ \E level \in 0 .. MaxLevel : Setup(level)
    \/ \E c \in Classes : AcquireNew(c) \/ AcquireFree(c)
    \/ \E b \in inUse : Release(b)

MpSpec == MpInit /\ [][MpNext]_mpVars

-----------------------------------------------------------------------------
(* A block that a caller holds is not in the list it would be acquired from *)
(* again: only a release puts it back (clog_mem_pool.h:39, "release memory  *)
(* to mem pool").  The code breaks it: a released block keeps the next it   *)
(* had, so the walk goes on from the tail to a block that has been taken    *)
(* (clog_mem_pool.c:195), or for ever.                                      *)
HandsOutFreeOnly == \A c \in Classes : heapState[c] = "RUNNING" => heapHead[c] \notin inUse

================================================================================
