------------------------------ MODULE UnsafeQueue ------------------------------
(***************************************************************************)
(* source/utils/clog_queue.c, and the channel over it,                     *)
(* source/channel/clog_channel_unsafe_queue.c: a linked list with a head,  *)
(* a tail and a size, "used for one thread usage"                          *)
(* (clog_channel_unsafe_queue.h:16), so every call is one step.  The       *)
(* channel sets no deallocator: a node never frees what it points to.      *)
(***************************************************************************)
EXTENDS Naturals, Sequences, FiniteSets, Pointers

CONSTANTS
    Nodes,   \* addresses of nodes
    Items    \* what is queued: addresses of log items

ASSUME UnsafeQueueAssumption == NULL \notin Nodes \cup Items

VARIABLES
    qopen,   \* channel->param is a queue
    head, tail, qsize,
    heap,    \* the allocated nodes: what each holds and its successor
    queued   \* what the channel promises to hold, in order

queueVars == <<qopen, head, tail, qsize, heap, queued>>

QueueInit ==
    /\ qopen = FALSE /\ head = NULL /\ tail = NULL /\ qsize = 0
    /\ heap = <<>> /\ queued = <<>>

\* clog_queue_node_create: any address that is not in use.
Spare == Nodes \ DOMAIN heap
Without(n) == [m \in DOMAIN heap \ {n} |-> heap[m]]

OpenChannel ==
    /\ qopen' = TRUE
    /\ head' = NULL /\ tail' = NULL /\ qsize' = 0 /\ queued' = <<>>
    /\ UNCHANGED heap

Enqueue(n, x) ==
    /\ heap' = LET grown == [m \in DOMAIN heap \cup {n} |->
                                IF m = n THEN [data |-> x, next |-> NULL] ELSE heap[m]]
               IN  IF tail = NULL THEN grown ELSE [grown EXCEPT ![tail].next = n]
    /\ head' = IF tail = NULL THEN n ELSE head
    /\ tail' = n
    /\ qsize' = qsize + 1
    /\ queued' = Append(queued, x)
    /\ UNCHANGED qopen

Peek == heap[head].data
IsEmpty == head = NULL

\* The tail goes with the last node.  The mutant keeps it.
TailKept(next) == tail
TailAfter(next) == IF next = NULL THEN NULL ELSE tail

\* The caller has read Peek.
Dequeue ==
    /\ ~IsEmpty
    /\ head' = heap[head].next
    /\ tail' = TailAfter(heap[head].next)
    /\ qsize' = qsize - 1
    /\ heap' = Without(head)
    /\ queued' = Tail(queued)
    /\ UNCHANGED qopen

\* The nodes from n on, in order.
Chain[n \in Nodes \cup {NULL}] ==
    IF n \notin DOMAIN heap THEN <<>> ELSE <<n>> \o Chain[heap[n].next]
Content == [i \in 1 .. Len(Chain[head]) |-> heap[Chain[head][i]].data]

\* close drains the queue, then destroys it: clog_queue_clear frees what a
\* walk from the head meets.
CloseChannel ==
    /\ qopen' = FALSE
    /\ head' = NULL /\ tail' = NULL /\ qsize' = 0 /\ queued' = <<>>
    /\ heap' = [n \in DOMAIN heap \ {Chain[head][i] : i \in 1 .. Len(Chain[head])} |-> heap[n]]

\* The queue by itself, under its contract: open, then reads and writes.
QueueNext ==
    \/ ~qopen /\ OpenChannel
    \/ qopen /\ (Dequeue \/ CloseChannel \/ \E n \in Spare, x \in Items : Enqueue(n, x))

QueueSpec == QueueInit /\ [][QueueNext]_queueVars

-----------------------------------------------------------------------------
(* The list is a queue: the walk from the head finds what was written and   *)
(* not yet read, in order, ends at the tail, meets every node there is, and *)
(* is as long as size says.  A list that has run empty must forget its tail *)
(* (clog_queue.c:89), or the next write hangs behind a freed node.          *)
QueueWhole ==
    /\ Content = queued /\ qsize = Len(queued)
    /\ DOMAIN heap = {Chain[head][i] : i \in 1 .. qsize}
    /\ tail = (IF IsEmpty THEN NULL ELSE Chain[head][qsize])
    /\ ~qopen => IsEmpty

================================================================================
