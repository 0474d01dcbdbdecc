------------------------------- MODULE MpscQueue -------------------------------
(***************************************************************************)
(* The lock-free multi-producer single-consumer queue of                   *)
(* source/utils/clog_atomic_mpsc_queue.c, with the channel around it       *)
(* (source/channel/clog_channel_atomic_queue.c), at the grain of its       *)
(* accesses to shared memory.  Nodes are addresses: malloc may hand out    *)
(* again an address that was freed.                                        *)
(***************************************************************************)
EXTENDS Naturals, Sequences

CONSTANTS
    Producers,  \* threads that call clog_atomic_mpsc_queue_in
    MaxItems,   \* bound: calls of _in each producer makes
    Nodes,      \* addresses malloc can return for a queue node
    NULL        \* the null pointer

ASSUME QueueAssumption ==
    /\ MaxItems \in Nat
    /\ NULL \notin Nodes
    /\ NULL \notin Producers \X (1 .. MaxItems)

VARIABLES
    next, data,         \* the fields of the nodes
    live,               \* nodes that are allocated
    head, tail,         \* the fields of the queue
    pc, node, prev,     \* a producer: where it is in _in, its locals
    sent,               \* a producer: calls of _in so far
    cpc, chead, cnext,  \* the consumer: where it is in _out, its locals
    cdata,
    closing,            \* the consumer is inside the channel's close
    chain, delivered    \* auxiliary: nodes from the head, items returned

vars == <<next, data, live, head, tail, pc, node, prev, sent,
          cpc, chead, cnext, cdata, closing, chain, delivered>>

producerVars == <<pc, node, prev, sent>>
consumerVars == <<cpc, chead, cnext, cdata, closing>>

Items == Producers \X (1 .. MaxItems)

NodeOrNull == Nodes \cup {NULL}

TypeOK ==
    /\ next \in [Nodes -> NodeOrNull]
    /\ data \in [Nodes -> Items \cup {NULL}]
    /\ live \in SUBSET Nodes
    /\ head \in Nodes
    /\ tail \in Nodes
    /\ pc \in [Producers -> {"idle", "swap", "link"}]
    /\ node \in [Producers -> NodeOrNull]
    /\ prev \in [Producers -> NodeOrNull]
    /\ sent \in [Producers -> 0 .. MaxItems]
    /\ cpc \in {"idle", "read", "store", "free", "walk", "gone"}
    /\ chead \in NodeOrNull
    /\ cnext \in NodeOrNull
    /\ cdata \in Items \cup {NULL}
    /\ closing \in BOOLEAN
    /\ chain \in Seq(Nodes)
    /\ delivered \in Seq(Items)

\* clog_atomic_mpsc_queue_create: one dummy node, head and tail on it.
Init ==
    \E dummy \in Nodes :
        /\ next = [n \in Nodes |-> NULL]
        /\ data = [n \in Nodes |-> NULL]
        /\ live = {dummy}
        /\ head = dummy
        /\ tail = dummy
        /\ pc = [p \in Producers |-> "idle"]
        /\ node = [p \in Producers |-> NULL]
        /\ prev = [p \in Producers |-> NULL]
        /\ sent = [p \in Producers |-> 0]
        /\ cpc = "idle"
        /\ chead = NULL
        /\ cnext = NULL
        /\ cdata = NULL
        /\ closing = FALSE
        /\ chain = <<dummy>>
        /\ delivered = <<>>

--------------------------------------------------------------------------------
(* clog_atomic_mpsc_queue_in                                                *)

\* malloc and the two initialising stores: the node is still private.  The
\* mutant does not initialise the link.
InAllocStaleLink(p) ==
    /\ pc[p] = "idle"
    /\ ~ closing
    /\ sent[p] < MaxItems
    /\ \E n \in Nodes \ live :
        /\ live' = live \cup {n}
        /\ data' = [data EXCEPT ![n] = <<p, sent[p] + 1>>]
        /\ node' = [node EXCEPT ![p] = n]
    /\ sent' = [sent EXCEPT ![p] = @ + 1]
    /\ pc' = [pc EXCEPT ![p] = "swap"]
    /\ UNCHANGED <<next, head, tail, prev, consumerVars, chain, delivered>>

InAlloc(p) ==
    /\ pc[p] = "idle"
    /\ ~ closing
    /\ sent[p] < MaxItems
    /\ \E n \in Nodes \ live :
        /\ live' = live \cup {n}
        /\ data' = [data EXCEPT ![n] = <<p, sent[p] + 1>>]
        /\ next' = [next EXCEPT ![n] = NULL]
        /\ node' = [node EXCEPT ![p] = n]
    /\ sent' = [sent EXCEPT ![p] = @ + 1]
    /\ pc' = [pc EXCEPT ![p] = "swap"]
    /\ UNCHANGED <<head, tail, prev, consumerVars, chain, delivered>>

\* malloc fails: CLOG_NO_MEMORY, the item is not taken.
InNoMemory(p) ==
    /\ pc[p] = "idle"
    /\ ~ closing
    /\ sent[p] < MaxItems
    /\ sent' = [sent EXCEPT ![p] = @ + 1]
    /\ UNCHANGED <<next, data, live, head, tail, pc, node, prev,
                   consumerVars, chain, delivered>>

\* atomic_exchange of the tail.
InSwap(p) ==
    /\ pc[p] = "swap"
    /\ prev' = [prev EXCEPT ![p] = tail]
    /\ tail' = node[p]
    /\ chain' = Append(chain, node[p])
    /\ pc' = [pc EXCEPT ![p] = "link"]
    /\ UNCHANGED <<next, data, live, head, node, sent, consumerVars, delivered>>

\* The store of prev_tail_node->next; the mutant writes to what is the tail now.
InLinkTail(p) ==
    /\ pc[p] = "link"
    /\ next' = [next EXCEPT ![tail] = node[p]]
    /\ pc' = [pc EXCEPT ![p] = "idle"]
    /\ UNCHANGED <<data, live, head, tail, node, prev, sent,
                   consumerVars, chain, delivered>>

InLink(p) ==
    /\ pc[p] = "link"
    /\ next' = [next EXCEPT ![prev[p]] = node[p]]
    /\ pc' = [pc EXCEPT ![p] = "idle"]
    /\ UNCHANGED <<data, live, head, tail, node, prev, sent,
                   consumerVars, chain, delivered>>

--------------------------------------------------------------------------------
(* clog_atomic_mpsc_queue_out                                               *)

\* head is written by this thread only, so loading it and its link is one
\* step; the link is not NULL.  The mutant asks head # tail instead.
OutLoadByTail ==
    /\ cpc = "idle"
    /\ head # tail
    /\ chead' = head
    /\ cnext' = next[head]
    /\ cpc' = "read"
    /\ UNCHANGED <<next, data, live, head, tail, producerVars, cdata, closing,
                   chain, delivered>>

OutLoad ==
    /\ cpc = "idle"
    /\ next[head] # NULL
    /\ chead' = head
    /\ cnext' = next[head]
    /\ cpc' = "read"
    /\ UNCHANGED <<next, data, live, head, tail, producerVars, cdata, closing,
                   chain, delivered>>

\* *data = next->data
OutRead ==
    /\ cpc = "read"
    /\ cdata' = data[cnext]
    /\ cpc' = "store"
    /\ UNCHANGED <<next, data, live, head, tail, producerVars, chead, cnext,
                   closing, chain, delivered>>

\* The store of queue->head.
OutStore ==
    /\ cpc = "store"
    /\ head' = cnext
    /\ cpc' = "free"
    /\ chain' = Tail(chain)
    /\ delivered' = Append(delivered, cdata)
    /\ UNCHANGED <<next, data, live, tail, producerVars, chead, cnext, cdata,
                   closing>>

\* clog_free(head).
OutFree ==
    /\ cpc = "free"
    /\ live' = live \ {chead}
    /\ cpc' = "idle"
    /\ UNCHANGED <<next, data, head, tail, producerVars, chead, cnext, cdata,
                   closing, chain, delivered>>

--------------------------------------------------------------------------------
(* clog_atomic_queue_channel_close: read until nothing is found, then       *)
(* destroy.  Its caller has made sure that no producer is in _in or will    *)
(* call it again ("ensure it will never be used").                          *)

CloseBegin ==
    /\ cpc = "idle"
    /\ ~ closing
    /\ \A p \in Producers : pc[p] = "idle"
    /\ closing' = TRUE
    /\ UNCHANGED <<next, data, live, head, tail, producerVars, cpc, chead,
                   cnext, cdata, chain, delivered>>

\* _out returns CLOG_TARGET_NOT_FOUND inside close: on to _destroy, which
\* starts at the head.  Outside close the same answer changes nothing.  The
\* mutant destroys without reading first.
CloseUndrained ==
    /\ cpc = "idle"
    /\ closing
    /\ chead' = head
    /\ cpc' = "walk"
    /\ UNCHANGED <<next, data, live, head, tail, producerVars, cnext, cdata,
                   closing, chain, delivered>>

CloseDrained ==
    /\ cpc = "idle"
    /\ closing
    /\ next[head] = NULL
    /\ chead' = head
    /\ cpc' = "walk"
    /\ UNCHANGED <<next, data, live, head, tail, producerVars, cnext, cdata,
                   closing, chain, delivered>>

\* One round of the loop of clog_atomic_mpsc_queue_destroy.
DestroyNode ==
    /\ cpc = "walk"
    /\ chead # NULL
    /\ live' = live \ {chead}
    /\ chead' = next[chead]
    /\ chain' = Tail(chain)
    /\ UNCHANGED <<next, data, head, tail, producerVars, cpc, cnext, cdata,
                   closing, delivered>>

\* The loop ends and the queue itself is freed.
DestroyQueue ==
    /\ cpc = "walk"
    /\ chead = NULL
    /\ cpc' = "gone"
    /\ UNCHANGED <<next, data, live, head, tail, producerVars, chead, cnext,
                   cdata, closing, chain, delivered>>

--------------------------------------------------------------------------------
Produce(p) == InAlloc(p) \/ InNoMemory(p) \/ InSwap(p) \/ InLink(p)

Consume == OutLoad \/ OutRead \/ OutStore \/ OutFree

Close == CloseBegin \/ CloseDrained \/ DestroyNode \/ DestroyQueue

\* The queue is gone: nothing is left to do.
Finished == cpc = "gone" /\ UNCHANGED vars

Next ==
    \/ \E p \in Producers : Produce(p)
    \/ Consume
    \/ Close
    \/ Finished

Spec == Init /\ [][Next]_vars

--------------------------------------------------------------------------------
(* Correctness                                                              *)

Linked == {chain[i] : i \in 1 .. Len(chain)}

\* No thread is about to touch a node that has been freed: not the producer
\* that still has to write into its predecessor, which the consumer may
\* reach and free in the meantime, and not the consumer
\* (clog_atomic_mpsc_queue.c 45-47, 60-73, 81-86).
NoUseAfterFree ==
    /\ \A p \in Producers :
        /\ pc[p] = "swap" => node[p] \in live
        /\ pc[p] = "link" => prev[p] \in live
    /\ cpc \in {"idle", "read", "store", "free"} => head \in live
    /\ cpc \in {"read", "store", "free"} => cnext \in live
    /\ cpc = "walk" => chead \in live \cup {NULL}

\* A node is freed once: what _out is about to free is allocated, is out of
\* the queue, and is not the node a producer is about to write to.
FreedOnce ==
    cpc = "free" =>
        /\ chead \in live
        /\ chead \notin Linked
        /\ chead # tail
        /\ \A p \in Producers : pc[p] = "link" => prev[p] # chead

\* Every allocated node is in the queue, private to a producer, or the one
\* _out still has to free: none leaks, and after close none is left.
NothingLeaks ==
    live = Linked \cup {node[p] : p \in {q \in Producers : pc[q] = "swap"}}
                  \cup (IF cpc = "free" THEN {chead} ELSE {})

\* The life of a node, from its allocation in _in to its end in _out or
\* _destroy: used only while it is allocated, freed once, and in the end freed.
NodeLifetimes == NoUseAfterFree /\ FreedOnce /\ NothingLeaks

\* Close drops nothing: when the queue is gone, every item that _in accepted
\* has been handed to the consumer, the ones still queued when close began
\* included.
CloseDropsNothing == cpc \in {"walk", "gone"} => Len(chain) <= 1

\* The places of the abstract channel: every node behind the head, readable
\* when its predecessor's link is set.
Slots == [i \in 1 .. Len(chain) - 1 |->
            [item |-> data[chain[i + 1]], ready |-> next[chain[i]] # NULL]]

Channel == INSTANCE FifoChannel WITH slots <- Slots

\* The queue is a FIFO channel: every step is a claim, a publication, a
\* delivery or invisible (the whole of clog_atomic_mpsc_queue.c).
ImplementsChannel == Channel!ChSpec

--------------------------------------------------------------------------------
(* The inductive invariant that the safety properties rest on               *)

\* The nodes from the head, in order, are distinct allocated nodes.
ChainNodes ==
    /\ \A i, j \in 1 .. Len(chain) : chain[i] = chain[j] => i = j
    /\ \A i \in 1 .. Len(chain) : chain[i] \in live

\* Each of them links to its successor, unless the producer of the successor
\* has still to write that link.
ChainLinks ==
    \A i \in 1 .. Len(chain) - 1 :
        \/ next[chain[i]] = chain[i + 1]
        \/ /\ next[chain[i]] = NULL
           /\ \E p \in Producers :
                pc[p] = "link" /\ prev[p] = chain[i] /\ node[p] = chain[i + 1]

\* All but the first hold an item.
ChainData == \A i \in 2 .. Len(chain) : data[chain[i]] \in Items

\* The head is the first node, the tail is the last one and ends the list.
ChainEnds ==
    /\ chain = <<>> <=> (cpc = "gone" \/ (cpc = "walk" /\ chead = NULL))
    /\ chain # <<>> => /\ chain[1] = (IF cpc = "walk" THEN chead ELSE head)
                       /\ chain[Len(chain)] = tail
                       /\ next[tail] = NULL

\* A node between malloc and the exchange belongs to one producer and is not
\* in the queue.
PrivateNodes ==
    \A p \in Producers : pc[p] = "swap" =>
        /\ node[p] \in live
        /\ \A i \in 1 .. Len(chain) : node[p] # chain[i]
        /\ next[node[p]] = NULL
        /\ data[node[p]] \in Items

\* Between the exchange and the link it is, and its producer remembers its
\* predecessor, which no other producer links.
PendingLinks ==
    /\ \A p \in Producers : pc[p] = "link" =>
        \E i \in 1 .. Len(chain) - 1 :
            prev[p] = chain[i] /\ node[p] = chain[i + 1] /\ next[chain[i]] = NULL
    /\ \A p, q \in Producers :
        (pc[p] # "idle" /\ pc[q] # "idle" /\ node[p] = node[q]) => p = q

\* What the consumer remembers of the head is still true when it uses it.
ConsumerLocals ==
    /\ cpc \in {"read", "store"} =>
        /\ Len(chain) >= 2
        /\ chead = chain[1]
        /\ cnext = chain[2]
        /\ next[chead] = cnext
    /\ cpc = "store" => cdata = data[cnext]
    /\ cpc = "free" =>
        /\ chead \in live
        /\ \A i \in 1 .. Len(chain) : chead # chain[i]
        /\ \A p \in Producers : pc[p] = "swap" => node[p] # chead
        /\ cnext = head

\* Once close has begun no producer is inside _in.
ClosingQuiet ==
    /\ closing => \A p \in Producers : pc[p] = "idle"
    /\ cpc \in {"walk", "gone"} => closing /\ Len(chain) <= 1

QueueInv ==
    /\ TypeOK
    /\ ChainNodes
    /\ ChainLinks
    /\ ChainData
    /\ ChainEnds
    /\ PrivateNodes
    /\ PendingLinks
    /\ ConsumerLocals
    /\ ClosingQuiet
    /\ NothingLeaks

================================================================================
