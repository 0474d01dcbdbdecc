------------------------------ MODULE AtomicQueue ------------------------------
(***************************************************************************)
(* source/utils/clog_atomic_queue.c: a linked list that any number of      *)
(* attached threads write and read with compare-and-swap.  Every access to *)
(* a shared word is a step; purely local steps go with the access before.  *)
(*                                                                         *)
(* A node is known by its number in the order of allocation: a retired     *)
(* node is never freed before destroy, because the counter that would let  *)
(* a thread poll (release_num) is combined with fetch_and and never counts *)
(* (clog_atomic_queue.c:191), so an address never comes back.              *)
(***************************************************************************)
EXTENDS Naturals, Sequences, FiniteSets

CONSTANTS
    Users,     \* threads with a handle
    MaxNodes,  \* bound: nodes allocated, the dummy included
    MaxReads,  \* bound: dequeues of each thread
    EMPTY

ASSUME AqAssumption == MaxNodes \in Nat

VARIABLES
    aqHead, aqTail,  \* numbers of nodes
    aqNext,          \* each node's next, 0 for none
    aqData,          \* each node's data
    aqState,         \* queue->state, and "gone" after destroy
    retired,         \* what was given to clog_ebr_defer_release_global, in order
    dealloc,         \* what was given to queue->deallocator, in order
    upc, uh, ut, un, \* where each thread is, and the head, tail and next it loaded
    node,            \* enqueue: the node; its data is its number
    got,             \* dequeue: the answer
    reads

aqVars == <<aqHead, aqTail, aqNext, aqData, aqState, retired, dealloc,
            upc, uh, ut, un, node, got, reads>>

AqInit ==
    /\ aqHead = 1 /\ aqTail = 1 /\ aqNext = <<0>> /\ aqData = <<0>>
    /\ aqState = "RUNNING" /\ retired = <<>> /\ dealloc = <<>>
    /\ upc = [u \in Users |-> "idle"]
    /\ uh = [u \in Users |-> 0] /\ ut = [u \in Users |-> 0] /\ un = [u \in Users |-> 0]
    /\ node = [u \in Users |-> 0] /\ got = [u \in Users |-> EMPTY]
    /\ reads = [u \in Users |-> 0]

At(u, pc) == upc[u] = pc
Goto(u, pc) == upc' = [upc EXCEPT ![u] = pc]
listVars == <<aqHead, aqTail, aqNext, aqData, aqState, retired, dealloc>>
loadedVars == <<uh, ut, un>>
callVars == <<node, got, reads>>

\* enqueue: a node of its own, filled before anyone can see it.
BeginEnqueue(u) ==
    /\ At(u, "idle") /\ aqState = "RUNNING" /\ Len(aqNext) < MaxNodes
    /\ aqNext' = Append(aqNext, 0) /\ aqData' = Append(aqData, Len(aqData) + 1)
    /\ node' = [node EXCEPT ![u] = Len(aqNext')]
    /\ Goto(u, "eTail")
    /\ UNCHANGED <<aqHead, aqTail, aqState, retired, dealloc, loadedVars, got, reads>>

LoadTail(u) ==
    /\ At(u, "eTail")
    /\ ut' = [ut EXCEPT ![u] = aqTail] /\ Goto(u, "eNext")
    /\ UNCHANGED <<listVars, uh, un, callVars>>

LoadTailNext(u) ==
    /\ At(u, "eNext")
    /\ un' = [un EXCEPT ![u] = aqNext[ut[u]]]
    /\ Goto(u, IF aqNext[ut[u]] # 0 THEN "eHelp" ELSE "eCheck")
    /\ UNCHANGED <<listVars, uh, ut, callVars>>

SwapTail(old, new) == aqTail' = IF aqTail = old THEN new ELSE aqTail

\* The tail lags behind: move it on for whoever left it there.
EnqueueHelp(u) ==
    /\ At(u, "eHelp")
    /\ SwapTail(ut[u], un[u]) /\ Goto(u, "eTail")
    /\ UNCHANGED <<aqHead, aqNext, aqData, aqState, retired, dealloc, loadedVars, callVars>>

EnqueueCheck(u) ==
    /\ At(u, "eCheck")
    /\ Goto(u, IF ut[u] = aqTail THEN "eLink" ELSE "eTail")
    /\ UNCHANGED <<listVars, loadedVars, callVars>>

\* May the node be linked behind the tail that was loaded?  Only while
\* nothing is; the mutant stores without looking.
LinkBlindly(t) == TRUE
MayLink(t) == aqNext[t] = 0

Link(u) ==
    /\ At(u, "eLink")
    /\ IF MayLink(ut[u])
         THEN aqNext' = [aqNext EXCEPT ![ut[u]] = node[u]] /\ Goto(u, "eSwing")
         ELSE UNCHANGED aqNext /\ Goto(u, "eTail")
    /\ UNCHANGED <<aqHead, aqTail, aqData, aqState, retired, dealloc, loadedVars, callVars>>

EndEnqueue(u) ==
    /\ At(u, "eSwing")
    /\ SwapTail(ut[u], node[u]) /\ Goto(u, "idle")
    /\ UNCHANGED <<aqHead, aqNext, aqData, aqState, retired, dealloc, loadedVars, callVars>>

BeginDequeue(u) ==
    /\ At(u, "idle") /\ aqState = "RUNNING" /\ reads[u] < MaxReads
    /\ reads' = [reads EXCEPT ![u] = @ + 1] /\ got' = [got EXCEPT ![u] = EMPTY]
    /\ Goto(u, "dHead")
    /\ UNCHANGED <<listVars, loadedVars, node>>

LoadHead(u) ==
    /\ At(u, "dHead")
    /\ uh' = [uh EXCEPT ![u] = aqHead] /\ Goto(u, "dTail")
    /\ UNCHANGED <<listVars, ut, un, callVars>>

LoadTailToo(u) ==
    /\ At(u, "dTail")
    /\ ut' = [ut EXCEPT ![u] = aqTail] /\ Goto(u, "dNext")
    /\ UNCHANGED <<listVars, uh, un, callVars>>

LoadHeadNext(u) ==
    /\ At(u, "dNext")
    /\ LET n == aqNext[uh[u]] IN
         /\ un' = [un EXCEPT ![u] = n]
         /\ Goto(u, CASE uh[u] = ut[u] /\ n = 0 -> "dDone"
                      [] uh[u] = ut[u] /\ n # 0 -> "dHelp"
                      [] OTHER -> "dCheck")
    /\ UNCHANGED <<listVars, uh, ut, callVars>>

DequeueHelp(u) ==
    /\ At(u, "dHelp")
    /\ SwapTail(ut[u], un[u]) /\ Goto(u, "dHead")
    /\ UNCHANGED <<aqHead, aqNext, aqData, aqState, retired, dealloc, loadedVars, callVars>>

DequeueCheck(u) ==
    /\ At(u, "dCheck")
    /\ Goto(u, IF ut[u] = aqTail /\ un[u] # 0 THEN "dSwap" ELSE "dHead")
    /\ UNCHANGED <<listVars, loadedVars, callVars>>

\* The winner moves the head on; its node is the dummy from now on.  The
\* mutant lets everyone win.
EveryoneWins(u) == TRUE
Wins(u) == aqHead = uh[u]

SwapHead(u) ==
    /\ At(u, "dSwap")
    /\ IF Wins(u)
         THEN aqHead' = un[u] /\ Goto(u, "dData")
         ELSE UNCHANGED aqHead /\ Goto(u, "dHead")
    /\ UNCHANGED <<aqTail, aqNext, aqData, aqState, retired, dealloc, loadedVars, callVars>>

\* Only now is the data read, and cleared, and the old dummy retired.
TakeData(u) ==
    /\ At(u, "dData")
    /\ got' = [got EXCEPT ![u] = aqData[un[u]]]
    /\ aqData' = [aqData EXCEPT ![un[u]] = 0]
    /\ retired' = Append(retired, uh[u])
    /\ Goto(u, "dDone")
    /\ UNCHANGED <<aqHead, aqTail, aqNext, aqState, dealloc, loadedVars, node, reads>>

EndDequeue(u) ==
    /\ At(u, "dDone") /\ Goto(u, "idle")
    /\ UNCHANGED <<listVars, loadedVars, callVars>>

\* The nodes behind each node.
Behind[n \in 1 .. Len(aqNext)] == IF aqNext[n] = 0 THEN <<>> ELSE <<aqNext[n]>> \o Behind[aqNext[n]]

\* Called when every thread has detached: retires every node, the dummy last.
\* The deallocator gets the answers of the dequeues: the last one twice, a zero
\* when there was none.
AqDestroy ==
    /\ aqState = "RUNNING" /\ \A u \in Users : At(u, "idle")
    /\ LET rest == Behind[aqHead]
           items == [i \in 1 .. Len(rest) |-> aqData[rest[i]]]
       IN  /\ retired' = retired \o <<aqHead>> \o rest
           /\ dealloc' = items \o (IF rest = <<>> THEN <<0>> ELSE <<items[Len(rest)]>>)
           /\ aqHead' = IF rest = <<>> THEN aqHead ELSE rest[Len(rest)]
           /\ aqTail' = aqHead'
    /\ aqState' = "gone"
    /\ UNCHANGED <<aqNext, aqData, upc, loadedVars, callVars>>

AqStep(u) ==
    \/ BeginEnqueue(u) \/ LoadTail(u) \/ LoadTailNext(u) \/ EnqueueHelp(u) \/ EnqueueCheck(u)
    \/ Link(u) \/ EndEnqueue(u) \/ BeginDequeue(u) \/ LoadHead(u) \/ LoadTailToo(u)
    \/ LoadHeadNext(u) \/ DequeueHelp(u) \/ DequeueCheck(u) \/ SwapHead(u) \/ TakeData(u)
    \/ EndDequeue(u)

AqNext == AqDestroy \/ \E u \in Users : AqStep(u)

AqSpec == AqInit /\ [][AqNext]_aqVars

-----------------------------------------------------------------------------
(* Every node is retired at most once, and none that the head still leads   *)
(* to, though the winner of the head retires its node two steps after the   *)
(* swap (clog_atomic_queue.c:169); after destroy all are retired.           *)
NodesRetiredOnce ==
    LET gone == {retired[i] : i \in 1 .. Len(retired)}
        live == <<aqHead>> \o Behind[aqHead]
    IN  /\ Cardinality(gone) = Len(retired)
        /\ aqState = "RUNNING" => \A i \in 1 .. Len(live) : live[i] \notin gone
        /\ aqState = "gone" => gone = 1 .. Len(aqNext)

\* The calls of the abstract queue: a write takes effect with the link, a
\* read with the swap of the head, or, when it finds nothing, with the load
\* of the dummy's next.
CallOf(u) ==
    CASE upc[u] \in {"eTail", "eNext", "eHelp", "eCheck", "eLink"} -> [op |-> "writing", item |-> node[u]]
      [] upc[u] = "eSwing" -> [op |-> "wrote", item |-> node[u]]
      [] upc[u] \in {"dHead", "dTail", "dNext", "dHelp", "dCheck", "dSwap"} -> [op |-> "reading", item |-> EMPTY]
      [] upc[u] = "dData" -> [op |-> "read", item |-> un[u]]
      [] upc[u] = "dDone" -> [op |-> "read", item |-> got[u]]
      [] OTHER -> [op |-> "idle", item |-> EMPTY]

Fifo == INSTANCE SharedFifo WITH
    Things <- 1 .. MaxNodes,
    fifo <- IF aqState = "gone" THEN <<>> ELSE Behind[aqHead],
    call <- [u \in Users |-> CallOf(u)]

\* Linearizability: every run of the atomic queue is one of the queue whose calls
\* take effect in an instant, whoever helps whose tail along meanwhile
\* (clog_atomic_queue.c:92-180).
ImplementsFifo == Fifo!FifoSpec

================================================================================
