---------------------------- MODULE MpscQueue_proofs ----------------------------
(***************************************************************************)
(* Proofs about MpscQueue, for any set of producers, any number of items   *)
(* and any heap: type correctness, the inductive invariant, from it memory *)
(* safety and the absence of leaks; then that the queue implements the     *)
(* abstract channel of FifoChannel: each of its steps is a claim, a        *)
(* publication, a delivery or none.                                        *)
(***************************************************************************)
EXTENDS MpscQueue, SequenceTheorems, TLAPS

USE QueueAssumption DEF NodeOrNull, Items

\* Appending to a sequence: its length and its elements.
LEMMA AppendFacts ==
    ASSUME NEW S, NEW s \in Seq(S), NEW e \in S
    PROVE  /\ Append(s, e) \in Seq(S)
           /\ Append(s, e) # <<>>
           /\ Len(s) \in Nat
           /\ Len(Append(s, e)) = Len(s) + 1
           /\ \A i \in 1 .. Len(s) : Append(s, e)[i] = s[i]
           /\ Append(s, e)[Len(s) + 1] = e
    BY AppendProperties, LenProperties

\* The tail of a non-empty sequence: its length and its elements.
LEMMA TailFacts ==
    ASSUME NEW S, NEW s \in Seq(S), s # <<>>
    PROVE  /\ Tail(s) \in Seq(S)
           /\ Len(s) \in Nat
           /\ Len(s) >= 1
           /\ Len(Tail(s)) = Len(s) - 1
           /\ \A i \in 1 .. Len(s) - 1 : Tail(s)[i] = s[i + 1]
    BY HeadTailProperties, LenProperties, EmptySeq

\* A sequence is empty when its length is zero.
LEMMA SeqFacts ==
    ASSUME NEW S, NEW s \in Seq(S)
    PROVE  /\ Len(s) \in Nat
           /\ s = <<>> <=> Len(s) = 0
           /\ \A i \in 1 .. Len(s) : s[i] \in S
    BY LenProperties, EmptySeq, ElementOfSeq

--------------------------------------------------------------------------------
\* The queue that _create returns satisfies the invariant.
LEMMA InitInv == Init => QueueInv
<1> SUFFICES ASSUME NEW dummy \in Nodes, 
                    next = [n \in Nodes |-> NULL],
                    data = [n \in Nodes |-> NULL],
                    live = {dummy}, head = dummy, tail = dummy,
                    pc = [p \in Producers |-> "idle"],
                    node = [p \in Producers |-> NULL],
                    prev = [p \in Producers |-> NULL],
                    sent = [p \in Producers |-> 0],
                    cpc = "idle", chead = NULL, cnext = NULL, cdata = NULL,
                    closing = FALSE, chain = <<dummy>>, delivered = <<>>
             PROVE  QueueInv
    BY DEF Init
<1>1. chain \in Seq(Nodes) /\ Len(chain) = 1 /\ chain[1] = dummy /\ chain # <<>>
    OBVIOUS
<1>2. TypeOK
    <2>1. chain \in Seq(Nodes) /\ delivered \in Seq(Items)
        BY <1>1, EmptySeq
    <2>2. sent \in [Producers -> 0 .. MaxItems]
        OBVIOUS
    <2> QED
        BY <2>1, <2>2 DEF TypeOK
<1>3. ChainNodes /\ ChainLinks /\ ChainData /\ ChainEnds
    BY <1>1 DEF ChainNodes, ChainLinks, ChainData, ChainEnds
<1>4. PrivateNodes /\ PendingLinks /\ ConsumerLocals /\ ClosingQuiet
    BY <1>1 DEF PrivateNodes, PendingLinks, ConsumerLocals, ClosingQuiet
<1>5. NothingLeaks
    BY <1>1 DEF NothingLeaks, Linked
<1> QED
    BY <1>2, <1>3, <1>4, <1>5 DEF QueueInv

\* malloc hands the producer a node nobody else has.
LEMMA InAllocInv ==
    ASSUME QueueInv, NEW p \in Producers, InAlloc(p)
    PROVE  QueueInv'
<1> USE DEF QueueInv
<1>0. PICK n \in Nodes \ live :
        /\ live' = live \cup {n}
        /\ data' = [data EXCEPT ![n] = <<p, sent[p] + 1>>]
        /\ next' = [next EXCEPT ![n] = NULL]
        /\ node' = [node EXCEPT ![p] = n]
    BY DEF InAlloc
<1>1. <<p, sent[p] + 1>> \in Items
    BY DEF InAlloc, TypeOK
<1>2. TypeOK'
    BY <1>0, <1>1 DEF InAlloc, TypeOK, consumerVars
<1>3. \A i \in 1 .. Len(chain) : chain[i] \in live /\ chain[i] # n /\ chain[i] \in Nodes
    BY <1>0, SeqFacts DEF ChainNodes, TypeOK
<1>4. Len(chain) \in Nat /\ (chain = <<>> <=> Len(chain) = 0)
    BY SeqFacts DEF TypeOK
<1>a. ChainNodes'
    BY <1>0, <1>3 DEF InAlloc, ChainNodes
<1>b. ChainLinks'
    <2> SUFFICES ASSUME NEW i \in 1 .. Len(chain) - 1
                 PROVE  \/ next'[chain[i]] = chain[i + 1]
                        \/ /\ next'[chain[i]] = NULL
                           /\ \E q \in Producers :
                                pc'[q] = "link" /\ prev'[q] = chain[i] /\ node'[q] = chain[i + 1]
        BY DEF InAlloc, ChainLinks
    <2>1. i \in 1 .. Len(chain)
        BY <1>4
    <2>2. next'[chain[i]] = next[chain[i]]
        BY <1>0, <1>3, <2>1 DEF TypeOK
    <2>3. ASSUME NEW q \in Producers, pc[q] = "link"
          PROVE  pc'[q] = "link" /\ prev'[q] = prev[q] /\ node'[q] = node[q]
        BY <1>0, <2>3 DEF InAlloc, TypeOK
    <2> QED
        BY <2>2, <2>3 DEF ChainLinks
<1>c. ChainData'
    BY <1>0, <1>1, <1>3, <1>4 DEF InAlloc, TypeOK, ChainData
<1>d. ChainEnds'
    BY <1>0, <1>3, <1>4 DEF InAlloc, TypeOK, ChainEnds, consumerVars
<1>e. PrivateNodes'
    BY <1>0, <1>1, <1>3, <1>4 DEF InAlloc, TypeOK, PrivateNodes
<1>f. PendingLinks'
    <2>1. ASSUME NEW q \in Producers, pc'[q] # "idle", q # p
          PROVE  pc'[q] = pc[q] /\ node'[q] = node[q] /\ prev'[q] = prev[q]
        BY <1>0, <2>1 DEF InAlloc, TypeOK
    <2>2. pc'[p] = "swap" /\ node'[p] = n
        BY <1>0 DEF InAlloc, TypeOK
    <2>3. ASSUME NEW q \in Producers, pc'[q] = "link"
          PROVE  \E i \in 1 .. Len(chain) - 1 :
                    prev'[q] = chain[i] /\ node'[q] = chain[i + 1] /\ next'[chain[i]] = NULL
        <3>1. q # p /\ pc[q] = "link"
            BY <2>1, <2>2, <2>3
        <3>2. PICK i \in 1 .. Len(chain) - 1 :
                    prev[q] = chain[i] /\ node[q] = chain[i + 1] /\ next[chain[i]] = NULL
            BY <3>1 DEF PendingLinks
        <3>3. next'[chain[i]] = NULL
            BY <1>0, <1>3, <1>4, <3>2 DEF TypeOK
        <3> QED
            BY <2>1, <2>3, <3>1, <3>2, <3>3
    <2>4. ASSUME NEW q \in Producers, pc'[q] # "idle", q # p
          PROVE  node'[q] \in live
        <3>1. pc[q] = "swap" \/ pc[q] = "link"
            BY <2>1, <2>4 DEF TypeOK
        <3>2. CASE pc[q] = "swap"
            BY <2>1, <2>4, <3>2 DEF PrivateNodes
        <3>3. CASE pc[q] = "link"
            BY <1>3, <1>4, <2>1, <2>4, <3>3 DEF PendingLinks
        <3> QED
            BY <3>1, <3>2, <3>3
    <2>5. ASSUME NEW q \in Producers, NEW r \in Producers,
                 pc'[q] # "idle", pc'[r] # "idle", node'[q] = node'[r]
          PROVE  q = r
        BY <1>0, <2>1, <2>2, <2>4, <2>5 DEF PendingLinks
    <2> QED
        BY <2>3, <2>5 DEF InAlloc, PendingLinks
<1>g. ConsumerLocals'
    <2>1. UNCHANGED <<cpc, chead, cnext, cdata, chain, head>>
        BY DEF InAlloc, consumerVars
    <2>2. CASE cpc \in {"read", "store"}
        <3>1. Len(chain) >= 2 /\ chead = chain[1] /\ cnext = chain[2] /\ next[chead] = cnext
            BY <2>2 DEF ConsumerLocals
        <3>2. next'[chead] = next[chead] /\ data'[cnext] = data[cnext]
            BY <1>0, <1>3, <1>4, <3>1 DEF TypeOK
        <3> QED
            BY <2>1, <2>2, <3>1, <3>2 DEF ConsumerLocals
    <2>3. CASE cpc = "free"
        <3>1. chead \in live /\ cnext = head /\ (\A i \in 1 .. Len(chain) : chead # chain[i])
            BY <2>3 DEF ConsumerLocals
        <3>2. \A q \in Producers : pc'[q] = "swap" => node'[q] # chead
            BY <1>0, <2>3, <3>1 DEF InAlloc, TypeOK, ConsumerLocals
        <3> QED
            BY <1>0, <2>1, <2>3, <3>1, <3>2 DEF ConsumerLocals
    <2> QED
        BY <2>1, <2>2, <2>3 DEF ConsumerLocals
<1>h. ClosingQuiet'
    BY <1>0 DEF InAlloc, ClosingQuiet, consumerVars
<1>i. NothingLeaks'
    BY <1>0 DEF InAlloc, TypeOK, NothingLeaks, Linked, consumerVars
<1> QED
    BY <1>2, <1>a, <1>b, <1>c, <1>d, <1>e, <1>f, <1>g, <1>h, <1>i

\* A failed malloc changes nothing but the count of calls.
LEMMA InNoMemoryInv ==
    ASSUME QueueInv, NEW p \in Producers, InNoMemory(p)
    PROVE  QueueInv'
<1> USE DEF QueueInv, InNoMemory, consumerVars
<1>1. TypeOK'
    BY DEF TypeOK
<1>2. (ChainNodes /\ ChainLinks /\ ChainData /\ ChainEnds)'
    BY DEF ChainNodes, ChainLinks, ChainData, ChainEnds
<1>3. (PrivateNodes /\ PendingLinks /\ ConsumerLocals /\ ClosingQuiet)'
    BY DEF PrivateNodes, PendingLinks, ConsumerLocals, ClosingQuiet
<1>4. NothingLeaks'
    BY DEF NothingLeaks, Linked
<1> QED
    BY <1>1, <1>2, <1>3, <1>4

\* The exchange puts the producer's private node at the end of the chain; the
\* link to it is still missing.
LEMMA InSwapInv ==
    ASSUME QueueInv, NEW p \in Producers, InSwap(p)
    PROVE  QueueInv'
<1> USE DEF QueueInv
<1>0. /\ pc[p] = "swap"
      /\ pc' = [pc EXCEPT ![p] = "link"]
      /\ prev' = [prev EXCEPT ![p] = tail]
      /\ tail' = node[p]
      /\ chain' = Append(chain, node[p])
      /\ UNCHANGED <<next, data, live, head, node, sent, consumerVars, delivered>>
    BY DEF InSwap
<1>1. node[p] \in live /\ node[p] \in Nodes /\ next[node[p]] = NULL /\ data[node[p]] \in Items
    BY <1>0 DEF PrivateNodes, TypeOK
<1>2. /\ chain' \in Seq(Nodes)
      /\ chain' # <<>>
      /\ Len(chain) \in Nat
      /\ Len(chain') = Len(chain) + 1
      /\ \A i \in 1 .. Len(chain) : chain'[i] = chain[i]
      /\ chain'[Len(chain')] = node[p]
    BY <1>0, <1>1, AppendFacts DEF TypeOK
<1>3. ~ closing /\ cpc \notin {"walk", "gone"}
    BY <1>0 DEF ClosingQuiet
<1>4. chain # <<>> /\ Len(chain) >= 1 /\ chain[1] = head /\ chain[Len(chain)] = tail /\ next[tail] = NULL
    BY <1>2, <1>3, SeqFacts DEF ChainEnds, TypeOK
<1>5. \A i \in 1 .. Len(chain) : chain[i] \in Nodes /\ chain[i] # node[p]
    BY <1>0, SeqFacts DEF PrivateNodes, TypeOK
<1>a. TypeOK'
    BY <1>0, <1>1, <1>2 DEF TypeOK, consumerVars
<1>b. ChainNodes'
    BY <1>0, <1>1, <1>2, <1>5 DEF ChainNodes
<1>c. ChainLinks'
    <2> SUFFICES ASSUME NEW i \in 1 .. Len(chain') - 1
                 PROVE  \/ next[chain[i]] = chain'[i + 1]
                        \/ /\ next[chain[i]] = NULL
                           /\ \E q \in Producers :
                                pc'[q] = "link" /\ prev'[q] = chain[i] /\ node[q] = chain'[i + 1]
        BY <1>0, <1>2 DEF ChainLinks
    <2>1. CASE i = Len(chain)
        BY <1>0, <1>2, <1>4, <2>1 DEF TypeOK
    <2>2. CASE i # Len(chain)
        <3>1. i \in 1 .. Len(chain) - 1 /\ chain'[i + 1] = chain[i + 1]
            BY <1>2, <2>2
        <3>2. ASSUME NEW q \in Producers, pc[q] = "link"
              PROVE  pc'[q] = "link" /\ prev'[q] = prev[q]
            BY <1>0, <3>2 DEF TypeOK
        <3> QED
            BY <3>1, <3>2 DEF ChainLinks
    <2> QED
        BY <2>1, <2>2
<1>d. ChainData'
    BY <1>0, <1>1, <1>2 DEF ChainData
<1>e. ChainEnds'
    BY <1>0, <1>1, <1>2, <1>3, <1>4 DEF ChainEnds, consumerVars
<1>f. PrivateNodes'
    <2> SUFFICES ASSUME NEW q \in Producers, pc'[q] = "swap"
                 PROVE  /\ node[q] \in live
                        /\ \A i \in 1 .. Len(chain') : node[q] # chain'[i]
                        /\ next[node[q]] = NULL
                        /\ data[node[q]] \in Items
        BY <1>0 DEF PrivateNodes
    <2>1. q # p /\ pc[q] = "swap"
        BY <1>0 DEF TypeOK
    <2>2. node[q] # node[p]
        BY <1>0, <2>1 DEF PendingLinks
    <2> QED
        BY <1>2, <2>1, <2>2 DEF PrivateNodes
<1>g. PendingLinks'
    <2>1. ASSUME NEW q \in Producers, pc'[q] = "link"
          PROVE  \E i \in 1 .. Len(chain') - 1 :
                    prev'[q] = chain'[i] /\ node[q] = chain'[i + 1] /\ next[chain'[i]] = NULL
        <3>1. CASE q = p
            <4>1. prev'[q] = tail /\ node[q] = node[p]
                BY <1>0, <3>1 DEF TypeOK
            <4> QED
                BY <1>2, <1>4, <4>1
        <3>2. CASE q # p
            <4>1. pc[q] = "link" /\ prev'[q] = prev[q]
                BY <1>0, <2>1, <3>2 DEF TypeOK
            <4>2. PICK i \in 1 .. Len(chain) - 1 :
                    prev[q] = chain[i] /\ node[q] = chain[i + 1] /\ next[chain[i]] = NULL
                BY <4>1 DEF PendingLinks
            <4> QED
                BY <1>2, <4>1, <4>2
        <3> QED
            BY <3>1, <3>2
    <2>2. ASSUME NEW q \in Producers, pc'[q] # "idle"
          PROVE  pc[q] # "idle"
        BY <1>0, <2>2 DEF TypeOK
    <2> QED
        BY <1>0, <2>1, <2>2 DEF PendingLinks
<1>h. ConsumerLocals'
    <2>1. ASSUME NEW q \in Producers, pc'[q] = "swap"
          PROVE  pc[q] = "swap"
        BY <1>0, <2>1 DEF TypeOK
    <2>2. \A i \in 1 .. Len(chain') : i \in 1 .. Len(chain) \/ chain'[i] = node[p]
        BY <1>2
    <2> QED
        BY <1>0, <1>2, <2>1, <2>2 DEF ConsumerLocals, consumerVars
<1>i. ClosingQuiet'
    BY <1>0, <1>3 DEF ClosingQuiet, consumerVars
<1>j. NothingLeaks'
    <2>1. Linked' = Linked \cup {node[p]}
        <3>1. 1 .. Len(chain') = (1 .. Len(chain)) \cup {Len(chain')}
            BY <1>2
        <3> QED
            BY <1>2, <3>1 DEF Linked
    <2>2. {node[q] : q \in {r \in Producers : pc[r] = "swap"}} =
          {node[q] : q \in {r \in Producers : pc'[r] = "swap"}} \cup {node[p]}
        <3>1. {r \in Producers : pc[r] = "swap"} = {r \in Producers : pc'[r] = "swap"} \cup {p}
            BY <1>0 DEF TypeOK
        <3> QED
            BY <3>1
    <2> QED
        BY <1>0, <2>1, <2>2 DEF NothingLeaks, consumerVars
<1> QED
    BY <1>a, <1>b, <1>c, <1>d, <1>e, <1>f, <1>g, <1>h, <1>i, <1>j

\* The store of the link completes the place claimed by the exchange.
LEMMA InLinkInv ==
    ASSUME QueueInv, NEW p \in Producers, InLink(p)
    PROVE  QueueInv'
<1> USE DEF QueueInv
<1>0. /\ pc[p] = "link"
      /\ next' = [next EXCEPT ![prev[p]] = node[p]]
      /\ pc' = [pc EXCEPT ![p] = "idle"]
      /\ UNCHANGED <<data, live, head, tail, node, prev, sent,
                     consumerVars, chain, delivered>>
    BY DEF InLink
<1>1. PICK k \in 1 .. Len(chain) - 1 :
        prev[p] = chain[k] /\ node[p] = chain[k + 1] /\ next[chain[k]] = NULL
    BY <1>0 DEF PendingLinks
<1>2. Len(chain) \in Nat /\ Len(chain) >= 2 /\ k \in 1 .. Len(chain) /\ chain # <<>>
    BY <1>1, SeqFacts DEF TypeOK
<1>3. \A i \in 1 .. Len(chain) : chain[i] \in Nodes
    BY SeqFacts DEF TypeOK
<1>4. \A i \in 1 .. Len(chain) : i # k => next'[chain[i]] = next[chain[i]]
    BY <1>0, <1>1, <1>2, <1>3 DEF TypeOK, ChainNodes
<1>5. next'[chain[k]] = chain[k + 1]
    BY <1>0, <1>1, <1>2, <1>3 DEF TypeOK
<1>6. cpc \notin {"walk", "gone"} /\ ~ closing
    BY <1>0 DEF ClosingQuiet
<1>7. \A q \in Producers : q # p => pc'[q] = pc[q]
    BY <1>0 DEF TypeOK
<1>8. pc'[p] = "idle"
    BY <1>0 DEF TypeOK
<1>a. TypeOK'
    <2>1. node[p] \in Nodes
        BY <1>1, <1>2, <1>3
    <2> QED
        BY <1>0, <2>1 DEF TypeOK, consumerVars
<1>b. ChainNodes'
    BY <1>0 DEF ChainNodes
<1>c. ChainLinks'
    <2> SUFFICES ASSUME NEW i \in 1 .. Len(chain) - 1, i # k
                 PROVE  \/ next[chain[i]] = chain[i + 1]
                        \/ /\ next[chain[i]] = NULL
                           /\ \E q \in Producers :
                                pc'[q] = "link" /\ prev[q] = chain[i] /\ node[q] = chain[i + 1]
        BY SMTT(60), <1>0, <1>1, <1>2, <1>4, <1>5 DEF ChainLinks
    <2>1. ASSUME NEW q \in Producers, pc[q] = "link", prev[q] = chain[i]
          PROVE  q # p
        BY <1>1, <1>2, <2>1 DEF ChainNodes
    <2> QED
        BY SMTT(60), <1>7, <2>1 DEF ChainLinks
<1>d. ChainData'
    BY <1>0 DEF ChainData
<1>e. ChainEnds'
    <2>1. next'[tail] = next[tail]
        BY <1>1, <1>2, <1>4 DEF ChainEnds
    <2> QED
        BY <1>0, <2>1 DEF ChainEnds, consumerVars
<1>f. PrivateNodes'
    <2>1. ASSUME NEW q \in Producers, pc'[q] = "swap"
          PROVE  /\ pc[q] = "swap"
                 /\ next'[node[q]] = next[node[q]]
        <3>1. pc[q] = "swap"
            BY <1>7, <1>8, <2>1
        <3>2. node[q] # prev[p]
            BY <1>1, <1>2, <3>1 DEF PrivateNodes
        <3> QED
            BY <1>0, <3>1, <3>2 DEF TypeOK, PrivateNodes
    <2> QED
        BY <1>0, <2>1 DEF PrivateNodes
<1>g. PendingLinks'
    <2>1. ASSUME NEW q \in Producers, pc'[q] = "link"
          PROVE  \E i \in 1 .. Len(chain) - 1 :
                    prev[q] = chain[i] /\ node[q] = chain[i + 1] /\ next'[chain[i]] = NULL
        <3>1. q # p /\ pc[q] = "link"
            BY <1>7, <1>8, <2>1
        <3>2. PICK i \in 1 .. Len(chain) - 1 :
                prev[q] = chain[i] /\ node[q] = chain[i + 1] /\ next[chain[i]] = NULL
            BY <3>1 DEF PendingLinks
        <3>3. node[q] # node[p]
            BY <1>0, <3>1 DEF PendingLinks
        <3>4. i # k
            BY <1>1, <3>2, <3>3
        <3> QED
            BY <1>2, <1>4, <3>2, <3>4
    <2>2. \A q \in Producers : pc'[q] # "idle" => pc[q] # "idle"
        BY <1>7, <1>8
    <2> QED
        BY SMTT(60), <1>0, <2>1, <2>2 DEF PendingLinks
<1>h. ConsumerLocals'
    <2>1. CASE cpc \in {"read", "store"}
        <3>1. chead = chain[1] /\ next[chain[1]] = chain[2] /\ chain[2] \in Nodes
            BY <1>2, <1>3, <2>1 DEF ConsumerLocals
        <3>2. k # 1
            BY <1>1, <3>1
        <3> QED
            BY <1>0, <1>2, <1>4, <2>1, <3>1, <3>2 DEF ConsumerLocals, consumerVars
    <2>2. CASE cpc = "free"
        BY <1>0, <1>7, <1>8, <2>2 DEF ConsumerLocals, consumerVars
    <2> QED
        BY <1>0, <2>1, <2>2 DEF ConsumerLocals, consumerVars
<1>i. ClosingQuiet'
    BY <1>0, <1>6 DEF ClosingQuiet, consumerVars
<1>j. NothingLeaks'
    <2>1. {r \in Producers : pc'[r] = "swap"} = {r \in Producers : pc[r] = "swap"}
        BY <1>0, <1>7, <1>8
    <2> QED
        BY <1>0, <2>1 DEF NothingLeaks, Linked, consumerVars
<1> QED
    BY <1>a, <1>b, <1>c, <1>d, <1>e, <1>f, <1>g, <1>h, <1>i, <1>j

--------------------------------------------------------------------------------
\* The consumer's loads and the start of close leave the list alone.
LEMMA ListUntouched ==
    ASSUME QueueInv,
           UNCHANGED <<next, data, live, head, tail, producerVars, chain, delivered>>,
           cpc # "walk", cpc # "gone", cpc' # "gone",
           cpc' = "walk" => chead' = head
    PROVE  (ChainNodes /\ ChainLinks /\ ChainData /\ ChainEnds /\ PrivateNodes /\ PendingLinks)'
<1> USE DEF QueueInv, producerVars
<1>1. (ChainNodes /\ ChainLinks /\ ChainData)'
    BY DEF ChainNodes, ChainLinks, ChainData
<1>2. ChainEnds'
    BY DEF ChainEnds, TypeOK
<1>3. (PrivateNodes /\ PendingLinks)'
    BY DEF PrivateNodes, PendingLinks
<1> QED
    BY <1>1, <1>2, <1>3

\* _out sees a link: the head has a successor in the chain.
LEMMA OutLoadInv ==
    ASSUME QueueInv, OutLoad
    PROVE  QueueInv'
<1> USE DEF QueueInv, OutLoad
<1>1. TypeOK'
    BY DEF TypeOK, producerVars
<1>2. (ChainNodes /\ ChainLinks /\ ChainData /\ ChainEnds /\ PrivateNodes /\ PendingLinks)'
    BY ListUntouched
<1>3. ConsumerLocals'
    <2>1. chain # <<>> /\ chain[1] = head /\ next[tail] = NULL /\ chain[Len(chain)] = tail
        BY DEF ChainEnds
    <2>2. Len(chain) \in Nat /\ Len(chain) >= 2
        BY <2>1, SeqFacts DEF TypeOK
    <2>3. next[head] = chain[2]
        BY <2>1, <2>2 DEF ChainLinks
    <2> QED
        BY <2>1, <2>2, <2>3 DEF ConsumerLocals
<1>4. ClosingQuiet'
    BY DEF ClosingQuiet, producerVars
<1>5. NothingLeaks'
    BY DEF NothingLeaks, Linked, producerVars
<1> QED
    BY <1>1, <1>2, <1>3, <1>4, <1>5

\* _out reads the item of the successor.
LEMMA OutReadInv ==
    ASSUME QueueInv, OutRead
    PROVE  QueueInv'
<1> USE DEF QueueInv, OutRead
<1>0. Len(chain) \in Nat /\ Len(chain) >= 2 /\ cnext = chain[2] /\ chain[2] \in Nodes
    BY SeqFacts DEF ConsumerLocals, TypeOK
<1>1. TypeOK'
    BY <1>0 DEF TypeOK, producerVars
<1>2. (ChainNodes /\ ChainLinks /\ ChainData /\ ChainEnds /\ PrivateNodes /\ PendingLinks)'
    BY ListUntouched
<1>3. ConsumerLocals'
    BY DEF ConsumerLocals, producerVars
<1>4. ClosingQuiet'
    BY DEF ClosingQuiet, producerVars
<1>5. NothingLeaks'
    BY DEF NothingLeaks, Linked, producerVars
<1> QED
    BY <1>1, <1>2, <1>3, <1>4, <1>5

\* What the chain is after its first node is dropped.
LEMMA DropFirst ==
    ASSUME TypeOK, ChainNodes, chain # <<>>, chain' = Tail(chain)
    PROVE  /\ chain' \in Seq(Nodes)
           /\ Len(chain) \in Nat /\ Len(chain) >= 1
           /\ Len(chain') = Len(chain) - 1
           /\ \A i \in 1 .. Len(chain') : chain'[i] = chain[i + 1]
           /\ chain' = <<>> <=> Len(chain) = 1
           /\ Linked = Linked' \cup {chain[1]}
           /\ \A i \in 1 .. Len(chain') : chain'[i] # chain[1]
<1>1. /\ chain' \in Seq(Nodes)
      /\ Len(chain) \in Nat /\ Len(chain) >= 1
      /\ Len(chain') = Len(chain) - 1
      /\ \A i \in 1 .. Len(chain') : chain'[i] = chain[i + 1]
    BY TailFacts DEF TypeOK
<1>2. chain' = <<>> <=> Len(chain) = 1
    BY <1>1, SeqFacts
<1>3. \A i \in 1 .. Len(chain') : i + 1 \in 1 .. Len(chain) /\ i + 1 # 1
    BY <1>1
<1>4. \A i \in 1 .. Len(chain') : chain'[i] # chain[1]
    BY <1>1, <1>3 DEF ChainNodes
<1>5. Linked = Linked' \cup {chain[1]}
    <2>1. ASSUME NEW i \in 1 .. Len(chain), i # 1
          PROVE  i - 1 \in 1 .. Len(chain') /\ chain[i] = chain'[i - 1]
        BY <1>1, <2>1
    <2>2. Linked \subseteq Linked' \cup {chain[1]}
        BY <2>1 DEF Linked
    <2>3. Linked' \subseteq Linked /\ chain[1] \in Linked
        BY <1>1, <1>3 DEF Linked
    <2> QED
        BY <2>2, <2>3
<1> QED
    BY <1>1, <1>2, <1>4, <1>5

\* The store of the head takes the first place off the chain; the old head is
\* then the consumer's alone.
LEMMA OutStoreInv ==
    ASSUME QueueInv, OutStore
    PROVE  QueueInv'
<1> USE DEF QueueInv
<1>0. /\ cpc = "store" /\ cpc' = "free"
      /\ head' = cnext
      /\ chain' = Tail(chain)
      /\ delivered' = Append(delivered, cdata)
      /\ UNCHANGED <<next, data, live, tail, producerVars, chead, cnext, cdata, closing>>
    BY DEF OutStore
<1>1. /\ Len(chain) \in Nat /\ Len(chain) >= 2
      /\ chead = chain[1] /\ cnext = chain[2] /\ next[chead] = cnext
      /\ cdata = data[cnext] /\ chain # <<>>
    BY <1>0, SeqFacts DEF ConsumerLocals, TypeOK
<1>2. /\ chain' \in Seq(Nodes)
      /\ Len(chain') = Len(chain) - 1
      /\ \A i \in 1 .. Len(chain') : chain'[i] = chain[i + 1]
      /\ chain' = <<>> <=> Len(chain) = 1
      /\ Linked = Linked' \cup {chain[1]}
      /\ \A i \in 1 .. Len(chain') : chain'[i] # chain[1]
    BY <1>0, <1>1, DropFirst
<1>3. \A i \in 1 .. Len(chain') : i + 1 \in 1 .. Len(chain)
    BY <1>1, <1>2
<1>4. cnext \in Nodes /\ chead \in Nodes /\ cnext # NULL
    BY <1>1, SeqFacts DEF TypeOK
<1>a. TypeOK'
    <2>1. cdata \in Items
        BY <1>1 DEF ChainData
    <2>2. delivered' \in Seq(Items)
        BY <1>0, <2>1, AppendFacts DEF TypeOK
    <2> QED
        BY <1>0, <1>2, <1>4, <2>2 DEF TypeOK, producerVars
<1>b. ChainNodes'
    BY <1>0, <1>2, <1>3 DEF ChainNodes
<1>c. ChainLinks'
    <2> SUFFICES ASSUME NEW i \in 1 .. Len(chain') - 1
                 PROVE  \/ next[chain[i + 1]] = chain[i + 2]
                        \/ /\ next[chain[i + 1]] = NULL
                           /\ \E q \in Producers :
                                pc[q] = "link" /\ prev[q] = chain[i + 1] /\ node[q] = chain[i + 2]
        BY <1>0, <1>1, <1>2 DEF ChainLinks, producerVars
    <2>1. i + 1 \in 1 .. Len(chain) - 1
        BY <1>1, <1>2
    <2> QED
        BY SMTT(60), <2>1 DEF ChainLinks
<1>d. ChainData'
    BY <1>0, <1>1, <1>2 DEF ChainData
<1>e. ChainEnds'
    BY <1>0, <1>1, <1>2 DEF ChainEnds
<1>f. PrivateNodes'
    BY <1>0, <1>2, <1>3 DEF PrivateNodes, producerVars
<1>g. PendingLinks'
    <2>1. ASSUME NEW q \in Producers, pc[q] = "link"
          PROVE  \E i \in 1 .. Len(chain') - 1 :
                    prev[q] = chain'[i] /\ node[q] = chain'[i + 1] /\ next[chain'[i]] = NULL
        <3>1. PICK i \in 1 .. Len(chain) - 1 :
                prev[q] = chain[i] /\ node[q] = chain[i + 1] /\ next[chain[i]] = NULL
            BY <2>1 DEF PendingLinks
        <3>2. i # 1
            BY <1>1, <1>4, <3>1
        <3>3. i - 1 \in 1 .. Len(chain') - 1 /\ chain'[i - 1] = chain[i] /\ chain'[(i - 1) + 1] = chain[i + 1]
            BY <1>1, <1>2, <3>2
        <3> QED
            BY <3>1, <3>3
    <2> QED
        BY <1>0, <2>1 DEF PendingLinks, producerVars
<1>h. ConsumerLocals'
    <2>1. chead \in live
        BY <1>1 DEF ChainNodes
    <2>2. \A q \in Producers : pc[q] = "swap" => node[q] # chead
        BY <1>1 DEF PrivateNodes
    <2> QED
        BY <1>0, <1>1, <1>2, <2>1, <2>2 DEF ConsumerLocals, producerVars
<1>i. ClosingQuiet'
    BY <1>0 DEF ClosingQuiet, producerVars
<1>j. NothingLeaks'
    BY <1>0, <1>1, <1>2 DEF NothingLeaks, producerVars
<1> QED
    BY <1>a, <1>b, <1>c, <1>d, <1>e, <1>f, <1>g, <1>h, <1>i, <1>j

\* _out frees the old head, which nobody else knows.
LEMMA OutFreeInv ==
    ASSUME QueueInv, OutFree
    PROVE  QueueInv'
<1> USE DEF QueueInv
<1>0. /\ cpc = "free" /\ cpc' = "idle"
      /\ live' = live \ {chead}
      /\ UNCHANGED <<next, data, head, tail, producerVars, chead, cnext, cdata,
                     closing, chain, delivered>>
    BY DEF OutFree
<1>1. /\ chead \in live
      /\ \A i \in 1 .. Len(chain) : chead # chain[i]
      /\ \A p \in Producers : pc[p] = "swap" => node[p] # chead
    BY <1>0 DEF ConsumerLocals
<1>a. TypeOK'
    BY <1>0 DEF TypeOK, producerVars
<1>b. (ChainNodes /\ ChainLinks /\ ChainData /\ ChainEnds)'
    BY <1>0, <1>1 DEF ChainNodes, ChainLinks, ChainData, ChainEnds, producerVars
<1>c. (PrivateNodes /\ PendingLinks)'
    BY <1>0, <1>1 DEF PrivateNodes, PendingLinks, producerVars
<1>d. (ConsumerLocals /\ ClosingQuiet)'
    BY <1>0 DEF ConsumerLocals, ClosingQuiet, producerVars
<1>e. NothingLeaks'
    BY <1>0, <1>1 DEF NothingLeaks, Linked, producerVars
<1> QED
    BY <1>a, <1>b, <1>c, <1>d, <1>e

\* close begins when every producer is out of _in.
LEMMA CloseBeginInv ==
    ASSUME QueueInv, CloseBegin
    PROVE  QueueInv'
<1> USE DEF QueueInv, CloseBegin
<1>1. TypeOK'
    BY DEF TypeOK, producerVars
<1>2. (ChainNodes /\ ChainLinks /\ ChainData /\ ChainEnds /\ PrivateNodes /\ PendingLinks)'
    BY ListUntouched
<1>3. (ConsumerLocals /\ ClosingQuiet)'
    BY DEF ConsumerLocals, ClosingQuiet, producerVars
<1>4. NothingLeaks'
    BY DEF NothingLeaks, Linked, producerVars
<1> QED
    BY <1>1, <1>2, <1>3, <1>4

\* With no producer in _in, an empty answer means an empty queue: only the
\* node under the head is left to destroy.
LEMMA CloseDrainedInv ==
    ASSUME QueueInv, CloseDrained
    PROVE  QueueInv'
<1> USE DEF QueueInv, CloseDrained
<1>1. TypeOK'
    BY DEF TypeOK, producerVars
<1>2. (ChainNodes /\ ChainLinks /\ ChainData /\ ChainEnds /\ PrivateNodes /\ PendingLinks)'
    BY ListUntouched
<1>3. ConsumerLocals'
    BY DEF ConsumerLocals, producerVars
<1>4. ClosingQuiet'
    <2>1. Len(chain) \in Nat /\ chain # <<>> /\ chain[1] = head /\ \A i \in 1 .. Len(chain) : chain[i] \in Nodes
        BY SeqFacts DEF ChainEnds, TypeOK
    <2>2. \A p \in Producers : pc[p] = "idle"
        BY DEF ClosingQuiet
    <2>3. ASSUME Len(chain) >= 2
          PROVE  FALSE
        BY <2>1, <2>2, <2>3 DEF ChainLinks
    <2> QED
        BY <2>1, <2>2, <2>3 DEF ClosingQuiet, producerVars
<1>5. NothingLeaks'
    BY DEF NothingLeaks, Linked, producerVars
<1> QED
    BY <1>1, <1>2, <1>3, <1>4, <1>5

\* The loop of _destroy frees the last node.
LEMMA DestroyNodeInv ==
    ASSUME QueueInv, DestroyNode
    PROVE  QueueInv'
<1> USE DEF QueueInv
<1>0. /\ cpc = "walk" /\ chead # NULL
      /\ live' = live \ {chead}
      /\ chead' = next[chead]
      /\ chain' = Tail(chain)
      /\ UNCHANGED <<next, data, head, tail, producerVars, cpc, cnext, cdata,
                     closing, delivered>>
    BY DEF DestroyNode
<1>1. /\ closing /\ Len(chain) = 1 /\ chain # <<>>
      /\ chead = chain[1] /\ chead = tail /\ next[chead] = NULL
    <2>1. chain # <<>> /\ chain[1] = chead /\ chain[Len(chain)] = tail /\ next[tail] = NULL
        BY <1>0 DEF ChainEnds
    <2>2. closing /\ Len(chain) <= 1 /\ Len(chain) \in Nat /\ Len(chain) # 0
        BY <1>0, <2>1, SeqFacts DEF ClosingQuiet, TypeOK
    <2> QED
        BY <2>1, <2>2
<1>2. /\ chain' = <<>> /\ chain' \in Seq(Nodes) /\ Len(chain') = 0
      /\ Linked = Linked' \cup {chain[1]}
      /\ \A i \in 1 .. Len(chain') : chain'[i] # chain[1]
    BY <1>0, <1>1, DropFirst
<1>3. \A p \in Producers : pc[p] = "idle"
    BY <1>1 DEF ClosingQuiet
<1>a. TypeOK'
    BY <1>0, <1>2 DEF TypeOK, producerVars
<1>b. (ChainNodes /\ ChainLinks /\ ChainData)'
    BY <1>2 DEF ChainNodes, ChainLinks, ChainData
<1>c. ChainEnds'
    BY <1>0, <1>1, <1>2 DEF ChainEnds
<1>d. (PrivateNodes /\ PendingLinks)'
    BY <1>0, <1>3 DEF PrivateNodes, PendingLinks, producerVars
<1>e. (ConsumerLocals /\ ClosingQuiet)'
    BY SMTT(60), <1>0, <1>1, <1>2, <1>3 DEF ConsumerLocals, ClosingQuiet, producerVars
<1>f. NothingLeaks'
    <2>1. Linked' = {}
        BY <1>2 DEF Linked
    <2>2. {node[p] : p \in {q \in Producers : pc[q] = "swap"}} = {}
        BY <1>3
    <2>3. {node'[p] : p \in {q \in Producers : pc'[q] = "swap"}} = {}
        BY <1>0, <2>2 DEF producerVars
    <2> QED
        BY ZenonT(60), <1>0, <1>1, <1>2, <2>1, <2>2, <2>3 DEF NothingLeaks, producerVars
<1> QED
    BY <1>a, <1>b, <1>c, <1>d, <1>e, <1>f

\* The loop of _destroy ends: nothing is left.
LEMMA DestroyQueueInv ==
    ASSUME QueueInv, DestroyQueue
    PROVE  QueueInv'
<1> USE DEF QueueInv, DestroyQueue
<1>1. TypeOK'
    BY DEF TypeOK, producerVars
<1>2. (ChainNodes /\ ChainLinks /\ ChainData /\ PrivateNodes /\ PendingLinks)'
    BY DEF ChainNodes, ChainLinks, ChainData, PrivateNodes, PendingLinks, producerVars
<1>3. (ChainEnds /\ ConsumerLocals /\ ClosingQuiet)'
    BY DEF ChainEnds, ConsumerLocals, ClosingQuiet, producerVars
<1>4. NothingLeaks'
    BY DEF NothingLeaks, Linked, producerVars
<1> QED
    BY <1>1, <1>2, <1>3, <1>4

\* Steps that change no variable.
LEMMA StutterInv ==
    ASSUME QueueInv, UNCHANGED vars
    PROVE  QueueInv'
<1> USE DEF QueueInv, vars
<1>1. TypeOK'
    BY DEF TypeOK
<1>2. (ChainNodes /\ ChainLinks /\ ChainData /\ ChainEnds)'
    BY DEF ChainNodes, ChainLinks, ChainData, ChainEnds
<1>3. (PrivateNodes /\ PendingLinks /\ ConsumerLocals /\ ClosingQuiet)'
    BY DEF PrivateNodes, PendingLinks, ConsumerLocals, ClosingQuiet
<1>4. NothingLeaks'
    BY DEF NothingLeaks, Linked
<1> QED
    BY <1>1, <1>2, <1>3, <1>4

--------------------------------------------------------------------------------
\* The invariant of the queue holds in every reachable state, whatever the
\* number of producers, of items and of addresses
\* (clog_atomic_mpsc_queue.c, all operations).
THEOREM QueueInvariance == Spec => []QueueInv
<1>1. Init => QueueInv
    BY InitInv
<1>2. QueueInv /\ [Next]_vars => QueueInv'
    <2> SUFFICES ASSUME QueueInv, [Next]_vars
                 PROVE  QueueInv'
        OBVIOUS
    <2>1. ASSUME NEW p \in Producers, Produce(p)
          PROVE  QueueInv'
        BY <2>1, InAllocInv, InNoMemoryInv, InSwapInv, InLinkInv DEF Produce
    <2>2. CASE Consume
        BY <2>2, OutLoadInv, OutReadInv, OutStoreInv, OutFreeInv DEF Consume
    <2>3. CASE Close
        BY <2>3, CloseBeginInv, CloseDrainedInv, DestroyNodeInv, DestroyQueueInv DEF Close
    <2>4. CASE Finished
        BY <2>4, StutterInv DEF Finished
    <2>5. CASE UNCHANGED vars
        BY <2>5, StutterInv
    <2> QED
        BY <2>1, <2>2, <2>3, <2>4, <2>5 DEF Next
<1> QED
    BY <1>1, <1>2, PTL DEF Spec

\* Every variable keeps its type; in particular a link is a node or NULL and
\* the consumer only returns items (clog_atomic_mpsc_queue.c).
THEOREM TypeCorrectness == Spec => []TypeOK
<1>1. QueueInv => TypeOK
    BY DEF QueueInv
<1> QED
    BY <1>1, QueueInvariance, PTL

\* No producer and no consumer ever touches a freed node, although the
\* consumer frees nodes that producers have just been linking behind.
THEOREM MemorySafety == Spec => []NoUseAfterFree
<1>1. QueueInv => NoUseAfterFree
    <2> SUFFICES ASSUME QueueInv
                 PROVE  NoUseAfterFree
        OBVIOUS
    <2> USE DEF QueueInv
    <2>0. Len(chain) \in Nat /\ (chain = <<>> <=> Len(chain) = 0)
        BY SeqFacts DEF TypeOK
    <2>1. ASSUME NEW p \in Producers
          PROVE  /\ pc[p] = "swap" => node[p] \in live
                 /\ pc[p] = "link" => prev[p] \in live
        BY <2>0 DEF PrivateNodes, PendingLinks, ChainNodes
    <2>2. cpc \in {"idle", "read", "store", "free"} => head \in live
        BY <2>0 DEF ChainEnds, ChainNodes
    <2>3. cpc \in {"read", "store"} => cnext \in live
        BY <2>0 DEF ConsumerLocals, ChainNodes
    <2>4. cpc = "free" => cnext \in live
        BY <2>2 DEF ConsumerLocals
    <2>5. cpc = "walk" => chead \in live \cup {NULL}
        BY <2>0 DEF ChainEnds, ChainNodes
    <2> QED
        BY <2>1, <2>2, <2>3, <2>4, <2>5 DEF NoUseAfterFree
<1> QED
    BY <1>1, QueueInvariance, PTL

\* A node is freed only when it is allocated and out of everybody's reach.
THEOREM NoDoubleFree == Spec => []FreedOnce
<1>1. QueueInv => FreedOnce
    <2> SUFFICES ASSUME QueueInv, cpc = "free"
                 PROVE  /\ chead \in live
                        /\ chead \notin Linked
                        /\ chead # tail
                        /\ \A p \in Producers : pc[p] = "link" => prev[p] # chead
        BY DEF FreedOnce
    <2> USE DEF QueueInv
    <2>0. Len(chain) \in Nat /\ chain # <<>> /\ Len(chain) >= 1
        BY SeqFacts DEF TypeOK, ChainEnds
    <2>1. chead \in live /\ \A i \in 1 .. Len(chain) : chead # chain[i]
        BY DEF ConsumerLocals
    <2>2. chead \notin Linked /\ chead # tail
        BY <2>0, <2>1 DEF Linked, ChainEnds
    <2>3. \A p \in Producers : pc[p] = "link" => prev[p] # chead
        BY <2>0, <2>1 DEF PendingLinks
    <2> QED
        BY <2>1, <2>2, <2>3
<1> QED
    BY <1>1, QueueInvariance, PTL

\* No node leaks, and the channel's close leaves no allocated node and drops
\* no item.
THEOREM NoLeak == Spec => [](NothingLeaks /\ CloseDropsNothing)
<1>1. QueueInv => NothingLeaks /\ CloseDropsNothing
    BY DEF QueueInv, ClosingQuiet, CloseDropsNothing
<1> QED
    BY <1>1, QueueInvariance, PTL

\* The three together, as the run mpsc_queue checks them.
THEOREM Lifetimes == Spec => []NodeLifetimes
<1>1. (NoUseAfterFree /\ FreedOnce /\ NothingLeaks) => NodeLifetimes
    BY DEF NodeLifetimes
<1> QED
    BY <1>1, MemorySafety, NoDoubleFree, NoLeak, PTL

--------------------------------------------------------------------------------
(* The queue implements the channel                                         *)

\* An item has one of the numbers its producer has used, and not the one of
\* the call the producer is in, when that has not reached the queue.
Numbered(item) ==
    /\ item[2] <= sent[item[1]]
    /\ pc[item[1]] = "swap" => item[2] < sent[item[1]]

\* A node on its way into the queue carries the number of the call.
NodeNumbers ==
    \A p \in Producers : pc[p] # "idle" => data[node[p]] = <<p, sent[p]>>

ChainNumbers == \A i \in 2 .. Len(chain) : Numbered(data[chain[i]])

DeliveredNumbers == \A i \in 1 .. Len(delivered) : Numbered(delivered[i])

NumberInv ==
    /\ NodeNumbers
    /\ ChainNumbers
    /\ DeliveredNumbers

--------------------------------------------------------------------------------
\* An item with a Boolean is a place of the abstract channel.
LEMMA PlaceIsSlot ==
    ASSUME NEW item \in Items, NEW b \in BOOLEAN
    PROVE  [item |-> item, ready |-> b] \in Channel!Slot
<1>1. CASE b = TRUE
    <2>1. [item |-> item, ready |-> TRUE] \in Channel!Slot
        BY DEF Channel!Slot, Channel!Items
    <2> QED
        BY <1>1, <2>1, Zenon
<1>2. CASE b = FALSE
    <2>1. [item |-> item, ready |-> FALSE] \in Channel!Slot
        BY DEF Channel!Slot, Channel!Items
    <2> QED
        BY <1>2, <2>1, Zenon
<1> QED
    BY <1>1, <1>2

\* The places of the abstract channel, one by one.
SlotsShape ==
    /\ Slots \in Seq(Channel!Slot)
    /\ Len(Slots) = IF chain = <<>> THEN 0 ELSE Len(chain) - 1
    /\ Len(chain) \in Nat
    /\ chain = <<>> <=> Len(chain) = 0
    /\ \A i \in 1 .. Len(Slots) :
        /\ i + 1 \in 2 .. Len(chain)
        /\ data[chain[i + 1]] \in Items
        /\ Slots[i] = [item |-> data[chain[i + 1]], ready |-> next[chain[i]] # NULL]

LEMMA SlotsFacts == QueueInv => SlotsShape
<1> SUFFICES ASSUME QueueInv PROVE SlotsShape
    OBVIOUS
<1> DEFINE n == IF chain = <<>> THEN 0 ELSE Len(chain) - 1
<1> DEFINE place(i) == [item |-> data[chain[i + 1]], ready |-> next[chain[i]] # NULL]
<1>1. Len(chain) \in Nat /\ (chain = <<>> <=> Len(chain) = 0)
    BY SeqFacts DEF QueueInv, TypeOK
<1>2. n \in Nat /\ 1 .. n = 1 .. Len(chain) - 1
    BY <1>1
<1>3. \A i \in 1 .. n : i + 1 \in 2 .. Len(chain) /\ data[chain[i + 1]] \in Items
    BY <1>1 DEF QueueInv, ChainData
<1>4. \A i \in 1 .. n : place(i) \in Channel!Slot
    <2> TAKE i \in 1 .. n
    <2>1. data[chain[i + 1]] \in Items
        BY <1>3
    <2>2. (next[chain[i]] # NULL) \in BOOLEAN
        OBVIOUS
    <2> QED
        BY <2>1, <2>2, PlaceIsSlot, Zenon
<1>5. Slots = [i \in 1 .. n |-> place(i)]
    BY <1>2 DEF Slots
<1>6. Slots \in [1 .. n -> Channel!Slot]
    BY <1>4, <1>5
<1>7. Slots \in Seq(Channel!Slot)
    BY <1>2, <1>6, SeqDef
<1>8. Len(Slots) = n
    BY <1>2, <1>5
<1>9. \A i \in 1 .. n : Slots[i] = place(i)
    BY <1>5
<1> QED
    BY <1>1, <1>3, <1>7, <1>8, <1>9 DEF SlotsShape

LEMMA SlotsFactsNext == QueueInv' => SlotsShape'
    BY SlotsFacts, PTL

--------------------------------------------------------------------------------
\* A producer inside _in owns an allocated node, and no other producer's.
LEMMA OwnNode ==
    ASSUME QueueInv, NEW p \in Producers, pc[p] # "idle"
    PROVE  /\ node[p] \in live
           /\ \A q \in Producers : (pc[q] # "idle" /\ node[q] = node[p]) => q = p
<1>1. CASE pc[p] = "swap"
    BY <1>1 DEF QueueInv, PrivateNodes, PendingLinks
<1>2. CASE pc[p] = "link"
    <2>1. PICK i \in 1 .. Len(chain) - 1 : node[p] = chain[i + 1]
        BY <1>2 DEF QueueInv, PendingLinks
    <2>2. i + 1 \in 1 .. Len(chain)
        BY SlotsFacts DEF SlotsShape
    <2> QED
        BY <1>2, <2>1, <2>2 DEF QueueInv, ChainNodes, PendingLinks
<1> QED
    BY <1>1, <1>2 DEF QueueInv, TypeOK

\* The nodes of the queue are allocated, and so not among those malloc gives.
LEMMA ChainLive ==
    ASSUME QueueInv
    PROVE  /\ \A i \in 2 .. Len(chain) : chain[i] \in live /\ data[chain[i]] \in Items
           /\ \A i \in 1 .. Len(delivered) : delivered[i] \in Items
           /\ live \subseteq Nodes
BY SlotsFacts, SeqFacts DEF SlotsShape, QueueInv, TypeOK, ChainNodes, ChainData

LEMMA InAllocNumbers ==
    ASSUME QueueInv, NumberInv, NEW p \in Producers, InAlloc(p)
    PROVE  NumberInv'
<1>1. PICK n \in Nodes \ live :
        /\ live' = live \cup {n}
        /\ data' = [data EXCEPT ![n] = <<p, sent[p] + 1>>]
        /\ node' = [node EXCEPT ![p] = n]
    BY DEF InAlloc
<1>2. /\ sent' = [sent EXCEPT ![p] = @ + 1]
      /\ pc' = [pc EXCEPT ![p] = "swap"]
      /\ pc[p] = "idle"
      /\ chain' = chain /\ delivered' = delivered
    BY DEF InAlloc
<1>3. /\ sent \in [Producers -> 0 .. MaxItems]
      /\ pc \in [Producers -> {"idle", "swap", "link"}]
      /\ node \in [Producers -> NodeOrNull]
      /\ data \in [Nodes -> Items \cup {NULL}]
    BY DEF QueueInv, TypeOK
<1>4. ASSUME NEW item \in Items, Numbered(item)
      PROVE  Numbered(item)'
    BY <1>2, <1>3, <1>4 DEF Numbered
<1>5. NodeNumbers'
    <2> SUFFICES ASSUME NEW q \in Producers, pc'[q] # "idle"
                 PROVE  data'[node'[q]] = <<q, sent'[q]>>
        BY DEF NodeNumbers
    <2>1. CASE q = p
        BY <1>1, <1>2, <1>3, <2>1
    <2>2. CASE q # p
        <3>1. pc[q] # "idle" /\ node'[q] = node[q] /\ sent'[q] = sent[q]
            BY <1>1, <1>2, <1>3, <2>2
        <3>2. node[q] \in live /\ data[node[q]] = <<q, sent[q]>>
            BY <3>1, OwnNode DEF NumberInv, NodeNumbers
        <3> QED
            BY <1>1, <1>3, <3>1, <3>2, ChainLive
    <2> QED
        BY <2>1, <2>2
<1>6. ChainNumbers'
    <2> SUFFICES ASSUME NEW i \in 2 .. Len(chain)
                 PROVE  Numbered(data[chain[i]])'
        BY <1>2 DEF ChainNumbers
    <2>1. data'[chain[i]] = data[chain[i]] /\ data[chain[i]] \in Items
        BY <1>1, <1>3, ChainLive
    <2>2. Numbered(data[chain[i]])
        BY DEF NumberInv, ChainNumbers
    <2> QED
        BY <1>2, <1>3, <2>1, <2>2 DEF Numbered
<1>7. DeliveredNumbers'
    <2> SUFFICES ASSUME NEW i \in 1 .. Len(delivered)
                 PROVE  Numbered(delivered[i])'
        BY <1>2 DEF DeliveredNumbers
    <2> QED
        BY <1>2, <1>3, ChainLive DEF NumberInv, DeliveredNumbers, Numbered
<1> QED
    BY <1>5, <1>6, <1>7 DEF NumberInv

LEMMA InNoMemoryNumbers ==
    ASSUME QueueInv, NumberInv, NEW p \in Producers, InNoMemory(p)
    PROVE  NumberInv'
<1>1. /\ sent' = [sent EXCEPT ![p] = @ + 1]
      /\ pc[p] = "idle"
      /\ UNCHANGED <<data, pc, node, chain, delivered>>
    BY DEF InNoMemory
<1>2. sent \in [Producers -> 0 .. MaxItems]
    BY DEF QueueInv, TypeOK
<1>3. ASSUME NEW item \in Items, Numbered(item)
      PROVE  Numbered(item)'
    BY <1>1, <1>2, <1>3 DEF Numbered
<1>4. NodeNumbers'
    BY <1>1, <1>2 DEF NumberInv, NodeNumbers
<1>5. ChainNumbers'
    BY <1>1, <1>3, ChainLive DEF NumberInv, ChainNumbers
<1>6. DeliveredNumbers'
    BY <1>1, <1>3, ChainLive DEF NumberInv, DeliveredNumbers
<1> QED
    BY <1>4, <1>5, <1>6 DEF NumberInv

\* The node enters the queue with the number of the call, which is now over.
LEMMA InSwapNumbers ==
    ASSUME QueueInv, NumberInv, NEW p \in Producers, InSwap(p)
    PROVE  NumberInv'
<1>1. /\ pc[p] = "swap"
      /\ pc' = [pc EXCEPT ![p] = "link"]
      /\ chain' = Append(chain, node[p])
      /\ UNCHANGED <<data, node, sent, delivered>>
    BY DEF InSwap
<1>2. /\ sent \in [Producers -> 0 .. MaxItems]
      /\ pc \in [Producers -> {"idle", "swap", "link"}]
      /\ chain \in Seq(Nodes)
      /\ node[p] \in Nodes
    BY <1>1, OwnNode, ChainLive DEF QueueInv, TypeOK
<1>3. ASSUME NEW item \in Items, Numbered(item)
      PROVE  Numbered(item)'
    BY <1>1, <1>2, <1>3 DEF Numbered
<1>4. NodeNumbers'
    BY <1>1, <1>2 DEF NumberInv, NodeNumbers
<1>5. ChainNumbers'
    <2> SUFFICES ASSUME NEW i \in 2 .. Len(chain')
                 PROVE  Numbered(data[chain[i]])'
        BY DEF ChainNumbers
    <2>1. /\ Len(chain) \in Nat /\ Len(chain') = Len(chain) + 1
          /\ \A j \in 1 .. Len(chain) : chain'[j] = chain[j]
          /\ chain'[Len(chain) + 1] = node[p]
        BY <1>1, <1>2, AppendFacts
    <2>2. CASE i \in 2 .. Len(chain)
        BY <1>1, <1>3, <2>1, <2>2, ChainLive DEF NumberInv, ChainNumbers
    <2>3. CASE i = Len(chain) + 1
        <3>1. data'[chain'[i]] = <<p, sent[p]>>
            BY <1>1, <2>1, <2>3 DEF NumberInv, NodeNumbers
        <3> QED
            BY <1>1, <1>2, <3>1 DEF Numbered
    <2> QED
        BY <2>1, <2>2, <2>3
<1>6. DeliveredNumbers'
    BY <1>1, <1>3, ChainLive DEF NumberInv, DeliveredNumbers
<1> QED
    BY <1>4, <1>5, <1>6 DEF NumberInv

LEMMA InLinkNumbers ==
    ASSUME QueueInv, NumberInv, NEW p \in Producers, InLink(p)
    PROVE  NumberInv'
<1>1. /\ pc' = [pc EXCEPT ![p] = "idle"]
      /\ UNCHANGED <<data, node, sent, chain, delivered>>
    BY DEF InLink
<1>2. pc \in [Producers -> {"idle", "swap", "link"}]
    BY DEF QueueInv, TypeOK
<1>3. ASSUME NEW item \in Items, Numbered(item)
      PROVE  Numbered(item)'
    BY <1>1, <1>2, <1>3 DEF Numbered
<1>4. NodeNumbers'
    BY <1>1, <1>2 DEF NumberInv, NodeNumbers
<1>5. ChainNumbers'
    BY <1>1, <1>3, ChainLive DEF NumberInv, ChainNumbers
<1>6. DeliveredNumbers'
    BY <1>1, <1>3, ChainLive DEF NumberInv, DeliveredNumbers
<1> QED
    BY <1>4, <1>5, <1>6 DEF NumberInv

\* The first item changes sides.
LEMMA OutStoreNumbers ==
    ASSUME QueueInv, NumberInv, OutStore
    PROVE  NumberInv'
<1>1. /\ chain' = Tail(chain)
      /\ delivered' = Append(delivered, cdata)
      /\ UNCHANGED <<data, pc, node, sent>>
    BY DEF OutStore, producerVars
<1>2. /\ chain \in Seq(Nodes) /\ delivered \in Seq(Items)
      /\ Len(chain) >= 2 /\ cdata = data[chain[2]] /\ chain # <<>>
    BY SlotsFacts DEF SlotsShape, OutStore, QueueInv, TypeOK, ConsumerLocals
<1>3. 2 \in 2 .. Len(chain) /\ cdata \in Items /\ Numbered(cdata)
    BY <1>2, SlotsFacts, ChainLive DEF SlotsShape, NumberInv, ChainNumbers
<1>4. NodeNumbers'
    BY <1>1 DEF NumberInv, NodeNumbers
<1>5. ChainNumbers'
    <2>1. /\ Len(chain) \in Nat /\ Len(chain') = Len(chain) - 1
          /\ \A i \in 1 .. Len(chain) - 1 : chain'[i] = chain[i + 1]
        BY <1>1, <1>2, TailFacts
    <2> QED
        BY <1>1, <2>1 DEF NumberInv, ChainNumbers, Numbered
<1>6. DeliveredNumbers'
    <2>1. /\ Len(delivered) \in Nat /\ Len(delivered') = Len(delivered) + 1
          /\ \A i \in 1 .. Len(delivered) : delivered'[i] = delivered[i]
          /\ delivered'[Len(delivered) + 1] = cdata
        BY <1>1, <1>2, <1>3, AppendFacts
    <2> QED
        BY <1>1, <1>3, <2>1 DEF NumberInv, DeliveredNumbers, Numbered
<1> QED
    BY <1>4, <1>5, <1>6 DEF NumberInv

\* A step that touches neither items nor their order, at most the first node.
LEMMA QuietNumbers ==
    ASSUME QueueInv, NumberInv, UNCHANGED <<data, pc, node, sent, delivered>>,
           chain' = chain \/ (chain # <<>> /\ chain' = Tail(chain))
    PROVE  NumberInv'
<1>1. NodeNumbers' /\ DeliveredNumbers'
    BY DEF NumberInv, NodeNumbers, DeliveredNumbers, Numbered
<1>2. ChainNumbers'
    <2>1. CASE chain' = chain
        BY <2>1 DEF NumberInv, ChainNumbers, Numbered
    <2>2. CASE chain # <<>> /\ chain' = Tail(chain)
        <3>1. /\ Len(chain) \in Nat /\ Len(chain') = Len(chain) - 1
              /\ \A i \in 1 .. Len(chain) - 1 : chain'[i] = chain[i + 1]
            BY <2>2, TailFacts DEF QueueInv, TypeOK
        <3> QED
            BY <3>1 DEF NumberInv, ChainNumbers, Numbered
    <2> QED
        BY <2>1, <2>2
<1> QED
    BY <1>1, <1>2 DEF NumberInv

--------------------------------------------------------------------------------
\* The number invariant holds.
THEOREM NumberInvariance == Spec => []NumberInv
<1>1. Init => NumberInv
    <2> SUFFICES ASSUME Init PROVE NumberInv
        OBVIOUS
    <2>1. PICK dummy \in Nodes : chain = <<dummy>>
        BY DEF Init
    <2>2. Len(chain) = 1 /\ Len(delivered) = 0 /\ \A p \in Producers : pc[p] = "idle"
        BY <2>1 DEF Init
    <2> QED
        BY <2>2 DEF NumberInv, NodeNumbers, ChainNumbers, DeliveredNumbers
<1>2. QueueInv /\ NumberInv /\ [Next]_vars => NumberInv'
    <2> SUFFICES ASSUME QueueInv, NumberInv, [Next]_vars PROVE NumberInv'
        OBVIOUS
    <2>1. ASSUME NEW p \in Producers, Produce(p) PROVE NumberInv'
        BY <2>1, InAllocNumbers, InNoMemoryNumbers, InSwapNumbers, InLinkNumbers DEF Produce
    <2>2. CASE OutStore
        BY <2>2, OutStoreNumbers
    <2>3. CASE OutLoad \/ OutRead \/ OutFree
        BY <2>3, QuietNumbers DEF OutLoad, OutRead, OutFree, producerVars
    <2>4. CASE CloseBegin \/ CloseDrained \/ DestroyQueue
        BY <2>4, QuietNumbers DEF CloseBegin, CloseDrained, DestroyQueue, producerVars
    <2>5. CASE DestroyNode
        <3>1. chain # <<>>
            BY <2>5 DEF DestroyNode, QueueInv, ChainEnds
        <3> QED
            BY <2>5, <3>1, QuietNumbers DEF DestroyNode, producerVars
    <2>6. CASE Finished \/ UNCHANGED vars
        BY <2>6, QuietNumbers DEF Finished, vars
    <2> QED
        BY <2>1, <2>2, <2>3, <2>4, <2>5, <2>6 DEF Next, Consume, Close
<1> QED
    BY <1>1, <1>2, QueueInvariance, PTL DEF Spec

--------------------------------------------------------------------------------
\* An item whose producer has a call open is behind all its other items, and
\* they are linked.
LEMMA CallIsFresh ==
    ASSUME QueueInv, NumberInv, NEW p \in Producers, pc[p] = "swap"
    PROVE  /\ data[node[p]] = <<p, sent[p]>>
           /\ <<p, sent[p]>> \in Channel!Items
           /\ Channel!Fresh(<<p, sent[p]>>)
<1>1. data[node[p]] = <<p, sent[p]>> /\ <<p, sent[p]>> \in Items
    BY DEF NumberInv, NodeNumbers, QueueInv, PrivateNodes
<1>2. ASSUME NEW i \in 1 .. Len(Slots), Slots[i].item[1] = p
      PROVE  Slots[i].ready /\ Slots[i].item[2] < sent[p]
    <2>a. /\ i \in 1 .. Len(chain) - 1 /\ i + 1 \in 2 .. Len(chain)
          /\ Slots[i] = [item |-> data[chain[i + 1]], ready |-> next[chain[i]] # NULL]
        BY SlotsFacts DEF SlotsShape
    <2>1. /\ i \in 1 .. Len(chain) - 1 /\ i + 1 \in 2 .. Len(chain)
          /\ Slots[i].item = data[chain[i + 1]]
          /\ Slots[i].ready = (next[chain[i]] # NULL)
        BY <2>a
    <2>2. Slots[i].item[2] < sent[p]
        BY <1>2, <2>1 DEF NumberInv, ChainNumbers, Numbered
    <2>3. next[chain[i]] # NULL
        <3>1. CASE next[chain[i]] = chain[i + 1]
            BY <2>1, <3>1, ChainLive
        <3>2. CASE \E q \in Producers : pc[q] = "link" /\ node[q] = chain[i + 1]
            <4>1. PICK q \in Producers : pc[q] = "link" /\ node[q] = chain[i + 1]
                BY <3>2
            <4>2. data[chain[i + 1]] = <<q, sent[q]>>
                BY <4>1 DEF NumberInv, NodeNumbers
            <4> QED
                BY <1>2, <2>1, <4>1, <4>2
        <3> QED
            BY <2>1, <3>1, <3>2 DEF QueueInv, ChainLinks
    <2> QED
        BY <2>1, <2>2, <2>3
<1>3. ASSUME NEW i \in 1 .. Len(delivered), delivered[i][1] = p
      PROVE  delivered[i][2] < sent[p]
    BY <1>3 DEF NumberInv, DeliveredNumbers, Numbered
<1> QED
    BY <1>1, <1>2, <1>3 DEF Channel!Items, Channel!Fresh

\* The exchange of the tail claims a place.
LEMMA SwapClaims ==
    ASSUME QueueInv, QueueInv', NumberInv, NEW p \in Producers, InSwap(p)
    PROVE  Channel!ChNext
<1> DEFINE place == [item |-> <<p, sent[p]>>, ready |-> FALSE]
<1>1. /\ pc[p] = "swap"
      /\ chain' = Append(chain, node[p])
      /\ UNCHANGED <<next, data, delivered>>
    BY DEF InSwap
<1>2. /\ data[node[p]] = <<p, sent[p]>> /\ <<p, sent[p]>> \in Channel!Items
      /\ Channel!Fresh(<<p, sent[p]>>)
    BY <1>1, CallIsFresh
<1>3. place \in Channel!Slot
    BY <1>2 DEF Channel!Slot
<1>4. chain \in Seq(Nodes) /\ node[p] \in Nodes /\ chain # <<>>
    BY <1>1, OwnNode, ChainLive DEF QueueInv, TypeOK, ChainEnds, ClosingQuiet
<1>5. /\ Len(chain) \in Nat /\ Len(chain) >= 1 /\ Len(chain') = Len(chain) + 1 /\ chain' # <<>>
      /\ \A i \in 1 .. Len(chain) : chain'[i] = chain[i]
      /\ chain'[Len(chain) + 1] = node[p]
    BY <1>1, <1>4, AppendFacts, SeqFacts
<1>6. /\ Slots \in Seq(Channel!Slot) /\ Len(Slots) = Len(chain) - 1
      /\ \A i \in 1 .. Len(Slots) :
            Slots[i] = [item |-> data[chain[i + 1]], ready |-> next[chain[i]] # NULL]
    BY <1>4, SlotsFacts DEF SlotsShape
<1>7. /\ Slots' \in Seq(Channel!Slot) /\ Len(Slots') = Len(chain)
      /\ \A i \in 1 .. Len(Slots') :
            Slots'[i] = [item |-> data[chain'[i + 1]], ready |-> next[chain'[i]] # NULL]
    BY SMTT(60), <1>1, <1>5, SlotsFactsNext DEF SlotsShape
<1>8. /\ Append(Slots, place) \in Seq(Channel!Slot)
      /\ Len(Append(Slots, place)) = Len(chain)
      /\ \A i \in 1 .. Len(Slots) : Append(Slots, place)[i] = Slots[i]
      /\ Append(Slots, place)[Len(chain)] = place
    BY <1>3, <1>5, <1>6, AppendFacts
<1>9. ASSUME NEW i \in 1 .. Len(Slots')
      PROVE  Slots'[i] = Append(Slots, place)[i]
    <2>1. CASE i \in 1 .. Len(Slots)
        <3>1. chain'[i] = chain[i] /\ chain'[i + 1] = chain[i + 1]
            BY <1>5, <1>6, <2>1
        <3> QED
            BY ZenonT(60), <1>6, <1>7, <1>8, <2>1, <3>1
    <2>2. CASE i = Len(chain)
        <3>1. (next[chain[i]] # NULL) = FALSE
            BY <1>4, <2>2 DEF QueueInv, ChainEnds
        <3>2. chain'[i] = chain[i] /\ chain'[i + 1] = node[p]
            BY <1>5, <2>2
        <3>3. Slots'[i] = [item |-> data[node[p]], ready |-> next[chain[i]] # NULL]
            BY <1>7, <3>2
        <3>4. Slots'[i] = place
            BY <1>2, <3>1, <3>3, Zenon
        <3> QED
            BY <1>8, <2>2, <3>4
    <2> QED
        BY <1>5, <1>6, <1>7, <2>1, <2>2
<1>10. Slots' = Append(Slots, place)
    BY <1>7, <1>8, <1>9, SeqEqual
<1> QED
    BY <1>1, <1>2, <1>10 DEF Channel!ChNext, Channel!Claim

\* The store of the predecessor's link publishes the place.
LEMMA LinkPublishes ==
    ASSUME QueueInv, QueueInv', NumberInv, NEW p \in Producers, InLink(p)
    PROVE  Channel!ChNext
<1>1. /\ pc[p] = "link"
      /\ next' = [next EXCEPT ![prev[p]] = node[p]]
      /\ UNCHANGED <<data, chain, delivered>>
    BY DEF InLink
<1>2. PICK k \in 1 .. Len(chain) - 1 :
        prev[p] = chain[k] /\ node[p] = chain[k + 1] /\ next[chain[k]] = NULL
    BY <1>1 DEF QueueInv, PendingLinks
<1>3. /\ Len(chain) \in Nat /\ chain # <<>> /\ Len(Slots) = Len(chain) - 1 /\ k \in 1 .. Len(Slots)
      /\ Slots \in Seq(Channel!Slot)
      /\ \A i \in 1 .. Len(Slots) :
            Slots[i] = [item |-> data[chain[i + 1]], ready |-> next[chain[i]] # NULL]
    BY <1>2, SlotsFacts DEF SlotsShape
<1>4. /\ Slots' \in Seq(Channel!Slot) /\ Len(Slots') = Len(Slots)
      /\ \A i \in 1 .. Len(Slots') :
            Slots'[i] = [item |-> data[chain[i + 1]], ready |-> next'[chain[i]] # NULL]
    BY <1>1, <1>3, SlotsFactsNext DEF SlotsShape
<1>5. /\ next \in [Nodes -> NodeOrNull] /\ node[p] \in Nodes
      /\ \A i \in 1 .. Len(chain) : chain[i] \in Nodes
    BY <1>1, OwnNode, ChainLive, SeqFacts DEF QueueInv, TypeOK
<1>6. Slots[k].item = data[chain[k + 1]] /\ Slots[k].ready = (next[chain[k]] # NULL)
    <2>1. Slots[k] = [item |-> data[chain[k + 1]], ready |-> next[chain[k]] # NULL]
        BY <1>3
    <2> QED
        BY <2>1
<1>7. Slots[k].item[1] = p /\ ~ Slots[k].ready
    <2>1. data[node[p]] = <<p, sent[p]>>
        BY <1>1 DEF NumberInv, NodeNumbers
    <2>2. Slots[k].item[1] = p
        BY <1>2, <1>6, <2>1
    <2>3. ~ Slots[k].ready
        BY <1>2, <1>6, Zenon
    <2> QED
        BY <2>2, <2>3
<1> DEFINE place == [item |-> Slots[k].item, ready |-> TRUE]
<1>8. place \in Channel!Slot
    <2>1. data[chain[k + 1]] \in Items
        BY <1>3, SlotsFacts DEF SlotsShape
    <2> QED
        BY <1>6, <2>1 DEF Channel!Slot, Channel!Items
<1>9. /\ [Slots EXCEPT ![k] = place] \in Seq(Channel!Slot)
      /\ Len([Slots EXCEPT ![k] = place]) = Len(Slots)
      /\ \A i \in 1 .. Len(Slots) : [Slots EXCEPT ![k] = place][i] = IF i = k THEN place ELSE Slots[i]
    BY <1>3, <1>8, ExceptSeq
<1>10. ASSUME NEW i \in 1 .. Len(Slots')
       PROVE  Slots'[i] = [Slots EXCEPT ![k] = place][i]
    <2>1. i \in 1 .. Len(chain) /\ k \in 1 .. Len(chain) /\ i \in 1 .. Len(Slots)
        BY <1>3, <1>4
    <2>2. CASE i = k
        <3>1. (next'[chain[k]] # NULL) = TRUE
            BY <1>1, <1>2, <1>5, <2>1
        <3>2. Slots'[k] = [item |-> data[chain[k + 1]], ready |-> next'[chain[k]] # NULL]
            BY <1>4, <2>2
        <3>3. Slots'[k] = place
            BY <1>6, <3>1, <3>2, Zenon
        <3> QED
            BY <1>9, <2>1, <2>2, <3>3
    <2>3. CASE i # k
        <3>1. next'[chain[i]] = next[chain[i]]
            BY <1>1, <1>2, <1>5, <2>1, <2>3 DEF QueueInv, ChainNodes
        <3>2. Slots'[i] = Slots[i]
            BY <1>3, <1>4, <2>1, <3>1
        <3> QED
            BY <1>9, <2>1, <2>3, <3>2
    <2> QED
        BY <2>2, <2>3
<1>11. Slots' = [Slots EXCEPT ![k] = place]
    BY <1>4, <1>9, <1>10, SeqEqual
<1>12. Channel!Publish(p)
    BY <1>1, <1>3, <1>7, <1>11 DEF Channel!Publish
<1> QED
    BY <1>12 DEF Channel!ChNext

\* The store of the head takes the first place, which is readable.
LEMMA StoreTakes ==
    ASSUME QueueInv, QueueInv', OutStore
    PROVE  Channel!ChNext
<1>1. /\ chain' = Tail(chain)
      /\ delivered' = Append(delivered, cdata)
      /\ UNCHANGED <<data, next>>
    BY DEF OutStore
<1>2. /\ chain \in Seq(Nodes) /\ Len(chain) >= 2 /\ chain # <<>>
      /\ cdata = data[chain[2]] /\ next[chain[1]] = chain[2] /\ chain[2] \in Nodes
    <2>1. /\ chain \in Seq(Nodes) /\ Len(chain) >= 2
          /\ cdata = data[chain[2]] /\ next[chain[1]] = chain[2]
        BY DEF OutStore, QueueInv, TypeOK, ConsumerLocals
    <2> QED
        BY <2>1, SeqFacts
<1>3. /\ Len(chain) \in Nat /\ Len(chain') = Len(chain) - 1
      /\ \A i \in 1 .. Len(chain) - 1 : chain'[i] = chain[i + 1]
    BY <1>1, <1>2, TailFacts
<1>4. /\ Slots \in Seq(Channel!Slot) /\ Len(Slots) = Len(chain) - 1
      /\ \A i \in 1 .. Len(Slots) :
            Slots[i] = [item |-> data[chain[i + 1]], ready |-> next[chain[i]] # NULL]
    BY <1>2, SlotsFacts DEF SlotsShape
<1>5. /\ Slots' \in Seq(Channel!Slot) /\ Len(Slots') = Len(Slots) - 1
      /\ \A i \in 1 .. Len(Slots') :
            Slots'[i] = [item |-> data[chain'[i + 1]], ready |-> next[chain'[i]] # NULL]
    <2>1. chain' # <<>>
        BY <1>2, <1>3, SlotsFactsNext DEF SlotsShape
    <2> QED
        BY <1>1, <1>3, <1>4, <2>1, SlotsFactsNext DEF SlotsShape
<1>6. Slots # <<>> /\ 1 \in 1 .. Len(Slots)
    BY <1>2, <1>3, <1>4, SeqFacts
<1>7. /\ Tail(Slots) \in Seq(Channel!Slot) /\ Len(Tail(Slots)) = Len(Slots) - 1
      /\ \A i \in 1 .. Len(Slots) - 1 : Tail(Slots)[i] = Slots[i + 1]
    BY <1>4, <1>6, TailFacts
<1>8. ASSUME NEW i \in 1 .. Len(Slots')
      PROVE  Slots'[i] = Tail(Slots)[i]
    <2>1. /\ i \in 1 .. Len(Slots) - 1 /\ i + 1 \in 1 .. Len(Slots)
          /\ i \in 1 .. Len(chain) - 1 /\ i + 1 \in 1 .. Len(chain) - 1
        BY <1>3, <1>4, <1>5
    <2>2. chain'[i] = chain[i + 1] /\ chain'[i + 1] = chain[(i + 1) + 1]
        BY <1>3, <2>1
    <2>3. Slots[i + 1] = [item |-> data[chain[(i + 1) + 1]], ready |-> next[chain[i + 1]] # NULL]
        BY <1>4, <2>1
    <2>4. Slots'[i] = [item |-> data[chain'[i + 1]], ready |-> next[chain'[i]] # NULL]
        BY <1>5
    <2> QED
        BY <1>7, <2>1, <2>2, <2>3, <2>4
<1>9. Slots' = Tail(Slots)
    BY <1>5, <1>7, <1>8, SeqEqual
<1>10. Slots[1].item = cdata /\ Slots[1].ready
    <2>1. Slots[1] = [item |-> data[chain[2]], ready |-> next[chain[1]] # NULL]
        BY <1>4, <1>6
    <2>2. Slots[1].item = data[chain[2]] /\ Slots[1].ready = (next[chain[1]] # NULL)
        BY <2>1
    <2>3. (next[chain[1]] # NULL) = TRUE
        BY <1>2
    <2> QED
        BY <1>2, <2>2, <2>3, Zenon
<1> QED
    BY <1>1, <1>6, <1>9, <1>10 DEF Channel!ChNext, Channel!Take, Channel!CanTake

\* malloc gives a node that is not in the queue, so the places stay.
LEMMA AllocInvisible ==
    ASSUME QueueInv, QueueInv', NEW p \in Producers, InAlloc(p)
    PROVE  UNCHANGED <<Slots, delivered>>
<1>1. PICK n \in Nodes \ live :
        /\ data' = [data EXCEPT ![n] = <<p, sent[p] + 1>>]
        /\ next' = [next EXCEPT ![n] = NULL]
    BY DEF InAlloc
<1>2. chain' = chain /\ delivered' = delivered
    BY DEF InAlloc
<1>3. \A i \in 1 .. Len(chain) : chain[i] \in live /\ chain[i] \in Nodes /\ chain[i] # n
    BY <1>1, SeqFacts DEF QueueInv, TypeOK, ChainNodes
<1>4. /\ next \in [Nodes -> NodeOrNull]
      /\ data \in [Nodes -> Items \cup {NULL}]
    BY DEF QueueInv, TypeOK
<1>5. \A i \in 1 .. Len(chain) : data'[chain[i]] = data[chain[i]] /\ next'[chain[i]] = next[chain[i]]
    BY <1>1, <1>3, <1>4
<1>6. \A i \in 1 .. Len(chain) - 1 : i \in 1 .. Len(chain) /\ i + 1 \in 1 .. Len(chain)
    BY SlotsFacts DEF SlotsShape
<1>7. Slots' = Slots
    BY <1>2, <1>5, <1>6 DEF Slots
<1> QED
    BY <1>2, <1>7

\* The last node destroy frees is the dummy, which is no place.
LEMMA DestroyInvisible ==
    ASSUME QueueInv, QueueInv', DestroyNode
    PROVE  UNCHANGED <<Slots, delivered>>
<1>1. chain # <<>> /\ Len(chain) <= 1 /\ chain' = Tail(chain) /\ delivered' = delivered
    BY DEF DestroyNode, QueueInv, ChainEnds, ClosingQuiet
<1>2. Len(chain') = Len(chain) - 1 /\ Len(chain) \in Nat /\ Len(chain) >= 1
    BY <1>1, TailFacts DEF QueueInv, TypeOK
<1>3. Slots \in Seq(Channel!Slot) /\ Len(Slots) = 0
    BY <1>1, <1>2, SlotsFacts DEF SlotsShape
<1>4. Slots' \in Seq(Channel!Slot) /\ Len(Slots') = 0
    <2>1. Len(chain') = 0
        BY <1>1, <1>2
    <2> QED
        BY <2>1, SlotsFactsNext DEF SlotsShape
<1> QED
    BY <1>1, <1>3, <1>4, SeqFacts

--------------------------------------------------------------------------------
\* Every behaviour of the lock-free queue is one of the abstract channel: a
\* write takes effect when the tail is exchanged and is readable when the link
\* is stored (clog_atomic_mpsc_queue_in, _out, _destroy).
THEOREM QueueIsChannel == Spec => ImplementsChannel
<1>1. Init => Channel!ChInit
    <2> SUFFICES ASSUME Init PROVE Slots = <<>> /\ delivered = <<>>
        BY DEF Channel!ChInit
    <2>1. QueueInv /\ delivered = <<>>
        BY InitInv DEF Init
    <2>2. PICK dummy \in Nodes : chain = <<dummy>>
        BY DEF Init
    <2>3. Slots \in Seq(Channel!Slot) /\ Len(Slots) = 0
        BY <2>1, <2>2, SlotsFacts DEF SlotsShape
    <2> QED
        BY <2>1, <2>3, SeqFacts
<1>2. QueueInv /\ QueueInv' /\ NumberInv /\ [Next]_vars => [Channel!ChNext]_<<Slots, delivered>>
    <2> SUFFICES ASSUME QueueInv, QueueInv', NumberInv, [Next]_vars
                 PROVE  Channel!ChNext \/ UNCHANGED <<Slots, delivered>>
        OBVIOUS
    <2>1. ASSUME NEW p \in Producers, Produce(p)
          PROVE  Channel!ChNext \/ UNCHANGED <<Slots, delivered>>
        <3>1. CASE InAlloc(p)
            BY <3>1, AllocInvisible
        <3>2. CASE InNoMemory(p)
            BY <3>2 DEF InNoMemory, Slots
        <3>3. CASE InSwap(p)
            BY <3>3, SwapClaims
        <3>4. CASE InLink(p)
            BY <3>4, LinkPublishes
        <3> QED
            BY <2>1, <3>1, <3>2, <3>3, <3>4 DEF Produce
    <2>2. CASE OutStore
        BY <2>2, StoreTakes
    <2>3. CASE OutLoad \/ OutRead \/ OutFree
        BY <2>3 DEF OutLoad, OutRead, OutFree, Slots
    <2>4. CASE CloseBegin \/ CloseDrained \/ DestroyQueue
        BY <2>4 DEF CloseBegin, CloseDrained, DestroyQueue, Slots
    <2>5. CASE DestroyNode
        BY <2>5, DestroyInvisible
    <2>6. CASE Finished \/ UNCHANGED vars
        BY <2>6 DEF Finished, vars, Slots
    <2> QED
        BY <2>1, <2>2, <2>3, <2>4, <2>5, <2>6 DEF Next, Consume, Close
<1> QED
    BY <1>1, <1>2, QueueInvariance, NumberInvariance, PTL
    DEF Spec, ImplementsChannel, Channel!ChSpec, Channel!chVars

--------------------------------------------------------------------------------
Order == INSTANCE FifoChannel_proofs WITH slots <- Slots

\* What the abstract channel gives its reader the lock-free queue gives it
\* too: the items of one thread in the order of its calls, each at most once
\* (clog_atomic_mpsc_queue_in, _out).
THEOREM QueueKeepsOrder == Spec => []Channel!DeliveredInOrder
<1>1. Channel!ChInit => Order!ChInit
    BY DEF Channel!ChInit, Order!ChInit
<1>2. [Channel!ChNext]_Channel!chVars => [Order!ChNext]_Order!chVars
    BY DEF Channel!chVars, Order!chVars, Channel!ChNext, Order!ChNext, Channel!Items, Order!Items,
           Channel!Claim, Order!Claim, Channel!Fresh, Order!Fresh, Channel!Publish, Order!Publish,
           Channel!Take, Order!Take, Channel!CanTake, Order!CanTake
<1>3. Order!DeliveredInOrder => Channel!DeliveredInOrder
    BY DEF Order!DeliveredInOrder, Channel!DeliveredInOrder
<1> QED
    BY <1>1, <1>2, <1>3, QueueIsChannel, Order!ChannelKeepsOrder, PTL
    DEF ImplementsChannel, Channel!ChSpec, Order!ChSpec

================================================================================
