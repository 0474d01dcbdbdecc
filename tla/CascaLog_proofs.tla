---------------------------- MODULE CascaLog_proofs ----------------------------
(***************************************************************************)
(* Proofs about AsyncDispatcher and about CascaLog, which is built on it,  *)
(* for any set of threads and recorders, any routes and any number of      *)
(* items.                                                                  *)
(* The dispatcher: nobody uses it after close, the cache is cleared before *)
(* the worker looks into it, the worker leaves an empty channel behind,    *)
(* and every recorder is given what is routed to it.                       *)
(* The context: the barrier of destroy holds, and the context therefore    *)
(* uses its dispatcher as AsyncDispatcher assumes it is used; an item is   *)
(* allocated exactly as long as a call, the channel or the worker has it,  *)
(* so that destroy takes nothing apart that is in use; and no item whose   *)
(* call succeeded is lost on the way to its recorders.                     *)
(* Behind them, the modules of a context: configurations of any number of  *)
(* lines.                                                                  *)
(***************************************************************************)
EXTENDS CascaLog, FifoChannel_proofs, Config, FiniteSetTheorems, WellFoundedInduction

USE MaxItemsAssumption, RouteAssumption DEF Items, Slot

--------------------------------------------------------------------------------
(* The dispatcher: its inductive invariant                                  *)

Ending == {"end", "closing", "restop", "repost", "spin"}

\* What the proofs need of the types.
Typed ==
    /\ slots \in Seq(Slot)
    /\ ppc \in [Producers -> {"idle", "link", "notify"}]
    /\ sent \in [Producers -> 0 .. MaxItems]
    /\ cache \in [1 .. MaxTargets -> Recorders \cup {NULL, Garbage}]
    /\ sem \in Nat
    /\ opc \in {"new", "memset", "opened", "start", "running", "closed"} \cup Ending

\* Producers work between START and END only.
WorkInTime == opc # "running" => Quiet

\* Before START there is no post, so the worker sleeps, if there is one.
AsleepBeforeStart ==
    opc \in {"new", "memset", "opened", "start"} => wpc \in {"none", "wait"} /\ sem = 0

CleanAfterMemset ==
    opc \notin {"new", "memset"} => \A i \in 1 .. MaxTargets : cache[i] # Garbage

\* The state as the worker may find it.
StateForWorker ==
    /\ opc \in {"start", "running"} => state = "RUNNING"
    /\ (opc \in Ending /\ wpc # "exited") => state = "STOPPING"
    /\ state = "CLOSED" => wpc = "exited"
    /\ opc = "closed" => wpc = "exited"

\* The worker stops only after END, and then with an empty channel.
StopsAfterEnd ==
    /\ (wstop /\ wpc \in {"read", "write"}) => opc \in Ending
    /\ wpc \in {"stop", "exited"} => opc \in Ending \cup {"closed"} /\ slots = <<>>

\* A place that cannot be read yet is the one its producer is about to link.
UnreadyAreLinked ==
    /\ \A i \in 1 .. Len(slots) : slots[i].ready \/ ppc[slots[i].item[1]] = "link"
    /\ \A i, j \in 1 .. Len(slots) :
        (~ slots[i].ready /\ ~ slots[j].ready /\ slots[i].item[1] = slots[j].item[1]) => i = j

DispInv ==
    /\ Typed
    /\ WorkInTime
    /\ AsleepBeforeStart
    /\ CleanAfterMemset
    /\ StateForWorker
    /\ StopsAfterEnd
    /\ UnreadyAreLinked

--------------------------------------------------------------------------------
\* Before open the invariant holds: there is no thread, no item, no post.
LEMMA DispInitInv == DispInit => DispInv
<1> SUFFICES ASSUME DispInit PROVE DispInv
    OBVIOUS
<1> USE DEF DispInit, ChInit
<1>1. Typed
    BY EmptySeq DEF Typed
<1>2. UnreadyAreLinked
    BY DEF UnreadyAreLinked
<1> QED
    BY <1>1, <1>2 DEF DispInv, WorkInTime, Quiet, AsleepBeforeStart, CleanAfterMemset,
        StateForWorker, StopsAfterEnd, Ending

\* Steps of the owner: open, notify and close.
LEMMA OwnerKeepsInv == ASSUME DispInv, Owner PROVE DispInv'
<1> USE DEF DispInv, Typed, WorkInTime, Quiet, AsleepBeforeStart, CleanAfterMemset,
        StateForWorker, StopsAfterEnd, UnreadyAreLinked, Ending, chVars, producerVars, workerVars
<1>1. CASE OpenThread
    BY <1>1 DEF OpenThread
<1>2. CASE OpenMemset
    BY <1>2 DEF OpenMemset
<1>3. CASE StartStore
    BY <1>3 DEF StartStore, SetState
<1>4. CASE StartPost
    BY <1>4 DEF StartPost, Post
<1>5. CASE Quiet /\ EndStore
    BY <1>5 DEF EndStore, SetState
<1>6. CASE EndPost
    BY <1>6 DEF EndPost, Post
<1>7. CASE CloseCheck
    BY <1>7 DEF CloseCheck
<1>8. CASE CloseStore
    BY <1>8 DEF CloseStore, SetState
<1>9. CASE ClosePost
    BY <1>9 DEF ClosePost, Post
<1>10. CASE CloseFree
    BY <1>10 DEF CloseFree
<1>11. CASE CloseSpin
    BY <1>11 DEF CloseSpin, dispVars, ownerVars
<1> QED
    BY <1>1, <1>2, <1>3, <1>4, <1>5, <1>6, <1>7, <1>8, <1>9, <1>10, <1>11 DEF Owner

--------------------------------------------------------------------------------
\* Appending to a sequence: its length and its elements.
LEMMA AppendFacts ==
    ASSUME NEW S, NEW s \in Seq(S), NEW e \in S
    PROVE  /\ Append(s, e) \in Seq(S)
           /\ Len(s) \in Nat
           /\ Len(Append(s, e)) = Len(s) + 1
           /\ \A i \in 1 .. Len(s) : Append(s, e)[i] = s[i]
           /\ Append(s, e)[Len(s) + 1] = e
    BY AppendProperties, LenProperties

\* The tail of a non-empty sequence: its length and its elements.
LEMMA TailFacts ==
    ASSUME NEW S, NEW s \in Seq(S), s # <<>>
    PROVE  /\ Tail(s) \in Seq(S)
           /\ Len(s) \in Nat
           /\ Len(Tail(s)) = Len(s) - 1
           /\ \A i \in 1 .. Len(s) - 1 : Tail(s)[i] = s[i + 1]
    BY HeadTailProperties, LenProperties, EmptySeq

\* Steps of a producer: write claims a place and links it, or fails, and notify
\* posts.
LEMMA ProducerKeepsInv ==
    ASSUME DispInv, NEW p \in Producers, Producer(p)
    PROVE  DispInv'
<1> USE DEF DispInv, Typed, WorkInTime, Quiet, AsleepBeforeStart, CleanAfterMemset,
        StateForWorker, StopsAfterEnd, UnreadyAreLinked, Ending, ownerVars, workerVars
<1>1. CASE opc = "running" /\ WriteClaim(p)
    <2> DEFINE place == [item |-> <<p, sent[p] + 1>>, ready |-> FALSE]
    <2>1. /\ ppc[p] = "idle" /\ ppc' = [ppc EXCEPT ![p] = "link"]
          /\ sent[p] < MaxItems /\ sent' = [sent EXCEPT ![p] = @ + 1]
          /\ slots' = Append(slots, place) /\ Fresh(<<p, sent[p] + 1>>)
          /\ UNCHANGED <<delivered, state, sem, opc, wpc, wstop, cache>>
        BY <1>1 DEF WriteClaim, Claim
    <2>2. place \in Slot /\ sent' \in [Producers -> 0 .. MaxItems]
        BY <2>1
    <2>3. /\ slots' \in Seq(Slot)
          /\ Len(slots) \in Nat /\ Len(slots') = Len(slots) + 1
          /\ \A i \in 1 .. Len(slots) : slots'[i] = slots[i]
          /\ slots'[Len(slots) + 1] = place
        BY <2>1, <2>2, AppendFacts
    <2>4. Typed'
        BY <2>1, <2>2, <2>3
    <2>5. \A i \in 1 .. Len(slots) : slots[i].item[1] = p => slots[i].ready
        BY <2>1 DEF Fresh
    <2>6. UnreadyAreLinked'
        <3>1. ASSUME NEW i \in 1 .. Len(slots')
              PROVE  slots'[i].ready \/ ppc'[slots'[i].item[1]] = "link"
            <4>1. CASE i = Len(slots) + 1
                BY <4>1, <2>1, <2>3
            <4>2. CASE i \in 1 .. Len(slots)
                <5>1. slots[i] \in Slot
                    BY <4>2, ElementOfSeq
                <5> QED
                    BY SMTT(60), <4>2, <5>1, <2>1, <2>3
            <4> QED
                BY <4>1, <4>2, <2>3
        <3>2. ASSUME NEW i \in 1 .. Len(slots'), NEW j \in 1 .. Len(slots'),
                     ~ slots'[i].ready, ~ slots'[j].ready, slots'[i].item[1] = slots'[j].item[1]
              PROVE  i = j
            <4>0. place.item[1] = p /\ ~ place.ready
                OBVIOUS
            <4> HIDE DEF place
            <4>1. /\ i \in 1 .. Len(slots) \/ i = Len(slots) + 1
                  /\ j \in 1 .. Len(slots) \/ j = Len(slots) + 1
                <5>1. Len(slots) \in Nat /\ Len(slots') = Len(slots) + 1
                    BY <2>3
                <5> HIDE <1>1 DEF DispInv
                <5> QED
                    BY ONLY <5>1, i \in 1 .. Len(slots'), j \in 1 .. Len(slots')
            <4>2. CASE i \in 1 .. Len(slots) /\ j \in 1 .. Len(slots)
                BY <3>2, <4>2, <2>3
            <4>3. CASE i \in 1 .. Len(slots) /\ j = Len(slots) + 1
                <5>1. slots[i].item[1] = p /\ ~ slots[i].ready
                    BY <3>2, <4>3, <4>0, <2>3
                <5> QED
                    BY <4>3, <5>1, <2>5
            <4>4. CASE j \in 1 .. Len(slots) /\ i = Len(slots) + 1
                <5>1. slots[j].item[1] = p /\ ~ slots[j].ready
                    BY <3>2, <4>4, <4>0, <2>3
                <5> QED
                    BY <4>4, <5>1, <2>5
            <4> QED
                BY <4>1, <4>2, <4>3, <4>4
        <3> QED
            BY <3>1, <3>2
    <2> QED
        BY <1>1, <2>1, <2>4, <2>6
<1>2. CASE opc = "running" /\ WriteFails(p)
    BY <1>2 DEF WriteFails, chVars
<1>3. CASE WriteLink(p)
    <2>1. /\ ppc[p] = "link" /\ ppc' = [ppc EXCEPT ![p] = "notify"]
          /\ UNCHANGED <<delivered, state, sem, sent, opc, wpc, wstop, cache>>
        BY <1>3 DEF WriteLink, Publish
    <2>2. PICK i \in 1 .. Len(slots) :
            /\ slots[i].item[1] = p /\ ~ slots[i].ready
            /\ slots' = [slots EXCEPT ![i] = [item |-> slots[i].item, ready |-> TRUE]]
        BY <1>3 DEF WriteLink, Publish
    <2>3. \A k \in 1 .. Len(slots) : slots[k] \in Slot
        BY ElementOfSeq
    <2>4. slots' \in Seq(Slot) /\ Len(slots') = Len(slots)
        <3> DEFINE linked == [item |-> slots[i].item, ready |-> TRUE]
        <3>1. slots' = [slots EXCEPT ![i] = linked]
            BY <2>2
        <3>2. linked \in Slot
            BY <2>3
        <3> QED
            BY <3>1, <3>2, ExceptSeq
    <2>5. Typed'
        BY <2>1, <2>4
    <2>6. \A k \in 1 .. Len(slots) :
            /\ slots'[k].item = slots[k].item
            /\ slots'[k].ready <=> (k = i \/ slots[k].ready)
        <3> SUFFICES ASSUME NEW k \in 1 .. Len(slots)
                     PROVE  /\ slots'[k].item = slots[k].item
                            /\ slots'[k].ready <=> (k = i \/ slots[k].ready)
            OBVIOUS
        <3>1. CASE k = i
            <4>1. slots'[i] = [item |-> slots[i].item, ready |-> TRUE]
                <5> DEFINE linked == [item |-> slots[i].item, ready |-> TRUE]
                <5>1. slots \in Seq(Slot) /\ slots' = [slots EXCEPT ![i] = linked]
                    BY <2>2
                <5> HIDE DEF linked
                <5>2. slots'[i] = linked
                    BY ONLY <5>1, i \in 1 .. Len(slots), LenProperties
                <5> QED
                    BY <5>2 DEF linked
            <4>2. slots'[i].ready /\ slots'[i].item = slots[i].item
                BY ONLY <4>1
            <4> QED
                BY ONLY <3>1, <4>2
        <3>2. CASE k # i
            <4>1. slots'[k] = slots[k]
                BY <2>2, <3>2
            <4> QED
                BY <3>2, <4>1
        <3> QED
            BY <3>1, <3>2
    <2>7. UnreadyAreLinked'
        BY SMTT(60), <2>1, <2>2, <2>3, <2>4, <2>6
    <2>8. opc = "running"
        BY <2>1
    <2>9. ~ (wpc \in {"stop", "exited"})
        BY <2>8
    <2> QED
        BY <2>1, <2>5, <2>7, <2>8, <2>9
<1>4. CASE NotifyData(p)
    BY <1>4 DEF NotifyData, chVars
<1> QED
    BY <1>1, <1>2, <1>3, <1>4 DEF Producer

--------------------------------------------------------------------------------
\* Steps of the worker: it takes what is readable, and stops at an empty channel
\* only when all is quiet.
LEMMA WorkerKeepsInv == ASSUME DispInv, Worker PROVE DispInv'
<1> USE DEF DispInv, Typed, WorkInTime, Quiet, AsleepBeforeStart, CleanAfterMemset,
        StateForWorker, StopsAfterEnd, UnreadyAreLinked, Ending, ownerVars, producerVars, chVars
<1>1. CASE WorkerWait
    BY <1>1 DEF WorkerWait
<1>2. CASE WorkerCheck
    <2>1. /\ wpc = "check" /\ wpc' = IF state \in {"RUNNING", "STOPPING"} THEN "read" ELSE "exited"
          /\ wstop' = (state = "STOPPING")
          /\ UNCHANGED <<slots, state, sem, opc, ppc, sent, cache>>
        BY <1>2 DEF WorkerCheck
    <2>2. wpc' = "read" /\ opc \in {"running"} \cup Ending \cup {"start"}
        BY <2>1
    <2>3. wstop' => opc \in Ending
        BY <2>1, <2>2
    <2> HIDE <1>2
    <2> QED
        BY ZenonT(60), <2>1, <2>2, <2>3
<1>3. CASE WorkerRead
    <2>1. /\ wpc = "read" /\ wpc' = "write" /\ slots # <<>> /\ slots' = Tail(slots)
          /\ UNCHANGED <<state, sem, opc, ppc, sent, wstop, cache>>
        BY <1>3 DEF WorkerRead, Take, CanTake
    <2>2. /\ slots' \in Seq(Slot)
          /\ Len(slots) \in Nat /\ Len(slots') = Len(slots) - 1
          /\ \A i \in 1 .. Len(slots) - 1 : slots'[i] = slots[i + 1]
        BY <2>1, TailFacts
    <2>3. Typed'
        BY <2>1, <2>2
    <2>4. \A i \in 1 .. Len(slots') :
            i + 1 \in 1 .. Len(slots) /\ slots'[i] = slots[i + 1]
        BY <2>2
    <2>5. UnreadyAreLinked'
        <3>1. ASSUME NEW i \in 1 .. Len(slots')
              PROVE  slots'[i].ready \/ ppc'[slots'[i].item[1]] = "link"
            BY <2>1, <2>4
        <3>2. ASSUME NEW i \in 1 .. Len(slots'), NEW j \in 1 .. Len(slots'),
                     ~ slots'[i].ready, ~ slots'[j].ready, slots'[i].item[1] = slots'[j].item[1]
              PROVE  i = j
            <4>1. /\ i + 1 \in 1 .. Len(slots) /\ j + 1 \in 1 .. Len(slots)
                  /\ ~ slots[i + 1].ready /\ ~ slots[j + 1].ready
                  /\ slots[i + 1].item[1] = slots[j + 1].item[1]
                BY <2>4, <3>2
            <4>2. \A a, b \in 1 .. Len(slots) :
                    (~ slots[a].ready /\ ~ slots[b].ready /\ slots[a].item[1] = slots[b].item[1])
                        => a = b
                OBVIOUS
            <4>3. i + 1 = j + 1
                BY ONLY <4>1, <4>2
            <4> QED
                BY <4>3
        <3> QED
            BY <3>1, <3>2
    <2> QED
        BY <2>1, <2>3, <2>5
<1>4. CASE WorkerEmpty
    <2>1. wpc = "read" /\ wpc' = (IF wstop THEN "stop" ELSE "wait") /\ ~ CanTake
          /\ UNCHANGED <<slots, state, sem, opc, ppc, sent, wstop, cache>>
        BY <1>4 DEF WorkerEmpty
    <2>2. CASE wstop
        <3>1. \A p \in Producers : ppc[p] = "idle"
            BY <2>1, <2>2
        <3>2. ASSUME slots # <<>> PROVE FALSE
            <4>1. 1 \in 1 .. Len(slots)
                BY <3>2, EmptySeq, LenProperties
            <4>2. slots[1] \in Slot
                <5>1. slots \in Seq(Slot)
                    OBVIOUS
                <5> QED
                    BY ONLY <4>1, <5>1, ElementOfSeq
            <4>3. slots[1].ready \/ ppc[slots[1].item[1]] = "link"
                BY <4>1
            <4>4. ppc[slots[1].item[1]] = "idle"
                BY <3>1, <4>2
            <4>5. slots[1].ready
                BY <4>3, <4>4
            <4> QED
                BY ONLY <2>1, <3>2, <4>5, Zenon DEF CanTake
        <3> QED
            BY <2>1, <2>2, <3>2
    <2>3. CASE ~ wstop
        BY <2>1, <2>3
    <2> QED
        BY <2>2, <2>3
<1>5. CASE WorkerWrite
    <2> DEFINE id    == Route[witem[1]][wslot]
               found == IF CacheHit(wslot, id) THEN cache[wslot]
                        ELSE IF id \in Recorders THEN id ELSE NULL
    <2>1. /\ wpc = "write" /\ cache' = [cache EXCEPT ![wslot] = found]
          /\ UNCHANGED <<slots, state, sem, opc, ppc, sent, wpc, wstop>>
        BY <1>5 DEF WorkerWrite
    <2>2. opc \notin {"new", "memset"}
        BY <2>1
    <2>3. wslot \in 1 .. MaxTargets => found \in Recorders \cup {NULL} /\ found # Garbage
        BY <2>2
    <2>4. /\ cache' \in [1 .. MaxTargets -> Recorders \cup {NULL, Garbage}]
          /\ \A i \in 1 .. MaxTargets : cache'[i] # Garbage
        <3> HIDE DEF found
        <3> QED
            BY <2>1, <2>2, <2>3
    <2> QED
        BY <2>1, <2>4
<1>6. CASE WorkerRelease
    BY <1>6 DEF WorkerRelease
<1>7. CASE WorkerStop
    BY <1>7 DEF WorkerStop
<1> QED
    BY <1>1, <1>2, <1>3, <1>4, <1>5, <1>6, <1>7 DEF Worker

--------------------------------------------------------------------------------
\* No step of the dispatcher breaks the invariant.
LEMMA DispKeepsInv == DispInv /\ [DispNext]_dispVars => DispInv'
<1> SUFFICES ASSUME DispInv, [DispNext]_dispVars PROVE DispInv'
    OBVIOUS
<1>1. CASE UNCHANGED dispVars
    BY <1>1 DEF dispVars, chVars, ownerVars, producerVars, workerVars, DispInv, Typed,
        WorkInTime, Quiet, AsleepBeforeStart, CleanAfterMemset, StateForWorker,
        StopsAfterEnd, UnreadyAreLinked, Ending
<1> QED
    BY <1>1, OwnerKeepsInv, ProducerKeepsInv, WorkerKeepsInv DEF DispNext, DispFinished

\* The invariant holds for ever.
THEOREM DispInvariance == DispSpec => []DispInv
    BY DispInitInv, DispKeepsInv, PTL DEF DispSpec

\* When close has freed the block the thread has ended and no producer is at
\* work; the thread finds a cleared cache although open starts it first, because
\* the posts of START come after memset (open, process_log, close).
THEOREM BlockOutlivesItsUse == DispSpec => []BlockUsedInItsLife
<1>1. DispInv => NoUseAfterClose
    BY DEF DispInv, StateForWorker, WorkInTime, NoUseAfterClose
<1>2. DispInv => CacheCleared
    BY DEF DispInv, AsleepBeforeStart, CleanAfterMemset, CacheCleared
<1> QED
    BY <1>1, <1>2, DispInvariance, PTL DEF BlockUsedInItsLife

\* The thread leaves an empty channel behind (the last round of the handler).
THEOREM WorkerDrains == DispSpec => []ExitsDrained
<1>1. DispInv => ExitsDrained
    BY DEF DispInv, StopsAfterEnd, ExitsDrained
<1> QED
    BY <1>1, DispInvariance, PTL

--------------------------------------------------------------------------------
(* What the recorders are given                                             *)

\* The item in hand is the last one taken, and the worker is within its route.
InHand ==
    /\ delivered \in Seq(Items)
    /\ written \in [Recorders -> Seq(Items)]
    /\ wslot \in 1 .. MaxTargets + 1
    /\ wpc = "write" => delivered # <<>> /\ witem = delivered[Len(delivered)]

\* What a recorder was given, w, is what its turns ask for.
Given(turns, w, items) ==
    /\ IsFiniteSet(turns)
    /\ Len(w) = Cardinality(turns)
    /\ \A t \in turns : w[Cardinality(UpToTurn(turns, t))] = items[t[1]]

RecordInv == InHand /\ \A r \in Recorders : Given(Turns(r), written[r], delivered)

\* The number of turns up to a turn.
LEMMA UpToTurnCount ==
    ASSUME NEW turns, IsFiniteSet(turns), turns \subseteq Nat \X Nat, NEW t \in turns
    PROVE  /\ Cardinality(turns) \in Nat
           /\ Cardinality(UpToTurn(turns, t)) \in 1 .. Cardinality(turns)
<1>1. UpToTurn(turns, t) \subseteq turns /\ t \in UpToTurn(turns, t)
    BY DEF UpToTurn
<1>2. /\ IsFiniteSet(UpToTurn(turns, t)) /\ Cardinality(turns) \in Nat
      /\ Cardinality(UpToTurn(turns, t)) \in Nat
      /\ Cardinality(UpToTurn(turns, t)) <= Cardinality(turns)
    BY <1>1, FS_Subset, FS_CardinalityType
<1>3. Cardinality(UpToTurn(turns, t)) # 0
    BY <1>1, <1>2, FS_EmptySet
<1> QED
    BY <1>2, <1>3

\* A turn that comes after all others, and is served.
LEMMA GivenMore ==
    ASSUME NEW turns, turns \subseteq Nat \X Nat, NEW w \in Seq(Items), NEW items,
           Given(turns, w, items),
           NEW t \in Nat \X Nat, NEW e \in Items, items[t[1]] = e,
           \A u \in turns : u[1] < t[1] \/ (u[1] = t[1] /\ u[2] < t[2])
    PROVE  Given(turns \cup {t}, Append(w, e), items)
<1> DEFINE more == turns \cup {t}
<1>1. t \notin turns
    BY DEF Given
<1>2. /\ IsFiniteSet(turns) /\ IsFiniteSet(more) /\ Cardinality(turns) \in Nat
      /\ Cardinality(more) = Cardinality(turns) + 1
    BY <1>1, FS_AddElement, FS_CardinalityType DEF Given
<1>3. UpToTurn(more, t) = more
    BY DEF UpToTurn
<1>4. ASSUME NEW u \in turns PROVE UpToTurn(more, u) = UpToTurn(turns, u)
    <2>1. ~ (t[1] < u[1] \/ (t[1] = u[1] /\ t[2] <= u[2]))
        OBVIOUS
    <2> QED
        BY <2>1 DEF UpToTurn
<1>5. /\ Len(w) = Cardinality(turns) /\ Len(Append(w, e)) = Cardinality(turns) + 1
      /\ \A i \in 1 .. Cardinality(turns) : Append(w, e)[i] = w[i]
      /\ Append(w, e)[Cardinality(turns) + 1] = e
    BY AppendFacts DEF Given
<1>6. ASSUME NEW u \in turns
      PROVE  Append(w, e)[Cardinality(UpToTurn(more, u))] = items[u[1]]
    <2>1. Cardinality(UpToTurn(turns, u)) \in 1 .. Cardinality(turns)
        BY <1>2, UpToTurnCount
    <2> QED
        BY <1>4, <1>5, <2>1 DEF Given
<1>7. Append(w, e)[Cardinality(UpToTurn(more, t))] = items[t[1]]
    BY <1>2, <1>3, <1>5
<1> HIDE DEF more
<1>8. \A u \in more : u \in turns \/ u = t
    BY DEF more
<1>9. \A u \in more : Append(w, e)[Cardinality(UpToTurn(more, u))] = items[u[1]]
    BY <1>6, <1>7, <1>8
<1>10. Given(more, Append(w, e), items)
    BY <1>2, <1>5, <1>9 DEF Given
<1> QED
    BY <1>10 DEF more

\* Turns are pairs of numbers.
LEMMA TurnsArePairs ==
    ASSUME InHand, NEW r
    PROVE  /\ Turns(r) \subseteq Nat \X Nat
           /\ \A t \in Turns(r) : t[1] \in 1 .. Len(delivered) /\ t[2] \in 1 .. MaxTargets
BY LenProperties DEF Turns, InHand

--------------------------------------------------------------------------------
\* No turn comes and nothing is recorded.
LEMMA SameRecords ==
    ASSUME RecordInv, UNCHANGED <<delivered, written>>, InHand',
           \A r \in Recorders : Turns(r)' = Turns(r)
    PROVE  RecordInv'
BY DEF RecordInv, Given

\* The worker takes an item: all its turns are still to come.
LEMMA ReadKeepsRecords ==
    ASSUME DispInv, RecordInv, WorkerRead
    PROVE  RecordInv'
<1> USE DEF RecordInv
<1>1. /\ wpc = "read" /\ wpc' = "write" /\ wslot' = 1 /\ UNCHANGED written
      /\ slots # <<>> /\ delivered' = Append(delivered, slots[1].item)
      /\ witem' = slots[1].item
    BY DEF WorkerRead, Take, CanTake
<1>2. slots[1].item \in Items
    <2>1. slots \in Seq(Slot) /\ 1 \in 1 .. Len(slots)
        BY <1>1, EmptySeq, LenProperties DEF DispInv, Typed
    <2>2. slots[1] \in Slot
        BY ONLY <2>1, ElementOfSeq
    <2> QED
        BY <2>2
<1> DEFINE n == Len(delivered)
<1>3. /\ delivered' \in Seq(Items)
      /\ n \in Nat /\ Len(delivered') = n + 1
      /\ \A i \in 1 .. n : delivered'[i] = delivered[i]
      /\ delivered'[n + 1] = witem'
    BY <1>1, <1>2, AppendFacts DEF InHand
<1>4. InHand'
    BY <1>1, <1>3, EmptySeq DEF InHand
<1>5. ASSUME NEW r \in Recorders PROVE Given(Turns(r)', written'[r], delivered')
    <2>1. Turns(r)' = {t \in (1 .. n + 1) \X (1 .. MaxTargets) :
                        /\ t[2] <= Len(Route[delivered'[t[1]][1]])
                        /\ Route[delivered'[t[1]][1]][t[2]] = r
                        /\ t[1] = n + 1 => t[2] < 1}
        BY <1>1, <1>3 DEF Turns
    <2>2. Turns(r) = {t \in (1 .. n) \X (1 .. MaxTargets) :
                        /\ t[2] <= Len(Route[delivered[t[1]][1]])
                        /\ Route[delivered[t[1]][1]][t[2]] = r}
        BY <1>1 DEF Turns
    <2>3. \A i \in 1 .. n + 1 : i # n + 1 => i \in 1 .. n
        BY <1>3
    <2>4. \A i \in 1 .. n : i \in 1 .. n + 1 /\ i # n + 1
        BY <1>3
    <2> HIDE DEF n
    <2>5. Turns(r)' \subseteq Turns(r)
        BY <1>3, <2>1, <2>2, <2>3
    <2>6. Turns(r) \subseteq Turns(r)'
        <3> SUFFICES ASSUME NEW t \in Turns(r) PROVE t \in Turns(r)'
            OBVIOUS
        <3>1. t[1] \in 1 .. n /\ t[2] \in 1 .. MaxTargets /\ t = <<t[1], t[2]>>
            BY <2>2
        <3>2. t[1] \in 1 .. n + 1 /\ t[1] # n + 1 /\ delivered'[t[1]] = delivered[t[1]]
            BY <1>3, <2>4, <3>1
        <3> QED
            BY <2>1, <2>2, <3>1, <3>2
    <2>7. \A t \in Turns(r) : delivered'[t[1]] = delivered[t[1]]
        BY <1>3, <2>2
    <2>8. Turns(r)' = Turns(r) /\ written'[r] = written[r] /\ Given(Turns(r), written[r], delivered)
        BY <1>1, <2>5, <2>6
    <2> QED
        BY <2>7, <2>8 DEF Given
<1> QED
    BY <1>4, <1>5

\* The worker serves one position of the route: whatever the cache says, the
\* recorder of that position is given the item and no other.
LEMMA WriteKeepsRecords ==
    ASSUME DispInv, RecordInv, WorkerWrite
    PROVE  RecordInv'
<1> USE DEF RecordInv
<1> DEFINE route == Route[witem[1]]
           id    == route[wslot]
           found == IF CacheHit(wslot, id) THEN cache[wslot]
                    ELSE IF id \in Recorders THEN id ELSE NULL
           n     == Len(delivered)
<1>1. /\ wpc = "write" /\ wslot <= Len(route) /\ wslot' = wslot + 1
      /\ written' = [r \in Recorders |->
                        IF r = found THEN Append(written[r], witem) ELSE written[r]]
      /\ UNCHANGED <<delivered, wpc, witem>>
    BY DEF WorkerWrite, chVars
<1>2. /\ delivered # <<>> /\ witem = delivered[n] /\ n \in Nat \ {0}
      /\ witem \in Items
    BY <1>1, EmptySeq, LenProperties, ElementOfSeq DEF InHand
<1>3. /\ route \in Seq(RouteIds) /\ Len(route) <= MaxTargets /\ Len(route) \in Nat
      /\ wslot \in 1 .. Len(route) /\ wslot \in 1 .. MaxTargets
    BY <1>1, <1>2, LenProperties DEF InHand
<1>4. id \in RouteIds /\ id # NULL
    BY <1>3, ElementOfSeq
<1>5. found = IF id \in Recorders THEN id ELSE NULL
    <2>1. opc \notin {"new", "memset"}
        BY <1>1 DEF DispInv, AsleepBeforeStart
    <2>2. cache[wslot] \in Recorders \cup {NULL}
        BY <1>3, <2>1 DEF DispInv, Typed, CleanAfterMemset
    <2> QED
        BY <1>4, <2>2 DEF CacheHit
<1> HIDE DEF found
<1>6. InHand'
    BY <1>1, <1>2, <1>3, AppendFacts DEF InHand
<1>7. ASSUME NEW r \in Recorders PROVE Given(Turns(r)', written'[r], delivered')
    <2>1. Turns(r) = {t \in (1 .. n) \X (1 .. MaxTargets) :
                        /\ t[2] <= Len(Route[delivered[t[1]][1]])
                        /\ Route[delivered[t[1]][1]][t[2]] = r
                        /\ t[1] = n => t[2] < wslot}
        BY <1>1 DEF Turns
    <2>2. Turns(r)' = {t \in (1 .. n) \X (1 .. MaxTargets) :
                        /\ t[2] <= Len(Route[delivered[t[1]][1]])
                        /\ Route[delivered[t[1]][1]][t[2]] = r
                        /\ t[1] = n => t[2] < wslot + 1}
        BY <1>1 DEF Turns
    <2>3. CASE id = r
        <3>1. Turns(r)' = Turns(r) \cup {<<n, wslot>>}
            <4>1. <<n, wslot>> \in Turns(r)'
                BY <1>2, <1>3, <2>2, <2>3
            <4>2. ASSUME NEW t \in Turns(r)', t \notin Turns(r) PROVE t = <<n, wslot>>
                <5>1. /\ t \in (1 .. n) \X (1 .. MaxTargets)
                      /\ t[1] = n /\ t[2] < wslot + 1 /\ ~ (t[2] < wslot)
                    BY <2>1, <2>2, <4>2
                <5> QED
                    BY <1>3, <5>1
            <4>3. ASSUME NEW t \in Turns(r) PROVE t \in Turns(r)'
                BY <1>3, <2>1, <2>2, <4>3
            <4> QED
                BY <4>1, <4>2, <4>3
        <3>2. ASSUME NEW u \in Turns(r) PROVE u[1] < n \/ (u[1] = n /\ u[2] < wslot)
            <4>1. u[1] \in 1 .. n /\ (u[1] = n => u[2] < wslot)
                BY <2>1
            <4>2. \A k \in 1 .. n : k < n \/ k = n
                BY <1>2
            <4> QED
                BY <4>1, <4>2
        <3>3. written'[r] = Append(written[r], witem)
            BY <1>1, <1>5, <2>3
        <3>4. /\ Turns(r) \subseteq Nat \X Nat /\ <<n, wslot>> \in Nat \X Nat
              /\ written[r] \in Seq(Items) /\ Given(Turns(r), written[r], delivered)
            BY <1>2, <1>3, TurnsArePairs DEF InHand
        <3> DEFINE t == <<n, wslot>>
        <3>5. t[1] = n /\ t[2] = wslot
            OBVIOUS
        <3> HIDE DEF t
        <3>6. Given(Turns(r) \cup {t}, Append(written[r], witem), delivered)
            <4>1. t \in Nat \X Nat /\ delivered[t[1]] = witem
                BY <1>2, <3>4, <3>5 DEF t
            <4>2. \A u \in Turns(r) : u[1] < t[1] \/ (u[1] = t[1] /\ u[2] < t[2])
                BY <3>2, <3>5
            <4> QED
                BY <1>2, <3>4, <4>1, <4>2, GivenMore
        <3> QED
            BY <1>1, <3>1, <3>3, <3>6 DEF t
    <2>4. CASE id # r
        <3>1. Turns(r)' = Turns(r)
            <4>1. ASSUME NEW t \in Turns(r)' PROVE t \in Turns(r)
                <5>1. /\ t \in (1 .. n) \X (1 .. MaxTargets)
                      /\ t[2] <= Len(Route[delivered[t[1]][1]])
                      /\ Route[delivered[t[1]][1]][t[2]] = r
                      /\ t[1] = n => t[2] < wslot + 1
                    BY <2>2, <4>1
                <5>2. t[1] = n => t[2] # wslot
                    BY <1>2, <2>4, <5>1
                <5> QED
                    BY <1>3, <2>1, <5>1, <5>2
            <4>2. ASSUME NEW t \in Turns(r) PROVE t \in Turns(r)'
                BY <1>3, <2>1, <2>2, <4>2
            <4> QED
                BY <4>1, <4>2
        <3>2. written'[r] = written[r]
            BY <1>1, <1>4, <1>5, <2>4
        <3> QED
            BY <1>1, <3>1, <3>2
    <2> QED
        BY <2>3, <2>4
<1> QED
    BY <1>6, <1>7

\* Every other step of the dispatcher leaves the worker's item alone, or puts it
\* away when its route is done.
LEMMA RecordsKept ==
    ASSUME DispInv, RecordInv, [DispNext]_dispVars
    PROVE  RecordInv'
<1> USE DEF RecordInv
<1>1. ASSUME UNCHANGED <<delivered, written, wslot, witem, wpc>> PROVE RecordInv'
    <2>1. \A r \in Recorders : Turns(r)' = Turns(r)
        BY <1>1 DEF Turns
    <2> QED
        BY <1>1, <2>1, SameRecords DEF InHand
<1>2. ASSUME UNCHANGED <<delivered, written>>, wslot' \in {1, wslot}, wpc # "write", wpc' # "write"
      PROVE  RecordInv'
    <2>1. \A r \in Recorders : Turns(r)' = Turns(r)
        BY <1>2 DEF Turns
    <2> QED
        BY <1>2, <2>1, SameRecords DEF InHand
<1>3. CASE Owner
    <2>1. CASE OpenThread
        BY <1>2, <1>3, <2>1 DEF OpenThread, producerVars, chVars, DispInv, AsleepBeforeStart
    <2> QED
        BY <1>1, <1>3, <2>1 DEF Owner, OpenMemset, StartStore, StartPost, EndStore, EndPost, CloseCheck,
            CloseStore, ClosePost, CloseFree, CloseSpin, SetState, Post, dispVars, workerVars, chVars
<1>4. ASSUME NEW p \in Producers, Producer(p) PROVE RecordInv'
    BY <1>1, <1>4 DEF Producer, WriteClaim, WriteFails, WriteLink, NotifyData, Claim, Publish,
        workerVars, chVars
<1>5. CASE Worker
    <2>1. CASE WorkerWait \/ WorkerCheck \/ WorkerEmpty \/ WorkerStop
        BY <1>2, <2>1 DEF WorkerWait, WorkerCheck, WorkerEmpty, WorkerStop, chVars
    <2>2. CASE WorkerRelease
        <3>1. /\ wpc = "write" /\ wslot > Len(Route[witem[1]]) /\ wslot' = 1 /\ wpc' = "read"
              /\ UNCHANGED <<delivered, written>>
            BY <2>2 DEF WorkerRelease, chVars
        <3>2. /\ witem = delivered[Len(delivered)] /\ Len(Route[witem[1]]) \in Nat
            BY <3>1, EmptySeq, LenProperties, ElementOfSeq DEF InHand
        <3>3. InHand'
            BY <3>1 DEF InHand
        <3>4. ASSUME NEW r \in Recorders PROVE Turns(r)' = Turns(r)
            <4>1. Turns(r)' = {t \in (1 .. Len(delivered)) \X (1 .. MaxTargets) :
                                /\ t[2] <= Len(Route[delivered[t[1]][1]])
                                /\ Route[delivered[t[1]][1]][t[2]] = r}
                BY <3>1 DEF Turns
            <4>2. ASSUME NEW t \in Turns(r)' PROVE t[1] = Len(delivered) => t[2] < wslot
                BY <3>1, <3>2, <4>1 DEF InHand
            <4> QED
                BY <3>1, <4>1, <4>2 DEF Turns
        <3> QED
            BY <3>1, <3>3, <3>4, SameRecords
    <2> QED
        BY <1>5, <2>1, <2>2, ReadKeepsRecords, WriteKeepsRecords DEF Worker
<1>6. CASE DispFinished \/ UNCHANGED dispVars
    BY <1>1, <1>6 DEF DispFinished, dispVars, workerVars, chVars
<1> QED
    BY <1>3, <1>4, <1>5, <1>6 DEF DispNext

\* Before open nothing is taken and nothing is recorded.
LEMMA RecordInitInv == DispInit => RecordInv
<1> SUFFICES ASSUME DispInit PROVE RecordInv
    OBVIOUS
<1>1. InHand
    BY EmptySeq DEF DispInit, ChInit, InHand
<1>2. ASSUME NEW r \in Recorders PROVE Given(Turns(r), written[r], delivered)
    <2>1. Turns(r) = {} /\ Len(written[r]) = 0
        BY EmptySeq DEF DispInit, ChInit, Turns
    <2> QED
        BY <2>1, FS_EmptySet DEF Given
<1> QED
    BY <1>1, <1>2 DEF RecordInv

THEOREM RecordInvariance == DispSpec => []RecordInv
    BY RecordInitInv, RecordsKept, DispInvariance, PTL DEF DispSpec

\* Every recorder is given an item for each of its turns, in their order
\* (clog_async_thread_dispatcher_process_log).
THEOREM RecordersGetTheirs == DispSpec => []RecordedAsRouted
<1>1. RecordInv => RecordedAsRouted
    BY DEF RecordInv, RecordedAsRouted, Given
<1> QED
    BY <1>1, RecordInvariance, PTL

--------------------------------------------------------------------------------
(* Type correctness                                                         *)

\* Steps of the owner.
LEMMA OwnerKeepsTypes == ASSUME DispTypeOK, Owner PROVE DispTypeOK'
<1> USE DEF DispTypeOK, ChTypeOK, chVars, producerVars, workerVars
<1>1. CASE OpenThread \/ OpenMemset
    BY <1>1 DEF OpenThread, OpenMemset
<1>2. CASE StartStore \/ EndStore \/ CloseStore
    BY <1>2 DEF StartStore, EndStore, CloseStore, SetState
<1>3. CASE StartPost \/ EndPost \/ ClosePost
    BY SMTT(60), <1>3 DEF StartPost, EndPost, ClosePost, Post
<1>4. CASE CloseCheck \/ CloseFree \/ CloseSpin
    BY <1>4 DEF CloseCheck, CloseFree, CloseSpin, dispVars, ownerVars
<1> QED
    BY <1>1, <1>2, <1>3, <1>4 DEF Owner

\* Steps of a producer.
LEMMA ProducerKeepsTypes ==
    ASSUME DispTypeOK, NEW p \in Producers, Producer(p) PROVE DispTypeOK'
<1> USE DEF DispTypeOK, ChTypeOK, ownerVars, workerVars
<1>1. CASE WriteClaim(p)
    <2>1. [item |-> <<p, sent[p] + 1>>, ready |-> FALSE] \in Slot
        BY <1>1 DEF WriteClaim
    <2>2. slots' \in Seq(Slot) /\ delivered' = delivered
        BY <1>1, <2>1, AppendFacts DEF WriteClaim, Claim
    <2>3. /\ sent' = [sent EXCEPT ![p] = @ + 1] /\ sent[p] < MaxItems
          /\ ppc' \in [Producers -> {"idle", "link", "notify"}]
        BY <1>1 DEF WriteClaim
    <2>4. sent' \in [Producers -> 0 .. MaxItems]
        BY <2>3
    <2> QED
        BY <1>1, <2>2, <2>3, <2>4 DEF WriteClaim
<1>2. CASE WriteFails(p)
    BY <1>2 DEF WriteFails, chVars
<1>3. CASE WriteLink(p)
    <2>1. slots' \in Seq(Slot) /\ delivered' = delivered
        <3>1. PICK i \in 1 .. Len(slots) :
                slots' = [slots EXCEPT ![i] = [item |-> slots[i].item, ready |-> TRUE]]
            BY <1>3 DEF WriteLink, Publish
        <3>2. slots[i] \in Slot
            BY ElementOfSeq
        <3>3. [item |-> slots[i].item, ready |-> TRUE] \in Slot
            BY <3>2
        <3>4. slots' \in Seq(Slot)
            BY <3>1, <3>3
        <3> QED
            BY <1>3, <3>4 DEF WriteLink, Publish
    <2> QED
        BY <1>3, <2>1 DEF WriteLink
<1>4. CASE NotifyData(p)
    BY <1>4 DEF NotifyData, chVars
<1> QED
    BY <1>1, <1>2, <1>3, <1>4 DEF Producer

\* Steps of the worker.
LEMMA WorkerKeepsTypes ==
    ASSUME DispTypeOK, DispInv, RecordInv, Worker PROVE DispTypeOK'
<1> USE DEF DispTypeOK, ChTypeOK, ownerVars, producerVars
<1>1. CASE WorkerWait \/ WorkerCheck \/ WorkerEmpty \/ WorkerStop
    <2>1. CASE WorkerWait
        <3>1. sem' \in Nat
            BY <2>1 DEF WorkerWait
        <3>2. /\ wpc' = "check"
              /\ UNCHANGED <<slots, delivered, state, opc, ppc, sent, wstop, witem, wslot, cache, written>>
            BY <2>1 DEF WorkerWait, chVars
        <3> QED
            BY <3>1, <3>2
    <2>2. CASE WorkerCheck
        BY <2>2 DEF WorkerCheck, chVars
    <2>3. CASE WorkerEmpty
        BY <2>3 DEF WorkerEmpty, chVars
    <2>4. CASE WorkerStop
        BY <2>4 DEF WorkerStop, chVars
    <2> QED
        BY <1>1, <2>1, <2>2, <2>3, <2>4
<1>2. CASE WorkerRead
    <2>1. slots # <<>> /\ slots' = Tail(slots) /\ delivered' = Append(delivered, slots[1].item)
        BY <1>2 DEF WorkerRead, Take, CanTake
    <2>2. slots[1].item \in Items
        <3>1. 1 \in 1 .. Len(slots)
            BY <2>1, EmptySeq, LenProperties
        <3>2. slots[1] \in Slot
            BY <3>1, ElementOfSeq
        <3> QED
            BY <3>2
    <2>3. slots' \in Seq(Slot) /\ delivered' \in Seq(Items)
        BY <2>1, <2>2, HeadTailProperties, AppendFacts
    <2>4. 1 \in 1 .. MaxTargets + 1
        OBVIOUS
    <2> QED
        BY <1>2, <2>2, <2>3, <2>4 DEF WorkerRead
<1>3. CASE WorkerWrite
    <2> DEFINE route == Route[witem[1]]
               id    == route[wslot]
               found == IF CacheHit(wslot, id) THEN cache[wslot]
                        ELSE IF id \in Recorders THEN id ELSE NULL
    <2>1. RecordInv'
        BY <1>3, WriteKeepsRecords
    <2>2. /\ cache' = [cache EXCEPT ![wslot] = found]
          /\ UNCHANGED <<slots, delivered, state, sem, opc, ppc, sent, wpc, wstop, witem>>
        BY <1>3 DEF WorkerWrite, chVars
    <2>3. wslot \in 1 .. MaxTargets
        <3>1. wpc = "write" /\ wslot' = wslot + 1
            BY <1>3 DEF WorkerWrite
        <3> QED
            BY <2>1, <3>1 DEF RecordInv, InHand
    <2>4. found \in Recorders \cup {NULL, Garbage}
        BY <2>3
    <2>5. cache' \in [1 .. MaxTargets -> Recorders \cup {NULL, Garbage}]
        BY <2>2, <2>4
    <2> QED
        BY ZenonT(60), <2>1, <2>2, <2>5 DEF RecordInv, InHand
<1>4. CASE WorkerRelease
    BY <1>4 DEF WorkerRelease, chVars
<1> QED
    BY <1>1, <1>2, <1>3, <1>4 DEF Worker

\* Every variable of the dispatcher and its channel keeps its type.
LEMMA TypesKept ==
    ASSUME DispTypeOK, DispInv, RecordInv, [DispNext]_dispVars PROVE DispTypeOK'
<1>1. CASE UNCHANGED dispVars
    BY <1>1 DEF dispVars, chVars, ownerVars, producerVars, workerVars, DispTypeOK, ChTypeOK
<1> QED
    BY <1>1, OwnerKeepsTypes, ProducerKeepsTypes, WorkerKeepsTypes DEF DispNext, DispFinished

THEOREM DispTypes == DispSpec => []DispTypeOK
<1>1. DispInit => DispTypeOK
    <2> SUFFICES ASSUME DispInit PROVE DispTypeOK
        OBVIOUS
    <2> USE DEF DispInit
    <2>1. ChTypeOK
        BY EmptySeq DEF ChInit, ChTypeOK
    <2>2. wslot \in 1 .. MaxTargets + 1
        OBVIOUS
    <2>3. written \in [Recorders -> Seq(Items)]
        BY EmptySeq
    <2>4. cache \in [1 .. MaxTargets -> Recorders \cup {NULL, Garbage}]
        OBVIOUS
    <2>5. ppc \in [Producers -> {"idle", "link", "notify"}] /\ sent \in [Producers -> 0 .. MaxItems]
        OBVIOUS
    <2> QED
        BY ONLY <2>1, <2>2, <2>3, <2>4, <2>5, DispInit DEF DispTypeOK, DispInit
<1>2. DispSpec => []RecordInv
    BY RecordInitInv, RecordsKept, DispInvariance, PTL DEF DispSpec
<1> QED
    BY <1>1, <1>2, TypesKept, DispInvariance, PTL DEF DispSpec

--------------------------------------------------------------------------------
(* The context: its inductive invariant                                     *)

Places == {"out", "checked", "locked", "item", "sent", "unlock"}

\* What the proofs need of the types.
CtxTyped == lpc \in [Producers -> Places]

\* Log calls get an item in one state only.
RunningIsReady == ctx = "RUNNING" => cpc = "ready"

\* A thread at work in a log call holds the lock for reading.
WorkersHoldLock ==
    \A p \in Producers : lpc[p] \in {"locked", "item", "sent", "unlock"} => p \in readers

\* A thread with an item is there before the barrier only.
ItemsBeforeBarrier ==
    \A p \in Producers : lpc[p] \in {"item", "sent"} => cpc \in {"ready", "stopping"}

\* A write or notify under way belongs to a log call.
WritesBelongToCalls == \A p \in Producers : ppc[p] # "idle" => lpc[p] = "sent"

\* The dispatcher runs until the barrier and is closed after it.
DispatcherFollows ==
    /\ cpc \in {"ready", "failed", "stopping", "barrier"} => opc = "running"
    /\ cpc \in {"drain", "recorders", "pool", "freed"} => opc = "closed"

CtxInv ==
    /\ CtxTyped
    /\ RunningIsReady
    /\ WorkersHoldLock
    /\ ItemsBeforeBarrier
    /\ WritesBelongToCalls
    /\ DispatcherFollows

--------------------------------------------------------------------------------
\* A context just created has neither threads nor a dispatcher.
LEMMA CtxInitInv == Init => DispInv /\ CtxInv
<1> SUFFICES ASSUME Init PROVE DispInv /\ CtxInv
    OBVIOUS
<1>1. DispInv
    BY DispInitInv DEF Init
<1> QED
    BY <1>1 DEF Init, DispInit, CtxInv, CtxTyped, RunningIsReady, WorkersHoldLock,
        ItemsBeforeBarrier, WritesBelongToCalls, DispatcherFollows, Places

\* What the dispatcher has left in the channel by the time it is closed: nothing.
LEMMA NothingLeftAtDrain == DispInv /\ CtxInv /\ cpc = "drain" => slots = <<>>
    BY DEF DispInv, CtxInv, DispatcherFollows, StateForWorker, StopsAfterEnd

\* Every step of the context is a step of the dispatcher or leaves it alone.
LEMMA CtxStepIsDispStep ==
    ASSUME DispInv, CtxInv, [Next]_vars
    PROVE  [DispNext]_dispVars
<1>1. CASE SetupDispatcher
    BY <1>1 DEF SetupDispatcher, DispNext, Owner
<1>2. CASE SetupDone \/ SetupFails
    BY <1>2 DEF SetupDone, SetupFails
<1>3. ASSUME NEW p \in Producers, LogCheck(p) \/ LogStep(p)
      PROVE  [DispNext]_dispVars
    <2>1. CASE LogCheck(p) \/ LogRdLock(p) \/ LogDenied(p) \/ LogAcquire(p) \/ LogFiltered(p)
                \/ LogRdUnlock(p)
        BY <2>1 DEF LogCheck, LogRdLock, LogDenied, LogAcquire, LogFiltered, LogRdUnlock
    <2>2. CASE LogWriteFails(p) \/ LogWrite(p)
        <3>1. lpc[p] = "item" /\ (WriteFails(p) \/ WriteClaim(p))
            BY <2>2 DEF LogWriteFails, LogWrite, At
        <3>2. opc = "running"
            BY <3>1 DEF CtxInv, ItemsBeforeBarrier, DispatcherFollows
        <3> QED
            BY <3>1, <3>2 DEF DispNext, Producer
    <2>3. CASE LogLink(p) \/ LogNotify(p)
        BY <2>3 DEF LogLink, LogNotify, DispNext, Producer
    <2> QED
        BY <1>3, <2>1, <2>2, <2>3 DEF LogStep
<1>4. CASE WorkerStep
    BY <1>4 DEF WorkerStep, DispNext, Worker
<1>5. CASE DestroyStop \/ DestroyWrLock \/ DestroyWrUnlock \/ DestroyFreeDispatcher
            \/ DestroyRecorders \/ DestroyFree
    BY <1>5 DEF DestroyStop, DestroyWrLock, DestroyWrUnlock, DestroyFreeDispatcher,
        DestroyRecorders, DestroyFree
<1>6. CASE DestroyDispatcher
    <2>1. Quiet
        BY <1>6 DEF DestroyDispatcher, CtxInv, WritesBelongToCalls, ItemsBeforeBarrier, Quiet
    <2> QED
        BY <1>6, <2>1 DEF DestroyDispatcher, DispNext, Owner
<1>7. CASE DestroyChannel
    BY <1>7, NothingLeftAtDrain DEF DestroyChannel, dispVars, chVars
<1>8. CASE UNCHANGED vars
    BY <1>8 DEF vars
<1> QED
    BY <1>1, <1>2, <1>3, <1>4, <1>5, <1>6, <1>7, <1>8 DEF Next, DestroyStep, Finished

--------------------------------------------------------------------------------
\* No step of the context breaks its part of the invariant.
LEMMA CtxKeepsInv ==
    ASSUME DispInv, CtxInv, [Next]_vars
    PROVE  CtxInv'
<1> USE DEF CtxInv, CtxTyped, RunningIsReady, WorkersHoldLock, ItemsBeforeBarrier,
        WritesBelongToCalls, DispatcherFollows, Places, ctxVars
<1>0. ppc \in [Producers -> {"idle", "link", "notify"}]
    BY DEF DispInv, Typed
<1>1. CASE SetupDispatcher
    <2>1. cpc = "setup" /\ UNCHANGED <<ctxVars, ppc>>
        BY <1>1 DEF SetupDispatcher, OpenThread, OpenMemset, StartStore, StartPost, SetState,
            Post, producerVars
    <2> QED
        BY <2>1
<1>2. CASE SetupDone \/ SetupFails
    BY <1>2 DEF SetupDone, SetupFails, dispVars, ownerVars, producerVars
<1>3. ASSUME NEW p \in Producers, LogCheck(p) \/ LogStep(p)
      PROVE  CtxInv'
    <2>1. CASE LogCheck(p) \/ LogRdLock(p) \/ LogDenied(p) \/ LogAcquire(p) \/ LogFiltered(p)
                \/ LogRdUnlock(p)
        BY <2>1 DEF LogCheck, LogRdLock, LogDenied, LogAcquire, LogFiltered, LogRdUnlock, At,
            dispVars, ownerVars, producerVars
    <2>2. CASE LogWriteFails(p) \/ LogWrite(p)
        BY <1>0, <2>2 DEF LogWriteFails, LogWrite, At, WriteFails, WriteClaim, ownerVars
    <2>3. CASE LogLink(p) \/ LogNotify(p)
        BY <1>0, <2>3 DEF LogLink, LogNotify, At, WriteLink, NotifyData, ownerVars
    <2> QED
        BY <1>3, <2>1, <2>2, <2>3 DEF LogStep
<1>4. CASE WorkerStep
    <2>1. UNCHANGED <<ctx, cpc, readers, lpc, opc, ppc>>
        BY <1>4 DEF WorkerStep, WorkerWait, WorkerCheck, WorkerRead, WorkerEmpty, WorkerWrite,
            WorkerStop, WorkerRelease, ownerVars, producerVars
    <2> QED
        BY <2>1
<1>5. CASE DestroyStop \/ DestroyWrLock \/ DestroyWrUnlock \/ DestroyFreeDispatcher
            \/ DestroyRecorders \/ DestroyFree
    BY <1>5 DEF DestroyStop, DestroyWrLock, DestroyWrUnlock, DestroyFreeDispatcher,
        DestroyRecorders, DestroyFree, dispVars, ownerVars, producerVars
<1>6. CASE DestroyDispatcher
    <2>1. cpc = "end" /\ UNCHANGED <<ctxVars, ppc>>
        BY <1>6 DEF DestroyDispatcher, EndStore, EndPost, CloseCheck, CloseStore, ClosePost,
            CloseFree, CloseSpin, SetState, Post, dispVars, producerVars
    <2> QED
        BY <2>1
<1>7. CASE DestroyChannel
    BY <1>7 DEF DestroyChannel, ownerVars, producerVars
<1>8. CASE UNCHANGED vars
    BY <1>8 DEF vars, dispVars, ownerVars, producerVars
<1> QED
    BY <1>1, <1>2, <1>3, <1>4, <1>5, <1>6, <1>7, <1>8 DEF Next, DestroyStep, Finished

--------------------------------------------------------------------------------
\* Both parts of the invariant hold for ever.
THEOREM CtxInvariance == Spec => [](DispInv /\ CtxInv)
<1>1. DispInv /\ CtxInv /\ [Next]_vars => (DispInv /\ CtxInv)'
    BY CtxStepIsDispStep, DispKeepsInv, CtxKeepsInv
<1> QED
    BY <1>1, CtxInitInv, PTL DEF Spec

\* After the barrier of destroy no log call has an item
\* (clog_context_destroy against clog_module_log).
THEOREM BarrierAlwaysHolds == Spec => []BarrierHolds
<1>1. CtxInv => BarrierHolds
    BY DEF CtxInv, ItemsBeforeBarrier, BarrierHolds
<1> QED
    BY <1>1, CtxInvariance, PTL

\* The context implements the use AsyncDispatcher assumes: its producers work
\* between START and END only, and close finds the channel empty.
THEOREM ContextImplementsDispatcher == Spec => UsesDispatcherProperly
<1>1. Init => DispInit
    BY DEF Init
<1>2. DispInv /\ CtxInv /\ [Next]_vars => [DispNext]_dispVars
    BY CtxStepIsDispStep
<1> QED
    BY <1>1, <1>2, CtxInvariance, PTL DEF Spec, DispSpec, UsesDispatcherProperly

--------------------------------------------------------------------------------

(* The life of the items                                                    *)

\* The state of the context and the place of its owner go together.
StatesFollow ==
    \/ ctx = "CREATED" /\ cpc \in {"setup", "failed"}
    \/ ctx = "RUNNING" /\ cpc = "ready"
    \/ ctx = "STOPPING" /\ cpc \in {"stopping", "barrier", "end", "drain", "recorders"}
    \/ ctx = "DESTROYED" /\ cpc \in {"pool", "freed"}

\* The worker has an item while it writes, one it has taken from the channel.
HandFull ==
    /\ wpc = "write" <=> witem # NULL
    /\ witem # NULL => witem \in Taken

\* Before the context runs there is no item.
NothingBeforeRunning == ctx = "CREATED" => Pending = {} /\ witem = NULL

\* The items of the channel, past and present, have been offered.
Offered == \A item \in Pending \cup Taken : item[2] <= sent[item[1]]

\* Who may have an allocated item: the channel, the worker, or a log call
\* that has not written it yet.
Reachable ==
    Pending \cup (IF witem # NULL THEN {witem} ELSE {})
            \cup {Current(p) : p \in {q \in Producers : lpc[q] = "item"}}

ItemInv ==
    /\ StatesFollow
    /\ HandFull
    /\ NothingBeforeRunning
    /\ Offered
    /\ alive = Reachable

--------------------------------------------------------------------------------
(* The dispatcher uses the channel as FifoChannel describes it              *)

\* Every step of the dispatcher is one of the abstract channel or none.
LEMMA DispStepIsChStep == DispInv /\ [DispNext]_dispVars => [ChNext]_chVars
<1> SUFFICES ASSUME DispInv, [DispNext]_dispVars PROVE [ChNext]_chVars
    OBVIOUS
<1>1. CASE Owner
    BY <1>1 DEF Owner, OpenThread, OpenMemset, StartStore, StartPost, EndStore, EndPost, CloseCheck,
        CloseStore, ClosePost, CloseFree, CloseSpin, SetState, Post, dispVars
<1>2. ASSUME NEW p \in Producers, Producer(p) PROVE [ChNext]_chVars
    <2>1. CASE WriteClaim(p)
        <3>1. Claim(<<p, sent[p] + 1>>) /\ sent[p] < MaxItems
            BY <2>1 DEF WriteClaim
        <3>2. <<p, sent[p] + 1>> \in Items
            BY <3>1 DEF DispInv, Typed
        <3> QED
            BY <3>1, <3>2 DEF ChNext
    <2>2. CASE WriteFails(p)
        BY <2>2 DEF WriteFails
    <2>3. CASE WriteLink(p)
        BY <2>3 DEF WriteLink, ChNext
    <2>4. CASE NotifyData(p)
        BY <2>4 DEF NotifyData
    <2> QED
        BY <1>2, <2>1, <2>2, <2>3, <2>4 DEF Producer
<1>3. CASE Worker
    BY <1>3 DEF Worker, WorkerWait, WorkerCheck, WorkerRead, WorkerEmpty, WorkerWrite, WorkerRelease,
        WorkerStop, ChNext
<1>4. CASE DispFinished \/ UNCHANGED dispVars
    BY <1>4 DEF DispFinished, dispVars
<1> QED
    BY <1>1, <1>2, <1>3, <1>4 DEF DispNext

\* So the channel keeps its invariant under the dispatcher.
LEMMA DispatcherKeepsChInv == Spec => []ChInv
<1>1. DispSpec => ChSpec
    <2>1. DispInit => ChInit
        BY DEF DispInit
    <2> QED
        BY <2>1, DispStepIsChStep, DispInvariance, PTL DEF DispSpec, ChSpec
<1> QED
    BY <1>1, ContextImplementsDispatcher, ChannelInvariance, PTL DEF UsesDispatcherProperly

--------------------------------------------------------------------------------
(* What may be reached, and what a channel step does to it                  *)

\* Reachable, item by item.
ReachableShape ==
    \A x : x \in Reachable <=>
        \/ x \in Pending
        \/ witem # NULL /\ x = witem
        \/ \E p \in Producers : lpc[p] = "item" /\ x = <<p, sent[p] + 1>>

LEMMA ReachableIs == ReachableShape
    BY DEF ReachableShape, Reachable, Current

LEMMA ReachableIsNext == ReachableShape'
    BY ReachableIs, PTL

\* Items and only items are in the channel and were; none is in it again.
LEMMA PendingFacts ==
    ASSUME ChInv
    PROVE  /\ Pending \subseteq Items
           /\ Taken \subseteq Items
           /\ Pending \cap Taken = {}
<1>1. \A i \in 1 .. Len(slots) : slots[i].item \in Items
    <2> TAKE i \in 1 .. Len(slots)
    <2>1. slots[i] \in Slot
        BY ElementOfSeq DEF ChInv, ChTypeOK
    <2> QED
        BY <2>1
<1>2. \A i \in 1 .. Len(delivered) : delivered[i] \in Items
    BY ElementOfSeq DEF ChInv, ChTypeOK
<1>3. ASSUME NEW i \in 1 .. Len(delivered), NEW j \in 1 .. Len(slots)
      PROVE  delivered[i] # slots[j].item
    <2>1. slots[j].item \in Items /\ slots[j].item[2] \in Nat
        BY <1>1
    <2> QED
        BY <2>1 DEF ChInv, TakenBeforePending
<1> QED
    BY <1>1, <1>2, <1>3 DEF Pending, Taken

\* A claim adds its item to the channel.
LEMMA ClaimAdds ==
    ASSUME ChInv, NEW item \in Items, Claim(item)
    PROVE  Pending' = Pending \cup {item} /\ Taken' = Taken
<1> DEFINE place == [item |-> item, ready |-> FALSE]
<1>1. slots \in Seq(Slot) /\ slots' = Append(slots, place) /\ place \in Slot /\ delivered' = delivered
    BY DEF ChInv, ChTypeOK, Claim
<1>2. /\ Len(slots') = Len(slots) + 1 /\ Len(slots) \in Nat
      /\ \A i \in 1 .. Len(slots) : slots'[i] = slots[i]
      /\ slots'[Len(slots) + 1] = place
    BY <1>1, AppendPlaces
<1>3. Pending' \subseteq Pending \cup {item}
    BY <1>2 DEF Pending
<1>4. Pending \subseteq Pending'
    BY <1>2 DEF Pending
<1>5. item \in Pending'
    <2>1. Len(slots) + 1 \in 1 .. Len(slots') /\ slots'[Len(slots) + 1].item = item
        BY <1>2
    <2> QED
        BY <2>1 DEF Pending
<1> QED
    BY <1>1, <1>3, <1>4, <1>5 DEF Taken

\* A publication changes no item.
LEMMA PublishKeeps ==
    ASSUME ChInv, NEW p \in Producers, Publish(p)
    PROVE  Pending' = Pending /\ Taken' = Taken
<1>1. PICK k \in 1 .. Len(slots) :
        slots' = [slots EXCEPT ![k] = [item |-> slots[k].item, ready |-> TRUE]]
    BY DEF Publish
<1>2. slots \in Seq(Slot) /\ delivered' = delivered
    BY DEF ChInv, ChTypeOK, Publish
<1>3. Len(slots') = Len(slots) /\ \A i \in 1 .. Len(slots) : slots'[i].item = slots[i].item
    <2>1. slots[k] \in Slot
        BY <1>2, ElementOfSeq
    <2>2. [item |-> slots[k].item, ready |-> TRUE] \in Slot
        BY <2>1
    <2> QED
        BY <1>1, <1>2, <2>2
<1>4. Pending' \subseteq Pending
    BY <1>3 DEF Pending
<1>5. Pending \subseteq Pending'
    BY <1>3 DEF Pending
<1>6. Taken' = Taken
    BY <1>2 DEF Taken
<1> QED
    BY <1>4, <1>5, <1>6

\* Taking moves the first item from one side to the other.
LEMMA TakeMoves ==
    ASSUME ChInv, Take
    PROVE  /\ slots[1].item \in Pending
           /\ Pending = Pending' \cup {slots[1].item}
           /\ Taken' = Taken \cup {slots[1].item}
<1>1. /\ slots \in Seq(Slot) /\ delivered \in Seq(Items) /\ slots # <<>>
      /\ slots' = Tail(slots) /\ delivered' = Append(delivered, slots[1].item)
    BY DEF ChInv, ChTypeOK, Take, CanTake
<1>2. /\ Len(slots') = Len(slots) - 1 /\ Len(slots) \in Nat \ {0}
      /\ \A i \in 1 .. Len(slots') : slots'[i] = slots[i + 1]
    BY <1>1, TailPlaces
<1>3. 1 \in 1 .. Len(slots) /\ slots[1].item \in Pending
    BY <1>2 DEF Pending
<1>4. /\ Len(delivered') = Len(delivered) + 1 /\ Len(delivered) \in Nat
      /\ \A i \in 1 .. Len(delivered) : delivered'[i] = delivered[i]
      /\ delivered'[Len(delivered) + 1] = slots[1].item
    <2>1. slots[1].item \in Items
        BY <1>3, PendingFacts
    <2> QED
        BY <1>1, <2>1, AppendPlaces
<1>5. Pending' \subseteq Pending
    <2> SUFFICES ASSUME NEW i \in 1 .. Len(slots') PROVE slots'[i].item \in Pending
        BY DEF Pending
    <2>1. i + 1 \in 1 .. Len(slots)
        BY <1>2
    <2> QED
        BY <1>2, <2>1 DEF Pending
<1>6. ASSUME NEW i \in 1 .. Len(slots), i # 1
      PROVE  slots[i].item \in Pending'
    <2>1. i - 1 \in 1 .. Len(slots') /\ slots'[i - 1] = slots[i]
        BY <1>2, <1>6
    <2> QED
        BY <2>1 DEF Pending
<1>7. Pending \subseteq Pending' \cup {slots[1].item}
    BY <1>6 DEF Pending
<1>8. Taken' \subseteq Taken \cup {slots[1].item} /\ Taken \subseteq Taken'
    BY <1>4 DEF Taken
<1>9. slots[1].item \in Taken'
    <2>1. Len(delivered) + 1 \in 1 .. Len(delivered')
        BY <1>4
    <2> QED
        BY <1>4, <2>1 DEF Taken
<1> QED
    BY <1>3, <1>5, <1>7, <1>8, <1>9

--------------------------------------------------------------------------------
(* The steps of the context                                                 *)

\* State and place go together at every step.
LEMMA StatesKept ==
    ASSUME StatesFollow, [Next]_vars
    PROVE  StatesFollow'
<1> USE DEF StatesFollow, ctxVars
<1>1. CASE SetupDispatcher \/ SetupDone \/ SetupFails
    BY <1>1 DEF SetupDispatcher, SetupDone, SetupFails
<1>2. ASSUME NEW p \in Producers, LogCheck(p) \/ LogStep(p)
      PROVE  UNCHANGED <<ctx, cpc>>
    BY <1>2 DEF LogCheck, LogStep, LogRdLock, LogDenied, LogAcquire, LogFiltered, LogWriteFails,
        LogWrite, LogLink, LogNotify, LogRdUnlock
<1>3. CASE WorkerStep
    BY <1>3 DEF WorkerStep
<1>4. CASE DestroyStop \/ DestroyStep
    BY <1>4 DEF DestroyStop, DestroyStep, DestroyWrLock, DestroyWrUnlock, DestroyDispatcher,
        DestroyFreeDispatcher, DestroyChannel, DestroyRecorders, DestroyFree
<1>5. CASE Finished \/ UNCHANGED vars
    BY <1>5 DEF Finished, vars
<1> QED
    BY <1>1, <1>2, <1>3, <1>4, <1>5 DEF Next

\* What the invariants say of a thread that has an item, and of the worker.
LEMMA ItemsInTime ==
    ASSUME DispInv, CtxInv, ItemInv
    PROVE  /\ \A p \in Producers : lpc[p] = "item" => ctx \in {"RUNNING", "STOPPING"}
           /\ witem # NULL => ctx \in {"RUNNING", "STOPPING"} /\ cpc \in {"ready", "stopping", "barrier", "end"}
           /\ cpc \in {"drain", "recorders", "pool", "freed"} => Pending = {} /\ witem = NULL
<1>1. \A p \in Producers : lpc[p] = "item" => ctx \in {"RUNNING", "STOPPING"}
    BY DEF CtxInv, ItemsBeforeBarrier, ItemInv, StatesFollow
<1>2. cpc \in {"drain", "recorders", "pool", "freed"} => Pending = {} /\ witem = NULL
    <2> SUFFICES ASSUME cpc \in {"drain", "recorders", "pool", "freed"}
                 PROVE  Pending = {} /\ witem = NULL
        OBVIOUS
    <2>1. opc = "closed" /\ wpc = "exited"
        BY DEF CtxInv, DispatcherFollows, DispInv, StateForWorker
    <2>2. slots = <<>>
        BY <2>1 DEF DispInv, StopsAfterEnd
    <2> QED
        BY <2>1, <2>2 DEF ItemInv, HandFull, Pending
<1>3. witem # NULL => ctx \in {"RUNNING", "STOPPING"} /\ cpc \in {"ready", "stopping", "barrier", "end"}
    BY <1>2 DEF ItemInv, StatesFollow, NothingBeforeRunning
<1> QED
    BY <1>1, <1>2, <1>3

\* A step that moves no item.
LEMMA QuietKeepsItems ==
    ASSUME ItemInv, StatesFollow', UNCHANGED <<slots, delivered, witem, sent, alive>>,
           \A p \in Producers : lpc'[p] = "item" <=> lpc[p] = "item",
           wpc' = "write" <=> wpc = "write",
           ctx' = "CREATED" => ctx = "CREATED"
    PROVE  ItemInv'
<1>1. Pending' = Pending /\ Taken' = Taken
    BY DEF Pending, Taken
<1>2. HandFull' /\ NothingBeforeRunning' /\ Offered'
    BY <1>1 DEF ItemInv, HandFull, NothingBeforeRunning, Offered
<1>3. \A x : x \in Reachable <=> x \in Reachable'
    BY <1>1, ReachableIs, ReachableIsNext DEF ReachableShape
<1>4. alive' = Reachable'
    BY <1>3 DEF ItemInv
<1> QED
    BY <1>2, <1>4 DEF ItemInv

\* A call takes an item from the pool.
LEMMA AcquireKeepsItems ==
    ASSUME DispInv, CtxInv, ChInv, ItemInv, StatesFollow', NEW p \in Producers, LogAcquire(p)
    PROVE  ItemInv'
<1>1. /\ lpc[p] = "locked" /\ lpc' = [lpc EXCEPT ![p] = "item"]
      /\ alive' = alive \cup {<<p, sent[p] + 1>>}
      /\ ctx = "RUNNING" /\ ctx' = ctx
      /\ UNCHANGED <<slots, delivered, witem, wpc, sent>>
    BY DEF LogAcquire, At, Current, dispVars, chVars, workerVars, producerVars
<1>2. Pending' = Pending /\ Taken' = Taken
    BY <1>1 DEF Pending, Taken
<1>3. HandFull' /\ NothingBeforeRunning' /\ Offered'
    BY <1>1, <1>2 DEF ItemInv, HandFull, NothingBeforeRunning, Offered
<1>4. \A x : x \in Reachable' <=> (x \in Reachable \/ x = <<p, sent[p] + 1>>)
    BY <1>1, <1>2, ReachableIs, ReachableIsNext DEF ReachableShape, CtxInv, CtxTyped
<1>5. alive' = Reachable'
    BY <1>1, <1>4 DEF ItemInv
<1> QED
    BY <1>3, <1>5 DEF ItemInv

\* The item of the call is nobody else's.
LEMMA CurrentIsOwn ==
    ASSUME DispInv, ChInv, ItemInv, NEW p \in Producers
    PROVE  /\ <<p, sent[p] + 1>> \notin Pending
           /\ <<p, sent[p] + 1>> \notin Taken
           /\ witem # NULL => witem # <<p, sent[p] + 1>>
           /\ \A q \in Producers : <<q, sent[q] + 1>> = <<p, sent[p] + 1>> => q = p
<1>1. sent[p] \in Nat
    BY DEF DispInv, Typed
<1>2. ASSUME NEW item \in Pending \cup Taken PROVE item # <<p, sent[p] + 1>>
    <2>1. item[2] <= sent[item[1]]
        BY DEF ItemInv, Offered
    <2> QED
        BY <1>1, <2>1
<1>3. witem # NULL => witem # <<p, sent[p] + 1>>
    BY <1>2 DEF ItemInv, HandFull
<1> QED
    BY <1>2, <1>3

\* A refused item goes back to the pool.
LEMMA FilteredKeepsItems ==
    ASSUME DispInv, CtxInv, ChInv, ItemInv, StatesFollow', NEW p \in Producers, LogFiltered(p)
    PROVE  ItemInv'
<1>1. /\ lpc[p] = "item" /\ lpc' = [lpc EXCEPT ![p] = "unlock"]
      /\ alive' = alive \ {<<p, sent[p] + 1>>}
      /\ ctx' = ctx
      /\ UNCHANGED <<slots, delivered, witem, wpc, sent>>
    BY ItemsInTime DEF LogFiltered, At, Current, AfterRelease, dispVars, chVars, workerVars, producerVars
<1>2. Pending' = Pending /\ Taken' = Taken
    BY <1>1 DEF Pending, Taken
<1>3. HandFull' /\ NothingBeforeRunning' /\ Offered'
    BY <1>1, <1>2 DEF ItemInv, HandFull, NothingBeforeRunning, Offered
<1>4. \A x : x \in Reachable' <=> (x \in Reachable /\ x # <<p, sent[p] + 1>>)
    BY <1>1, <1>2, CurrentIsOwn, ReachableIs, ReachableIsNext DEF ReachableShape, CtxInv, CtxTyped
<1>5. alive' = Reachable'
    BY <1>1, <1>4 DEF ItemInv
<1> QED
    BY <1>3, <1>5 DEF ItemInv

\* So does the item the channel has no memory for.
LEMMA WriteFailsKeepsItems ==
    ASSUME DispInv, CtxInv, ChInv, ItemInv, StatesFollow', NEW p \in Producers, LogWriteFails(p)
    PROVE  ItemInv'
<1>1. /\ lpc[p] = "item" /\ lpc' = [lpc EXCEPT ![p] = "unlock"]
      /\ alive' = alive \ {<<p, sent[p] + 1>>}
      /\ sent' = [sent EXCEPT ![p] = @ + 1]
      /\ ctx' = ctx
      /\ UNCHANGED <<slots, delivered, witem, wpc>>
    BY ItemsInTime DEF LogWriteFails, WriteFails, At, Current, AfterRelease, chVars, workerVars
<1>2. Pending' = Pending /\ Taken' = Taken
    BY <1>1 DEF Pending, Taken
<1>3. sent \in [Producers -> 0 .. MaxItems]
    BY DEF DispInv, Typed
<1>4. HandFull' /\ NothingBeforeRunning'
    BY <1>1, <1>2 DEF ItemInv, HandFull, NothingBeforeRunning
<1>5. Offered'
    BY <1>1, <1>2, <1>3, PendingFacts DEF ItemInv, Offered
<1>6. \A q \in Producers : q # p => sent'[q] = sent[q] /\ lpc'[q] = lpc[q]
    BY <1>1, <1>3 DEF CtxInv, CtxTyped
<1>7. lpc'[p] # "item"
    BY <1>1 DEF CtxInv, CtxTyped
<1>8. \A x : x \in Reachable' <=> (x \in Reachable /\ x # <<p, sent[p] + 1>>)
    BY <1>1, <1>2, <1>6, <1>7, CurrentIsOwn, ReachableIs, ReachableIsNext DEF ReachableShape
<1>9. alive' = Reachable'
    BY <1>1, <1>8 DEF ItemInv
<1> QED
    BY <1>4, <1>5, <1>9 DEF ItemInv

\* A written item passes from the call to the channel.
LEMMA WriteKeepsItems ==
    ASSUME DispInv, CtxInv, ChInv, ItemInv, StatesFollow', NEW p \in Producers, LogWrite(p)
    PROVE  ItemInv'
<1>1. /\ lpc[p] = "item" /\ lpc' = [lpc EXCEPT ![p] = "sent"]
      /\ sent' = [sent EXCEPT ![p] = @ + 1] /\ sent[p] < MaxItems
      /\ Claim(<<p, sent[p] + 1>>)
      /\ UNCHANGED <<ctx, alive, witem, wpc>>
    BY DEF LogWrite, WriteClaim, At, workerVars
<1>2. sent \in [Producers -> 0 .. MaxItems] /\ <<p, sent[p] + 1>> \in Items
    BY <1>1 DEF DispInv, Typed
<1>3. Pending' = Pending \cup {<<p, sent[p] + 1>>} /\ Taken' = Taken
    BY <1>1, <1>2, ClaimAdds
<1>4. HandFull' /\ NothingBeforeRunning'
    BY <1>1, <1>3, ItemsInTime DEF ItemInv, HandFull, NothingBeforeRunning
<1>5. Offered'
    BY <1>1, <1>2, <1>3, PendingFacts DEF ItemInv, Offered
<1>6. \A q \in Producers : q # p => sent'[q] = sent[q] /\ lpc'[q] = lpc[q]
    BY <1>1, <1>2 DEF CtxInv, CtxTyped
<1>7. lpc'[p] # "item"
    BY <1>1 DEF CtxInv, CtxTyped
<1>8. \A x : x \in Reachable' <=> x \in Reachable
    BY <1>1, <1>3, <1>6, <1>7, ReachableIs, ReachableIsNext DEF ReachableShape
<1>9. alive' = Reachable'
    BY <1>1, <1>8 DEF ItemInv
<1> QED
    BY <1>4, <1>5, <1>9 DEF ItemInv

\* Linking moves nothing.
LEMMA LinkKeepsItems ==
    ASSUME DispInv, CtxInv, ChInv, ItemInv, StatesFollow', NEW p \in Producers, LogLink(p)
    PROVE  ItemInv'
<1>1. Publish(p) /\ UNCHANGED <<ctx, lpc, alive, sent, witem, wpc>>
    BY DEF LogLink, WriteLink, ctxVars, workerVars
<1>2. Pending' = Pending /\ Taken' = Taken
    BY <1>1, PublishKeeps
<1>3. HandFull' /\ NothingBeforeRunning' /\ Offered'
    BY <1>1, <1>2 DEF ItemInv, HandFull, NothingBeforeRunning, Offered
<1>4. \A x : x \in Reachable' <=> x \in Reachable
    BY <1>1, <1>2, ReachableIs, ReachableIsNext DEF ReachableShape
<1>5. alive' = Reachable'
    BY <1>1, <1>4 DEF ItemInv
<1> QED
    BY <1>3, <1>5 DEF ItemInv

\* The worker takes the first item of the channel in its hand, which is empty.
LEMMA ReadKeepsItems ==
    ASSUME DispInv, CtxInv, ChInv, ItemInv, StatesFollow', WorkerRead, UNCHANGED ctxVars
    PROVE  ItemInv'
<1>1. /\ Take /\ wpc = "read" /\ wpc' = "write" /\ witem' = slots[1].item
      /\ UNCHANGED <<ctx, lpc, alive, sent>>
    BY DEF WorkerRead, ctxVars, producerVars
<1>2. /\ slots[1].item \in Pending
      /\ Pending = Pending' \cup {slots[1].item}
      /\ Taken' = Taken \cup {slots[1].item}
    BY <1>1, TakeMoves
<1>3. witem = NULL /\ witem' # NULL
    BY <1>1, <1>2, PendingFacts DEF ItemInv, HandFull
<1>4. HandFull' /\ NothingBeforeRunning' /\ Offered'
    BY <1>1, <1>2, <1>3 DEF ItemInv, HandFull, NothingBeforeRunning, Offered
<1>5. \A x : x \in Reachable' <=> x \in Reachable
    BY <1>1, <1>2, <1>3, ReachableIs, ReachableIsNext DEF ReachableShape
<1>6. alive' = Reachable'
    BY <1>1, <1>5 DEF ItemInv
<1> QED
    BY <1>4, <1>6 DEF ItemInv

\* The worker releases what it has in hand, which nobody else can reach.
LEMMA ReleaseKeepsItems ==
    ASSUME DispInv, CtxInv, ChInv, ItemInv, StatesFollow', WorkerRelease,
           alive' = AfterRelease({witem}), UNCHANGED <<ctx, lpc>>
    PROVE  ItemInv'
<1>1. /\ wpc = "write" /\ wpc' = "read" /\ witem' = NULL
      /\ UNCHANGED <<slots, delivered, sent>>
    BY DEF WorkerRelease, chVars, producerVars
<1>2. witem # NULL /\ witem \in Taken
    BY <1>1 DEF ItemInv, HandFull
<1>3. alive' = alive \ {witem}
    BY <1>2, ItemsInTime DEF AfterRelease
<1>4. Pending' = Pending /\ Taken' = Taken /\ witem \notin Pending
    BY <1>1, <1>2, PendingFacts DEF Pending, Taken
<1>5. HandFull' /\ NothingBeforeRunning' /\ Offered'
    BY <1>1, <1>4 DEF ItemInv, HandFull, NothingBeforeRunning, Offered
<1>6. \A x : x \in Reachable' <=> (x \in Reachable /\ x # witem)
    BY <1>1, <1>2, <1>4, CurrentIsOwn, ReachableIs, ReachableIsNext DEF ReachableShape
<1>7. alive' = Reachable'
    BY <1>3, <1>6 DEF ItemInv
<1> QED
    BY <1>5, <1>7 DEF ItemInv

\* No step of the context breaks the invariant.
LEMMA ContextKeepsItems ==
    ASSUME DispInv, CtxInv, ChInv, ItemInv, [Next]_vars
    PROVE  ItemInv'
<1>0. StatesFollow'
    BY StatesKept DEF ItemInv
<1>1. CASE SetupDispatcher
    <2>1. UNCHANGED <<ctxVars, slots, delivered, witem, sent>> /\ (wpc' = wpc \/ (wpc \in {"none", "wait"} /\ wpc' = "wait"))
        BY <1>1 DEF SetupDispatcher, OpenThread, OpenMemset, StartStore, StartPost, SetState, Post,
            chVars, producerVars, workerVars, DispInv, AsleepBeforeStart
    <2> QED
        BY <1>0, <2>1, QuietKeepsItems DEF ctxVars
<1>2. CASE SetupDone \/ SetupFails
    BY <1>0, <1>2, QuietKeepsItems DEF SetupDone, SetupFails, dispVars, chVars, producerVars, workerVars
<1>3. ASSUME NEW p \in Producers, LogCheck(p) \/ LogStep(p)
      PROVE  ItemInv'
    <2>1. CASE LogCheck(p) \/ LogRdLock(p) \/ LogDenied(p) \/ LogRdUnlock(p)
        <3>1. UNCHANGED <<slots, delivered, witem, sent, alive, wpc, ctx>>
            BY <2>1 DEF LogCheck, LogRdLock, LogDenied, LogRdUnlock, dispVars, chVars, producerVars, workerVars
        <3>2. \A q \in Producers : lpc'[q] = "item" <=> lpc[q] = "item"
            BY <2>1 DEF LogCheck, LogRdLock, LogDenied, LogRdUnlock, At, CtxInv, CtxTyped
        <3> QED
            BY <1>0, <3>1, <3>2, QuietKeepsItems
    <2>2. CASE LogNotify(p)
        <3>1. UNCHANGED <<slots, delivered, witem, sent, alive, wpc, ctx>>
            BY <2>2 DEF LogNotify, NotifyData, chVars, workerVars
        <3>2. \A q \in Producers : lpc'[q] = "item" <=> lpc[q] = "item"
            BY <2>2 DEF LogNotify, At, CtxInv, CtxTyped
        <3> QED
            BY <1>0, <3>1, <3>2, QuietKeepsItems
    <2> QED
        BY <1>0, <1>3, <2>1, <2>2, AcquireKeepsItems, FilteredKeepsItems, WriteFailsKeepsItems,
           WriteKeepsItems, LinkKeepsItems DEF LogStep
<1>4. CASE WorkerStep
    <2>1. CASE (WorkerWait \/ WorkerCheck \/ WorkerEmpty \/ WorkerWrite \/ WorkerStop) /\ UNCHANGED ctxVars
        <3>1. UNCHANGED <<ctxVars, slots, delivered, witem, sent>> /\ (wpc' = "write" <=> wpc = "write")
            BY <2>1 DEF WorkerWait, WorkerCheck, WorkerEmpty, WorkerWrite, WorkerStop, chVars, producerVars
        <3> QED
            BY <1>0, <3>1, QuietKeepsItems DEF ctxVars
    <2>2. CASE WorkerRead /\ UNCHANGED ctxVars
        BY <1>0, <2>2, ReadKeepsItems
    <2>3. CASE WorkerRelease /\ alive' = AfterRelease({witem}) /\ UNCHANGED <<ctx, lpc>>
        BY <1>0, <2>3, ReleaseKeepsItems
    <2> QED
        BY <1>4, <2>1, <2>2, <2>3 DEF WorkerStep
<1>5. CASE DestroyStop \/ DestroyWrLock \/ DestroyWrUnlock \/ DestroyFreeDispatcher
            \/ DestroyRecorders \/ DestroyFree
    BY <1>0, <1>5, QuietKeepsItems DEF DestroyStop, DestroyWrLock, DestroyWrUnlock, DestroyFreeDispatcher,
        DestroyRecorders, DestroyFree, dispVars, chVars, producerVars, workerVars
<1>6. CASE DestroyDispatcher
    <2>1. UNCHANGED <<ctxVars, slots, delivered, witem, sent, wpc>>
        BY <1>6 DEF DestroyDispatcher, EndStore, EndPost, CloseCheck, CloseStore, ClosePost, CloseFree,
            CloseSpin, SetState, Post, dispVars, chVars, producerVars, workerVars
    <2> QED
        BY <1>0, <2>1, QuietKeepsItems DEF ctxVars
<1>7. CASE DestroyChannel
    <2>1. slots = <<>> /\ Pending = {}
        BY <1>7, NothingLeftAtDrain, ItemsInTime DEF DestroyChannel
    <2>2. UNCHANGED <<slots, delivered, witem, sent, alive, lpc, wpc, ctx>>
        BY <1>7, <2>1 DEF DestroyChannel, AfterRelease, producerVars, workerVars
    <2> QED
        BY <1>0, <2>2, QuietKeepsItems
<1>8. CASE Finished \/ UNCHANGED vars
    BY <1>0, <1>8, QuietKeepsItems DEF Finished, vars, dispVars, ctxVars, chVars, producerVars, workerVars
<1> QED
    BY <1>1, <1>2, <1>3, <1>4, <1>5, <1>6, <1>7, <1>8 DEF Next, DestroyStep

--------------------------------------------------------------------------------
\* An item is allocated exactly as long as somebody has it
\* (clog_acquire_log_item, clog_release_log_item).
THEOREM ItemInvariance == Spec => []ItemInv
<1>1. Init => ItemInv
    <2> SUFFICES ASSUME Init PROVE ItemInv
        OBVIOUS
    <2>1. Pending = {} /\ Taken = {} /\ witem = NULL /\ wpc = "none"
        BY DEF Init, DispInit, ChInit, Pending, Taken
    <2>2. StatesFollow /\ HandFull /\ NothingBeforeRunning /\ Offered
        BY <2>1 DEF Init, StatesFollow, HandFull, NothingBeforeRunning, Offered
    <2>3. \A x : x \notin Reachable
        BY <2>1, ReachableIs DEF Init, ReachableShape
    <2>4. alive = Reachable
        BY <2>3 DEF Init
    <2> QED
        BY <2>2, <2>4 DEF ItemInv
<1>2. DispInv /\ CtxInv /\ ChInv /\ ItemInv /\ [Next]_vars => ItemInv'
    BY ContextKeepsItems
<1> QED
    BY <1>1, <1>2, CtxInvariance, DispatcherKeepsChInv, PTL DEF Spec

\* destroy takes nothing apart that is in use: the items in the channel and in
\* the worker's hand are allocated, all are back when the pool goes, and the
\* worker records between the opening and the closing of the recorders
\* (clog_context_setup, clog_context_destroy).
THEOREM NothingGoesInUse == Spec => []NothingGoneInUse
<1>1. DispInv /\ CtxInv /\ ItemInv => NothingGoneInUse
    <2> SUFFICES ASSUME DispInv, CtxInv, ItemInv PROVE NothingGoneInUse
        OBVIOUS
    <2>1. ReachableItemsAlive
        BY ReachableIs DEF ReachableItemsAlive, ItemInv, ReachableShape
    <2>2. PoolWhole
        <3> SUFFICES ASSUME cpc \in {"pool", "freed"} PROVE alive = {}
            BY DEF PoolWhole
        <3>1. Pending = {} /\ witem = NULL
            BY ItemsInTime
        <3>2. \A p \in Producers : lpc[p] # "item"
            BY DEF CtxInv, ItemsBeforeBarrier
        <3>3. \A x : x \notin Reachable
            BY <3>1, <3>2, ReachableIs DEF ReachableShape
        <3> QED
            BY <3>3 DEF ItemInv
    <2>3. RecordersOpenInUse
        BY ItemsInTime DEF RecordersOpenInUse, ItemInv, HandFull
    <2> QED
        BY <2>1, <2>2, <2>3 DEF NothingGoneInUse
<1> QED
    BY <1>1, CtxInvariance, ItemInvariance, PTL

--------------------------------------------------------------------------------
(* What becomes of the logs whose calls succeed                             *)

\* The item of a write or notify under way is in the channel already.
WrittenIsThere ==
    \A p \in Producers : ppc[p] # "idle" => <<p, sent[p]>> \in Pending \cup Taken

AcceptedInv ==
    /\ WrittenIsThere
    /\ accepted \subseteq Pending \cup Taken

\* What the channel has or had stays so, whoever takes it; only the claim of a
\* new item adds to it.
LEMMA ChannelKeepsItems ==
    ASSUME ChInv, [ChNext]_chVars
    PROVE  Pending \cup Taken \subseteq Pending' \cup Taken'
<1>1. ASSUME NEW item \in Items, Claim(item) PROVE Pending \cup Taken \subseteq Pending' \cup Taken'
    BY <1>1, ClaimAdds
<1>2. ASSUME NEW p \in Producers, Publish(p) PROVE Pending \cup Taken \subseteq Pending' \cup Taken'
    BY <1>2, PublishKeeps
<1>3. ASSUME Take PROVE Pending \cup Taken \subseteq Pending' \cup Taken'
    BY <1>3, TakeMoves
<1>4. CASE UNCHANGED chVars
    BY <1>4 DEF chVars, Pending, Taken
<1> QED
    BY <1>1, <1>2, <1>3, <1>4 DEF ChNext

\* No step of the context loses an item that is in the channel or accepted.
LEMMA ContextKeepsAccepted ==
    ASSUME DispInv, CtxInv, ChInv, AcceptedInv, [Next]_vars
    PROVE  AcceptedInv'
<1>1. Pending \cup Taken \subseteq Pending' \cup Taken'
    BY CtxStepIsDispStep, DispStepIsChStep, ChannelKeepsItems
<1>2. ASSUME UNCHANGED <<ppc, sent, accepted>> PROVE AcceptedInv'
    BY <1>1, <1>2 DEF AcceptedInv, WrittenIsThere
<1>3. ASSUME NEW p \in Producers, LogCheck(p) \/ LogStep(p)
      PROVE  AcceptedInv'
    <2>0. ppc \in [Producers -> {"idle", "link", "notify"}] /\ sent \in [Producers -> 0 .. MaxItems]
        BY DEF DispInv, Typed
    <2>1. CASE LogCheck(p) \/ LogRdLock(p) \/ LogDenied(p) \/ LogAcquire(p) \/ LogFiltered(p)
                \/ LogRdUnlock(p)
        BY <1>2, <2>1 DEF LogCheck, LogRdLock, LogDenied, LogAcquire, LogFiltered, LogRdUnlock,
            dispVars, producerVars
    <2>2. CASE LogWriteFails(p)
        <3>1. /\ ppc[p] = "idle" /\ UNCHANGED <<ppc, accepted>>
              /\ sent' = [sent EXCEPT ![p] = @ + 1]
            BY <2>2 DEF LogWriteFails, WriteFails
        <3> QED
            BY <1>1, <2>0, <3>1 DEF AcceptedInv, WrittenIsThere
    <2>3. CASE LogWrite(p)
        <3>1. /\ Claim(<<p, sent[p] + 1>>) /\ sent[p] < MaxItems
              /\ sent' = [sent EXCEPT ![p] = @ + 1] /\ ppc' = [ppc EXCEPT ![p] = "link"]
              /\ UNCHANGED accepted
            BY <2>3 DEF LogWrite, WriteClaim
        <3>2. <<p, sent[p] + 1>> \in Items
            BY <2>0, <3>1
        <3>3. <<p, sent'[p]>> \in Pending'
            BY <2>0, <3>1, <3>2, ClaimAdds
        <3> QED
            BY <1>1, <2>0, <3>1, <3>3 DEF AcceptedInv, WrittenIsThere
    <2>4. CASE LogLink(p)
        <3>1. ppc[p] = "link" /\ ppc' = [ppc EXCEPT ![p] = "notify"] /\ UNCHANGED <<sent, accepted>>
            BY <2>4 DEF LogLink, WriteLink, ctxVars
        <3> QED
            BY <1>1, <2>0, <3>1 DEF AcceptedInv, WrittenIsThere
    <2>5. CASE LogNotify(p)
        <3>1. /\ ppc[p] = "notify" /\ ppc' = [ppc EXCEPT ![p] = "idle"]
              /\ accepted' = accepted \cup {<<p, sent[p]>>} /\ UNCHANGED sent
            BY <2>5 DEF LogNotify, NotifyData
        <3> QED
            BY <1>1, <2>0, <3>1 DEF AcceptedInv, WrittenIsThere
    <2> QED
        BY <1>3, <2>1, <2>2, <2>3, <2>4, <2>5 DEF LogStep
<1>4. CASE SetupDispatcher \/ DestroyDispatcher
    BY <1>2, <1>4 DEF SetupDispatcher, DestroyDispatcher, OpenThread, OpenMemset, StartStore, StartPost,
        EndStore, EndPost, CloseCheck, CloseStore, ClosePost, CloseFree, CloseSpin, SetState, Post,
        dispVars, ctxVars, producerVars
<1>5. CASE WorkerStep
    BY <1>2, <1>5 DEF WorkerStep, WorkerWait, WorkerCheck, WorkerRead, WorkerEmpty, WorkerWrite,
        WorkerStop, WorkerRelease, ctxVars, producerVars
<1>6. CASE SetupDone \/ SetupFails \/ DestroyStop \/ DestroyWrLock \/ DestroyWrUnlock
            \/ DestroyFreeDispatcher \/ DestroyChannel \/ DestroyRecorders \/ DestroyFree
            \/ Finished \/ UNCHANGED vars
    BY <1>2, <1>6 DEF SetupDone, SetupFails, DestroyStop, DestroyWrLock, DestroyWrUnlock,
        DestroyFreeDispatcher, DestroyChannel, DestroyRecorders, DestroyFree, Finished, vars, ctxVars,
        dispVars, producerVars
<1> QED
    BY <1>3, <1>4, <1>5, <1>6 DEF Next, DestroyStep

\* The context records as its dispatcher does: each recorder is given the items
\* of the channel that are routed to it (process_log, in a context).
THEOREM ContextRecords == Spec => []RecordedAsRouted
    BY ContextImplementsDispatcher, RecordersGetTheirs, PTL DEF UsesDispatcherProperly

\* No log whose call succeeded is lost: its item is in the channel or taken, and
\* recorded by the time the dispatcher is closed (log_internal, destroy).
THEOREM AcceptedIsKept == Spec => []NothingAcceptedIsLost
<1>1. Init => AcceptedInv
    BY DEF Init, DispInit, AcceptedInv, WrittenIsThere
<1>2. DispInv /\ CtxInv /\ ChInv /\ AcceptedInv /\ [Next]_vars => AcceptedInv'
    BY ContextKeepsAccepted
<1>3. DispInv /\ CtxInv /\ ItemInv /\ ChInv /\ AcceptedInv /\ RecordInv => NothingAcceptedIsLost
    <2> SUFFICES ASSUME DispInv, CtxInv, ItemInv, ChInv, AcceptedInv, RecordInv,
                        cpc \in {"drain", "recorders", "pool", "freed"},
                        NEW item \in accepted, NEW r \in Recorders, Routed(item, r)
                 PROVE  \E i \in 1 .. Len(written[r]) : written[r][i] = item
        BY DEF NothingAcceptedIsLost, AcceptedInv
    <2>1. Pending = {} /\ wpc # "write"
        BY ItemsInTime DEF CtxInv, DispatcherFollows, DispInv, StateForWorker
    <2>2. PICK k \in 1 .. Len(delivered) : delivered[k] = item
        BY <2>1 DEF AcceptedInv, Taken
    <2>3. PICK i \in 1 .. Len(Route[item[1]]) : Route[item[1]][i] = r
        BY DEF Routed
    <2>4. i \in 1 .. MaxTargets /\ item \in Items
        <3>1. item \in Items
            BY <2>2, ElementOfSeq DEF RecordInv, InHand
        <3>2. Len(Route[item[1]]) \in Nat /\ Len(Route[item[1]]) <= MaxTargets /\ MaxTargets \in Nat
            BY <3>1, RouteAssumption, LenProperties
        <3> QED
            BY <2>3, <3>1, <3>2
    <2>5. <<k, i>> \in Turns(r)
        BY <2>1, <2>2, <2>3, <2>4 DEF Turns
    <2>6. Cardinality(UpToTurn(Turns(r), <<k, i>>)) \in 1 .. Len(written[r])
        <3>1. IsFiniteSet(Turns(r)) /\ Turns(r) \subseteq Nat \X Nat /\ Len(written[r]) = Cardinality(Turns(r))
            BY TurnsArePairs DEF RecordInv, Given
        <3> QED
            BY <2>5, <3>1, UpToTurnCount
    <2> QED
        BY <2>2, <2>5, <2>6 DEF RecordInv, Given
<1>4. Spec => []RecordInv
    BY ContextImplementsDispatcher, RecordInvariance, PTL DEF UsesDispatcherProperly
<1> QED
    BY <1>1, <1>2, <1>3, <1>4, CtxInvariance, ItemInvariance, DispatcherKeepsChInv, PTL
    DEF Spec

--------------------------------------------------------------------------------
(* Type correctness                                                         *)

\* What the other invariants do not say of the context's types.
CtxRest ==
    /\ readers \subseteq Producers
    /\ writer \in BOOLEAN
    /\ \A p \in Producers : lpc[p] \in {"checked", "locked", "item"} => sent[p] < MaxItems

LEMMA RestKept == ASSUME DispInv, CtxInv, CtxRest, [Next]_vars PROVE CtxRest'
<1> USE DEF CtxRest
<1>0. /\ lpc \in [Producers -> Places] /\ sent \in [Producers -> 0 .. MaxItems]
    BY DEF CtxInv, CtxTyped, DispInv, Typed
<1>1. ASSUME NEW p \in Producers, LogCheck(p) \/ LogStep(p) PROVE CtxRest'
    <2>1. CASE LogCheck(p) \/ LogRdLock(p) \/ LogDenied(p) \/ LogAcquire(p) \/ LogFiltered(p)
                \/ LogRdUnlock(p)
        BY <1>0, <2>1 DEF LogCheck, LogRdLock, LogDenied, LogAcquire, LogFiltered, LogRdUnlock, At,
            dispVars, producerVars
    <2>2. CASE LogWriteFails(p) \/ LogWrite(p)
        <3>1. /\ lpc' = [lpc EXCEPT ![p] = "unlock"] \/ lpc' = [lpc EXCEPT ![p] = "sent"]
              /\ sent' = [sent EXCEPT ![p] = @ + 1]
              /\ UNCHANGED <<readers, writer>>
            BY <2>2 DEF LogWriteFails, LogWrite, At, WriteFails, WriteClaim
        <3> QED
            BY <1>0, <3>1
    <2>3. CASE LogLink(p)
        BY <2>3 DEF LogLink, WriteLink, ctxVars
    <2>4. CASE LogNotify(p)
        BY <1>0, <2>4 DEF LogNotify, NotifyData, At
    <2> QED
        BY <1>1, <2>1, <2>2, <2>3, <2>4 DEF LogStep
<1>2. CASE SetupDone \/ SetupFails \/ DestroyStop \/ DestroyWrLock \/ DestroyWrUnlock
            \/ DestroyFreeDispatcher \/ DestroyChannel \/ DestroyRecorders \/ DestroyFree
            \/ Finished \/ UNCHANGED vars
    BY <1>2 DEF SetupDone, SetupFails, DestroyStop, DestroyWrLock, DestroyWrUnlock,
        DestroyFreeDispatcher, DestroyChannel, DestroyRecorders, DestroyFree, Finished, vars, ctxVars,
        dispVars, producerVars
<1>3. CASE SetupDispatcher \/ DestroyDispatcher \/ WorkerStep
    <2>1. UNCHANGED <<readers, writer, lpc>>
        BY <1>3 DEF SetupDispatcher, DestroyDispatcher, WorkerStep, ctxVars
    <2>2. sent' = sent
        BY <1>3 DEF SetupDispatcher, OpenThread, OpenMemset, StartStore, StartPost, DestroyDispatcher,
            EndStore, EndPost, CloseCheck, CloseStore, ClosePost, CloseFree, CloseSpin, SetState, Post,
            WorkerStep, WorkerWait, WorkerCheck, WorkerRead, WorkerEmpty, WorkerWrite, WorkerStop,
            WorkerRelease, dispVars, producerVars
    <2> QED
        BY <2>1, <2>2
<1> QED
    BY <1>1, <1>2, <1>3 DEF Next, DestroyStep

\* Every variable of the composition keeps its type; the allocated items are
\* items (clog_context_setup, clog_module_log, clog_context_destroy).
THEOREM CtxTypes == Spec => []CtxTypeOK
<1>1. Init => CtxRest
    BY DEF Init, CtxRest
<1>2. DispInv /\ CtxInv /\ ItemInv /\ ChInv /\ NothingAcceptedIsLost /\ CtxRest /\ DispTypeOK
        => CtxTypeOK
    <2> SUFFICES ASSUME DispInv, CtxInv, ItemInv, ChInv, NothingAcceptedIsLost, CtxRest, DispTypeOK
                 PROVE  CtxTypeOK
        OBVIOUS
    <2>1. accepted \subseteq Items
        BY PendingFacts DEF NothingAcceptedIsLost
    <2>2. alive \subseteq Items
        <3> SUFFICES ASSUME NEW x \in Reachable PROVE x \in Items
            BY DEF ItemInv
        <3>1. CASE x \in Pending
            BY <3>1, PendingFacts
        <3>2. CASE witem # NULL /\ x = witem
            BY <3>2, PendingFacts DEF ItemInv, HandFull
        <3>3. ASSUME NEW p \in Producers, lpc[p] = "item", x = <<p, sent[p] + 1>> PROVE x \in Items
            BY <3>3 DEF CtxRest, DispTypeOK
        <3> QED
            BY <3>1, <3>2, <3>3, ReachableIs DEF ReachableShape
    <2> QED
        BY <2>1, <2>2 DEF CtxTypeOK, CtxRest, CtxInv, CtxTyped, Places, ItemInv, StatesFollow
<1> QED
    BY <1>1, <1>2, RestKept, CtxInvariance, ItemInvariance, DispatcherKeepsChInv, AcceptedIsKept,
       ContextImplementsDispatcher, DispTypes, PTL DEF Spec, UsesDispatcherProperly

--------------------------------------------------------------------------------
(* Configurations                                                           *)

HIDE RouteAssumption
HIDE MaxItemsAssumption DEF Items, Slot

\* A set of naturals that is not empty has a least one.
LEMMA LeastOf ==
    ASSUME NEW T \in SUBSET Nat, T # {}
    PROVE  \E m \in T : \A k \in T : m <= k
<1> DEFINE Less == {pair \in Nat \X Nat : pair[1] < pair[2]}
<1>1. Less = OpToRel(<, Nat)
    BY DEF OpToRel
<1>2. IsWellFoundedOn(Less, Nat)
    BY <1>1, NatLessThanWellFounded
<1>3. \A k, m \in Nat : k < m => <<k, m>> \in Less
    OBVIOUS
<1> HIDE DEF Less
<1>4. PICK m \in T : \A k \in T : ~ (<<k, m>> \in Less)
    BY <1>2, WFMin
<1>5. \A k \in T : ~ (k < m)
    BY <1>3, <1>4
<1> QED
    BY <1>5

\* The loops of the parser and of the lookups.
DescendSteps == INSTANCE SequenceFolds WITH Op <- DescendAt
LineTo(c, s, line) == ProcessLine(s, line)
LineSteps == INSTANCE SequenceFolds WITH Op <- LineTo
FindSteps == INSTANCE SequenceFolds WITH Op <- FindChild
ModuleSteps == INSTANCE SequenceFolds WITH Op <- PutModule

GroupPaths == Seq(STRING)
Trees == Seq([parent : Nat, name : STRING])

LEMMA LineFacts ==
    ASSUME NEW line \in Lines
    PROVE  /\ line.kind \in {"group", "item", "comment"}
           /\ line.kind = "group" => line.path \in GroupPaths /\ line.blank \in BOOLEAN
           /\ line.kind = "item" => line.key \in STRING /\ line.value \in ConfigValues
<1> DEFINE Stored == ConfigValues
<1> HIDE DEF Stored
<1>1. Lines \subseteq [kind : {"group"}, path : GroupPaths, blank : BOOLEAN]
                      \cup [kind : {"item"}, key : STRING, value : Stored]
                      \cup [kind : {"comment"}]
    BY ConfigAssumption DEF GroupPaths, Stored
<1> HIDE DEF GroupPaths
<1>2. CASE line \in [kind : {"group"}, path : GroupPaths, blank : BOOLEAN]
    BY <1>2
<1>3. CASE line \in [kind : {"item"}, key : STRING, value : Stored]
    BY <1>3 DEF Stored
<1>4. CASE line \in [kind : {"comment"}]
    BY <1>4
<1> QED
    BY <1>1, <1>2, <1>3, <1>4

\* Appending: the two parts of a sequence that something was appended to.
LEMMA AppendParts ==
    ASSUME NEW S, NEW p \in Seq(S), NEW x \in S
    PROVE  /\ Append(p, x) \in Seq(S) /\ Append(p, x) # <<>> /\ Len(Append(p, x)) = Len(p) + 1
           /\ Front(Append(p, x)) = p /\ Last(Append(p, x)) = x
<1>0. /\ Append(p, x) \in Seq(S) /\ Len(p) \in Nat
      /\ Len(Append(p, x)) = Len(p) + 1
      /\ \A i \in 1 .. Len(p) : Append(p, x)[i] = p[i]
      /\ Append(p, x)[Len(p) + 1] = x
    OBVIOUS
<1> PICK a : a = Append(p, x)
    OBVIOUS
<1>1. /\ a \in Seq(S) /\ Len(a) = Len(p) + 1 /\ Len(p) \in Nat
      /\ \A i \in 1 .. Len(p) : a[i] = p[i]
      /\ a[Len(p) + 1] = x
    BY <1>0
<1>2. Last(a) = x
    BY <1>1 DEF Last
<1>3. Front(a) = SubSeq(a, 1, Len(p))
    BY <1>1 DEF Front
<1>4. /\ SubSeq(a, 1, Len(p)) \in Seq(S)
      /\ Len(SubSeq(a, 1, Len(p))) = Len(p)
      /\ \A i \in 1 .. Len(p) : SubSeq(a, 1, Len(p))[i] = a[i]
    <2>1. \A i \in 1 .. Len(p) : a[i] \in S
        BY <1>1
    <2>2. /\ SubSeq(a, 1, Len(p)) \in Seq(S)
          /\ Len(SubSeq(a, 1, Len(p))) = IF 1 <= Len(p) THEN Len(p) - 1 + 1 ELSE 0
          /\ \A i \in 1 .. Len(p) - 1 + 1 : SubSeq(a, 1, Len(p))[i] = a[1 + i - 1]
        BY <1>1, <2>1, SubSeqProperties
    <2> QED
        BY <1>1, <2>2
<1>5. SubSeq(a, 1, Len(p)) = p
    BY <1>1, <1>4, SeqEqual
<1>6. a # <<>>
    BY <1>1
<1> QED
    BY <1>1, <1>2, <1>3, <1>5, <1>6

\* The path of a child.
Below(p, name) == Append(p, name)

LEMMA PathFacts ==
    /\ <<>> \in GroupPaths /\ Len(<<>>) = 0
    /\ \A p \in GroupPaths : Len(p) \in Nat /\ \A i \in 1 .. Len(p) : p[i] \in STRING
    /\ \A p \in GroupPaths, x \in STRING :
         /\ Below(p, x) \in GroupPaths /\ Below(p, x) # <<>> /\ Len(Below(p, x)) = Len(p) + 1
         /\ Front(Below(p, x)) = p /\ Last(Below(p, x)) = x
    /\ \A p, q \in GroupPaths, x, y \in STRING : Below(p, x) = Below(q, y) => p = q /\ x = y
<1>1. ASSUME NEW p \in GroupPaths, NEW x \in STRING
      PROVE  /\ Below(p, x) \in GroupPaths /\ Below(p, x) # <<>> /\ Len(Below(p, x)) = Len(p) + 1
             /\ Front(Below(p, x)) = p /\ Last(Below(p, x)) = x
    BY AppendParts DEF GroupPaths, Below
<1>2. ASSUME NEW p \in GroupPaths, NEW q \in GroupPaths, NEW x \in STRING, NEW y \in STRING,
             Below(p, x) = Below(q, y)
      PROVE  p = q /\ x = y
    <2>1. Front(Below(p, x)) = p /\ Last(Below(p, x)) = x
        BY <1>1, Zenon
    <2>2. Front(Below(q, y)) = q /\ Last(Below(q, y)) = y
        BY <1>1, Zenon
    <2> QED
        BY <1>2, <2>1, <2>2, Zenon
<1>3. \A p \in GroupPaths : Len(p) \in Nat /\ \A i \in 1 .. Len(p) : p[i] \in STRING
    BY DEF GroupPaths
<1>4. <<>> \in GroupPaths /\ Len(<<>>) = 0
    BY DEF GroupPaths
<1> QED
    BY <1>1, <1>2, <1>3, <1>4, Zenon

LEMMA BelowIs ==
    ASSUME NEW p \in GroupPaths, NEW x \in STRING
    PROVE  /\ Below(p, x) \in GroupPaths /\ Below(p, x) # <<>> /\ Len(Below(p, x)) = Len(p) + 1
           /\ Front(Below(p, x)) = p /\ Last(Below(p, x)) = x
BY PathFacts

LEMMA AppendSame ==
    ASSUME NEW p \in GroupPaths, NEW q \in GroupPaths, NEW x \in STRING, NEW y \in STRING
    PROVE  Below(p, x) = Below(q, y) => p = q /\ x = y
BY PathFacts

LEMMA PrefixFacts ==
    ASSUME NEW p \in GroupPaths
    PROVE  /\ SubSeq(p, 1, 0) = <<>> /\ SubSeq(p, 1, Len(p)) = p
           /\ \A i \in 0 .. Len(p) : SubSeq(p, 1, i) \in GroupPaths /\ Len(SubSeq(p, 1, i)) = i
           /\ \A i \in 1 .. Len(p) : SubSeq(p, 1, i) = Below(SubSeq(p, 1, i - 1), p[i])
<1> PICK S : S = STRING
    OBVIOUS
<1>1. GroupPaths = Seq(S) /\ p \in Seq(S) /\ Len(p) \in Nat
    BY DEF GroupPaths
<1>2. SubSeq(p, 1, Len(p)) = p
    BY <1>1, SubSeqFull
<1>3. SubSeq(p, 1, 0) = <<>>
    BY SubSeqEmpty
<1>4. ASSUME NEW i \in 0 .. Len(p) PROVE SubSeq(p, 1, i) \in Seq(S) /\ Len(SubSeq(p, 1, i)) = i
    <2>1. i \in Nat /\ \A k \in 1 .. i : p[k] \in S
        BY <1>1
    <2> QED
        BY <2>1, SubSeqProperties
<1>5. ASSUME NEW i \in 1 .. Len(p) PROVE SubSeq(p, 1, i) = Below(SubSeq(p, 1, i - 1), p[i])
    <2>1. i - 1 \in 0 .. Len(p) /\ p[i] \in S /\ 1 \in 1 .. Len(p) /\ i \in 1 .. Len(p)
        BY <1>1
    <2>2. SubSeq(p, 1, i) = SubSeq(p, 1, i - 1) \o <<p[i]>>
        BY <1>1, <2>1, SubSeqRecursiveSecond
    <2>3. Below(SubSeq(p, 1, i - 1), p[i]) = SubSeq(p, 1, i - 1) \o <<p[i]>>
        BY <1>4, <2>1, AppendIsConcat DEF Below
    <2> QED
        BY <2>2, <2>3
<1> QED
    BY <1>1, <1>2, <1>3, <1>4, <1>5

(* P is the path of each group of a tree, and S has exactly these paths: what *)
(* the place of a group in the order of creation stands for.                 *)
NamedBy(P, tree, S) ==
    /\ P \in [0 .. Len(tree) -> GroupPaths] /\ P[0] = <<>>
    /\ \A j \in 1 .. Len(tree) : tree[j].parent \in 0 .. j - 1 /\ P[j] = Below(P[tree[j].parent], tree[j].name)
    /\ \A i, j \in 0 .. Len(tree) : P[i] = P[j] => i = j
    /\ \A j \in 0 .. Len(tree) : P[j] \in S
    /\ \A p \in S : \E j \in 0 .. Len(tree) : P[j] = p

LEMMA TreeFacts ==
    ASSUME NEW tree \in Trees
    PROVE  /\ Len(tree) \in Nat
           /\ \A j \in 1 .. Len(tree) : tree[j].parent \in Nat /\ tree[j].name \in STRING
           /\ \A g \in Nat, n \in STRING :
                LET t == Append(tree, [parent |-> g, name |-> n]) IN
                /\ t \in Trees /\ Len(t) = Len(tree) + 1
                /\ t[Len(tree) + 1].parent = g /\ t[Len(tree) + 1].name = n
                /\ \A j \in 1 .. Len(tree) : t[j] = tree[j]
<1> DEFINE T == [parent : Nat, name : STRING]
<1>1. tree \in Seq(T)
    BY DEF Trees
<1>2. Len(tree) \in Nat /\ \A j \in 1 .. Len(tree) : tree[j] \in T
    BY <1>1, LenProperties, ElementOfSeq
<1>3. \A j \in 1 .. Len(tree) : tree[j].parent \in Nat /\ tree[j].name \in STRING
    BY <1>2
<1>4. ASSUME NEW g \in Nat, NEW n \in STRING
      PROVE  LET t == Append(tree, [parent |-> g, name |-> n]) IN
             /\ t \in Trees /\ Len(t) = Len(tree) + 1
             /\ t[Len(tree) + 1].parent = g /\ t[Len(tree) + 1].name = n
             /\ \A j \in 1 .. Len(tree) : t[j] = tree[j]
    <2> PICK node : node = [parent |-> g, name |-> n]
        OBVIOUS
    <2>1. node \in T /\ node.parent = g /\ node.name = n
        OBVIOUS
    <2> HIDE DEF T
    <2>2. /\ Append(tree, node) \in Seq(T) /\ Len(Append(tree, node)) = Len(tree) + 1
          /\ \A j \in 1 .. Len(tree) : Append(tree, node)[j] = tree[j]
          /\ Append(tree, node)[Len(tree) + 1] = node
        BY <1>1, <2>1, AppendProperties
    <2> QED
        BY <2>1, <2>2 DEF Trees, T
<1> QED
    BY <1>2, <1>3, <1>4

\* A group has the path of its parent, and its name behind it.
LEMMA GroupIs ==
    ASSUME NEW S, NEW tree \in Trees, NEW P, NamedBy(P, tree, S), NEW j \in 1 .. Len(tree)
    PROVE  /\ tree[j].parent \in 0 .. j - 1 /\ tree[j].parent \in 0 .. Len(tree) /\ j \in 0 .. Len(tree)
           /\ tree[j].name \in STRING
           /\ P[j] = Below(P[tree[j].parent], tree[j].name)
           /\ P[j] \in GroupPaths /\ P[tree[j].parent] \in GroupPaths /\ P[j] \in S
<1>1. Len(tree) \in Nat /\ tree[j].name \in STRING
    BY TreeFacts
<1>2. tree[j].parent \in 0 .. j - 1 /\ P[j] = Below(P[tree[j].parent], tree[j].name)
    BY DEF NamedBy
<1>3. j \in 0 .. Len(tree) /\ tree[j].parent \in 0 .. Len(tree)
    BY <1>1, <1>2
<1>4. \A i \in 0 .. Len(tree) : P[i] \in GroupPaths /\ P[i] \in S
    BY DEF NamedBy
<1> QED
    BY <1>1, <1>2, <1>3, <1>4

\* The child of a group with a name is the group with the longer path.
LEMMA ChildIs ==
    ASSUME NEW S, NEW tree \in Trees, NEW P, NamedBy(P, tree, S),
           NEW g \in 0 .. Len(tree), NEW name \in STRING, NEW j \in 0 .. Len(tree)
    PROVE  P[j] = Below(P[g], name) <=> j \in Children(tree, g) /\ tree[j].name = name
<1>1. Len(tree) \in Nat /\ P[0] = <<>> /\ P[g] \in GroupPaths /\ (j # 0 => tree[j].name \in STRING)
    BY TreeFacts DEF NamedBy
<1>2. CASE j = 0
    <2>1. Below(P[g], name) # <<>>
        BY <1>1, PathFacts
    <2>2. j \notin Children(tree, g)
        BY <1>2 DEF Children
    <2>3. P[j] # Below(P[g], name)
        BY <1>1, <1>2, <2>1, Zenon
    <2> QED
        BY <2>2, <2>3
<1>3. CASE j # 0
    <2> PICK k : k = tree[j].parent
        OBVIOUS
    <2>1. j \in 1 .. Len(tree) /\ k \in 0 .. Len(tree) /\ P[j] = Below(P[k], tree[j].name)
        BY <1>1, <1>3 DEF NamedBy
    <2>2. P[k] \in GroupPaths /\ (P[k] = P[g] => k = g)
        BY <2>1 DEF NamedBy
    <2>3. Below(P[k], tree[j].name) = Below(P[g], name) => P[k] = P[g] /\ tree[j].name = name
        <3>1. tree[j].name \in STRING /\ P[k] \in GroupPaths /\ P[g] \in GroupPaths
            BY <1>1, <1>3, <2>2
        <3>2. \A p, q, x, y : p \in GroupPaths /\ q \in GroupPaths /\ x \in STRING /\ y \in STRING
                 => (Below(p, x) = Below(q, y) => p = q /\ x = y)
            BY AppendSame
        <3> QED
            BY <3>1, <3>2
    <2> QED
        BY <2>1, <2>2, <2>3 DEF Children
<1> QED
    BY <1>2, <1>3


\* A path with no group is that of a name no child has.
LEMMA NewPath ==
    ASSUME NEW S, NEW tree \in Trees, NEW P, NamedBy(P, tree, S), NEW g \in 0 .. Len(tree), NEW name \in STRING,
           \A j \in Children(tree, g) : tree[j].name # name
    PROVE  \A j \in 0 .. Len(tree) : P[j] # Below(P[g], name)
<1> SUFFICES ASSUME NEW j \in 0 .. Len(tree) PROVE P[j] # Below(P[g], name)
    OBVIOUS
<1>1. P[j] = Below(P[g], name) <=> j \in Children(tree, g) /\ tree[j].name = name
    BY ChildIs
<1> QED
    BY <1>1

\* The first of a set of places.
LEMMA FirstIs ==
    ASSUME NEW T \in SUBSET Nat, T # {}
    PROVE  FirstOf(T) \in T
BY LeastOf DEF FirstOf

\* Going down one name from a group.
Walks == [tree : Trees, at : Nat, ok : BOOLEAN]
Extends(P, n, Q) == \A j \in 0 .. n : Q[j] = P[j]
NoBegins(S, p, name) == \A q \in S : q # <<>> /\ Front(q) = p => <<Last(q), name>> \notin Begins

LEMMA DescendTyped ==
    ASSUME NEW r \in Walks, NEW name \in STRING, NEW blank \in BOOLEAN
    PROVE  Descend(r, name, blank) \in Walks
<1> PICK tree, g : tree = r.tree /\ g = r.at
    OBVIOUS
<1> DEFINE hits == {j \in Children(tree, g) : SameName(tree[j].name, name)}
<1>1. tree \in Trees /\ g \in Nat /\ Len(tree) \in Nat
    BY TreeFacts DEF Walks
<1>2. CASE hits # {}
    <2>1. hits \in SUBSET Nat
        BY <1>1 DEF Children
    <2>2. Descend(r, name, blank) = [r EXCEPT !.at = FirstOf(hits)]
        BY <1>2 DEF Descend
    <2> HIDE DEF hits
    <2>3. FirstOf(hits) \in Nat
        BY <1>2, <2>1, FirstIs
    <2> QED
        BY <2>2, <2>3 DEF Walks
<1>3. CASE hits = {}
    <2> DEFINE new == Append(tree, [parent |-> g, name |-> name])
               ok == Children(tree, g) = {} \/ ~blank
    <2>1. Descend(r, name, blank) = [tree |-> new, at |-> Len(tree) + 1, ok |-> ok]
        BY <1>3 DEF Descend
    <2>2. new \in Trees /\ Len(tree) + 1 \in Nat /\ ok \in BOOLEAN
        BY <1>1, TreeFacts
    <2> HIDE DEF new, ok
    <2> QED
        BY <2>1, <2>2 DEF Walks
<1> QED
    BY <1>2, <1>3

\* Where a walk stands, and what a step of it to a path does.
StandsAt(r, S, P) == r \in Walks /\ r.at \in 0 .. Len(r.tree) /\ NamedBy(P, r.tree, S)
StepsTo(d, r, S, P, path, blank) ==
    /\ d \in Walks /\ d.at \in 0 .. Len(d.tree) /\ Len(r.tree) <= Len(d.tree)
    /\ r.ok /\ ~blank => d.ok
    /\ \E Q : NamedBy(Q, d.tree, S \cup {path}) /\ Extends(P, Len(r.tree), Q) /\ Q[d.at] = path

LEMMA DescendNames ==
    ASSUME NEW r, NEW S, NEW P, StandsAt(r, S, P),
           NEW name \in STRING, NEW blank \in BOOLEAN, NoBegins(S, P[r.at], name)
    PROVE  StepsTo(Descend(r, name, blank), r, S, P, Below(P[r.at], name), blank)
<1> PICK path, d : path = Below(P[r.at], name) /\ d = Descend(r, name, blank)
    OBVIOUS
<1> USE DEF StandsAt
<1> SUFFICES StepsTo(d, r, S, P, path, blank)
    OBVIOUS
<1> USE DEF StepsTo
<1> PICK tree, g : tree = r.tree /\ g = r.at
    OBVIOUS
<1> DEFINE hits == {j \in Children(tree, g) : SameName(tree[j].name, name)}
<1>1. tree \in Trees /\ g \in 0 .. Len(tree) /\ NamedBy(P, tree, S) /\ Len(tree) \in Nat
    BY TreeFacts DEF Walks
<1>2. P[g] \in GroupPaths /\ path \in GroupPaths /\ path # <<>>
    <2>1. P[g] \in GroupPaths
        BY <1>1 DEF NamedBy
    <2> QED
        BY <2>1, BelowIs
<1>3. \A j \in Children(tree, g) : j \in 1 .. Len(tree) /\ (SameName(tree[j].name, name) <=> P[j] = path)
    <2> SUFFICES ASSUME NEW j \in Children(tree, g)
                 PROVE  j \in 1 .. Len(tree) /\ (SameName(tree[j].name, name) <=> P[j] = path)
        OBVIOUS
    <2>1. j \in 1 .. Len(tree) /\ tree[j].parent = g
        BY DEF Children
    <2>2. j \in 0 .. Len(tree) /\ tree[j].name \in STRING /\ P[j] = Below(P[g], tree[j].name) /\ P[j] \in S
        <3>1. j \in 0 .. Len(tree)
            BY <1>1, <2>1
        <3>2. tree[j].parent \in 0 .. j - 1 /\ P[j] = Below(P[tree[j].parent], tree[j].name)
            BY <1>1, <2>1 DEF NamedBy
        <3>3. P[j] \in S
            BY <1>1, <3>1 DEF NamedBy
        <3>4. tree[j].name \in STRING
            BY <1>1, <2>1, TreeFacts
        <3> QED
            BY <2>1, <3>1, <3>2, <3>3, <3>4
    <2>3. P[j] # <<>> /\ Front(P[j]) = P[g] /\ Last(P[j]) = tree[j].name
        <3>1. \A p \in GroupPaths, x \in STRING :
                 Below(p, x) # <<>> /\ Front(Below(p, x)) = p /\ Last(Below(p, x)) = x
            BY PathFacts
        <3> QED
            BY <1>2, <2>2, <3>1, Zenon
    <2>4. <<tree[j].name, name>> \notin Begins
        <3>1. NoBegins(S, P[g], name)
            OBVIOUS
        <3> QED
            BY <2>2, <2>3, <3>1, Zenon DEF NoBegins
    <2>5. P[j] = path <=> tree[j].name = name
        BY <1>1, <2>2, ChildIs
    <2> QED
        BY <2>1, <2>4, <2>5 DEF SameName
<1>4. CASE hits # {}
    <2>1. d = [r EXCEPT !.at = FirstOf(hits)]
        BY <1>4 DEF Descend
    <2>2. FirstOf(hits) \in hits
        <3>1. hits \in SUBSET Nat
            BY <1>3
        <3> HIDE DEF hits
        <3> QED
            BY <1>4, <3>1, FirstIs
    <2> PICK h : h = FirstOf(hits)
        OBVIOUS
    <2>3. h \in 1 .. Len(tree) /\ P[h] = path
        BY <1>3, <2>2
    <2>4. d \in Walks /\ d.tree = tree /\ d.at = h /\ d.ok = r.ok
        BY <2>1, <2>3 DEF Walks
    <2>5. S \cup {path} = S
        <3>1. P[h] \in S
            BY <1>1, <2>3, GroupIs
        <3> QED
            BY <2>3, <3>1
    <2>6. NamedBy(P, d.tree, S \cup {path}) /\ Extends(P, Len(tree), P) /\ P[d.at] = path
        BY <1>1, <2>3, <2>4, <2>5 DEF Extends
    <2>7. d.at \in 0 .. Len(d.tree) /\ Len(r.tree) <= Len(d.tree)
        BY <1>1, <2>3, <2>4
    <2> QED
        BY <2>4, <2>6, <2>7
<1>5. CASE hits = {}
    <2> DEFINE new == Append(tree, [parent |-> g, name |-> name])
               n == Len(tree) + 1
               Q == [j \in 0 .. n |-> IF j = n THEN path ELSE P[j]]
    <2>1. d = [tree |-> new, at |-> n, ok |-> Children(tree, g) = {} \/ ~blank]
        BY <1>5 DEF Descend
    <2>2. /\ new \in Trees /\ Len(new) = n /\ new[n].parent = g /\ new[n].name = name
          /\ \A j \in 1 .. Len(tree) : new[j] = tree[j]
        BY <1>1, TreeFacts
    <2> HIDE DEF new
    <2>3. n \in Nat /\ d \in Walks /\ d.tree = new /\ d.at = n /\ (~blank => d.ok)
        <3> DEFINE ok == Children(tree, g) = {} \/ ~blank
        <3>1. n \in Nat /\ ok \in BOOLEAN /\ (~blank => ok)
            BY <1>1
        <3> HIDE DEF ok
        <3>2. d.tree = new /\ d.at = n /\ d.ok = ok
            BY <2>1 DEF ok
        <3>3. d \in Walks
            BY <2>1, <2>2, <3>1 DEF Walks, ok
        <3> QED
            BY <3>1, <3>2, <3>3
    <2>4. \A j \in 0 .. Len(tree) : Q[j] = P[j] /\ P[j] # path
        <3>1. \A j \in 0 .. Len(tree) : P[j] # path
            <4>1. \A j \in Children(tree, g) : tree[j].name # name
                BY <1>5 DEF SameName
            <4> QED
                BY <1>1, <4>1, NewPath
        <3>2. \A j \in 0 .. Len(tree) : j \in 0 .. n /\ j # n
            BY <1>1
        <3> QED
            BY <3>1, <3>2
    <2>5. Q[n] = path /\ Q \in [0 .. n -> GroupPaths]
        <3>1. \A j \in 0 .. n : j = n \/ j \in 0 .. Len(tree)
            BY <1>1
        <3>2. n \in 0 .. n
            BY <1>1
        <3>3. \A j \in 0 .. Len(tree) : P[j] \in GroupPaths
            BY <1>1 DEF NamedBy
        <3> QED
            BY <1>2, <3>1, <3>2, <3>3
    <2> HIDE DEF Q
    <2>6. NamedBy(Q, new, S \cup {path})
        <3>1. \A j \in 0 .. n : j = n \/ j \in 0 .. Len(tree)
            BY <1>1
        <3>2. 0 \in 0 .. Len(tree) /\ n \in 0 .. n /\ \A j \in 0 .. Len(tree) : j \in 0 .. n
            BY <1>1
        <3>3. Q[0] = <<>>
            BY <1>1, <2>4, <3>2 DEF NamedBy
        <3>4. \A j \in 1 .. n : new[j].parent \in 0 .. j - 1 /\ Q[j] = Below(Q[new[j].parent], new[j].name)
            <4> SUFFICES ASSUME NEW j \in 1 .. n
                         PROVE  new[j].parent \in 0 .. j - 1 /\ Q[j] = Below(Q[new[j].parent], new[j].name)
                OBVIOUS
            <4>1. CASE j = n
                <5>1. new[j].parent = g /\ g \in 0 .. j - 1 /\ Q[g] = P[g]
                    BY <1>1, <2>2, <2>4, <4>1
                <5> QED
                    BY <2>2, <2>5, <4>1, <5>1
            <4>2. CASE j # n
                <5>1. j \in 1 .. Len(tree) /\ j \in 0 .. Len(tree)
                    BY <1>1, <4>2
                <5>2. tree[j].parent \in 0 .. j - 1 /\ P[j] = Below(P[tree[j].parent], tree[j].name)
                    BY <1>1, <5>1 DEF NamedBy
                <5>3. tree[j].parent \in 0 .. Len(tree)
                    BY <1>1, <5>1, <5>2
                <5> QED
                    BY <2>2, <2>4, <5>1, <5>2, <5>3
            <4> QED
                BY <4>1, <4>2
        <3>5. \A i, j \in 0 .. n : Q[i] = Q[j] => i = j
            <4>1. \A i, j \in 0 .. Len(tree) : P[i] = P[j] => i = j
                BY <1>1 DEF NamedBy
            <4> QED
                BY <2>4, <2>5, <3>1, <4>1
        <3>6. \A j \in 0 .. n : Q[j] \in S \cup {path}
            <4>1. \A j \in 0 .. Len(tree) : P[j] \in S
                BY <1>1 DEF NamedBy
            <4> QED
                BY <2>4, <2>5, <3>1, <4>1
        <3>7. \A p \in S \cup {path} : \E j \in 0 .. n : Q[j] = p
            <4>1. \A p \in S : \E j \in 0 .. Len(tree) : P[j] = p
                BY <1>1 DEF NamedBy
            <4> QED
                BY <2>4, <2>5, <3>2, <4>1
        <3> QED
            BY <2>2, <2>5, <3>3, <3>4, <3>5, <3>6, <3>7 DEF NamedBy
    <2>7. Extends(P, Len(tree), Q)
        BY <2>4 DEF Extends
    <2>8. d.at \in 0 .. Len(d.tree) /\ Len(tree) <= Len(d.tree)
        BY <1>1, <2>2, <2>3
    <2> QED
        BY <2>3, <2>5, <2>6, <2>7, <2>8
<1> QED
    BY <1>4, <1>5

\* A name that begins no other leads to the group of the longer path.
Descends(line, R, r) ==
    /\ R[0] = r
    /\ \A i \in 1 .. Len(line.path) : R[i] = DescendAt(line, R[i - 1], i)

LEMMA FoldOfDescends ==
    ASSUME NEW line \in Lines, line.kind = "group", NEW tree \in Trees
    PROVE  LET r == [tree |-> tree, at |-> Root, ok |-> TRUE] IN
           \E R \in [0 .. Len(line.path) -> Walks] :
              /\ Descends(line, R, r) /\ r \in Walks
              /\ FindOrCreateGroup(tree, line) = R[Len(line.path)]
<1> DEFINE r == [tree |-> tree, at |-> Root, ok |-> TRUE]
           n == Len(line.path)
           s == [i \in 1 .. n |-> i]
<1>1. line.path \in GroupPaths /\ line.blank \in BOOLEAN /\ n \in Nat /\ \A i \in 1 .. n : line.path[i] \in STRING
    BY LineFacts, PathFacts
<1>2. r \in Walks
    BY DEF Walks, Root
<1>3. s \in Seq(1 .. n) /\ Len(s) = n /\ \A i \in 1 .. n : s[i] = i
    BY <1>1
<1>4. DescendSteps!Keeps(line, Walks, 1 .. n)
    <2> SUFFICES ASSUME NEW a \in Walks, NEW i \in 1 .. n PROVE DescendAt(line, a, i) \in Walks
        BY DEF DescendSteps!Keeps
    <2> PICK blank \in BOOLEAN : blank = (line.blank /\ i = n)
        BY <1>1
    <2>1. DescendAt(line, a, i) = Descend(a, line.path[i], blank) /\ line.path[i] \in STRING
        BY <1>1 DEF DescendAt
    <2> QED
        BY <2>1, DescendTyped
<1>5. FindOrCreateGroup(tree, line) = DescendSteps!Fold(line, r, s)
    BY DEF FindOrCreateGroup, DescendSteps!Fold, DescendSteps!FoldLeft, DescendSteps!MapThenFoldSet,
           DescendSteps!Max, FoldLeft, MapThenFoldSet, Max
<1> HIDE DEF r, s
<1>6. PICK R \in [0 .. Len(s) -> Walks] :
        DescendSteps!Steps(R, line, r, s) /\ DescendSteps!Fold(line, r, s) = R[Len(s)]
    BY <1>2, <1>3, <1>4, DescendSteps!Partial
<1> QED
    BY <1>1, <1>2, <1>3, <1>5, <1>6 DEF DescendSteps!Steps, Descends, r

\* No name of a group begins another's.
NoClash(U) ==
    \A p, q \in U : p # <<>> /\ q # <<>> /\ Front(p) = Front(q) => <<Last(p), Last(q)>> \notin Begins

\* A header leads to its group, with the groups above it.
Creates(r, tree, S, P, line) ==
    /\ r \in Walks /\ r.at \in 0 .. Len(r.tree) /\ Len(tree) <= Len(r.tree)
    /\ ~line.blank => r.ok
    /\ \E Q : /\ NamedBy(Q, r.tree, S \cup Prefixes(line.path))
              /\ Extends(P, Len(tree), Q) /\ Q[r.at] = line.path

LEMMA GroupCreated ==
    ASSUME NEW line \in Lines, line.kind = "group", NEW tree \in Trees, NEW S, NEW P, NamedBy(P, tree, S),
           NEW U, NoClash(U), S \subseteq U, Prefixes(line.path) \subseteq U
    PROVE  Creates(FindOrCreateGroup(tree, line), tree, S, P, line)
<1> PICK path, n : path = line.path /\ n = Len(path)
    OBVIOUS
<1> DEFINE r0 == [tree |-> tree, at |-> Root, ok |-> TRUE]
           Sofar(i) == S \cup {SubSeq(path, 1, m) : m \in 0 .. i}
           Going(w, i) ==
               /\ w \in Walks /\ w.at \in 0 .. Len(w.tree) /\ Len(tree) <= Len(w.tree)
               /\ ~line.blank => w.ok
               /\ \E Q : NamedBy(Q, w.tree, Sofar(i)) /\ Extends(P, Len(tree), Q) /\ Q[w.at] = SubSeq(path, 1, i)
<1>1. path \in GroupPaths /\ line.blank \in BOOLEAN /\ n \in Nat /\ \A i \in 1 .. n : path[i] \in STRING
    BY LineFacts, PathFacts
<1>2. PICK R \in [0 .. n -> Walks] : Descends(line, R, r0) /\ FindOrCreateGroup(tree, line) = R[n] /\ r0 \in Walks
    BY FoldOfDescends
<1>3. Prefixes(path) = {SubSeq(path, 1, m) : m \in 0 .. n}
    BY DEF Prefixes
<1>4. P \in [0 .. Len(tree) -> GroupPaths] /\ P[0] = <<>> /\ P[0] \in S /\ Len(tree) \in Nat /\ 0 \in 0 .. Len(tree)
    BY TreeFacts DEF NamedBy
<1>5. Going(R[0], 0)
    <2>1. R[0] = r0 /\ r0.tree = tree /\ r0.at = 0 /\ r0.ok
        BY <1>2 DEF Descends, Root
    <2>2. SubSeq(path, 1, 0) = <<>>
        BY <1>1, PrefixFacts
    <2>3. Sofar(0) = S
        <3>1. \A m \in 0 .. 0 : m = 0
            OBVIOUS
        <3>2. 0 \in 0 .. 0
            OBVIOUS
        <3> QED
            BY <1>4, <2>2, <3>1, <3>2
    <2>4. NamedBy(P, r0.tree, Sofar(0)) /\ Extends(P, Len(tree), P) /\ P[r0.at] = SubSeq(path, 1, 0)
        BY <1>4, <2>1, <2>2, <2>3 DEF Extends
    <2> PICK w : w = R[0]
        OBVIOUS
    <2>5. w \in Walks /\ w.tree = tree /\ w.at = 0 /\ w.ok /\ w = r0
        BY <1>2, <2>1
    <2>6. w.at \in 0 .. Len(w.tree) /\ Len(tree) <= Len(w.tree)
        BY <1>4, <2>5
    <2> HIDE DEF Sofar, r0
    <2>7. \E Q : NamedBy(Q, w.tree, Sofar(0)) /\ Extends(P, Len(tree), Q) /\ Q[w.at] = SubSeq(path, 1, 0)
        BY <2>4, <2>5
    <2> QED
        BY <2>5, <2>6, <2>7
<1>6. ASSUME NEW i \in 1 .. n, Going(R[i - 1], i - 1) PROVE Going(R[i], i)
    <2> PICK w, pre, name : w = R[i - 1] /\ pre = SubSeq(path, 1, i - 1) /\ name = path[i]
        OBVIOUS
    <2> PICK blank \in BOOLEAN : blank = (line.blank /\ i = n)
        BY <1>1
    <2>1. PICK Q : NamedBy(Q, w.tree, Sofar(i - 1)) /\ Extends(P, Len(tree), Q) /\ Q[w.at] = pre
        BY <1>6
    <2>2. w \in Walks /\ w.at \in 0 .. Len(w.tree) /\ Len(tree) <= Len(w.tree) /\ (~line.blank => w.ok)
        BY <1>6
    <2>3. R[i] = Descend(w, name, blank)
        BY <1>2 DEF Descends, DescendAt
    <2>4. pre \in GroupPaths /\ SubSeq(path, 1, i) = Below(pre, name) /\ name \in STRING
        BY <1>1, PrefixFacts
    <2>5. Sofar(i) = Sofar(i - 1) \cup {Below(pre, name)} /\ Sofar(i) \subseteq U
        <3>1. \A m \in 0 .. i : m = i \/ m \in 0 .. i - 1
            OBVIOUS
        <3>2. i \in 0 .. i /\ \A m \in 0 .. i - 1 : m \in 0 .. i
            OBVIOUS
        <3>3. \A m \in 0 .. i : m \in 0 .. n
            BY <1>1
        <3>4. Sofar(i) = Sofar(i - 1) \cup {SubSeq(path, 1, i)}
            BY <3>1, <3>2
        <3>5. Sofar(i) \subseteq U
            BY <1>3, <3>3
        <3> QED
            BY <2>4, <3>4, <3>5
    <2> HIDE DEF Sofar
    <2>6. NoBegins(Sofar(i - 1), Q[w.at], name)
        <3>1. Below(pre, name) \in U /\ Sofar(i - 1) \subseteq U
            BY <2>5
        <3>2. Below(pre, name) # <<>> /\ Front(Below(pre, name)) = pre /\ Last(Below(pre, name)) = name
            BY <2>4, BelowIs
        <3>3. NoClash(U)
            OBVIOUS
        <3> SUFFICES ASSUME NEW q \in Sofar(i - 1), q # <<>>, Front(q) = pre
                     PROVE  <<Last(q), name>> \notin Begins
            BY <2>1 DEF NoBegins
        <3> PICK b : b = Below(pre, name)
            OBVIOUS
        <3>4. q \in U /\ b \in U /\ b # <<>> /\ Front(b) = Front(q) /\ Last(b) = name
            BY <3>1, <3>2, Zenon
        <3>5. <<Last(q), Last(b)>> \notin Begins
            BY <3>3, <3>4, Zenon DEF NoClash
        <3> QED
            BY <3>4, <3>5, Zenon
    <2>7. PICK path2 : path2 = Below(Q[w.at], name)
        OBVIOUS
    <2>8. /\ R[i] \in Walks /\ R[i].at \in 0 .. Len(R[i].tree) /\ Len(w.tree) <= Len(R[i].tree)
          /\ w.ok /\ ~blank => R[i].ok
          /\ \E Q2 : NamedBy(Q2, R[i].tree, Sofar(i - 1) \cup {path2}) /\ Extends(Q, Len(w.tree), Q2) /\ Q2[R[i].at] = path2
        <3> PICK before : before = Sofar(i - 1)
            OBVIOUS
        <3>1. StandsAt(w, before, Q) /\ NoBegins(before, Q[w.at], name) /\ name \in STRING
            BY <2>1, <2>2, <2>4, <2>6 DEF StandsAt
        <3>2. StepsTo(Descend(w, name, blank), w, before, Q, Below(Q[w.at], name), blank)
            BY <3>1, DescendNames
        <3> QED
            BY <2>3, <2>7, <3>2 DEF StepsTo
    <2>9. PICK Q2 : NamedBy(Q2, R[i].tree, Sofar(i)) /\ Extends(Q, Len(w.tree), Q2) /\ Q2[R[i].at] = SubSeq(path, 1, i)
        BY <2>1, <2>4, <2>5, <2>7, <2>8
    <2>10. Len(w.tree) \in Nat /\ Len(R[i].tree) \in Nat
        BY <2>2, <2>8, TreeFacts DEF Walks
    <2>11. Extends(P, Len(tree), Q2)
        <3>1. \A j \in 0 .. Len(tree) : j \in 0 .. Len(w.tree)
            BY <1>4, <2>2, <2>10
        <3>2. \A j \in 0 .. Len(tree) : Q[j] = P[j]
            BY <2>1 DEF Extends
        <3>3. \A j \in 0 .. Len(w.tree) : Q2[j] = Q[j]
            BY <2>9 DEF Extends
        <3> QED
            BY <3>1, <3>2, <3>3 DEF Extends
    <2>12. Len(tree) <= Len(R[i].tree)
        BY <1>4, <2>2, <2>8, <2>10
    <2>13. ~line.blank => R[i].ok
        BY <2>2, <2>8
    <2> QED
        BY <2>8, <2>9, <2>11, <2>12, <2>13
<1>7. Going(R[n], n)
    <2> DEFINE T == {i \in 0 .. n : Going(R[i], i)}
    <2> HIDE DEF Going
    <2>1. 0 \in T /\ \A i \in 1 .. n : i - 1 \in T => i \in T
        BY <1>1, <1>5, <1>6
    <2> HIDE DEF T
    <2>2. 0 .. n \subseteq T
        BY <1>1, <2>1, DescendSteps!FromZero
    <2>3. n \in 0 .. n
        BY <1>1
    <2> QED
        BY <2>2, <2>3 DEF T
<1>8. SubSeq(path, 1, n) = path /\ Sofar(n) = S \cup Prefixes(line.path)
    BY <1>1, <1>3, PrefixFacts
<1> HIDE DEF Sofar
<1> QED
    BY <1>2, <1>7, <1>8 DEF Creates

--------------------------------------------------------------------------------
(* What the parser has come to behind each line                             *)

ConfigItems == Seq([group : Nat, key : STRING, value : ConfigValues])
ConfigStates == [tree : Trees, items : ConfigItems, current : Nat, ok : BOOLEAN]
NoConfig == [tree |-> <<>>, items |-> <<>>, current |-> Root, ok |-> TRUE]

LEMMA ItemFacts ==
    ASSUME NEW items \in ConfigItems
    PROVE  /\ Len(items) \in Nat
           /\ \A k \in 1 .. Len(items) : items[k].group \in Nat /\ items[k].key \in STRING /\ items[k].value \in ConfigValues
           /\ \A g \in Nat, x \in STRING, v \in ConfigValues :
                LET t == Append(items, [group |-> g, key |-> x, value |-> v]) IN
                /\ t \in ConfigItems /\ Len(t) = Len(items) + 1
                /\ t[Len(items) + 1] = [group |-> g, key |-> x, value |-> v]
                /\ \A j \in 1 .. Len(items) : t[j] = items[j]
<1> DEFINE Stored == ConfigValues
           T == [group : Nat, key : STRING, value : Stored]
<1> HIDE DEF Stored
<1>1. items \in Seq(T) /\ ConfigItems = Seq(T)
    BY DEF ConfigItems, Stored
<1>2. Len(items) \in Nat /\ \A j \in 1 .. Len(items) : items[j] \in T
    BY <1>1, LenProperties, ElementOfSeq
<1>3. \A k \in 1 .. Len(items) : items[k].group \in Nat /\ items[k].key \in STRING /\ items[k].value \in Stored
    BY <1>2
<1>4. ASSUME NEW g \in Nat, NEW x \in STRING, NEW v \in Stored
      PROVE  LET t == Append(items, [group |-> g, key |-> x, value |-> v]) IN
             /\ t \in ConfigItems /\ Len(t) = Len(items) + 1
             /\ t[Len(items) + 1] = [group |-> g, key |-> x, value |-> v]
             /\ \A j \in 1 .. Len(items) : t[j] = items[j]
    <2> PICK node : node = [group |-> g, key |-> x, value |-> v]
        OBVIOUS
    <2>1. node \in T
        OBVIOUS
    <2> HIDE DEF T
    <2>2. /\ Append(items, node) \in Seq(T) /\ Len(Append(items, node)) = Len(items) + 1
          /\ \A j \in 1 .. Len(items) : Append(items, node)[j] = items[j]
          /\ Append(items, node)[Len(items) + 1] = node
        BY <1>1, <2>1, AppendProperties
    <2> QED
        BY <1>1, <2>2
<1> QED
    BY <1>2, <1>3, <1>4 DEF Stored

LEMMA GroupLineTyped ==
    ASSUME NEW line \in Lines, line.kind = "group", NEW tree \in Trees
    PROVE  FindOrCreateGroup(tree, line) \in Walks
<1>1. line.path \in GroupPaths /\ Len(line.path) \in Nat /\ Len(line.path) \in 0 .. Len(line.path)
    <2>1. line.path \in GroupPaths
        BY LineFacts
    <2> QED
        BY <2>1, PathFacts
<1>2. PICK R \in [0 .. Len(line.path) -> Walks] : FindOrCreateGroup(tree, line) = R[Len(line.path)]
    BY FoldOfDescends
<1> QED
    BY <1>1, <1>2

\* What a line does.
LEMMA GroupLine ==
    ASSUME NEW s \in ConfigStates, NEW line \in Lines, s.ok, line.kind = "group"
    PROVE  LET r == FindOrCreateGroup(s.tree, line)
               d == ProcessLine(s, line)
           IN d \in ConfigStates /\ d.tree = r.tree /\ d.items = s.items /\ d.current = r.at /\ d.ok = r.ok
<1> PICK r : r = FindOrCreateGroup(s.tree, line)
    OBVIOUS
<1>1. r \in Walks
    BY GroupLineTyped DEF ConfigStates
<1>2. ProcessLine(s, line) = [s EXCEPT !.tree = r.tree, !.current = r.at, !.ok = r.ok]
    BY DEF ProcessLine
<1> QED
    BY <1>1, <1>2 DEF Walks, ConfigStates

LEMMA ItemLine ==
    ASSUME NEW s \in ConfigStates, NEW line \in Lines, s.ok, line.kind = "item"
    PROVE  LET d == ProcessLine(s, line)
           IN /\ d \in ConfigStates /\ d.tree = s.tree /\ d.current = s.current
              /\ d.ok <=> MayAdd(s.items, s.current, line.key)
              /\ d.ok => d.items = Append(s.items, [group |-> s.current, key |-> line.key, value |-> line.value])
<1>1. CASE MayAdd(s.items, s.current, line.key)
    <2> PICK items : items = Append(s.items, [group |-> s.current, key |-> line.key, value |-> line.value])
        OBVIOUS
    <2>1. ProcessLine(s, line) = [s EXCEPT !.items = items]
        BY <1>1 DEF ProcessLine
    <2>2. line.key \in STRING /\ line.value \in ConfigValues
        BY LineFacts
    <2>3. items \in ConfigItems
        BY <2>2, ItemFacts DEF ConfigStates
    <2> QED
        BY <1>1, <2>1, <2>3 DEF ConfigStates
<1>2. CASE ~MayAdd(s.items, s.current, line.key)
    <2>1. ProcessLine(s, line) = [s EXCEPT !.ok = FALSE]
        BY <1>2 DEF ProcessLine
    <2> QED
        BY <1>2, <2>1 DEF ConfigStates
<1> QED
    BY <1>1, <1>2

LEMMA OtherLine ==
    ASSUME NEW s \in ConfigStates, NEW line \in Lines, ~s.ok \/ line.kind = "comment"
    PROVE  ProcessLine(s, line) = s
BY DEF ProcessLine

ParsesTo(G, text) ==
    /\ G[0] = NoConfig
    /\ \A i \in 1 .. Len(text) : G[i] = ProcessLine(G[i - 1], text[i])

LEMMA FoldOfLines ==
    ASSUME NEW text \in Seq(Lines)
    PROVE  \E G \in [0 .. Len(text) -> ConfigStates] : ParsesTo(G, text) /\ Parse(text) = G[Len(text)]
<1>1. NoConfig \in ConfigStates
    <2>1. <<>> \in Trees /\ <<>> \in ConfigItems
        BY DEF Trees, ConfigItems
    <2> QED
        BY <2>1 DEF NoConfig, ConfigStates, Root
<1>2. LineSteps!Keeps(NULL, ConfigStates, Lines)
    <2> SUFFICES ASSUME NEW s \in ConfigStates, NEW line \in Lines PROVE ProcessLine(s, line) \in ConfigStates
        BY DEF LineSteps!Keeps, LineTo
    <2>1. line.kind \in {"group", "item", "comment"} /\ s.ok \in BOOLEAN
        BY LineFacts DEF ConfigStates
    <2> QED
        BY <2>1, GroupLine, ItemLine, OtherLine
<1>3. Parse(text) = LineSteps!Fold(NULL, NoConfig, text)
    BY DEF Parse, NoConfig, LineSteps!Fold, LineSteps!FoldLeft, LineSteps!MapThenFoldSet,
           LineSteps!Max, FoldLeft, MapThenFoldSet, Max, LineTo
<1>4. PICK G \in [0 .. Len(text) -> ConfigStates] :
        LineSteps!Steps(G, NULL, NoConfig, text) /\ LineSteps!Fold(NULL, NoConfig, text) = G[Len(text)]
    BY <1>1, <1>2, LineSteps!Partial
<1> QED
    BY <1>3, <1>4 DEF LineSteps!Steps, ParsesTo, LineTo

IsItem(i) == configText[i].kind = "item"
PathsTo(i) == {<<>>} \cup UNION {Prefixes(configText[j].path) : j \in {k \in 1 .. i : IsGroup(k)}}

LEMMA SectionNext ==
    ASSUME NEW i \in Nat, i # 0
    PROVE  Section(i) = IF IsGroup(i) THEN configText[i].path ELSE Section(i - 1)
<1> DEFINE heads == {j \in 1 .. i : IsGroup(j)}
<1>1. CASE IsGroup(i)
    <2>1. i \in heads /\ heads \subseteq 1 .. i
        BY <1>1
    <2>2. (CHOOSE j \in heads : \A k \in heads : k <= j) = i
        <3> HIDE DEF heads
        <3>1. \A k \in heads : k <= i
            BY <2>1
        <3>2. \A j \in heads : (\A k \in heads : k <= j) => j = i
            <4> SUFFICES ASSUME NEW j \in heads, \A k \in heads : k <= j PROVE j = i
                OBVIOUS
            <4>1. i <= j /\ j \in 1 .. i
                BY <2>1
            <4> QED
                BY <4>1
        <3> QED
            BY <2>1, <3>1, <3>2
    <2>3. heads # {}
        BY <2>1
    <2> PICK last : last = CHOOSE j \in heads : \A k \in heads : k <= j
        OBVIOUS
    <2>4. Section(i) = configText[last].path
        BY <2>3 DEF Section
    <2>5. last = i
        BY <2>2
    <2> HIDE DEF heads
    <2> QED
        BY <1>1, <2>4, <2>5
<1>2. CASE ~IsGroup(i)
    <2>1. heads = {j \in 1 .. i - 1 : IsGroup(j)}
        <3>1. \A j \in 1 .. i : j = i \/ j \in 1 .. i - 1
            OBVIOUS
        <3>2. \A j \in 1 .. i - 1 : j \in 1 .. i
            OBVIOUS
        <3> QED
            BY <1>2, <3>1, <3>2
    <2> HIDE DEF heads
    <2>2. Section(i) = IF heads = {} THEN <<>> ELSE configText[CHOOSE j \in heads : \A k \in heads : k <= j].path
        BY DEF Section, heads
    <2>3. Section(i - 1) = IF heads = {} THEN <<>> ELSE configText[CHOOSE j \in heads : \A k \in heads : k <= j].path
        BY <2>1 DEF Section
    <2> QED
        BY <1>2, <2>2, <2>3
<1> QED
    BY <1>1, <1>2

LEMMA PathsNext ==
    ASSUME NEW i \in Nat, i # 0
    PROVE  PathsTo(i) = IF IsGroup(i) THEN PathsTo(i - 1) \cup Prefixes(configText[i].path) ELSE PathsTo(i - 1)
<1>1. \A j \in 1 .. i : j = i \/ j \in 1 .. i - 1
    OBVIOUS
<1>2. i \in 1 .. i /\ \A j \in 1 .. i - 1 : j \in 1 .. i
    OBVIOUS
<1> PICK H1, H2 : H1 = {k \in 1 .. i : IsGroup(k)} /\ H2 = {k \in 1 .. i - 1 : IsGroup(k)}
    OBVIOUS
<1>3. H1 = IF IsGroup(i) THEN H2 \cup {i} ELSE H2
    BY <1>1, <1>2
<1>4. PathsTo(i) = {<<>>} \cup UNION {Prefixes(configText[j].path) : j \in H1}
    BY DEF PathsTo
<1>5. PathsTo(i - 1) = {<<>>} \cup UNION {Prefixes(configText[j].path) : j \in H2}
    BY DEF PathsTo
<1> QED
    BY <1>3, <1>4, <1>5

\* Item k of the parser is line j of the text.
ComesFrom(s, P, k, j) ==
    /\ s.items[k].group \in 0 .. Len(s.tree) /\ IsItem(j)
    /\ P[s.items[k].group] = Section(j)
    /\ s.items[k].key = configText[j].key /\ s.items[k].value = configText[j].value
SameItem(i, j) == Section(i) = Section(j) /\ configText[i].key = configText[j].key

(* What a text that has parsed so far has made: the groups of its headers and *)
(* what is above them, and an item of every line, no two with the same key.  *)
ParsedTo(s, i, P) ==
    /\ NamedBy(P, s.tree, PathsTo(i))
    /\ s.current \in 0 .. Len(s.tree) /\ P[s.current] = Section(i)
    /\ \A k \in 1 .. Len(s.items) : \E j \in 1 .. i : ComesFrom(s, P, k, j)
    /\ \A j \in 1 .. i : IsItem(j) => \E k \in 1 .. Len(s.items) : ComesFrom(s, P, k, j)
    /\ \A j, k \in 1 .. i : IsItem(j) /\ IsItem(k) /\ SameItem(j, k) => j = k

LEMMA CommentParsed ==
    ASSUME NEW s \in ConfigStates, NEW i \in Nat, i # 0, NEW P, ParsedTo(s, i - 1, P),
           ~IsGroup(i), ~IsItem(i)
    PROVE  ParsedTo(s, i, P)
<1>1. PathsTo(i) = PathsTo(i - 1) /\ Section(i) = Section(i - 1)
    BY PathsNext, SectionNext
<1>2. (\A j \in 1 .. i : j = i \/ j \in 1 .. i - 1) /\ \A j \in 1 .. i - 1 : j \in 1 .. i
    OBVIOUS
<1>3. \A k \in 1 .. Len(s.items) : \E j \in 1 .. i : ComesFrom(s, P, k, j)
    BY <1>2 DEF ParsedTo
<1>4. \A j \in 1 .. i : IsItem(j) => \E k \in 1 .. Len(s.items) : ComesFrom(s, P, k, j)
    BY <1>2 DEF ParsedTo
<1>5. \A j, k \in 1 .. i : IsItem(j) /\ IsItem(k) /\ SameItem(j, k) => j = k
    BY <1>2 DEF ParsedTo
<1> QED
    BY <1>1, <1>3, <1>4, <1>5 DEF ParsedTo

LEMMA GroupParsed ==
    ASSUME NEW s \in ConfigStates, s.ok, NEW i \in Nat, i # 0, NEW P, ParsedTo(s, i - 1, P),
           configText[i] \in Lines, IsGroup(i),
           NEW U, NoClash(U), PathsTo(i) \subseteq U
    PROVE  LET d == ProcessLine(s, configText[i]) IN
           /\ ~configText[i].blank => d.ok
           /\ d.ok => \E Q : ParsedTo(d, i, Q)
<1> PICK line, path : line = configText[i] /\ path = line.path
    OBVIOUS
<1> PICK r, d : r = FindOrCreateGroup(s.tree, line) /\ d = ProcessLine(s, line)
    OBVIOUS
<1>1. line \in Lines /\ line.kind = "group" /\ s.tree \in Trees /\ s.items \in ConfigItems /\ ~IsItem(i)
    BY DEF IsGroup, IsItem, ConfigStates
<1>2. PathsTo(i) = PathsTo(i - 1) \cup Prefixes(path) /\ Section(i) = path
    BY PathsNext, SectionNext
<1>3. /\ d \in ConfigStates /\ d.tree = r.tree /\ d.items = s.items /\ d.current = r.at /\ d.ok = r.ok
    BY <1>1, GroupLine
<1>4. NamedBy(P, s.tree, PathsTo(i - 1))
    BY DEF ParsedTo
<1>5. PathsTo(i - 1) \subseteq U /\ Prefixes(line.path) \subseteq U
    BY <1>2
<1> PICK before, tree : before = PathsTo(i - 1) /\ tree = s.tree
    OBVIOUS
<1>0. Creates(FindOrCreateGroup(tree, line), tree, before, P, line)
    BY <1>1, <1>4, <1>5, GroupCreated
<1>6. /\ r \in Walks /\ r.at \in 0 .. Len(r.tree) /\ Len(s.tree) <= Len(r.tree)
      /\ ~line.blank => r.ok
      /\ \E Q : /\ NamedBy(Q, r.tree, PathsTo(i - 1) \cup Prefixes(line.path))
                /\ Extends(P, Len(s.tree), Q) /\ Q[r.at] = line.path
    BY <1>0 DEF Creates
<1>7. PICK Q : NamedBy(Q, d.tree, PathsTo(i)) /\ Extends(P, Len(s.tree), Q) /\ Q[d.current] = Section(i)
    BY <1>2, <1>3, <1>6
<1>8. Len(s.tree) \in Nat /\ Len(d.tree) \in Nat /\ \A g \in 0 .. Len(s.tree) : g \in 0 .. Len(d.tree)
    <2>1. Len(s.tree) \in Nat /\ Len(r.tree) \in Nat
        BY <1>1, <1>6, TreeFacts DEF Walks
    <2> QED
        BY <1>3, <1>6, <2>1
<1>9. \A k, j : ComesFrom(s, P, k, j) => ComesFrom(d, Q, k, j)
    BY <1>3, <1>7, <1>8 DEF ComesFrom, Extends
<1>10. (\A j \in 1 .. i : j = i \/ j \in 1 .. i - 1) /\ \A j \in 1 .. i - 1 : j \in 1 .. i
    OBVIOUS
<1>11. \A k \in 1 .. Len(d.items) : \E j \in 1 .. i : ComesFrom(d, Q, k, j)
    BY <1>3, <1>9, <1>10 DEF ParsedTo
<1>12. \A j \in 1 .. i : IsItem(j) => \E k \in 1 .. Len(d.items) : ComesFrom(d, Q, k, j)
    BY <1>1, <1>3, <1>9, <1>10 DEF ParsedTo
<1>13. \A j, k \in 1 .. i : IsItem(j) /\ IsItem(k) /\ SameItem(j, k) => j = k
    BY <1>1, <1>10 DEF ParsedTo
<1>14. ParsedTo(d, i, Q)
    BY <1>3, <1>6, <1>7, <1>11, <1>12, <1>13 DEF ParsedTo
<1> QED
    BY <1>3, <1>6, <1>14

LEMMA ItemParsed ==
    ASSUME NEW s \in ConfigStates, s.ok, NEW i \in 1 .. Len(configText), NEW P, ParsedTo(s, i - 1, P),
           configText \in Seq(Lines), IsItem(i)
    PROVE  LET d == ProcessLine(s, configText[i]) IN
           /\ ~d.ok => Repeats
           /\ d.ok => ParsedTo(d, i, P)
<1> PICK line, d : line = configText[i] /\ d = ProcessLine(s, line)
    OBVIOUS
<1>1. /\ line \in Lines /\ line.kind = "item" /\ s.tree \in Trees /\ s.items \in ConfigItems /\ ~IsGroup(i)
      /\ s.current \in Nat /\ i \in Nat /\ i # 0 /\ Len(configText) \in Nat
    BY DEF IsGroup, IsItem, ConfigStates
<1>2. PathsTo(i) = PathsTo(i - 1) /\ Section(i) = Section(i - 1)
    BY <1>1, PathsNext, SectionNext
<1>3. /\ d \in ConfigStates /\ d.tree = s.tree /\ d.current = s.current
      /\ d.ok <=> MayAdd(s.items, s.current, line.key)
      /\ d.ok => d.items = Append(s.items, [group |-> s.current, key |-> line.key, value |-> line.value])
    BY <1>1, ItemLine
<1>4. NamedBy(P, s.tree, PathsTo(i)) /\ s.current \in 0 .. Len(s.tree) /\ P[s.current] = Section(i)
    BY <1>2 DEF ParsedTo
<1>5. (\A j \in 1 .. i : j = i \/ j \in 1 .. i - 1) /\ \A j \in 1 .. i - 1 : j \in 1 .. i /\ j # i /\ j \in 1 .. Len(configText)
    BY <1>1
<1>6. ASSUME ~d.ok PROVE Repeats
    <2>1. PICK k \in 1 .. Len(s.items) : s.items[k].group = s.current /\ s.items[k].key = line.key
        BY <1>3, <1>6 DEF MayAdd
    <2>2. PICK j \in 1 .. i - 1 : ComesFrom(s, P, k, j)
        BY DEF ParsedTo
    <2>3. j \in ItemLines /\ i \in ItemLines /\ i # j /\ Section(i) = Section(j) /\ configText[i].key = configText[j].key
        BY <1>4, <1>5, <2>1, <2>2 DEF ComesFrom, ItemLines, IsItem
    <2> QED
        BY <2>3 DEF Repeats
<1>7. ASSUME d.ok PROVE ParsedTo(d, i, P)
    <2> PICK n : n = Len(s.items)
        OBVIOUS
    <2>1. line.key \in STRING /\ line.value \in ConfigValues
        BY <1>1, LineFacts
    <2>2. /\ n \in Nat /\ Len(d.items) = n + 1
          /\ d.items[n + 1] = [group |-> s.current, key |-> line.key, value |-> line.value]
          /\ \A k \in 1 .. n : d.items[k] = s.items[k]
        BY <1>1, <1>3, <1>7, <2>1, ItemFacts
    <2>3. ComesFrom(d, P, n + 1, i)
        BY <1>3, <1>4, <2>2 DEF ComesFrom
    <2>4. \A k \in 1 .. n : \A j : ComesFrom(s, P, k, j) => ComesFrom(d, P, k, j)
        BY <1>3, <2>2 DEF ComesFrom
    <2>5. (\A k \in 1 .. n + 1 : k = n + 1 \/ k \in 1 .. n) /\ n + 1 \in 1 .. n + 1 /\ \A k \in 1 .. n : k \in 1 .. n + 1
        BY <2>2
    <2>6. i \in 1 .. i
        BY <1>1
    <2>7. \A k \in 1 .. Len(d.items) : \E j \in 1 .. i : ComesFrom(d, P, k, j)
        <3> SUFFICES ASSUME NEW k \in 1 .. n + 1 PROVE \E j \in 1 .. i : ComesFrom(d, P, k, j)
            BY <2>2
        <3>1. CASE k = n + 1
            BY <2>3, <2>6, <3>1
        <3>2. CASE k \in 1 .. n
            <4>1. PICK j \in 1 .. i - 1 : ComesFrom(s, P, k, j)
                BY <3>2 DEF ParsedTo
            <4> QED
                BY <1>5, <2>4, <3>2, <4>1
        <3> QED
            BY <2>5, <3>1, <3>2
    <2>8. \A j \in 1 .. i : IsItem(j) => \E k \in 1 .. Len(d.items) : ComesFrom(d, P, k, j)
        <3> SUFFICES ASSUME NEW j \in 1 .. i, IsItem(j) PROVE \E k \in 1 .. n + 1 : ComesFrom(d, P, k, j)
            BY <2>2
        <3>1. CASE j = i
            BY <2>3, <2>5, <3>1
        <3>2. CASE j \in 1 .. i - 1
            <4>1. PICK k \in 1 .. n : ComesFrom(s, P, k, j)
                BY <3>2 DEF ParsedTo
            <4> QED
                BY <2>4, <2>5, <4>1
        <3> QED
            BY <1>5, <3>1, <3>2
    <2>9. \A j \in 1 .. i - 1 : IsItem(j) => ~SameItem(i, j) /\ ~SameItem(j, i)
        <3> SUFFICES ASSUME NEW j \in 1 .. i - 1, IsItem(j), Section(i) = Section(j), configText[i].key = configText[j].key
                     PROVE  FALSE
            BY DEF SameItem
        <3>1. PICK k \in 1 .. n : ComesFrom(s, P, k, j)
            BY DEF ParsedTo
        <3>2. s.items[k].group \in 0 .. Len(s.tree) /\ P[s.items[k].group] = P[s.current] /\ s.items[k].key = line.key
            BY <1>4, <3>1 DEF ComesFrom
        <3>3. s.items[k].group = s.current
            BY <1>4, <3>2 DEF NamedBy
        <3> QED
            BY <1>3, <1>7, <3>2, <3>3 DEF MayAdd
    <2>10. \A j, k \in 1 .. i - 1 : IsItem(j) /\ IsItem(k) /\ SameItem(j, k) => j = k
        BY DEF ParsedTo
    <2>11. \A j, k \in 1 .. i : IsItem(j) /\ IsItem(k) /\ SameItem(j, k) => j = k
        BY <1>5, <2>9, <2>10
    <2> QED
        BY <1>3, <1>4, <2>7, <2>8, <2>11 DEF ParsedTo
<1> QED
    BY <1>6, <1>7

TextHolds(i, s) ==
    IF s.ok THEN \E P : ParsedTo(s, i, P)
    ELSE Repeats \/ \E j \in 1 .. Len(configText) : IsGroup(j) /\ configText[j].blank

LEMMA NothingParsed == \E P : ParsedTo(NoConfig, 0, P)
<1> DEFINE P == [j \in 0 .. 0 |-> <<>>]
<1>1. PathsTo(0) = {<<>>} /\ Section(0) = <<>>
    <2>1. \A j \in 1 .. 0 : FALSE
        OBVIOUS
    <2>2. {k \in 1 .. 0 : IsGroup(k)} = {}
        BY <2>1
    <2>3. UNION {Prefixes(configText[j].path) : j \in {}} = {}
        OBVIOUS
    <2> QED
        BY <2>2, <2>3 DEF PathsTo, Section
<1>2. Len(NoConfig.tree) = 0 /\ Len(NoConfig.items) = 0 /\ NoConfig.current = 0
    BY DEF NoConfig, Root
<1>3. 0 \in 0 .. 0 /\ (\A j \in 0 .. 0 : j = 0) /\ (\A j \in 1 .. 0 : FALSE)
    OBVIOUS
<1>4. P \in [0 .. 0 -> GroupPaths] /\ P[0] = <<>>
    BY <1>3, PathFacts
<1> HIDE DEF P
<1>5. NamedBy(P, NoConfig.tree, PathsTo(0))
    BY <1>1, <1>2, <1>3, <1>4 DEF NamedBy
<1>6. ParsedTo(NoConfig, 0, P)
    BY <1>1, <1>2, <1>3, <1>4, <1>5 DEF ParsedTo
<1> QED
    BY <1>6

LEMMA PathsGrow ==
    ASSUME configText \in Seq(Lines), NEW i \in 0 .. Len(configText)
    PROVE  PathsTo(i) \subseteq SectionPaths
<1>1. {k \in 1 .. i : IsGroup(k)} \subseteq {k \in 1 .. Len(configText) : IsGroup(k)}
    <2>1. \A k \in 1 .. i : k \in 1 .. Len(configText)
        OBVIOUS
    <2> QED
        BY <2>1
<1> QED
    BY <1>1 DEF PathsTo, SectionPaths

LEMMA LinesParsed ==
    ASSUME configText \in Seq(Lines), ~Clash
    PROVE  Parse(configText) \in ConfigStates /\ TextHolds(Len(configText), Parse(configText))
<1> PICK n : n = Len(configText)
    OBVIOUS
<1>1. PICK G \in [0 .. n -> ConfigStates] : ParsesTo(G, configText) /\ Parse(configText) = G[n]
    BY FoldOfLines
<1>2. NoClash(SectionPaths)
    BY DEF Clash, NoClash
<1> DEFINE T == {i \in 0 .. n : TextHolds(i, G[i])}
<1>3. n \in Nat
    OBVIOUS
<1>4. 0 \in T
    <2>1. G[0] = NoConfig /\ NoConfig.ok
        BY <1>1 DEF ParsesTo, NoConfig
    <2>2. TextHolds(0, NoConfig)
        BY <2>1, NothingParsed DEF TextHolds
    <2> QED
        BY <1>3, <2>1, <2>2
<1>5. ASSUME NEW i \in 1 .. n, i - 1 \in T PROVE i \in T
    <2> PICK s, line : s = G[i - 1] /\ line = configText[i]
        OBVIOUS
    <2> PICK d : d = ProcessLine(s, line)
        OBVIOUS
    <2>1. i \in Nat /\ i # 0 /\ i \in 0 .. n /\ i - 1 \in 0 .. n /\ i \in 1 .. Len(configText)
        BY <1>3
    <2>2. s \in ConfigStates /\ line \in Lines /\ G[i] = d /\ TextHolds(i - 1, s)
        BY <1>1, <1>5, <2>1 DEF ParsesTo
    <2>3. line.kind \in {"group", "item", "comment"} /\ s.ok \in BOOLEAN
        BY <2>2, LineFacts DEF ConfigStates
    <2>4. CASE ~s.ok
        <3>1. d = s
            BY <2>2, <2>4, OtherLine
        <3> QED
            BY <2>1, <2>2, <2>4, <3>1 DEF TextHolds
    <2>5. CASE s.ok
        <3>1. PICK P : ParsedTo(s, i - 1, P)
            BY <2>2, <2>5 DEF TextHolds
        <3>2. CASE line.kind = "comment"
            <4>1. d = s /\ ~IsGroup(i) /\ ~IsItem(i)
                BY <2>2, <3>2, OtherLine DEF IsGroup, IsItem
            <4>2. ParsedTo(s, i, P)
                BY <2>1, <2>2, <3>1, <4>1, CommentParsed
            <4> QED
                BY <2>1, <2>2, <2>5, <4>1, <4>2 DEF TextHolds
        <3>3. CASE line.kind = "group"
            <4>1. IsGroup(i) /\ PathsTo(i) \subseteq SectionPaths
                BY <2>1, <3>3, PathsGrow DEF IsGroup
            <4>2. (~line.blank => d.ok) /\ (d.ok => \E Q : ParsedTo(d, i, Q))
                BY <1>2, <2>1, <2>2, <2>5, <3>1, <4>1, GroupParsed
            <4>3. TextHolds(i, d)
                BY <2>1, <4>1, <4>2 DEF TextHolds
            <4> QED
                BY <2>1, <2>2, <4>3
        <3>4. CASE line.kind = "item"
            <4>1. IsItem(i)
                BY <3>4 DEF IsItem
            <4>2. (~d.ok => Repeats) /\ (d.ok => ParsedTo(d, i, P))
                BY <2>1, <2>2, <2>5, <3>1, <4>1, ItemParsed
            <4>3. TextHolds(i, d)
                BY <4>2 DEF TextHolds
            <4> QED
                BY <2>1, <2>2, <4>3
        <3> QED
            BY <2>3, <3>2, <3>3, <3>4
    <2> QED
        BY <2>3, <2>4, <2>5
<1>6. n \in T
    <2> HIDE DEF T
    <2>1. 0 .. n \subseteq T
        BY <1>3, <1>4, <1>5, LineSteps!FromZero
    <2>2. n \in 0 .. n
        BY <1>3
    <2> QED
        BY <2>1, <2>2
<1> QED
    BY <1>1, <1>3, <1>6

--------------------------------------------------------------------------------
(* What is looked up                                                        *)

\* The group of a path, if there is one.
FoundAt(g, tree, S, P, path) ==
    IF path \in S THEN g \in 0 .. Len(tree) /\ P[g] = path ELSE g = NoGroup

LEMMA FindChildIs ==
    ASSUME NEW S, NEW tree \in Trees, NEW P, NamedBy(P, tree, S), NEW g \in 0 .. Len(tree), NEW name \in STRING
    PROVE  FoundAt(FindChild(tree, g, name), tree, S, P, Below(P[g], name))
<1> PICK path : path = Below(P[g], name)
    OBVIOUS
<1> DEFINE hits == {j \in Children(tree, g) : tree[j].name = name}
<1>1. Len(tree) \in Nat /\ g # NoGroup
    BY TreeFacts DEF NoGroup
<1>2. \A j \in 0 .. Len(tree) : P[j] = path <=> j \in hits
    BY ChildIs
<1>3. hits \in SUBSET Nat /\ hits \subseteq 0 .. Len(tree)
    BY <1>1 DEF Children
<1>4. FindChild(tree, g, name) = IF hits = {} THEN NoGroup ELSE FirstOf(hits)
    BY <1>1 DEF FindChild
<1> HIDE DEF hits
<1>5. CASE hits = {}
    <2>1. path \notin S
        BY <1>2, <1>5 DEF NamedBy
    <2> QED
        BY <1>4, <1>5, <2>1 DEF FoundAt
<1>6. CASE hits # {}
    <2>1. FirstOf(hits) \in hits
        BY <1>3, <1>6, FirstIs
    <2>2. FirstOf(hits) \in 0 .. Len(tree) /\ P[FirstOf(hits)] = path
        BY <1>2, <1>3, <2>1
    <2>3. path \in S
        BY <2>2 DEF NamedBy
    <2> QED
        BY <1>4, <1>6, <2>2, <2>3 DEF FoundAt
<1> QED
    BY <1>5, <1>6

\* A path is there with the paths above it.
LEMMA AboveIn ==
    ASSUME NEW S, NEW tree \in Trees, NEW P, NamedBy(P, tree, S),
           NEW p \in GroupPaths, NEW x \in STRING, Below(p, x) \in S
    PROVE  p \in S
<1>1. PICK j \in 0 .. Len(tree) : P[j] = Below(p, x)
    BY DEF NamedBy
<1>2. Len(tree) \in Nat
    BY TreeFacts
<1>3. j # 0
    <2>1. Below(p, x) # <<>>
        BY BelowIs
    <2> QED
        BY <1>1, <2>1 DEF NamedBy
<1>4. j \in 1 .. Len(tree)
    BY <1>2, <1>3
<1> PICK k, y : k = tree[j].parent /\ y = tree[j].name
    OBVIOUS
<1>5. k \in 0 .. Len(tree) /\ y \in STRING /\ P[j] = Below(P[k], y) /\ P[k] \in GroupPaths
    BY <1>4, GroupIs
<1>6. P[k] = p
    <2>1. Below(P[k], y) = Below(p, x)
        BY <1>1, <1>5
    <2> QED
        <3>1. \A q \in GroupPaths, u, v \in STRING : Below(q, u) = Below(p, v) => q = p
            BY AppendSame
        <3> QED
            BY <1>5, <2>1, <3>1
<1> QED
    BY <1>5, <1>6 DEF NamedBy

LEMMA FindGroupIs ==
    ASSUME NEW S, NEW tree \in Trees, NEW P, NamedBy(P, tree, S), NEW path \in GroupPaths
    PROVE  FoundAt(FindGroup(tree, path), tree, S, P, path)
<1> DEFINE A == {NoGroup} \cup 0 .. Len(tree)
           n == Len(path)
           T(F) == {i \in 0 .. n : FoundAt(F[i], tree, S, P, SubSeq(path, 1, i))}
<1>1. n \in Nat /\ Len(tree) \in Nat /\ path \in Seq(STRING)
    BY TreeFacts, PathFacts DEF GroupPaths
<1>2. FindSteps!Keeps(tree, A, STRING) /\ Root \in A
    <2>1. Root \in A
        BY <1>1 DEF Root
    <2> SUFFICES ASSUME NEW g \in A, NEW x \in STRING PROVE FindChild(tree, g, x) \in A
        BY <2>1 DEF FindSteps!Keeps
    <2>2. CASE g = NoGroup
        BY <2>2 DEF FindChild
    <2>3. CASE g \in 0 .. Len(tree)
        <3>1. FoundAt(FindChild(tree, g, x), tree, S, P, Below(P[g], x))
            BY <2>3, FindChildIs
        <3> QED
            BY <3>1 DEF FoundAt
    <2> QED
        BY <2>2, <2>3
<1>3. FindGroup(tree, path) = FindSteps!Fold(tree, Root, path)
    BY DEF FindGroup, FindSteps!Fold, FindSteps!FoldLeft, FindSteps!MapThenFoldSet,
           FindSteps!Max, FoldLeft, MapThenFoldSet, Max
<1> HIDE DEF A
<1>4. PICK F \in [0 .. n -> A] :
        FindSteps!Steps(F, tree, Root, path) /\ FindSteps!Fold(tree, Root, path) = F[n]
    BY <1>1, <1>2, FindSteps!Partial
<1>5. 0 \in T(F)
    <2>1. F[0] = 0 /\ SubSeq(path, 1, 0) = <<>> /\ 0 \in 0 .. n /\ 0 \in 0 .. Len(tree)
        BY <1>1, <1>4, PrefixFacts DEF FindSteps!Steps, Root
    <2>2. P[0] = <<>> /\ <<>> \in S
        BY <2>1 DEF NamedBy
    <2>3. FoundAt(F[0], tree, S, P, SubSeq(path, 1, 0))
        BY <2>1, <2>2 DEF FoundAt
    <2> QED
        BY <2>1, <2>3
<1>6. ASSUME NEW i \in 1 .. n, i - 1 \in T(F) PROVE i \in T(F)
    <2> PICK pre, name, g : pre = SubSeq(path, 1, i - 1) /\ name = path[i] /\ g = F[i - 1]
        OBVIOUS
    <2>1. i \in 0 .. n /\ i - 1 \in 0 .. n
        BY <1>1
    <2>2. F[i] = FindChild(tree, g, name) /\ FoundAt(g, tree, S, P, pre)
        BY <1>4, <1>6 DEF FindSteps!Steps
    <2>3. pre \in GroupPaths /\ name \in STRING /\ SubSeq(path, 1, i) = Below(pre, name)
        <3>1. name \in STRING
            BY PathFacts
        <3>2. pre \in GroupPaths /\ SubSeq(path, 1, i) = Below(pre, name)
            BY <2>1, PrefixFacts
        <3> QED
            BY <3>1, <3>2
    <2>4. FoundAt(FindChild(tree, g, name), tree, S, P, Below(pre, name))
        <3>1. CASE pre \in S
            <4>1. g \in 0 .. Len(tree) /\ P[g] = pre
                BY <2>2, <3>1 DEF FoundAt
            <4>2. FoundAt(FindChild(tree, g, name), tree, S, P, Below(P[g], name))
                BY <2>3, <4>1, FindChildIs
            <4> QED
                BY <4>1, <4>2
        <3>2. CASE pre \notin S
            <4>1. g = NoGroup
                BY <2>2, <3>2 DEF FoundAt
            <4>2. FindChild(tree, g, name) = NoGroup
                BY <4>1 DEF FindChild
            <4>3. Below(pre, name) \notin S
                BY <2>3, <3>2, AboveIn
            <4> QED
                BY <4>2, <4>3 DEF FoundAt
        <3> QED
            BY <3>1, <3>2
    <2> QED
        BY <2>1, <2>2, <2>3, <2>4
<1> HIDE DEF T
<1>7. n \in T(F)
    <2>1. 0 .. n \subseteq T(F)
        BY <1>1, <1>5, <1>6, FindSteps!FromZero
    <2>2. n \in 0 .. n
        BY <1>1
    <2> QED
        BY <2>1, <2>2
<1>8. SubSeq(path, 1, n) = path
    BY PrefixFacts
<1> QED
    BY <1>3, <1>4, <1>7, <1>8 DEF T

\* What is found under a key is what the one line says, if there is one.
FindsSaid(found, path, key) ==
    \/ Says(path, key) = {} /\ found = NotFound
    \/ found \in ConfigValues /\ Says(path, key) = {found}

LEMMA FindItemIs ==
    ASSUME configText \in Seq(Lines), NEW s \in ConfigStates, NEW P, ParsedTo(s, Len(configText), P),
           NEW g \in 0 .. Len(s.tree), NEW key
    PROVE  FindsSaid(FindItemInGroup(s, g, key), P[g], key)
<1> DEFINE hits == {i \in 1 .. Len(s.items) : s.items[i].group = g /\ s.items[i].key = key}
           said == {j \in ItemLines : Section(j) = P[g] /\ configText[j].key = key}
<1>1. FindItemInGroup(s, g, key) = IF hits = {} THEN NotFound ELSE s.items[FirstOf(hits)].value
    BY DEF FindItemInGroup
<1>2. Says(P[g], key) = {configText[j].value : j \in said}
    BY DEF Says
<1>3. \A j \in said : j \in 1 .. Len(configText) /\ IsItem(j)
    BY DEF ItemLines, IsItem
<1>4. \A j, k \in said : j = k
    BY <1>3 DEF ParsedTo, SameItem
<1>5. \A k \in hits : \E j \in said : s.items[k].value = configText[j].value
    <2> SUFFICES ASSUME NEW k \in hits PROVE \E j \in said : s.items[k].value = configText[j].value
        OBVIOUS
    <2>1. PICK j \in 1 .. Len(configText) : ComesFrom(s, P, k, j)
        BY DEF ParsedTo
    <2>2. j \in said /\ s.items[k].value = configText[j].value
        BY <2>1 DEF ComesFrom, ItemLines, IsItem
    <2> QED
        BY <2>2
<1>6. \A j \in said : \E k \in 1 .. Len(s.items) : k \in hits
    <2> SUFFICES ASSUME NEW j \in said PROVE \E k \in 1 .. Len(s.items) : k \in hits
        OBVIOUS
    <2>1. PICK k \in 1 .. Len(s.items) : ComesFrom(s, P, k, j)
        BY <1>3 DEF ParsedTo
    <2>2. s.items[k].key = key /\ P[s.items[k].group] = P[g] /\ s.items[k].group \in 0 .. Len(s.tree)
        BY <2>1 DEF ComesFrom
    <2>3. s.items[k].group = g
        BY <2>2 DEF ParsedTo, NamedBy
    <2> QED
        BY <2>2, <2>3
<1>7. hits \in SUBSET Nat /\ \A k \in hits : s.items[k].value \in ConfigValues
    <2>1. s.items \in ConfigItems
        BY DEF ConfigStates
    <2> QED
        BY <2>1, ItemFacts
<1> HIDE DEF hits, said
<1>8. CASE hits = {}
    BY <1>1, <1>2, <1>6, <1>8 DEF FindsSaid
<1>9. CASE hits # {}
    <2>1. FirstOf(hits) \in hits
        BY <1>7, <1>9, FirstIs
    <2>2. PICK j \in said : s.items[FirstOf(hits)].value = configText[j].value
        BY <1>5, <2>1
    <2>3. said = {j}
        BY <1>4
    <2>4. Says(P[g], key) = {configText[j].value}
        BY <1>2, <2>3
    <2> QED
        BY <1>1, <1>7, <1>9, <2>1, <2>2, <2>4 DEF FindsSaid
<1> QED
    BY <1>8, <1>9

LEMMA SaidIs ==
    ASSUME NEW found, NEW path, NEW key, FindsSaid(found, path, key), NEW otherwise
    PROVE  Said(path, key, otherwise) = IF Says(path, key) = {} THEN otherwise ELSE found
<1>1. CASE Says(path, key) = {}
    BY <1>1 DEF Said
<1>2. CASE Says(path, key) # {}
    <2>1. Says(path, key) = {found}
        BY <1>2 DEF FindsSaid
    <2>2. (CHOOSE v \in {found} : TRUE) = found
        OBVIOUS
    <2> QED
        BY <1>2, <2>1, <2>2 DEF Said
<1> QED
    BY <1>1, <1>2

--------------------------------------------------------------------------------
(* The modules                                                              *)

Modules == [level : Nat, recorders : Seq(Nat)]
ModuleOf(p, mask) ==
    [level |-> Said(p, "level", [n |-> mask]).n, recorders |-> Said(p, "recorder", [list |-> <<>>]).list]

LEMMA ConfigValueFacts ==
    ASSUME NEW v \in ConfigValues
    PROVE  /\ v.type \in {"UINT", "BOOL", "ARRAY", "INT", "FLOAT", "CHAR", "STRING", "MIXED"}
           /\ v.type = "UINT" => v.n \in Nat
           /\ v.type = "ARRAY" => v.list \in Seq(Nat)
<1> DEFINE Lists == Seq(Nat)
<1> HIDE DEF Lists
<1>1. ConfigValues = [type : {"UINT"}, n : Nat] \cup [type : {"BOOL"}, flag : BOOLEAN]
                     \cup [type : {"ARRAY"}, list : Lists] \cup [type : {"INT", "FLOAT", "CHAR", "STRING", "MIXED"}]
    BY DEF ConfigValues, Lists
<1>2. CASE v \in [type : {"UINT"}, n : Nat]
    BY <1>2
<1>3. CASE v \in [type : {"BOOL"}, flag : BOOLEAN]
    BY <1>3
<1>4. CASE v \in [type : {"ARRAY"}, list : Lists]
    BY <1>4 DEF Lists
<1>5. CASE v \in [type : {"INT", "FLOAT", "CHAR", "STRING", "MIXED"}]
    BY <1>5
<1> QED
    BY <1>1, <1>2, <1>3, <1>4, <1>5

\* The three items of a module: what the code finds, against what the text says.
LEMMA EnabledIs ==
    ASSUME NEW found, NEW p, FindsSaid(found, p, "enabled")
    PROVE  Said(p, "enabled", NotFound) = found
BY SaidIs DEF FindsSaid

LEMMA LevelIs ==
    ASSUME NEW found, NEW p, FindsSaid(found, p, "level"), NEW mask \in 0 .. CLOG_LEVEL_ALL,
           NEW chosen, chosen = IF found.type = "UINT" THEN found.n ELSE mask
    PROVE  LET level == Said(p, "level", [type |-> "UINT", n |-> 0]) IN
           /\ (found.type \notin {"NOT_FOUND", "UINT"} \/ chosen > CLOG_LEVEL_ALL)
                <=> ~(level.type = "UINT" /\ level.n <= CLOG_LEVEL_ALL)
           /\ level.type = "UINT" => chosen \in Nat /\ Said(p, "level", [n |-> mask]).n = chosen
<1> PICK level : level = Said(p, "level", [type |-> "UINT", n |-> 0])
    OBVIOUS
<1>1. CLOG_LEVEL_ALL = 63 /\ mask \in Nat /\ mask <= 63
    BY DEF CLOG_LEVEL_ALL
<1>2. CASE Says(p, "level") = {} /\ found = NotFound
    <2>1. level = [type |-> "UINT", n |-> 0] /\ Said(p, "level", [n |-> mask]) = [n |-> mask]
        BY <1>2 DEF Said
    <2>2. found.type = "NOT_FOUND"
        BY <1>2 DEF NotFound
    <2>3. chosen = mask
        BY <2>2
    <2> QED
        BY <1>1, <2>1, <2>2, <2>3
<1>3. CASE found \in ConfigValues /\ Says(p, "level") = {found}
    <2>1. level = found /\ Said(p, "level", [n |-> mask]) = found
        BY <1>3, SaidIs
    <2>2. /\ found.type # "NOT_FOUND"
          /\ found.type = "UINT" => found.n \in Nat
        BY <1>3, ConfigValueFacts
    <2>3. CASE found.type = "UINT"
        <3>1. chosen = found.n
            BY <2>3
        <3> QED
            BY <1>1, <2>1, <2>2, <2>3, <3>1
    <2>4. CASE found.type # "UINT"
        BY <2>1, <2>2, <2>4
    <2> QED
        BY <2>3, <2>4
<1> QED
    BY <1>2, <1>3 DEF FindsSaid

LEMMA RecordersAre ==
    ASSUME NEW found, NEW p, FindsSaid(found, p, "recorder"),
           NEW ids, ids = IF found.type = "ARRAY" THEN found.list ELSE <<>>
    PROVE  /\ found.type \notin {"NOT_FOUND", "ARRAY"} <=> RecordersSaid(p).type # "ARRAY"
           /\ RecordersSaid(p).type = "ARRAY" =>
                ids \in Seq(Nat) /\ RecordersSaid(p).list = ids /\ Said(p, "recorder", [list |-> <<>>]).list = ids
<1> PICK recorders : recorders = RecordersSaid(p)
    OBVIOUS
<1>2. CASE Says(p, "recorder") = {} /\ found = NotFound
    <2>1. recorders = [type |-> "ARRAY", list |-> <<>>] /\ Said(p, "recorder", [list |-> <<>>]) = [list |-> <<>>]
        BY <1>2 DEF Said, RecordersSaid
    <2>2. found.type = "NOT_FOUND"
        BY <1>2 DEF NotFound
    <2>3. ids = <<>>
        BY <2>2
    <2>4. <<>> \in Seq(Nat)
        OBVIOUS
    <2> QED
        BY <2>1, <2>2, <2>3, <2>4
<1>3. CASE found \in ConfigValues /\ Says(p, "recorder") = {found}
    <2>1. recorders = found /\ Said(p, "recorder", [list |-> <<>>]) = found
        BY <1>3, SaidIs DEF RecordersSaid
    <2>2. /\ found.type # "NOT_FOUND"
          /\ found.type = "ARRAY" => found.list \in Seq(Nat)
        BY <1>3, ConfigValueFacts
    <2>3. CASE found.type = "ARRAY"
        <3>1. ids = found.list
            BY <2>3
        <3> QED
            BY <2>1, <2>2, <2>3, <3>1
    <2>4. CASE found.type # "ARRAY"
        BY <2>1, <2>2, <2>4
    <2> QED
        BY <2>3, <2>4
<1> QED
    BY <1>2, <1>3 DEF FindsSaid

\* What becomes of a module, against what its section says.
ModuleAs(m, p, mask) ==
    /\ m.res \in {"SKIP", "ERROR", "UNDEFINED", "SUCCESS"}
    /\ m.res \in {"ERROR", "UNDEFINED"} <=> ~WellTyped(p)
    /\ m.res = "UNDEFINED" => Overlong(p)
    /\ m.res = "SKIP" <=> Off(p)
    /\ m.res = "SUCCESS" => m.module = ModuleOf(p, mask) /\ m.module \in Modules

LEMMA ModuleIs ==
    ASSUME configText \in Seq(Lines), NEW s \in ConfigStates, NEW P, ParsedTo(s, Len(configText), P),
           NEW g \in 0 .. Len(s.tree), NEW mask \in 0 .. CLOG_LEVEL_ALL
    PROVE  ModuleAs(InitProcessModule(s, g, mask), P[g], mask)
<1> PICK p, m : p = P[g] /\ m = InitProcessModule(s, g, mask)
    OBVIOUS
<1> PICK e, l, r : e = Enabled(s, g) /\ l = FindItemInGroup(s, g, "level") /\ r = FindItemInGroup(s, g, "recorder")
    OBVIOUS
<1> PICK chosen, ids : /\ chosen = IF l.type = "UINT" THEN l.n ELSE mask
                       /\ ids = IF r.type = "ARRAY" THEN r.list ELSE <<>>
    OBVIOUS
<1>1. FindsSaid(e, p, "enabled") /\ FindsSaid(l, p, "level") /\ FindsSaid(r, p, "recorder")
    BY FindItemIs DEF Enabled
<1> DEFINE E1 == e.type \notin {"NOT_FOUND", "BOOL"}
           E2 == l.type \notin {"NOT_FOUND", "UINT"} \/ chosen > CLOG_LEVEL_ALL
           E3 == r.type \notin {"NOT_FOUND", "ARRAY"}
           long == Len(ids) > MaxRecorders
           off == e = [type |-> "BOOL", flag |-> FALSE]
<1>2. m = IF off THEN [res |-> "SKIP"]
          ELSE IF E1 \/ E2 \/ E3 THEN [res |-> "ERROR"]
          ELSE IF long THEN [res |-> "UNDEFINED"]
          ELSE [res |-> "SUCCESS", module |-> [level |-> chosen, recorders |-> ids]]
    BY DEF InitProcessModule
<1> DEFINE L == Said(p, "level", [type |-> "UINT", n |-> 0])
           L1 == L.type = "UINT" /\ L.n <= CLOG_LEVEL_ALL
           R1 == RecordersSaid(p).type = "ARRAY"
<1>3. Said(p, "enabled", NotFound) = e
    BY <1>1, EnabledIs
<1>4. (E2 <=> ~L1) /\ (L1 => chosen \in Nat /\ Said(p, "level", [n |-> mask]).n = chosen)
    BY <1>1, LevelIs
<1>5. /\ E3 <=> ~R1
      /\ R1 => /\ ids \in Seq(Nat) /\ RecordersSaid(p).list = ids
               /\ Said(p, "recorder", [list |-> <<>>]).list = ids
    BY <1>1, RecordersAre
<1>6. Off(p) <=> off
    BY <1>3 DEF Off
<1>7. WellTyped(p) <=> ~E1 /\ (off \/ (L1 /\ R1 /\ ~Overlong(p)))
    BY <1>3, <1>6 DEF WellTyped
<1>12. Overlong(p) <=> ~off /\ R1 /\ long
    BY <1>5, <1>6 DEF Overlong
<1>8. off => ~E1
    OBVIOUS
<1> HIDE DEF E1, E2, E3, off, L1, R1, long
<1>9. CASE off
    BY <1>2, <1>6, <1>7, <1>8, <1>9 DEF ModuleAs
<1>10. CASE ~off /\ (E1 \/ E2 \/ E3)
    BY <1>2, <1>4, <1>5, <1>6, <1>7, <1>10 DEF ModuleAs
<1>13. CASE ~off /\ ~(E1 \/ E2 \/ E3) /\ long
    <2>1. m.res = "UNDEFINED"
        BY <1>2, <1>13
    <2>2. Overlong(p) /\ ~WellTyped(p) /\ ~Off(p)
        BY <1>5, <1>6, <1>7, <1>12, <1>13
    <2> QED
        BY <2>1, <2>2 DEF ModuleAs
<1>11. CASE ~off /\ ~(E1 \/ E2 \/ E3) /\ ~long
    <2> PICK module : module = [level |-> chosen, recorders |-> ids]
        OBVIOUS
    <2>1. m.res = "SUCCESS" /\ m.module = module
        BY <1>2, <1>11
    <2>2. module = ModuleOf(p, mask) /\ module \in Modules
        BY <1>4, <1>5, <1>11 DEF ModuleOf, Modules
    <2>3. WellTyped(p) /\ ~Off(p)
        BY <1>4, <1>5, <1>6, <1>7, <1>11, <1>12
    <2> QED
        BY <2>1, <2>2, <2>3 DEF ModuleAs
<1> QED
    BY <1>9, <1>10, <1>11, <1>13

ModuleMaps == UNION {[D -> Modules] : D \in SUBSET STRING}
Loads == [res : {"SUCCESS", "ERROR", "UNDEFINED"}, modules : ModuleMaps]

\* What a child that is put in does to the modules before.
LEMMA PutIs ==
    ASSUME NEW c, NEW r \in Loads, NEW g, NEW m, m = InitProcessModule(c.config, g, c.mask),
           NEW name \in STRING, name = c.config.tree[g].name,
           m.res \in {"SKIP", "ERROR", "UNDEFINED", "SUCCESS"}, m.res = "SUCCESS" => m.module \in Modules
    PROVE  LET d == PutModule(c, r, g) IN
           /\ d \in Loads
           /\ c.config.tree[g].parent # c.group \/ r.res # "SUCCESS" \/ m.res = "SKIP" => d = r
           /\ c.config.tree[g].parent = c.group /\ r.res = "SUCCESS" /\ m.res \in {"ERROR", "UNDEFINED"} =>
                d.res = m.res
           /\ c.config.tree[g].parent = c.group /\ r.res = "SUCCESS" /\ m.res = "SUCCESS" =>
                /\ d.res = "SUCCESS" /\ DOMAIN d.modules = DOMAIN r.modules \cup {name}
                /\ d.modules[name] = m.module
                /\ \A x \in DOMAIN r.modules : x # name => d.modules[x] = r.modules[x]
<1> PICK d : d = PutModule(c, r, g)
    OBVIOUS
<1> PICK old, D : old = r.modules /\ D = DOMAIN old
    OBVIOUS
<1>1. D \in SUBSET STRING /\ old \in [D -> Modules] /\ r.res \in {"SUCCESS", "ERROR", "UNDEFINED"}
    BY DEF Loads, ModuleMaps
<1>2. CASE c.config.tree[g].parent # c.group \/ r.res # "SUCCESS" \/ m.res = "SKIP"
    <2>1. d = r
        BY <1>2 DEF PutModule
    <2> QED
        BY <1>1, <1>2, <2>1
<1>3. CASE c.config.tree[g].parent = c.group /\ r.res = "SUCCESS" /\ m.res \in {"ERROR", "UNDEFINED"}
    <2>1. d = [r EXCEPT !.res = m.res]
        BY <1>3 DEF PutModule
    <2> QED
        BY <1>3, <2>1 DEF Loads
<1>4. CASE c.config.tree[g].parent = c.group /\ r.res = "SUCCESS" /\ m.res = "SUCCESS"
    <2> DEFINE new == [n \in D \cup {name} |-> IF n = name THEN m.module ELSE old[n]]
    <2>1. d = [r EXCEPT !.modules = new]
        BY <1>4 DEF PutModule
    <2>2. new \in [D \cup {name} -> Modules] /\ D \cup {name} \in SUBSET STRING
        BY <1>1, <1>4
    <2>3. DOMAIN new = D \cup {name} /\ new[name] = m.module /\ \A x \in D : x # name => new[x] = old[x]
        OBVIOUS
    <2> HIDE DEF new
    <2>4. new \in ModuleMaps
        BY <2>2 DEF ModuleMaps
    <2>5. d \in Loads /\ d.modules = new /\ d.res = "SUCCESS"
        BY <1>4, <2>1, <2>4 DEF Loads
    <2> QED
        BY <1>4, <2>3, <2>5
<1> QED
    BY <1>1, <1>2, <1>3, <1>4

\* A child that is not switched off, and the modules of the first children.
SwitchedOn(s, P, group, j) == s.tree[j].parent = group /\ ~Off(P[j])
Holds(r, i, s, P, group, mask) ==
    /\ r.res = "SUCCESS" <=> \A j \in 1 .. i : s.tree[j].parent = group => WellTyped(P[j])
    /\ r.res = "UNDEFINED" => \E j \in 1 .. i : s.tree[j].parent = group /\ Overlong(P[j])
    /\ r.res = "SUCCESS" =>
         /\ \A x \in DOMAIN r.modules : \E j \in 1 .. i : SwitchedOn(s, P, group, j) /\ s.tree[j].name = x
         /\ \A j \in 1 .. i : SwitchedOn(s, P, group, j) =>
              s.tree[j].name \in DOMAIN r.modules /\ r.modules[s.tree[j].name] = ModuleOf(P[j], mask)

LEMMA SiblingsDiffer ==
    ASSUME NEW S, NEW tree \in Trees, NEW P, NamedBy(P, tree, S), NEW i \in 1 .. Len(tree), NEW j \in 1 .. Len(tree),
           tree[i].parent = tree[j].parent, tree[i].name = tree[j].name
    PROVE  i = j
<1>1. P[i] = Below(P[tree[i].parent], tree[i].name) /\ i \in 0 .. Len(tree)
    BY GroupIs
<1>2. P[j] = Below(P[tree[j].parent], tree[j].name) /\ j \in 0 .. Len(tree)
    BY GroupIs
<1> QED
    BY <1>1, <1>2 DEF NamedBy

LEMMA PutHoldsOn ==
    ASSUME configText \in Seq(Lines), NEW s \in ConfigStates, NEW P, ParsedTo(s, Len(configText), P),
           NEW group, NEW mask \in 0 .. CLOG_LEVEL_ALL,
           NEW i \in 1 .. Len(s.tree), NEW r \in Loads, Holds(r, i - 1, s, P, group, mask),
           NEW c, c = [config |-> s, group |-> group, mask |-> mask]
    PROVE  PutModule(c, r, i) \in Loads /\ Holds(PutModule(c, r, i), i, s, P, group, mask)
<1> PICK m, d, name : m = InitProcessModule(s, i, mask) /\ d = PutModule(c, r, i) /\ name = s.tree[i].name
    OBVIOUS
<1> DEFINE mine == s.tree[i].parent = group
<1>1. s.tree \in Trees /\ Len(s.tree) \in Nat /\ NamedBy(P, s.tree, PathsTo(Len(configText)))
    BY TreeFacts DEF ConfigStates, ParsedTo
<1>2. name \in STRING /\ i \in 0 .. Len(s.tree)
    BY <1>1, TreeFacts
<1>3. /\ m.res \in {"SKIP", "ERROR", "UNDEFINED", "SUCCESS"}
      /\ m.res \in {"ERROR", "UNDEFINED"} <=> ~WellTyped(P[i])
      /\ m.res = "UNDEFINED" => Overlong(P[i])
      /\ m.res = "SKIP" <=> Off(P[i])
      /\ m.res = "SUCCESS" => m.module = ModuleOf(P[i], mask) /\ m.module \in Modules
    BY <1>2, ModuleIs DEF ModuleAs
<1>4. c.config = s /\ c.group = group /\ c.mask = mask
    OBVIOUS
<1>5. /\ d \in Loads
      /\ ~mine \/ r.res # "SUCCESS" \/ m.res = "SKIP" => d = r
      /\ mine /\ r.res = "SUCCESS" /\ m.res \in {"ERROR", "UNDEFINED"} => d.res = m.res
      /\ mine /\ r.res = "SUCCESS" /\ m.res = "SUCCESS" =>
           /\ d.res = "SUCCESS" /\ DOMAIN d.modules = DOMAIN r.modules \cup {name}
           /\ d.modules[name] = m.module
           /\ \A x \in DOMAIN r.modules : x # name => d.modules[x] = r.modules[x]
    BY <1>2, <1>3, <1>4, PutIs
<1>6. /\ \A j \in 1 .. i : j = i \/ j \in 1 .. i - 1
      /\ i \in 1 .. i /\ \A j \in 1 .. i - 1 : j \in 1 .. i /\ j # i /\ j \in 1 .. Len(s.tree)
    BY <1>1
<1>7. r.res \in {"SUCCESS", "ERROR", "UNDEFINED"}
    BY DEF Loads
<1> HIDE DEF mine
<1>8. CASE ~mine
    <2>1. d = r /\ ~(s.tree[i].parent = group) /\ ~SwitchedOn(s, P, group, i)
        BY <1>5, <1>8 DEF mine, SwitchedOn
    <2>2. (\A j \in 1 .. i : s.tree[j].parent = group => WellTyped(P[j]))
            <=> \A j \in 1 .. i - 1 : s.tree[j].parent = group => WellTyped(P[j])
        BY <1>6, <2>1
    <2>3. \A j \in 1 .. i : SwitchedOn(s, P, group, j) => j \in 1 .. i - 1
        BY <1>6, <2>1
    <2> QED
        BY <1>5, <1>6, <2>1, <2>2, <2>3 DEF Holds
<1>9. CASE mine /\ r.res # "SUCCESS"
    <2>1. d = r
        BY <1>5, <1>9
    <2> QED
        BY <1>5, <1>6, <1>9, <2>1 DEF Holds
<1>10. CASE mine /\ r.res = "SUCCESS" /\ m.res \in {"ERROR", "UNDEFINED"}
    <2>1. d.res = m.res /\ ~WellTyped(P[i]) /\ s.tree[i].parent = group
        BY <1>3, <1>5, <1>10 DEF mine
    <2>2. d.res # "SUCCESS" /\ (d.res = "UNDEFINED" => Overlong(P[i]))
        BY <1>3, <1>10, <2>1
    <2> QED
        BY <1>5, <1>6, <2>1, <2>2 DEF Holds
<1>11. CASE mine /\ r.res = "SUCCESS" /\ m.res = "SKIP"
    <2>1. d = r /\ WellTyped(P[i]) /\ Off(P[i])
        BY <1>3, <1>5, <1>11
    <2>2. ~SwitchedOn(s, P, group, i)
        BY <2>1 DEF SwitchedOn
    <2>3. \A j \in 1 .. i : SwitchedOn(s, P, group, j) => j \in 1 .. i - 1
        BY <1>6, <2>2
    <2>4. (\A j \in 1 .. i : s.tree[j].parent = group => WellTyped(P[j]))
            <=> \A j \in 1 .. i - 1 : s.tree[j].parent = group => WellTyped(P[j])
        BY <1>6, <2>1
    <2> QED
        BY <1>6, <1>11, <2>1, <2>3, <2>4 DEF Holds
<1>12. CASE mine /\ r.res = "SUCCESS" /\ m.res = "SUCCESS"
    <2>1. /\ d.res = "SUCCESS" /\ DOMAIN d.modules = DOMAIN r.modules \cup {name}
          /\ d.modules[name] = ModuleOf(P[i], mask)
          /\ \A x \in DOMAIN r.modules : x # name => d.modules[x] = r.modules[x]
        BY <1>3, <1>5, <1>12
    <2>2. WellTyped(P[i]) /\ SwitchedOn(s, P, group, i)
        BY <1>3, <1>12 DEF SwitchedOn, mine
    <2>3. \A j \in 1 .. i : s.tree[j].parent = group => WellTyped(P[j])
        BY <1>6, <1>12, <2>2 DEF Holds
    <2>4. \A j \in 1 .. i - 1 : SwitchedOn(s, P, group, j) => s.tree[j].name # name
        <3> SUFFICES ASSUME NEW j \in 1 .. i - 1, SwitchedOn(s, P, group, j), s.tree[j].name = name
                     PROVE  FALSE
            OBVIOUS
        <3>1. s.tree[j].parent = s.tree[i].parent /\ s.tree[j].name = s.tree[i].name
            BY <2>2 DEF SwitchedOn
        <3>2. j \in 1 .. Len(s.tree) /\ j # i
            BY <1>6
        <3>3. i = j
            BY <1>1, <3>1, <3>2, SiblingsDiffer
        <3> QED
            BY <3>2, <3>3
    <2>5. \A x \in DOMAIN d.modules : \E j \in 1 .. i : SwitchedOn(s, P, group, j) /\ s.tree[j].name = x
        <3> SUFFICES ASSUME NEW x \in DOMAIN d.modules
                     PROVE  \E j \in 1 .. i : SwitchedOn(s, P, group, j) /\ s.tree[j].name = x
            OBVIOUS
        <3>1. CASE x = name
            BY <1>6, <2>2, <3>1
        <3>2. CASE x \in DOMAIN r.modules
            <4>1. PICK j \in 1 .. i - 1 : SwitchedOn(s, P, group, j) /\ s.tree[j].name = x
                BY <1>12, <3>2 DEF Holds
            <4> QED
                BY <1>6, <4>1
        <3> QED
            BY <2>1, <3>1, <3>2
    <2>6. \A j \in 1 .. i : SwitchedOn(s, P, group, j) =>
            s.tree[j].name \in DOMAIN d.modules /\ d.modules[s.tree[j].name] = ModuleOf(P[j], mask)
        <3> SUFFICES ASSUME NEW j \in 1 .. i, SwitchedOn(s, P, group, j)
                     PROVE  s.tree[j].name \in DOMAIN d.modules /\ d.modules[s.tree[j].name] = ModuleOf(P[j], mask)
            OBVIOUS
        <3>1. CASE j = i
            BY <2>1, <3>1
        <3>2. CASE j \in 1 .. i - 1
            <4>1. s.tree[j].name \in DOMAIN r.modules /\ r.modules[s.tree[j].name] = ModuleOf(P[j], mask)
                BY <1>12, <3>2 DEF Holds
            <4>2. s.tree[j].name # name
                BY <2>4, <3>2
            <4> QED
                BY <2>1, <4>1, <4>2
        <3> QED
            BY <1>6, <3>1, <3>2
    <2> QED
        BY <1>5, <2>1, <2>3, <2>5, <2>6 DEF Holds
<1> QED
    BY <1>3, <1>7, <1>8, <1>9, <1>10, <1>11, <1>12

LEMMA ChildrenHeld ==
    ASSUME configText \in Seq(Lines), NEW s \in ConfigStates, NEW P, ParsedTo(s, Len(configText), P),
           NEW group, group # NoGroup, group = FindGroup(s.tree, <<"Process", Process>>),
           NEW mask \in 0 .. CLOG_LEVEL_ALL
    PROVE  InitModules(s, mask) \in Loads /\ Holds(InitModules(s, mask), Len(s.tree), s, P, group, mask)
<1> DEFINE n == Len(s.tree)
           c == [config |-> s, group |-> group, mask |-> mask]
           r0 == [res |-> "SUCCESS", modules |-> NoModules]
           places == [g \in 1 .. n |-> g]
           T(M) == {i \in 0 .. n : Holds(M[i], i, s, P, group, mask)}
<1>1. n \in Nat
    BY TreeFacts DEF ConfigStates
<1>2. r0 \in Loads /\ DOMAIN r0.modules = {} /\ r0.res = "SUCCESS"
    <2>1. NoModules \in [{} -> Modules] /\ {} \in SUBSET STRING /\ DOMAIN NoModules = {}
        BY DEF NoModules
    <2>2. NoModules \in ModuleMaps
        BY <2>1 DEF ModuleMaps
    <2> QED
        BY <2>1, <2>2 DEF Loads
<1>3. places \in Seq(1 .. n) /\ Len(places) = n /\ \A g \in 1 .. n : places[g] = g
    BY <1>1
<1>4. ModuleSteps!Keeps(c, Loads, 1 .. n)
    <2> SUFFICES ASSUME NEW r \in Loads, NEW g \in 1 .. n PROVE PutModule(c, r, g) \in Loads
        BY DEF ModuleSteps!Keeps
    <2> PICK m : m = InitProcessModule(s, g, mask)
        OBVIOUS
    <2>1. g \in 0 .. n /\ c.config = s /\ c.mask = mask
        BY <1>1
    <2>2. m.res \in {"SKIP", "ERROR", "UNDEFINED", "SUCCESS"} /\ (m.res = "SUCCESS" => m.module \in Modules)
        BY <2>1, ModuleIs DEF ModuleAs
    <2>3. s.tree[g].name \in STRING
        BY TreeFacts DEF ConfigStates
    <2> HIDE DEF c
    <2> QED
        BY <2>1, <2>2, <2>3, PutIs
<1>5. InitModules(s, mask) = ModuleSteps!Fold(c, r0, places)
    BY DEF InitModules, ModuleSteps!Fold, ModuleSteps!FoldLeft, ModuleSteps!MapThenFoldSet,
           ModuleSteps!Max, FoldLeft, MapThenFoldSet, Max
<1> HIDE DEF places
<1>6. PICK M \in [0 .. n -> Loads] :
        ModuleSteps!Steps(M, c, r0, places) /\ ModuleSteps!Fold(c, r0, places) = M[n]
    BY <1>2, <1>3, <1>4, ModuleSteps!Partial
<1>7. M[0] = r0 /\ \A i \in 1 .. n : M[i] = PutModule(c, M[i - 1], i)
    BY <1>3, <1>6 DEF ModuleSteps!Steps
<1>8. 0 \in T(M)
    <2>1. \A j \in 1 .. 0 : FALSE
        OBVIOUS
    <2> HIDE DEF r0
    <2>2. Holds(M[0], 0, s, P, group, mask)
        BY <1>2, <1>7, <2>1 DEF Holds
    <2> QED
        BY <1>1, <2>2
<1>9. ASSUME NEW i \in 1 .. n, i - 1 \in T(M) PROVE i \in T(M)
    <2>1. i \in 0 .. n /\ i - 1 \in 0 .. n /\ M[i - 1] \in Loads
        <3>1. i \in 0 .. n /\ i - 1 \in 0 .. n
            BY <1>1
        <3> QED
            BY <1>6, <3>1
    <2>2. Holds(PutModule(c, M[i - 1], i), i, s, P, group, mask)
        BY <1>9, <2>1, PutHoldsOn
    <2> QED
        BY <1>7, <2>1, <2>2
<1> HIDE DEF T
<1>10. n \in T(M)
    <2>1. 0 .. n \subseteq T(M)
        BY <1>1, <1>8, <1>9, ModuleSteps!FromZero
    <2>2. n \in 0 .. n
        BY <1>1
    <2> QED
        BY <2>1, <2>2
<1> QED
    BY <1>1, <1>5, <1>6, <1>10 DEF T

--------------------------------------------------------------------------------
(* The configuration as a whole                                             *)

LEMMA ProcessPath ==
    LET path == <<"Process", Process>> IN path \in GroupPaths /\ Len(path) = 2
<1> PICK a, b : a = "Process" /\ b = Process
    OBVIOUS
<1>1. a \in STRING /\ b \in STRING
    <2>1. {"Process", Process} \subseteq STRING
        BY ConfigAssumption
    <2> QED
        BY <2>1
<1>2. <<a, b>> \in GroupPaths /\ Len(<<a, b>>) = 2
    BY <1>1 DEF GroupPaths
<1> QED
    BY <1>2

\* The children of the process' group are the modules.
ChildrenAreModules(tree, P, group) ==
    /\ \A j \in 1 .. Len(tree) : tree[j].parent = group => P[j] \in ModulePaths /\ P[j][3] = tree[j].name
    /\ \A p \in ModulePaths : \E j \in 1 .. Len(tree) : tree[j].parent = group /\ P[j] = p

LEMMA ModulePathIs ==
    ASSUME NEW tree \in Trees, NEW P, NamedBy(P, tree, SectionPaths),
           NEW group \in 0 .. Len(tree), P[group] = <<"Process", Process>>
    PROVE  ChildrenAreModules(tree, P, group)
<1> PICK above : above = <<"Process", Process>>
    OBVIOUS
<1>1. above \in GroupPaths /\ Len(above) = 2 /\ Len(tree) \in Nat /\ P[group] = above
    BY ProcessPath, TreeFacts
<1>2. ModulePaths = {p \in SectionPaths : Len(p) = 3 /\ Front(p) = above}
    BY DEF ModulePaths
<1>3. ASSUME NEW j \in 1 .. Len(tree), tree[j].parent = group
      PROVE  P[j] \in ModulePaths /\ P[j][3] = tree[j].name
    <2> PICK p, name : p = P[j] /\ name = tree[j].name
        OBVIOUS
    <2>1. name \in STRING /\ p = Below(above, name) /\ p \in SectionPaths
        <3>1. /\ tree[j].name \in STRING /\ P[j] = Below(P[tree[j].parent], tree[j].name)
              /\ P[j] \in SectionPaths
            BY GroupIs
        <3> QED
            BY <1>1, <1>3, <3>1
    <2>2. Len(p) = 3 /\ Front(p) = above /\ Last(p) = name
        <3>1. Len(Below(above, name)) = Len(above) + 1 /\ Front(Below(above, name)) = above /\ Last(Below(above, name)) = name
            BY <1>1, <2>1, BelowIs
        <3> QED
            BY <1>1, <2>1, <3>1
    <2>3. p[3] = name
        BY <2>2 DEF Last
    <2> QED
        BY <1>2, <2>1, <2>2, <2>3
<1>4. ASSUME NEW p \in ModulePaths
      PROVE  \E j \in 1 .. Len(tree) : tree[j].parent = group /\ P[j] = p
    <2>1. p \in SectionPaths /\ Len(p) = 3 /\ Front(p) = above
        BY <1>2
    <2>2. PICK j \in 0 .. Len(tree) : P[j] = p
        BY <2>1 DEF NamedBy
    <2>3. j # 0
        <3>1. P[0] = <<>> /\ Len(<<>>) = 0
            BY PathFacts DEF NamedBy
        <3> QED
            BY <2>1, <2>2, <3>1
    <2>4. j \in 1 .. Len(tree)
        BY <1>1, <2>3
    <2> PICK k, name : k = tree[j].parent /\ name = tree[j].name
        OBVIOUS
    <2>5. k \in 0 .. Len(tree) /\ name \in STRING /\ p = Below(P[k], name) /\ P[k] \in GroupPaths
        BY <2>2, <2>4, GroupIs
    <2>6. P[k] = above
        BY <2>1, <2>5, BelowIs
    <2>7. k = group
        <3>1. \A i, m \in 0 .. Len(tree) : P[i] = P[m] => i = m
            BY DEF NamedBy
        <3> QED
            BY <1>1, <2>5, <2>6, <3>1
    <2> QED
        BY <2>2, <2>4, <2>7
<1> QED
    BY <1>3, <1>4 DEF ChildrenAreModules

\* The modules that the configuration gives the context.
LEMMA ModulesAre ==
    ASSUME configText \in Seq(Lines), NEW s \in ConfigStates, NEW P, ParsedTo(s, Len(configText), P),
           NEW mask \in 0 .. CLOG_LEVEL_ALL
    PROVE  LET r == InitModules(s, mask) IN
           /\ r.res = "SUCCESS" <=> <<"Process", Process>> \in SectionPaths /\ \A p \in ModulePaths : WellTyped(p)
           /\ r.res = "UNDEFINED" => \E p \in ModulePaths : Overlong(p)
           /\ r.res = "SUCCESS" =>
                /\ DOMAIN r.modules = {p[3] : p \in {q \in ModulePaths : ~Off(q)}}
                /\ \A p \in ModulePaths : ~Off(p) => r.modules[p[3]] = ModuleOf(p, mask) /\ ModuleOf(p, mask) \in Modules
<1> PICK r, above, group : /\ r = InitModules(s, mask) /\ above = <<"Process", Process>>
                           /\ group = FindGroup(s.tree, above)
    OBVIOUS
<1>1. s.tree \in Trees /\ NamedBy(P, s.tree, SectionPaths) /\ Len(s.tree) \in Nat
    <2>1. PathsTo(Len(configText)) = SectionPaths
        BY DEF PathsTo, SectionPaths
    <2> QED
        BY <2>1, TreeFacts DEF ConfigStates, ParsedTo
<1>2. FoundAt(group, s.tree, SectionPaths, P, above)
    BY <1>1, ProcessPath, FindGroupIs
<1>3. CASE above \notin SectionPaths
    <2>1. group = NoGroup
        BY <1>2, <1>3 DEF FoundAt
    <2>2. r = [res |-> "TARGET_NOT_FOUND", modules |-> NoModules]
        BY <2>1 DEF InitModules
    <2>3. r.res = "TARGET_NOT_FOUND"
        BY <2>2
    <2> QED
        BY <1>3, <2>3
<1>4. CASE above \in SectionPaths
    <2>1. group \in 0 .. Len(s.tree) /\ P[group] = above /\ group # NoGroup
        BY <1>1, <1>2, <1>4 DEF FoundAt, NoGroup
    <2>2. r \in Loads /\ Holds(r, Len(s.tree), s, P, group, mask)
        BY <2>1, ChildrenHeld
    <2>3. /\ \A j \in 1 .. Len(s.tree) :
                s.tree[j].parent = group => P[j] \in ModulePaths /\ P[j][3] = s.tree[j].name
          /\ \A p \in ModulePaths : \E j \in 1 .. Len(s.tree) : s.tree[j].parent = group /\ P[j] = p
        <3>1. P[group] = <<"Process", Process>>
            BY <2>1, Zenon
        <3>2. ChildrenAreModules(s.tree, P, group)
            BY <1>1, <2>1, <3>1, ModulePathIs
        <3> QED
            BY <3>2 DEF ChildrenAreModules
    <2>4. r.res = "SUCCESS" <=> \A p \in ModulePaths : WellTyped(p)
        BY <2>2, <2>3 DEF Holds
    <2>5. ASSUME r.res = "SUCCESS", NEW p \in ModulePaths, ~Off(p)
          PROVE  p[3] \in DOMAIN r.modules /\ r.modules[p[3]] = ModuleOf(p, mask) /\ ModuleOf(p, mask) \in Modules
        <3>1. PICK j \in 1 .. Len(s.tree) : s.tree[j].parent = group /\ P[j] = p
            BY <2>3
        <3>2. SwitchedOn(s, P, group, j) /\ s.tree[j].name = p[3]
            BY <2>3, <2>5, <3>1 DEF SwitchedOn
        <3>3. p[3] \in DOMAIN r.modules /\ r.modules[p[3]] = ModuleOf(p, mask)
            BY <2>2, <2>5, <3>1, <3>2 DEF Holds
        <3>4. \A x \in DOMAIN r.modules : r.modules[x] \in Modules
            <4>1. r.modules \in ModuleMaps
                BY <2>2 DEF Loads
            <4>2. PICK D \in SUBSET STRING : r.modules \in [D -> Modules]
                BY <4>1, Zenon DEF ModuleMaps
            <4> QED
                BY <4>2
        <3> QED
            BY <3>3, <3>4
    <2>6. ASSUME r.res = "SUCCESS", NEW x \in DOMAIN r.modules
          PROVE  \E p \in ModulePaths : ~Off(p) /\ p[3] = x
        <3>1. PICK j \in 1 .. Len(s.tree) : SwitchedOn(s, P, group, j) /\ s.tree[j].name = x
            BY <2>2, <2>6 DEF Holds
        <3> QED
            BY <2>3, <3>1 DEF SwitchedOn
    <2>7. r.res = "SUCCESS" => DOMAIN r.modules = {p[3] : p \in {q \in ModulePaths : ~Off(q)}}
        BY <2>5, <2>6
    <2>8. r.res = "UNDEFINED" => \E p \in ModulePaths : Overlong(p)
        BY <2>2, <2>3 DEF Holds
    <2> QED
        BY <1>4, <2>4, <2>5, <2>7, <2>8
<1> QED
    BY <1>3, <1>4

\* A module lets pass what its section lets pass.
LEMMA ChecksAre ==
    ASSUME NEW p, ~Off(p), NEW mask, ModuleOf(p, mask) \in Modules, NEW level, NEW recorder
    PROVE  ModuleCheck(ModuleOf(p, mask), level, recorder) <=> MayLog(p, level, recorder, mask)
<1> PICK l, ids : l = Said(p, "level", [n |-> mask]).n /\ ids = Said(p, "recorder", [list |-> <<>>]).list
    OBVIOUS
<1>1. ModuleOf(p, mask).level = l /\ ModuleOf(p, mask).recorders = ids
    BY DEF ModuleOf
<1> PICK m : m = ModuleOf(p, mask)
    OBVIOUS
<1>2. (\E i \in 1 .. Len(ids) : ids[i] = recorder) <=> recorder \in ToSet(ids)
    <2>1. ids \in Seq(Nat)
        BY <1>1 DEF Modules
    <2>2. DOMAIN ids = 1 .. Len(ids)
        BY <2>1, LenProperties
    <2> QED
        BY <2>2 DEF ToSet
<1> PICK passes : passes = ((l \div 2 ^ (level - 1)) % 2 = 1)
    OBVIOUS
<1>3. MayLog(p, level, recorder, mask) <=> passes /\ recorder \in ToSet(ids)
    BY DEF MayLog
<1>4. ModuleCheck(m, level, recorder) <=> passes /\ \E i \in 1 .. Len(ids) : ids[i] = recorder
    BY <1>1 DEF ModuleCheck
<1> QED
    BY <1>2, <1>3, <1>4

(* Every item of a text that parses is found under its section and key, and  *)
(* nothing else is; a text parses unless a section repeats a key or a header *)
(* has blanks before its ']'; and the modules let pass exactly what their    *)
(* sections say (clog_config.c:113, 534, casca_log_core.c:128), unless one   *)
(* names more recorders than it has room for: for every text of every        *)
(* length, if no name of a group begins another's.                           *)
THEOREM ConfigIsFound ==
    ASSUME configText \in Seq(Lines) \cup {NULL}
    PROVE  ConfigFound
<1> SUFFICES ASSUME configText # NULL, ~Clash
             PROVE  LET s == Parse(configText)
                        mods == InitModules(s, 3)
                    IN /\ s.ok => ~Repeats
                       /\ ~Repeats /\ (\A i \in 1 .. Len(configText) : IsGroup(i) => ~configText[i].blank) => s.ok
                       /\ s.ok => \A p \in SectionPaths, key \in {"level", "enabled", "recorder"} :
                                    FindItem(s, p, key) = Said(p, key, NotFound)
                       /\ s.ok /\ mods.res # "UNDEFINED" =>
                            (mods.res = "SUCCESS" <=> <<"Process", Process>> \in SectionPaths
                                                      /\ \A p \in ModulePaths : WellTyped(p))
                       /\ s.ok /\ mods.res = "UNDEFINED" => \E p \in ModulePaths : Overlong(p)
                       /\ s.ok /\ mods.res = "SUCCESS" =>
                            /\ DOMAIN mods.modules = {p[3] : p \in {q \in ModulePaths : ~Off(q)}}
                            /\ \A p \in ModulePaths : ~Off(p) => \A level \in 1 .. 6, recorder \in 0 .. 3 :
                                 ModuleCheck(mods.modules[p[3]], level, recorder) <=> MayLog(p, level, recorder, 3)
    BY DEF ConfigFound
<1> PICK s, mods : s = Parse(configText) /\ mods = InitModules(s, 3)
    OBVIOUS
<1>1. configText \in Seq(Lines)
    OBVIOUS
<1>2. s \in ConfigStates /\ TextHolds(Len(configText), s)
    BY <1>1, LinesParsed
<1>3. ~s.ok => Repeats \/ \E i \in 1 .. Len(configText) : IsGroup(i) /\ configText[i].blank
    BY <1>2 DEF TextHolds
<1>4. CASE s.ok
    <2>1. PICK P : ParsedTo(s, Len(configText), P)
        BY <1>2, <1>4 DEF TextHolds
    <2>2. ~Repeats
        BY <2>1 DEF ParsedTo, Repeats, SameItem, ItemLines, IsItem
    <2>3. s.tree \in Trees /\ NamedBy(P, s.tree, SectionPaths)
        <3>1. PathsTo(Len(configText)) = SectionPaths
            BY DEF PathsTo, SectionPaths
        <3> QED
            BY <1>2, <2>1, <3>1 DEF ConfigStates, ParsedTo
    <2>4. ASSUME NEW p \in SectionPaths, NEW key PROVE FindItem(s, p, key) = Said(p, key, NotFound)
        <3> PICK g, found : g = FindGroup(s.tree, p) /\ found = FindItemInGroup(s, g, key)
            OBVIOUS
        <3>1. p \in GroupPaths
            BY <2>3 DEF NamedBy
        <3>2. FoundAt(g, s.tree, SectionPaths, P, p)
            BY <2>3, <3>1, FindGroupIs
        <3>3. g \in 0 .. Len(s.tree) /\ P[g] = p
            BY <3>2 DEF FoundAt
        <3>4. FindsSaid(found, P[g], key)
            BY <1>1, <1>2, <2>1, <3>3, FindItemIs
        <3>5. Said(p, key, NotFound) = IF Says(p, key) = {} THEN NotFound ELSE found
            BY <3>3, <3>4, SaidIs
        <3> QED
            BY <3>3, <3>4, <3>5 DEF FindItem, FindsSaid
    <2>5. 3 \in 0 .. CLOG_LEVEL_ALL
        BY DEF CLOG_LEVEL_ALL
    <2>6. /\ mods.res = "SUCCESS" <=> <<"Process", Process>> \in SectionPaths /\ \A p \in ModulePaths : WellTyped(p)
          /\ mods.res = "UNDEFINED" => \E p \in ModulePaths : Overlong(p)
          /\ mods.res = "SUCCESS" =>
               /\ DOMAIN mods.modules = {p[3] : p \in {q \in ModulePaths : ~Off(q)}}
               /\ \A p \in ModulePaths : ~Off(p) => mods.modules[p[3]] = ModuleOf(p, 3) /\ ModuleOf(p, 3) \in Modules
        BY <1>1, <1>2, <2>1, <2>5, ModulesAre
    <2>7. ASSUME mods.res = "SUCCESS", NEW p \in ModulePaths, ~Off(p), NEW level, NEW recorder
          PROVE  ModuleCheck(mods.modules[p[3]], level, recorder) <=> MayLog(p, level, recorder, 3)
        <3>1. mods.modules[p[3]] = ModuleOf(p, 3) /\ ModuleOf(p, 3) \in Modules
            BY <2>6, <2>7
        <3>2. ModuleCheck(ModuleOf(p, 3), level, recorder) <=> MayLog(p, level, recorder, 3)
            BY <2>7, <3>1, ChecksAre
        <3> QED
            BY <3>1, <3>2
    <2> QED
        BY <1>3, <1>4, <2>2, <2>4, <2>6, <2>7
<1>5. CASE ~s.ok
    BY <1>3, <1>5
<1> QED
    BY <1>4, <1>5

================================================================================
