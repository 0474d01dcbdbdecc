----------------------------- MODULE Lockless_proofs -----------------------------
(***************************************************************************)
(* Proofs about what threads share without a lock: the atomic queue, the   *)
(* reclamation of its nodes and the error ring, for any threads, nodes,    *)
(* objects, lines and calls.                                               *)
(*                                                                         *)
(* Reclamation frees nothing that a critical section may still hold,       *)
(* although a poll moves the epoch on behind the back of the threads it    *)
(* has already looked at.  The atomic queue links its nodes into one list  *)
(* whatever the threads have loaded, retires each node once, and is        *)
(* linearizable: each of its steps is one of SharedFifo or none.           *)
(***************************************************************************)
EXTENDS Ebr, AtomicQueue, ErrorRing,
        FiniteSetTheorems, SequenceTheorems, WellFoundedInduction, TLAPS

Elems(s) == {s[i] : i \in 1 .. Len(s)}
Once(s) == \A i, j \in 1 .. Len(s) : s[i] = s[j] => i = j

LEMMA OnceCount ==
    ASSUME NEW S, NEW s \in Seq(S), Once(s)
    PROVE  Len(s) = Cardinality(Elems(s))
<1>1. Len(s) \in Nat /\ s \in [1 .. Len(s) -> Elems(s)]
    BY LenProperties DEF Elems
<1>2. s \in Bijection(1 .. Len(s), Elems(s))
    BY <1>1 DEF Once, Elems, Bijection, Injection, Surjection, IsInjective
<1>3. ExistsBijection(1 .. Len(s), Elems(s))
    BY <1>2 DEF ExistsBijection
<1>4. IsFiniteSet(1 .. Len(s)) /\ Cardinality(1 .. Len(s)) = Len(s)
    BY <1>1, FS_Interval, SMTT(60)
<1> QED
    BY <1>3, <1>4, FS_Bijection

--------------------------------------------------------------------------------
(* Reclamation: the inductive invariant                                     *)

InSection == {"in", "holding", "replaced", "retire", "push", "retired"}
InPoll    == {"gc", "free", "clear", "lock", "scan"}

Objects == 1 .. used
InList(e) == Elems(lists[e])

\* The poll under way, if any, has looked at t already.
Passed(t) ==
    \E a \in Actors : at[a] = "scan" /\ \E i \in 1 .. Len(threads) - scan[a] : threads[i] = t

EbrTypeOK ==
    /\ gstate \in {"NORMAL", "GC", "INACTIVE", "freed"}
    /\ epoch \in Epochs
    /\ threads \in Seq(EbrThreads)
    /\ mutex \in Actors \cup {NULL}
    /\ used \in Nat \ {0}
    /\ lists \in [Epochs -> Seq(Objects)]
    /\ lstate \in [EbrThreads -> {"INACTIVE", "ACTIVE", "RELEASED"}]
    /\ root \in Objects \cup {NULL}
    /\ freed \in Seq(Objects) /\ atOnce \in Seq(Objects)
    /\ at \in [Actors -> {"running", "new", "out", "enter", "unregister", "try", "done"}
                            \cup InSection \cup InPoll]
    /\ holds \in [EbrThreads -> Objects \cup {NULL}]
    /\ idx \in [Actors -> Epochs]
    /\ old \in [Actors -> Seq(Objects)]
    /\ scan \in [Actors -> Nat]

\* Where a thread is, its state in the list of threads, and what it has read.
SectionOf(t) ==
    /\ lstate[t] = "ACTIVE" <=> at[t] \in InSection
    /\ lstate[t] = "RELEASED" <=> at[t] \in {"unregister", "done"}
    /\ holds[t] # NULL => at[t] \in InSection
    /\ at[t] \in InSection \ {"in"} => holds[t] # NULL
    /\ at[t] \in {"new", "unregister", "done"} \/ \E i \in 1 .. Len(threads) : threads[i] = t

Sections == \A t \in EbrThreads : SectionOf(t)

\* One poll at a time, and the mutex around its look at the threads.
OnePoll ==
    /\ \A a, b \in Actors : at[a] \in InPoll /\ at[b] \in InPoll => a = b
    /\ \A a \in Actors : at[a] \in InPoll => gstate = "GC"
    /\ \A a \in Actors : at[a] = "scan" => mutex = a /\ scan[a] <= Len(threads)

\* Destroy begins when every thread is out of its last critical section.
Ending ==
    /\ at[OWNER] # "running" => \A t \in EbrThreads : at[t] \in {"out", "unregister", "done"}
    /\ gstate \in {"INACTIVE", "freed"} => at[OWNER] \in {"try", "done"}
    /\ at[OWNER] = "running" => root # NULL

\* What poll is about to free is all of the list of two epochs ago.
PollerList == \A a \in Actors : at[a] = "free" => old[a] = lists[OldList(epoch)]

\* The list a retire has chosen is that of this epoch, or of the last one; then
\* the poll under way has not passed the thread, and cannot.
PusherList ==
    \A t \in EbrThreads : at[t] = "push" =>
        /\ idx[t] \in {epoch, LastList(epoch)}
        /\ idx[t] = LastList(epoch) => ~ Passed(t)

\* What the pointer leads to is not retired.
RootApart ==
    /\ \A e \in Epochs : root \notin InList(e)
    /\ root \notin Freed /\ root \notin FreedAtOnce
    /\ \A t \in EbrThreads : at[t] \in {"replaced", "retire", "push"} => root # holds[t]

\* What a thread has read is in no list that a poll may free before it leaves.
HeldSafe ==
    \A t \in EbrThreads : holds[t] # NULL =>
        /\ holds[t] \notin Freed
        /\ holds[t] \notin InList(OldList(epoch))
        /\ holds[t] \in InList(LastList(epoch)) => ~ Passed(t)
        /\ \A u \in EbrThreads :
            (at[u] = "push" /\ idx[u] = LastList(epoch) /\ holds[u] = holds[t]) => ~ Passed(t)

EbrInv ==
    /\ EbrTypeOK /\ Sections /\ OnePoll /\ Ending
    /\ PollerList /\ PusherList /\ RootApart /\ HeldSafe

--------------------------------------------------------------------------------
(* Facts used in several places                                             *)

LEMMA EpochFacts ==
    \A e \in Epochs :
        LET up == (e + 1) % 3
        IN  /\ up \in Epochs /\ LastList(e) \in Epochs /\ OldList(e) \in Epochs
            /\ LastList(e) # e /\ OldList(e) # e /\ OldList(e) # LastList(e)
            /\ LastList(up) = e /\ OldList(up) = LastList(e)
BY DEF Epochs, LastList, OldList

\* The elements of a sequence, and of two in a row.
LEMMA ElemsFacts ==
    ASSUME NEW S, NEW s \in Seq(S), NEW r \in Seq(S)
    PROVE  /\ Elems(s) \subseteq S
           /\ Elems(s \o r) = Elems(s) \cup Elems(r)
           /\ Elems(<<>>) = {}
           /\ \A x \in S : Elems(<<x>>) = {x}
<1>1. Elems(s) \subseteq S
    BY ElementOfSeq DEF Elems
<1>2. /\ Len(s) \in Nat /\ Len(r) \in Nat /\ Len(s \o r) = Len(s) + Len(r)
      /\ \A i \in 1 .. Len(s) + Len(r) :
            (s \o r)[i] = IF i <= Len(s) THEN s[i] ELSE r[i - Len(s)]
    BY LenProperties, ConcatProperties
<1>3. \A i \in 1 .. Len(s) : i \in 1 .. Len(s) + Len(r) /\ (s \o r)[i] = s[i]
    BY <1>2
<1>4. \A i \in 1 .. Len(r) : Len(s) + i \in 1 .. Len(s) + Len(r) /\ (s \o r)[Len(s) + i] = r[i]
    BY <1>2
<1>5. \A i \in 1 .. Len(s) + Len(r) : i \in 1 .. Len(s) \/ i - Len(s) \in 1 .. Len(r)
    BY <1>2
<1>6. Elems(s \o r) \subseteq Elems(s) \cup Elems(r)
    BY <1>2, <1>5 DEF Elems
<1>7. Elems(s) \subseteq Elems(s \o r)
    BY <1>2, <1>3 DEF Elems
<1>8. Elems(r) \subseteq Elems(s \o r)
    BY <1>2, <1>4 DEF Elems
<1>9. Elems(<<>>) = {} /\ \A x \in S : Elems(<<x>>) = {x}
    BY DEF Elems
<1> QED
    BY <1>1, <1>6, <1>7, <1>8, <1>9

LEMMA ObjectElems ==
    \A s, r \in Seq(Objects) : Elems(s \o r) = Elems(s) \cup Elems(r) /\ s \o r \in Seq(Objects)
BY ElemsFacts, ConcatProperties

\* One more object freed at once.
LEMMA AppendFrees ==
    ASSUME NEW o \in Objects, atOnce \in Seq(Objects), atOnce' = Append(atOnce, o)
    PROVE  /\ atOnce' \in Seq(Objects) /\ FreedAtOnce' = FreedAtOnce \cup {o}
           /\ Once(atOnce) /\ o \notin FreedAtOnce => Once(atOnce')
<1>1. /\ Len(atOnce) \in Nat /\ Len(atOnce') = Len(atOnce) + 1 /\ atOnce' \in Seq(Objects)
      /\ atOnce'[Len(atOnce) + 1] = o
      /\ \A i \in 1 .. Len(atOnce) : atOnce'[i] = atOnce[i]
    BY AppendProperties, LenProperties
<1>2. \A i \in 1 .. Len(atOnce) + 1 : i \in 1 .. Len(atOnce) \/ i = Len(atOnce) + 1
    BY <1>1
<1>3. 1 .. Len(atOnce) \subseteq 1 .. Len(atOnce) + 1 /\ Len(atOnce) + 1 \in 1 .. Len(atOnce) + 1
    BY <1>1
<1>4. FreedAtOnce' = FreedAtOnce \cup {o}
    BY <1>1, <1>2, <1>3 DEF FreedAtOnce
<1>5. ASSUME Once(atOnce), o \notin FreedAtOnce PROVE Once(atOnce')
    <2>1. \A i \in 1 .. Len(atOnce) : atOnce[i] # o
        BY <1>5 DEF FreedAtOnce
    <2> QED
        BY <1>1, <1>2, <1>5, <2>1 DEF Once
<1> QED
    BY <1>1, <1>4, <1>5

\* While nobody looks at the threads, no thread has been passed.
LEMMA NotPassed ==
    ASSUME \A a \in Actors : at[a] # "scan", NEW t
    PROVE  ~ Passed(t)
BY DEF Passed

\* A step that concerns no look at the threads passes none.
LEMMA PassedSame ==
    ASSUME NEW a \in Actors, NEW to, at \in [Actors -> STRING], at' = [at EXCEPT ![a] = to],
           at[a] # "scan", to # "scan", UNCHANGED <<threads, scan>>, NEW t
    PROVE  Passed(t)' <=> Passed(t)
BY DEF Passed

\* The lists and the pointer as they were, and nobody holds anything new: what
\* was safe is safe.
LEMMA SafeKept ==
    ASSUME EbrInv, UNCHANGED <<epoch, lists, freed, atOnce, root>>,
           \A t \in EbrThreads : Passed(t)' => Passed(t) \/ holds[t] = NULL,
           \A t \in EbrThreads : holds'[t] \in {holds[t], NULL},
           \A t \in EbrThreads : at'[t] \in {"replaced", "retire", "push"} =>
                at[t] \in {"replaced", "retire", "push"} /\ holds'[t] = holds[t],
           \A t \in EbrThreads : at'[t] = "push" => at[t] = "push" /\ idx'[t] = idx[t],
           \A a \in Actors : at'[a] = "free" => at[a] = "free" /\ old'[a] = old[a]
    PROVE  PollerList' /\ PusherList' /\ RootApart' /\ HeldSafe'
<1> USE DEF EbrInv
<1>1. PollerList'
    BY DEF PollerList
<1>2. PusherList'
    BY DEF PusherList, Sections, SectionOf, InSection
<1>3. RootApart'
    BY DEF RootApart, InList, Freed, FreedAtOnce
<1>4. HeldSafe'
    BY DEF HeldSafe, InList, Freed
<1> QED
    BY <1>1, <1>2, <1>3, <1>4

--------------------------------------------------------------------------------
(* The steps of a thread                                                    *)

\* Who does not move, and whose registration is not undone, stands as before.
LEMMA SectionStays ==
    ASSUME NEW u \in EbrThreads, SectionOf(u),
           at'[u] = at[u], lstate'[u] = lstate[u], holds'[u] = holds[u],
           \A i \in 1 .. Len(threads) : \E j \in 1 .. Len(threads') : threads'[j] = threads[i]
    PROVE  SectionOf(u)'
<1>1. (\E i \in 1 .. Len(threads) : threads[i] = u) => \E j \in 1 .. Len(threads') : threads'[j] = u
    OBVIOUS
<1> QED
    BY <1>1 DEF SectionOf, InSection

LEMMA SectionSame ==
    ASSUME NEW u \in EbrThreads, SectionOf(u),
           at'[u] = at[u], lstate'[u] = lstate[u], holds'[u] = holds[u], threads' = threads
    PROVE  SectionOf(u)'
BY SectionStays

\* Coming and going, and a replacement or a retire that has to start again.
LEMMA ComeAndGo ==
    ASSUME EbrInv, NEW t \in EbrThreads,
           \/ EnterCheck(t) \/ EnterSwap(t) \/ Exit(t) \/ Unregister(t)
           \/ Replace(t) /\ root # holds[t]
           \/ RetirePush(t) /\ ~ MayPush(t)
    PROVE  EbrInv'
<1> USE DEF EbrInv
<1> DEFINE to == at'[t]
<1>1. /\ at' = [at EXCEPT ![t] = to]
      /\ <<at[t], to>> \in {<<"out", "enter">>, <<"enter", "in">>, <<"holding", "out">>,
                            <<"retired", "out">>, <<"out", "unregister">>, <<"holding", "in">>,
                            <<"push", "retire">>}
      /\ UNCHANGED <<gstate, epoch, threads, mutex, lists, freed, atOnce, root, used, idx, old, scan>>
      /\ \/ lstate' = lstate /\ holds' = holds
            /\ <<at[t], to>> \in {<<"out", "enter">>, <<"holding", "in">>, <<"push", "retire">>}
         \/ lstate' = [lstate EXCEPT ![t] = "ACTIVE"] /\ to = "in" /\ holds' = holds /\ at[t] = "enter"
         \/ lstate' = [lstate EXCEPT ![t] = "INACTIVE"] /\ to = "out"
            /\ holds' = [holds EXCEPT ![t] = NULL]
         \/ lstate' = [lstate EXCEPT ![t] = "RELEASED"] /\ to = "unregister" /\ holds' = holds
            /\ at[t] = "out"
      /\ to = "enter" => at[OWNER] = "running"
    BY DEF EnterCheck, EnterSwap, EnterState, Exit, Unregister, Replace, RetirePush, Go, Usable,
        globalVars, clientVars, pollVars, EbrTypeOK, Actors
<1> HIDE DEF to
<1>2. EbrTypeOK'
    BY <1>1 DEF EbrTypeOK, InSection, InPoll, Objects
<1>3. Sections'
    <2> SUFFICES ASSUME NEW u \in EbrThreads PROVE SectionOf(u)'
        BY DEF Sections
    <2>1. CASE u = t
        <3>1. /\ at'[t] = to /\ SectionOf(t) /\ at[t] \notin {"new", "unregister", "done"}
              /\ to \in InSection <=> (to = "in" \/ to = "retire")
              /\ at[t] \notin InSection => holds[t] = NULL
              /\ at[t] \in {"holding", "push"} => holds[t] # NULL
            BY <1>1 DEF Sections, SectionOf, EbrTypeOK, InSection, Actors
        <3>2. lstate'[t] = CASE to = "enter" -> lstate[t] [] to = "retire" -> lstate[t]
                             [] to = "in" -> "ACTIVE" [] to = "out" -> "INACTIVE"
                             [] to = "unregister" -> "RELEASED"
            BY <1>1, <3>1 DEF SectionOf, EbrTypeOK, InSection
        <3>3. holds'[t] = IF to = "out" THEN NULL ELSE holds[t]
            BY <1>1 DEF EbrTypeOK
        <3> QED
            BY <1>1, <2>1, <3>1, <3>2, <3>3 DEF SectionOf, InSection
    <2>2. CASE u # t
        <3>1. at'[u] = at[u] /\ lstate'[u] = lstate[u] /\ holds'[u] = holds[u] /\ threads' = threads
            BY <1>1, <2>2 DEF EbrTypeOK, Actors
        <3> QED
            BY <3>1, SectionSame DEF Sections
    <2> QED
        BY <2>1, <2>2
<1>4. OnePoll'
    BY <1>1 DEF OnePoll, EbrTypeOK, InPoll, Actors
<1>5. Ending'
    BY <1>1, EbrAssumption DEF Ending, EbrTypeOK, Actors
<1>6. \A u \in EbrThreads : Passed(u)' <=> Passed(u)
    BY <1>1 DEF Passed, EbrTypeOK, Actors
<1>7. PollerList' /\ PusherList' /\ RootApart' /\ HeldSafe'
    BY <1>1, <1>6, SafeKept DEF EbrTypeOK, Actors
<1> QED
    BY <1>2, <1>3, <1>4, <1>5, <1>7

\* A thread registers while nobody looks at the threads.
LEMMA RegisterKeeps ==
    ASSUME EbrInv, NEW t \in EbrThreads, Register(t)
    PROVE  EbrInv'
<1> USE DEF EbrInv
<1>1. /\ at[t] = "new" /\ at' = [at EXCEPT ![t] = "out"] /\ mutex = NULL
      /\ at[OWNER] = "running" /\ threads' = <<t>> \o threads
      /\ UNCHANGED <<gstate, epoch, mutex, lists, atOnce, lstate, freed, root, used, holds, idx, old, scan>>
    BY DEF Register, Go, Usable, clientVars, pollVars
<1>2. /\ threads \in Seq(EbrThreads) /\ threads' \in Seq(EbrThreads) /\ Len(threads) \in Nat
      /\ Len(threads') = Len(threads) + 1 /\ threads'[1] = t
      /\ \A i \in 1 .. Len(threads) : threads'[i + 1] = threads[i]
    BY <1>1 DEF EbrTypeOK
<1>3. EbrTypeOK'
    BY <1>1, <1>2 DEF EbrTypeOK, InSection, InPoll, Objects
<1>4. Sections'
    <2> SUFFICES ASSUME NEW u \in EbrThreads PROVE SectionOf(u)'
        BY DEF Sections
    <2>1. CASE u = t
        <3>1. 1 \in 1 .. Len(threads')
            BY <1>2
        <3> QED
            BY <1>1, <1>2, <2>1, <3>1 DEF Sections, SectionOf, EbrTypeOK, InSection, Actors
    <2>2. CASE u # t
        <3>1. \A i \in 1 .. Len(threads) : i + 1 \in 1 .. Len(threads')
            BY <1>2
        <3>2. at'[u] = at[u] /\ lstate'[u] = lstate[u] /\ holds'[u] = holds[u]
            BY <1>1, <2>2 DEF EbrTypeOK, Actors
        <3>3. \A i \in 1 .. Len(threads) : \E j \in 1 .. Len(threads') : threads'[j] = threads[i]
            BY <1>2, <3>1
        <3> QED
            BY <3>2, <3>3, SectionStays DEF Sections
    <2> QED
        BY <2>1, <2>2
<1>5. \A a \in Actors : at'[a] # "scan"
    BY <1>1, EbrAssumption DEF OnePoll, EbrTypeOK, Actors
<1>6. OnePoll'
    BY <1>1, <1>5 DEF OnePoll, EbrTypeOK, InPoll, Actors
<1>7. Ending'
    BY <1>1, EbrAssumption DEF Ending, EbrTypeOK, Actors
<1>8. \A u \in EbrThreads : ~ Passed(u)'
    BY <1>5 DEF Passed
<1>9. PollerList' /\ PusherList' /\ RootApart' /\ HeldSafe'
    BY <1>1, <1>8, SafeKept DEF EbrTypeOK, Actors
<1> QED
    BY <1>3, <1>4, <1>6, <1>7, <1>9

\* A thread reads the pointer: what it leads to is in no list.
LEMMA LoadKeeps ==
    ASSUME EbrInv, NEW t \in EbrThreads, Load(t)
    PROVE  EbrInv'
<1> USE DEF EbrInv
<1>1. /\ at[t] = "in" /\ at' = [at EXCEPT ![t] = "holding"]
      /\ holds' = [holds EXCEPT ![t] = root]
      /\ UNCHANGED <<gstate, epoch, threads, mutex, lists, atOnce, lstate, freed, root, used, idx, old, scan>>
    BY DEF Load, Go, globalVars, pollVars
<1>2. EbrTypeOK'
    BY <1>1 DEF EbrTypeOK, InSection, InPoll, Objects
<1>3. root # NULL
    BY <1>1 DEF Ending
<1>4. Sections'
    <2> SUFFICES ASSUME NEW u \in EbrThreads PROVE SectionOf(u)'
        BY DEF Sections
    <2>1. CASE u = t
        BY <1>1, <1>3, <2>1 DEF Sections, SectionOf, EbrTypeOK, InSection, Actors
    <2>2. CASE u # t
        <3>1. at'[u] = at[u] /\ lstate'[u] = lstate[u] /\ holds'[u] = holds[u] /\ threads' = threads
            BY <1>1, <2>2 DEF EbrTypeOK, Actors
        <3> QED
            BY <3>1, SectionSame DEF Sections
    <2> QED
        BY <2>1, <2>2
<1>5. OnePoll'
    BY <1>1 DEF OnePoll, EbrTypeOK, InPoll, Actors
<1>6. Ending'
    BY <1>1, EbrAssumption DEF Ending, EbrTypeOK, Actors
<1>7. \A u \in EbrThreads : Passed(u)' <=> Passed(u)
    BY <1>1 DEF Passed, EbrTypeOK, Actors
<1>8. PollerList' /\ PusherList'
    BY <1>1, <1>7 DEF PollerList, PusherList, EbrTypeOK, Actors
<1>9. RootApart'
    BY <1>1 DEF RootApart, InList, Freed, FreedAtOnce, EbrTypeOK, Actors
<1>10. HeldSafe'
    <2>1. /\ root \notin Freed /\ \A e \in Epochs : root \notin InList(e)
          /\ \A u \in EbrThreads : at[u] = "push" => holds[u] # root
        BY DEF RootApart
    <2>2. Freed' = Freed /\ \A e \in Epochs : InList(e)' = InList(e)
        BY <1>1 DEF Freed, InList
    <2>3. OldList(epoch) \in Epochs /\ LastList(epoch) \in Epochs
        BY EpochFacts DEF EbrTypeOK
    <2>4. \A u \in EbrThreads : (at'[u] = "push" => at[u] = "push" /\ u # t /\ holds'[u] = holds[u])
        BY <1>1 DEF EbrTypeOK, Actors
    <2>5. \A u \in EbrThreads : holds'[u] = IF u = t THEN root ELSE holds[u]
        BY <1>1 DEF EbrTypeOK
    <2> QED
        BY <1>1, <1>7, <2>1, <2>2, <2>3, <2>4, <2>5 DEF HeldSafe, InList
<1> QED
    BY <1>2, <1>4, <1>5, <1>6, <1>8, <1>9, <1>10

\* A thread takes an object out of the pointer and has it to retire; the pointer
\* leads to a new one.
LEMMA ReplaceKeeps ==
    ASSUME EbrInv, NEW t \in EbrThreads, Replace(t), root = holds[t]
    PROVE  EbrInv'
<1> USE DEF EbrInv
<1>1. /\ at[t] = "holding" /\ at' = [at EXCEPT ![t] = "replaced"]
      /\ root' = used + 1 /\ used' = used + 1
      /\ UNCHANGED <<gstate, epoch, threads, mutex, lists, atOnce, lstate, freed, holds, idx, old, scan>>
    BY DEF Replace, globalVars, pollVars
<1>2. EbrTypeOK'
    <2>1. Objects \subseteq Objects' /\ used + 1 \in Objects'
        BY <1>1 DEF EbrTypeOK, Objects
    <2>2. Seq(Objects) \subseteq Seq(Objects')
        BY <2>1
    <2>3. /\ lists \in [Epochs -> Seq(Objects')] /\ old \in [Actors -> Seq(Objects')]
          /\ holds \in [EbrThreads -> Objects' \cup {NULL}]
          /\ freed \in Seq(Objects') /\ atOnce \in Seq(Objects')
        BY <2>1, <2>2 DEF EbrTypeOK
    <2>4. used' \in Nat \ {0} /\ root' \in Objects'
        BY <1>1, <2>1 DEF EbrTypeOK
    <2> QED
        BY <1>1, <2>3, <2>4 DEF EbrTypeOK, InSection, InPoll
<1>3. Sections'
    <2> SUFFICES ASSUME NEW u \in EbrThreads PROVE SectionOf(u)'
        BY DEF Sections
    <2> QED
        BY <1>1 DEF Sections, SectionOf, EbrTypeOK, InSection, Actors
<1>4. OnePoll'
    BY <1>1 DEF OnePoll, EbrTypeOK, InPoll, Actors
<1>5. Ending'
    <2>1. root' # NULL
        BY <1>1, EbrAssumption DEF EbrTypeOK
    <2> QED
        BY <1>1, <2>1, EbrAssumption DEF Ending, EbrTypeOK, Actors
<1>6. \A u \in EbrThreads : Passed(u)' <=> Passed(u)
    BY <1>1 DEF Passed, EbrTypeOK, Actors
<1>7. PollerList' /\ PusherList'
    BY <1>1, <1>6 DEF PollerList, PusherList, EbrTypeOK, Actors
<1>8. RootApart'
    <2>1. used + 1 \in Nat /\ used + 1 \notin Objects
        BY DEF EbrTypeOK, Objects
    <2>0. \A u \in EbrThreads : holds[u] # used + 1
        BY <2>1, EbrAssumption DEF EbrTypeOK
    <2>2. Freed \subseteq Objects /\ FreedAtOnce \subseteq Objects
        BY ElementOfSeq DEF Freed, FreedAtOnce, EbrTypeOK
    <2>3. ASSUME NEW e \in Epochs PROVE InList(e) \subseteq Objects
        BY ElemsFacts DEF InList, EbrTypeOK
    <2> QED
        BY <1>1, <2>0, <2>1, <2>2, <2>3 DEF RootApart, Freed, FreedAtOnce, InList
<1>9. HeldSafe'
    <2>1. \A u \in EbrThreads : at'[u] = "push" => at[u] = "push"
        BY <1>1 DEF EbrTypeOK, Actors
    <2> QED
        BY <1>1, <1>6, <2>1 DEF HeldSafe, InList, Freed
<1> QED
    BY <1>2, <1>3, <1>4, <1>5, <1>7, <1>8, <1>9

\* A retire that gets no memory frees what it has taken out of the pointer: no
\* list changes, and the pointer leads elsewhere.
LEMMA RetireAtOnceKeeps ==
    ASSUME EbrInv, NEW t \in EbrThreads, RetireAtOnce(t)
    PROVE  EbrInv'
<1> USE DEF EbrInv
<1>1. /\ at[t] = "replaced" /\ at' = [at EXCEPT ![t] = "retired"]
      /\ atOnce' = Append(atOnce, holds[t])
      /\ UNCHANGED <<gstate, epoch, threads, mutex, lists, lstate, freed, root, used, holds,
                     idx, old, scan>>
    BY DEF RetireAtOnce, Go, clientVars, pollVars
<1>2. holds[t] \in Objects /\ root # holds[t]
    BY <1>1 DEF Sections, SectionOf, EbrTypeOK, InSection, RootApart
<1>3. atOnce' \in Seq(Objects) /\ FreedAtOnce' = FreedAtOnce \cup {holds[t]}
    BY <1>1, <1>2, AppendFrees DEF EbrTypeOK
<1>4. EbrTypeOK'
    BY <1>1, <1>3 DEF EbrTypeOK, InSection, InPoll, Objects
<1>5. Sections'
    <2> SUFFICES ASSUME NEW u \in EbrThreads PROVE SectionOf(u)'
        BY DEF Sections
    <2> QED
        BY <1>1 DEF Sections, SectionOf, EbrTypeOK, InSection, Actors
<1>6. OnePoll'
    BY <1>1 DEF OnePoll, EbrTypeOK, InPoll, Actors
<1>7. Ending'
    BY <1>1, EbrAssumption DEF Ending, EbrTypeOK, Actors
<1>8. \A u \in EbrThreads : Passed(u)' <=> Passed(u)
    BY <1>1 DEF Passed, EbrTypeOK, Actors
<1>9. PollerList' /\ PusherList' /\ HeldSafe'
    <2>1. \A u \in EbrThreads : at'[u] = "push" => at[u] = "push"
        BY <1>1 DEF EbrTypeOK, Actors
    <2>2. \A b \in Actors : at'[b] = "free" => at[b] = "free"
        BY <1>1 DEF EbrTypeOK
    <2> QED
        BY <1>1, <1>8, <2>1, <2>2 DEF PollerList, PusherList, HeldSafe, InList, Freed
<1>10. RootApart'
    <2>1. \A u \in EbrThreads : at'[u] \in {"replaced", "retire", "push"} =>
                at[u] \in {"replaced", "retire", "push"}
        BY <1>1 DEF EbrTypeOK, Actors
    <2> QED
        BY <1>1, <1>2, <1>3, <2>1 DEF RootApart, InList, Freed
<1> QED
    BY <1>4, <1>5, <1>6, <1>7, <1>9, <1>10

\* A thread chooses the list of the epoch it finds.
LEMMA RetireLoadKeeps ==
    ASSUME EbrInv, NEW t \in EbrThreads, RetireLoad(t)
    PROVE  EbrInv'
<1> USE DEF EbrInv
<1>1. /\ at[t] \in {"replaced", "retire"} /\ at' = [at EXCEPT ![t] = "push"]
      /\ idx' = [idx EXCEPT ![t] = epoch] /\ old' = [old EXCEPT ![t] = lists[epoch]]
      /\ UNCHANGED <<gstate, epoch, threads, mutex, lists, atOnce, lstate, freed, root, used, holds, scan>>
    BY DEF RetireLoad, Go, globalVars, clientVars
<1>2. EbrTypeOK'
    BY <1>1 DEF EbrTypeOK, InSection, InPoll, Objects
<1>3. Sections'
    <2> SUFFICES ASSUME NEW u \in EbrThreads PROVE SectionOf(u)'
        BY DEF Sections
    <2> QED
        BY <1>1 DEF Sections, SectionOf, EbrTypeOK, InSection, Actors
<1>4. OnePoll'
    BY <1>1 DEF OnePoll, EbrTypeOK, InPoll, Actors
<1>5. Ending'
    BY <1>1, EbrAssumption DEF Ending, EbrTypeOK, Actors
<1>6. \A u \in EbrThreads : Passed(u)' <=> Passed(u)
    BY <1>1 DEF Passed, EbrTypeOK, Actors
<1>7. PollerList'
    BY <1>1 DEF PollerList, EbrTypeOK, Actors
<1>8. PusherList'
    BY <1>1, <1>6, EpochFacts DEF PusherList, EbrTypeOK, Actors
<1>9. RootApart'
    BY <1>1 DEF RootApart, InList, Freed, FreedAtOnce, EbrTypeOK, Actors
<1>10. HeldSafe'
    <2>1. epoch # LastList(epoch)
        BY EpochFacts DEF EbrTypeOK
    <2>2. \A u \in EbrThreads : at'[u] = "push" /\ idx'[u] = LastList(epoch) =>
            at[u] = "push" /\ idx[u] = LastList(epoch)
        BY <1>1, <2>1 DEF EbrTypeOK, Actors
    <2> QED
        BY <1>1, <1>6, <2>2 DEF HeldSafe, InList, Freed
<1> QED
    BY <1>2, <1>3, <1>4, <1>5, <1>7, <1>8, <1>9, <1>10

\* A thread puts its object into the list it has chosen: that of this epoch, or
\* that of the last one, and then everyone who holds the object has not been
\* passed by a poll.
LEMMA PushKeeps ==
    ASSUME EbrInv, NEW t \in EbrThreads, RetirePush(t), MayPush(t)
    PROVE  EbrInv'
<1> USE DEF EbrInv
<1>0. PICK o, e : o = holds[t] /\ e = idx[t]
    OBVIOUS
<1>1. /\ at[t] = "push" /\ at' = [at EXCEPT ![t] = "retired"]
      /\ lists' = [lists EXCEPT ![e] = <<o>> \o lists[e]]
      /\ UNCHANGED <<gstate, epoch, threads, mutex, freed, atOnce, lstate, root, used, holds, idx, old, scan>>
    BY <1>0 DEF RetirePush, MayPush, clientVars, pollVars
<1>2. /\ o \in Objects /\ e \in {epoch, LastList(epoch)} /\ e \in Epochs /\ lists[e] \in Seq(Objects)
      /\ e # OldList(epoch) /\ epoch \in Epochs /\ epoch # LastList(epoch)
      /\ LastList(epoch) \in Epochs /\ OldList(epoch) \in Epochs /\ OldList(epoch) # LastList(epoch)
    <2>1. SectionOf(t)
        BY DEF Sections
    <2>2. o \in Objects
        BY <1>0, <1>1, <2>1 DEF EbrTypeOK, SectionOf, InSection
    <2>3. e \in {epoch, LastList(epoch)} /\ epoch \in Epochs
        BY <1>0, <1>1 DEF PusherList, EbrTypeOK
    <2>4. e \in Epochs /\ e # OldList(epoch) /\ epoch # LastList(epoch)
          /\ LastList(epoch) \in Epochs /\ OldList(epoch) \in Epochs /\ OldList(epoch) # LastList(epoch)
        BY <2>3, EpochFacts
    <2> QED
        BY <2>2, <2>3, <2>4 DEF EbrTypeOK
<1>3. /\ lists' \in [Epochs -> Seq(Objects)]
      /\ \A d \in Epochs : lists'[d] = IF d = e THEN <<o>> \o lists[d] ELSE lists[d]
      /\ \A d \in Epochs : Elems(lists'[d]) = IF d = e THEN {o} \cup Elems(lists[d]) ELSE Elems(lists[d])
    <2>1. <<o>> \in Seq(Objects) /\ <<o>> \o lists[e] \in Seq(Objects)
        BY <1>2
    <2>2. Elems(<<o>> \o lists[e]) = {o} \cup Elems(lists[e])
        <3>1. Elems(<<o>>) = {o}
            BY <1>2, ElemsFacts
        <3> QED
            BY <1>2, <2>1, <3>1, ObjectElems
    <2>3. \A d \in Epochs : lists'[d] = IF d = e THEN <<o>> \o lists[d] ELSE lists[d]
        BY <1>1, <1>2 DEF EbrTypeOK
    <2>4. lists' \in [Epochs -> Seq(Objects)]
        BY <1>1, <1>2, <2>1 DEF EbrTypeOK
    <2> QED
        BY <2>2, <2>3, <2>4
<1>4. EbrTypeOK'
    BY <1>1, <1>3 DEF EbrTypeOK, InSection, InPoll, Objects
<1>5. Sections'
    <2> SUFFICES ASSUME NEW u \in EbrThreads PROVE SectionOf(u)'
        BY DEF Sections
    <2> QED
        BY <1>1 DEF Sections, SectionOf, EbrTypeOK, InSection, Actors
<1>6. OnePoll'
    BY <1>1 DEF OnePoll, EbrTypeOK, InPoll, Actors
<1>7. Ending'
    BY <1>1, EbrAssumption DEF Ending, EbrTypeOK, Actors
<1>8. \A u \in EbrThreads : Passed(u)' <=> Passed(u)
    BY <1>1 DEF Passed, EbrTypeOK, Actors
<1>9. PollerList'
    BY <1>1, <1>2, <1>3 DEF PollerList, EbrTypeOK, Actors
<1>10. PusherList'
    BY <1>1, <1>8 DEF PusherList, EbrTypeOK, Actors
<1>11. RootApart'
    <2>1. root # o
        BY <1>0, <1>1 DEF RootApart
    <2>2. Freed' = Freed /\ FreedAtOnce' = FreedAtOnce
        BY <1>1 DEF Freed, FreedAtOnce
    <2>3. \A u \in EbrThreads : at'[u] \in {"replaced", "retire", "push"} =>
                at[u] \in {"replaced", "retire", "push"}
        BY <1>1 DEF EbrTypeOK, Actors
    <2>4. \A d \in Epochs : root \notin InList(d)'
        BY <1>3, <2>1 DEF RootApart, InList
    <2> QED
        BY <1>1, <2>2, <2>3, <2>4 DEF RootApart
<1>12. HeldSafe'
    <2> SUFFICES ASSUME NEW u \in EbrThreads, holds[u] # NULL
                 PROVE  /\ holds[u] \notin Freed
                        /\ holds[u] \notin InList(OldList(epoch))'
                        /\ holds[u] \in InList(LastList(epoch))' => ~ Passed(u)
                        /\ \A v \in EbrThreads :
                            (at'[v] = "push" /\ idx[v] = LastList(epoch) /\ holds[v] = holds[u])
                                => ~ Passed(u)
        BY <1>1, <1>8 DEF HeldSafe, Freed, InList
    <2>1. holds[u] \notin InList(OldList(epoch))'
        BY <1>1, <1>2, <1>3 DEF HeldSafe, InList
    <2>2. holds[u] \in InList(LastList(epoch))' => ~ Passed(u)
        <3>1. CASE e = LastList(epoch)
            BY <1>0, <1>1, <1>2, <1>3, <3>1 DEF HeldSafe, InList
        <3>2. CASE e = epoch
            BY <1>0, <1>1, <1>2, <1>3, <3>2 DEF HeldSafe, InList
        <3> QED
            BY <1>2, <3>1, <3>2
    <2>3. \A v \in EbrThreads : at'[v] = "push" => at[v] = "push"
        BY <1>1 DEF EbrTypeOK, Actors
    <2> QED
        BY <2>1, <2>2, <2>3 DEF HeldSafe
<1> QED
    BY <1>4, <1>5, <1>6, <1>7, <1>9, <1>10, <1>11, <1>12

\* The second step of unregister: with the last thread gone, what is left is
\* freed, if destroy has begun.
LEMMA TryDestroyKeeps ==
    ASSUME EbrInv, NEW a \in Actors, at[a] \in {"unregister", "try"}, mutex = NULL,
           at' = [at EXCEPT ![a] = "done"], TryDestroy,
           a = OWNER <=> at[a] = "try",
           UNCHANGED <<epoch, mutex, atOnce, lstate, root, used, holds, idx, old, scan>>
    PROVE  EbrInv'
<1> USE DEF EbrInv
<1>1. \A b \in Actors : at[b] # "scan" /\ at'[b] # "scan"
    BY EbrAssumption DEF OnePoll, EbrTypeOK
<1>2. \A u \in EbrThreads : ~ Passed(u)' /\ (at'[u] = at[u] \/ u = a)
    BY <1>1 DEF Passed, EbrTypeOK, Actors
<1>3. Ending'
    BY EbrAssumption DEF Ending, EbrTypeOK, Actors, TryDestroy, Finished
<1>4. CASE ~ Finished
    <2>1. UNCHANGED <<gstate, freed, lists, threads>>
        BY <1>4 DEF TryDestroy
    <2>2. EbrTypeOK'
        BY <2>1 DEF EbrTypeOK, InSection, InPoll, Objects
    <2>3. Sections'
        <3> SUFFICES ASSUME NEW u \in EbrThreads PROVE SectionOf(u)'
            BY DEF Sections
        <3> QED
            BY <2>1, EbrAssumption DEF Sections, SectionOf, EbrTypeOK, InSection, Actors
    <2>4. OnePoll'
        BY <1>1, <2>1 DEF OnePoll, EbrTypeOK, InPoll, Actors
    <2>5. PollerList' /\ PusherList' /\ RootApart' /\ HeldSafe'
        BY <1>2, <2>1, SafeKept DEF EbrTypeOK, Actors
    <2> QED
        BY <1>3, <2>2, <2>3, <2>4, <2>5
<1>5. CASE Finished
    <2>1. /\ gstate = "INACTIVE" /\ gstate' = "freed" /\ threads' = <<>>
          /\ freed' = freed \o lists[0] \o lists[1] \o lists[2]
          /\ lists' = [e \in Epochs |-> <<>>]
          /\ \A t \in EbrThreads : lstate[t] = "RELEASED" \/ at[t] = "new"
        BY <1>5 DEF TryDestroy, Finished
    <2>2. \A t \in EbrThreads : at[t] \in {"new", "unregister", "done"}
        BY <2>1 DEF Sections, SectionOf
    <2>3. \A t \in EbrThreads : at'[t] \in {"new", "unregister", "done"} /\ holds[t] = NULL
        BY <2>2 DEF Sections, SectionOf, EbrTypeOK, Actors, InSection
    <2>4. /\ lists[0] \in Seq(Objects) /\ lists[1] \in Seq(Objects) /\ lists[2] \in Seq(Objects)
          /\ freed \in Seq(Objects)
        BY DEF EbrTypeOK, Epochs
    <2>5. /\ freed' \in Seq(Objects)
          /\ Elems(freed') = Elems(freed) \cup Elems(lists[0]) \cup Elems(lists[1]) \cup Elems(lists[2])
        <3>1. freed \o lists[0] \in Seq(Objects) /\ freed \o lists[0] \o lists[1] \in Seq(Objects)
              /\ freed' \in Seq(Objects)
            BY <2>1, <2>4
        <3>2. Elems(freed \o lists[0]) = Elems(freed) \cup Elems(lists[0])
            BY <2>4, ObjectElems
        <3>3. Elems(freed \o lists[0] \o lists[1]) = Elems(freed \o lists[0]) \cup Elems(lists[1])
            BY <2>4, <3>1, ObjectElems
        <3>4. Elems(freed') = Elems(freed \o lists[0] \o lists[1]) \cup Elems(lists[2])
            BY <2>1, <2>4, <3>1, ObjectElems
        <3> QED
            BY <3>1, <3>2, <3>3, <3>4
    <2>6. EbrTypeOK'
        BY <2>1, <2>5 DEF EbrTypeOK, InSection, InPoll, Objects
    <2>7. Sections'
        <3> SUFFICES ASSUME NEW u \in EbrThreads PROVE SectionOf(u)'
            BY DEF Sections
        <3> QED
            BY <2>1, <2>3, EbrAssumption DEF Sections, SectionOf, EbrTypeOK, InSection, Actors
    <2>8. OnePoll'
        BY <1>1, <2>1 DEF OnePoll, EbrTypeOK, InPoll, Actors
    <2>9. PollerList' /\ PusherList'
        <3>1. \A b \in Actors : at'[b] # "free"
            BY <2>1, <2>3 DEF OnePoll, EbrTypeOK, InPoll, Actors
        <3> QED
            BY <2>3, <3>1 DEF PollerList, PusherList
    <2>10. RootApart'
        <3>1. root \notin Elems(freed) /\ \A e \in Epochs : root \notin Elems(lists[e])
            BY DEF RootApart, InList, Freed, FreedAtOnce, Elems
        <3>2. root \notin Elems(freed')
            BY <2>5, <3>1 DEF Epochs
        <3>3. \A e \in Epochs : Elems(lists'[e]) = {}
            BY <2>1 DEF Elems
        <3> QED
            BY <2>3, <3>2, <3>3 DEF RootApart, InList, Freed, FreedAtOnce, Elems
    <2>11. HeldSafe'
        BY <2>3 DEF HeldSafe
    <2> QED
        BY <1>3, <2>6, <2>7, <2>8, <2>9, <2>10, <2>11
<1> QED
    BY <1>4, <1>5

\* Every step of a thread that is not one of a poll.
LEMMA ThreadKeeps ==
    ASSUME EbrInv, NEW t \in EbrThreads, EbrStep(t)
    PROVE  EbrInv'
<1>1. CASE UnregisterDestroy(t)
    <2>1. t \in Actors /\ t # OWNER
        BY EbrAssumption DEF Actors
    <2> QED
        BY <1>1, <2>1, TryDestroyKeeps DEF UnregisterDestroy, Go, clientVars, pollVars
<1>2. CASE Replace(t)
    BY <1>2, ReplaceKeeps, ComeAndGo
<1>3. CASE RetirePush(t)
    BY <1>3, PushKeeps, ComeAndGo
<1> QED
    BY <1>1, <1>2, <1>3, ComeAndGo, RegisterKeeps, LoadKeeps, RetireAtOnceKeeps, RetireLoadKeeps
        DEF EbrStep

--------------------------------------------------------------------------------
(* The steps of a poll, by a thread between two critical sections or by the  *)
(* owner                                                                     *)

\* Whoever polls is in no critical section.
LEMMA PollerOutside ==
    ASSUME EbrInv, NEW a \in Actors, at[a] \in InPoll
    PROVE  /\ gstate = "GC"
           /\ \A b \in Actors : b # a => at[b] \notin InPoll
           /\ a \in EbrThreads => lstate[a] = "INACTIVE" /\ holds[a] = NULL
<1>1. gstate = "GC" /\ \A b \in Actors : b # a => at[b] \notin InPoll
    BY DEF EbrInv, OnePoll
<1>2. ASSUME a \in EbrThreads PROVE lstate[a] = "INACTIVE" /\ holds[a] = NULL
    <2>1. SectionOf(a) /\ lstate[a] \in {"INACTIVE", "ACTIVE", "RELEASED"}
        BY <1>2 DEF EbrInv, Sections, EbrTypeOK
    <2> QED
        BY <2>1 DEF SectionOf, InSection, InPoll
<1> QED
    BY <1>1, <1>2

\* A poll begins, unless one is under way.
LEMMA PollBeginKeeps ==
    ASSUME EbrInv, NEW a \in Actors, PollBegin(a)
    PROVE  EbrInv'
<1> USE DEF EbrInv
<1>1. /\ at[a] = IF a = OWNER THEN "retired" ELSE "out"
      /\ a # OWNER => at[OWNER] = "running"
      /\ \/ gstate = "NORMAL" /\ gstate' = "GC" /\ at' = [at EXCEPT ![a] = "gc"]
         \/ gstate' = gstate /\ at' = [at EXCEPT ![a] = "out"]
      /\ UNCHANGED <<epoch, threads, mutex, lists, freed, atOnce, lstate, root, used, holds, idx, old, scan>>
    BY DEF PollBegin, MayPoll, Usable, clientVars
<1>2. EbrTypeOK'
    BY <1>1 DEF EbrTypeOK, InSection, InPoll, Objects
<1>3. Sections'
    <2> SUFFICES ASSUME NEW u \in EbrThreads PROVE SectionOf(u)'
        BY DEF Sections
    <2>1. CASE u = a
        <3>1. at[u] = "out" /\ at'[u] \in {"gc", "out"}
            BY <1>1, <2>1, EbrAssumption DEF EbrTypeOK
        <3> QED
            BY <1>1, <3>1 DEF Sections, SectionOf, InSection
    <2>2. CASE u # a
        <3>1. at'[u] = at[u] /\ lstate'[u] = lstate[u] /\ holds'[u] = holds[u] /\ threads' = threads
            BY <1>1, <2>2 DEF EbrTypeOK, Actors
        <3> QED
            BY <3>1, SectionSame DEF Sections
    <2> QED
        BY <2>1, <2>2
<1>4. OnePoll'
    <2>1. CASE gstate = "NORMAL"
        <3>1. \A b \in Actors : at[b] \notin InPoll
            BY <2>1 DEF OnePoll
        <3> QED
            BY <1>1, <2>1, <3>1 DEF OnePoll, EbrTypeOK, InPoll
    <2>2. CASE gstate # "NORMAL"
        <3>1. UNCHANGED <<gstate, mutex, scan, threads>>
              /\ \A b \in Actors : at'[b] \in InPoll => at'[b] = at[b]
            BY <1>1, <2>2 DEF EbrTypeOK, InPoll
        <3> QED
            BY <3>1 DEF OnePoll, InPoll
    <2> QED
        BY <2>1, <2>2
<1>5. Ending'
    BY <1>1, EbrAssumption DEF Ending, EbrTypeOK, Actors
<1>6. \A u \in EbrThreads : Passed(u)' <=> Passed(u)
    BY <1>1 DEF Passed, EbrTypeOK
<1>7. PollerList' /\ PusherList' /\ RootApart' /\ HeldSafe'
    BY <1>1, <1>6, SafeKept DEF EbrTypeOK, Actors
<1> QED
    BY <1>2, <1>3, <1>4, <1>5, <1>7

\* Within a poll: what the poller's place and the parts it does not touch give.
LEMMA PollFrame ==
    ASSUME EbrInv, NEW a \in Actors, at[a] \in InPoll, NEW to \in {"free", "clear", "lock", "scan", "out"},
           at' = [at EXCEPT ![a] = to],
           gstate' = IF to = "out" THEN "NORMAL" ELSE gstate,
           to = "scan" => mutex' = a /\ scan'[a] <= Len(threads),
           mutex' \in Actors \cup {NULL}, scan' \in [Actors -> Nat], epoch' \in Epochs,
           lists' \in [Epochs -> Seq(Objects)], freed' \in Seq(Objects),
           idx' \in [Actors -> Epochs], old' \in [Actors -> Seq(Objects)],
           UNCHANGED <<threads, atOnce, lstate, root, used, holds>>
    PROVE  EbrTypeOK' /\ Sections' /\ OnePoll' /\ Ending'
<1> USE DEF EbrInv
<1>1. gstate = "GC" /\ \A b \in Actors : b # a => at[b] \notin InPoll
    BY PollerOutside
<1>2. EbrTypeOK'
    BY DEF EbrTypeOK, InSection, InPoll, Objects
<1>3. Sections'
    <2> SUFFICES ASSUME NEW u \in EbrThreads PROVE SectionOf(u)'
        BY DEF Sections
    <2>1. CASE u = a
        <3>1. at'[u] = to /\ SectionOf(u) /\ lstate[u] = "INACTIVE" /\ holds[u] = NULL
            BY <2>1, PollerOutside DEF Sections, EbrTypeOK
        <3>2. \E i \in 1 .. Len(threads) : threads[i] = u
            BY <2>1, <3>1 DEF SectionOf, InPoll
        <3> QED
            BY <3>1, <3>2 DEF SectionOf, InSection
    <2>2. CASE u # a
        <3>1. at'[u] = at[u] /\ lstate'[u] = lstate[u] /\ holds'[u] = holds[u] /\ threads' = threads
            BY <2>2 DEF EbrTypeOK, Actors
        <3> QED
            BY <3>1, SectionSame DEF Sections
    <2> QED
        BY <2>1, <2>2
<1>4. OnePoll'
    BY <1>1 DEF OnePoll, EbrTypeOK, InPoll
<1>5. Ending'
    BY <1>1, EbrAssumption DEF Ending, EbrTypeOK, Actors, InPoll
<1> QED
    BY <1>2, <1>3, <1>4, <1>5

\* The poll reads the list of two epochs ago, which nobody can still add to.
LEMMA PollHeadKeeps ==
    ASSUME EbrInv, NEW a \in Actors, PollHead(a)
    PROVE  EbrInv'
<1> USE DEF EbrInv
<1>1. /\ at[a] = "gc" /\ at' = [at EXCEPT ![a] = "free"]
      /\ idx' = [idx EXCEPT ![a] = OldList(epoch)]
      /\ old' = [old EXCEPT ![a] = lists[OldList(epoch)]]
      /\ UNCHANGED <<gstate, epoch, threads, mutex, lists, freed, atOnce, lstate, root, used, holds, scan>>
    BY DEF PollHead, Go, globalVars, clientVars
<1>2. EbrTypeOK' /\ Sections' /\ OnePoll' /\ Ending'
    <2>1. OldList(epoch) \in Epochs /\ lists[OldList(epoch)] \in Seq(Objects)
        BY EpochFacts DEF EbrTypeOK
    <2> QED
        BY <1>1, <2>1, PollFrame DEF EbrTypeOK, InPoll
<1>3. \A u \in EbrThreads : Passed(u)' <=> Passed(u)
    BY <1>1 DEF Passed, EbrTypeOK
<1>4. \A u \in EbrThreads : at'[u] = "push" => at[u] = "push" /\ idx'[u] = idx[u]
    BY <1>1 DEF EbrTypeOK, Actors
<1>5. \A b \in Actors : b # a => at'[b] # "free"
    BY <1>1, PollerOutside DEF EbrTypeOK, InPoll
<1>6. PollerList'
    BY <1>1, <1>5 DEF PollerList, EbrTypeOK
<1>7. PusherList'
    BY <1>1, <1>3, <1>4 DEF PusherList
<1>8. RootApart'
    BY <1>1 DEF RootApart, InList, Freed, FreedAtOnce, EbrTypeOK, Actors
<1>9. HeldSafe'
    BY <1>1, <1>3, <1>4 DEF HeldSafe, InList, Freed
<1> QED
    BY <1>2, <1>6, <1>7, <1>8, <1>9

\* The poll frees that list: nobody holds anything that is in it.
LEMMA PollFreeKeeps ==
    ASSUME EbrInv, NEW a \in Actors, PollFree(a)
    PROVE  EbrInv'
<1> USE DEF EbrInv
<1>1. /\ at[a] = "free" /\ at' = [at EXCEPT ![a] = "clear"] /\ freed' = freed \o old[a]
      /\ UNCHANGED <<gstate, epoch, threads, mutex, lists, atOnce, lstate, root, used, holds, idx, old, scan>>
    BY DEF PollFree, Go, clientVars, pollVars
<1>2. old[a] = lists[OldList(epoch)] /\ OldList(epoch) \in Epochs
    BY <1>1, EpochFacts DEF PollerList, EbrTypeOK
<1>3. freed' \in Seq(Objects) /\ Elems(freed') = Elems(freed) \cup InList(OldList(epoch))
    BY <1>1, <1>2, ObjectElems DEF EbrTypeOK, InList
<1>4. EbrTypeOK' /\ Sections' /\ OnePoll' /\ Ending'
    BY <1>1, <1>3, PollFrame DEF EbrTypeOK, InPoll
<1>5. \A u \in EbrThreads : Passed(u)' <=> Passed(u)
    BY <1>1 DEF Passed, EbrTypeOK
<1>6. \A u \in EbrThreads : at'[u] \in {"replaced", "retire", "push"} => at'[u] = at[u]
    BY <1>1 DEF EbrTypeOK, Actors
<1>7. PollerList'
    BY <1>1 DEF PollerList, EbrTypeOK
<1>8. PusherList'
    BY <1>1, <1>5, <1>6 DEF PusherList
<1>9. Freed = Elems(freed) /\ Freed' = Elems(freed')
    BY DEF Freed, Elems
<1>10. RootApart'
    BY <1>1, <1>2, <1>3, <1>6, <1>9 DEF RootApart, InList, FreedAtOnce
<1>11. HeldSafe'
    BY <1>1, <1>3, <1>5, <1>6, <1>9 DEF HeldSafe, InList
<1> QED
    BY <1>4, <1>7, <1>8, <1>10, <1>11

\* The poll empties the list.
LEMMA PollClearKeeps ==
    ASSUME EbrInv, NEW a \in Actors, PollClear(a)
    PROVE  EbrInv'
<1> USE DEF EbrInv
<1>1. /\ at[a] = "clear" /\ at' = [at EXCEPT ![a] = "lock"]
      /\ lists' = [lists EXCEPT ![idx[a]] = <<>>]
      /\ UNCHANGED <<gstate, epoch, threads, mutex, freed, atOnce, lstate, root, used, holds, idx, old, scan>>
    BY DEF PollClear, Go, clientVars, pollVars
<1>2. /\ lists' \in [Epochs -> Seq(Objects)]
      /\ \A e \in Epochs : Elems(lists'[e]) \subseteq Elems(lists[e])
    BY <1>1, ElemsFacts DEF EbrTypeOK, Elems
<1>3. EbrTypeOK' /\ Sections' /\ OnePoll' /\ Ending'
    BY <1>1, <1>2, PollFrame DEF EbrTypeOK, InPoll
<1>4. \A u \in EbrThreads : Passed(u)' <=> Passed(u)
    BY <1>1 DEF Passed, EbrTypeOK
<1>5. \A u \in EbrThreads : at'[u] \in {"replaced", "retire", "push"} => at'[u] = at[u]
    BY <1>1 DEF EbrTypeOK, Actors
<1>6. PollerList'
    <2>1. \A b \in Actors : at'[b] # "free"
        BY <1>1, PollerOutside DEF EbrTypeOK, InPoll
    <2> QED
        BY <2>1 DEF PollerList
<1>7. PusherList'
    BY <1>1, <1>4, <1>5 DEF PusherList
<1>8. RootApart'
    BY <1>1, <1>2, <1>5 DEF RootApart, InList, Freed, FreedAtOnce
<1>9. HeldSafe'
    <2>1. OldList(epoch) \in Epochs /\ LastList(epoch) \in Epochs
        BY EpochFacts DEF EbrTypeOK
    <2> QED
        BY <1>1, <1>2, <1>4, <1>5, <2>1 DEF HeldSafe, InList, Freed
<1> QED
    BY <1>3, <1>6, <1>7, <1>8, <1>9

\* The poll locks the list of threads and begins to look at them.
LEMMA PollLockKeeps ==
    ASSUME EbrInv, NEW a \in Actors, PollLock(a)
    PROVE  EbrInv'
<1> USE DEF EbrInv
<1>1. /\ at[a] = "lock" /\ at' = [at EXCEPT ![a] = "scan"] /\ mutex' = a
      /\ scan' = [scan EXCEPT ![a] = Len(threads)]
      /\ UNCHANGED <<gstate, epoch, threads, lists, freed, atOnce, lstate, root, used, holds, idx, old>>
    BY DEF PollLock, Go, clientVars
<1>2. Len(threads) \in Nat
    BY LenProperties DEF EbrTypeOK
<1>3. EbrTypeOK' /\ Sections' /\ OnePoll' /\ Ending'
    <2>1. scan' \in [Actors -> Nat] /\ scan'[a] <= Len(threads) /\ at[a] \in InPoll
        BY <1>1, <1>2 DEF EbrTypeOK, InPoll
    <2>2. /\ epoch' \in Epochs /\ lists' \in [Epochs -> Seq(Objects)] /\ freed' \in Seq(Objects)
          /\ idx' \in [Actors -> Epochs] /\ old' \in [Actors -> Seq(Objects)]
        BY <1>1 DEF EbrTypeOK
    <2> QED
        BY <1>1, <2>1, <2>2, PollFrame
<1>4. \A u \in EbrThreads : ~ Passed(u)'
    <2>1. \A b \in Actors : at'[b] = "scan" => b = a
        BY <1>1, PollerOutside DEF EbrTypeOK, InPoll
    <2>2. 1 .. Len(threads) - scan'[a] = {}
        BY <1>1, <1>2 DEF EbrTypeOK
    <2> QED
        BY <1>1, <2>1, <2>2 DEF Passed
<1>5. PollerList' /\ PusherList' /\ RootApart' /\ HeldSafe'
    BY <1>1, <1>4, SafeKept DEF EbrTypeOK, Actors
<1> QED
    BY <1>3, <1>5

\* The poll looks at one thread more, and that one is outside.
LEMMA PollPassKeeps ==
    ASSUME EbrInv, NEW a \in Actors, at[a] = "scan", scan[a] > 0,
           lstate[threads[Len(threads) - scan[a] + 1]] # "ACTIVE",
           scan' = [scan EXCEPT ![a] = scan[a] - 1],
           UNCHANGED <<gstate, epoch, threads, mutex, lists, freed, atOnce, lstate, root, used, at,
                       holds, idx, old>>
    PROVE  EbrInv'
<1> USE DEF EbrInv
<1> DEFINE k == Len(threads) - scan[a] + 1
<1>1. /\ Len(threads) \in Nat /\ scan[a] \in Nat /\ scan[a] <= Len(threads)
      /\ k \in 1 .. Len(threads) /\ threads[k] \in EbrThreads
    BY LenProperties, ElementOfSeq DEF EbrTypeOK, OnePoll
<1>2. scan' \in [Actors -> Nat] /\ scan'[a] = scan[a] - 1 /\ \A b \in Actors : b # a => scan'[b] = scan[b]
    BY <1>1 DEF EbrTypeOK
<1>3. EbrTypeOK' /\ Sections' /\ OnePoll' /\ Ending'
    <2>1. EbrTypeOK'
        BY <1>1, <1>2 DEF EbrTypeOK, Objects
    <2>2. Sections'
        <3> SUFFICES ASSUME NEW u \in EbrThreads PROVE SectionOf(u)'
            BY DEF Sections
        <3> QED
            BY <1>1, SectionSame DEF Sections
    <2>3. OnePoll' /\ Ending'
        BY <1>1, <1>2 DEF EbrTypeOK, OnePoll, Ending
    <2> QED
        BY <2>1, <2>2, <2>3
<1>4. holds[threads[k]] = NULL
    BY <1>1 DEF Sections, SectionOf
<1>5. ASSUME NEW u \in EbrThreads, Passed(u)' PROVE Passed(u) \/ holds[u] = NULL
    <2>1. PICK i \in 1 .. Len(threads) - scan'[a] : threads[i] = u
        BY <1>5, PollerOutside DEF Passed, InPoll
    <2>2. i = k \/ i \in 1 .. Len(threads) - scan[a]
        BY <1>1, <1>2
    <2> QED
        BY <1>4, <2>1, <2>2 DEF Passed
<1>6. PollerList' /\ PusherList' /\ RootApart' /\ HeldSafe'
    BY <1>5, SafeKept
<1> QED
    BY <1>3, <1>6

\* The poll finds a thread in its critical section, and gives up.
LEMMA PollBlockedKeeps ==
    ASSUME EbrInv, NEW a \in Actors, at[a] = "scan",
           at' = [at EXCEPT ![a] = "out"], gstate' = "NORMAL", mutex' = NULL,
           UNCHANGED <<epoch, threads, lists, freed, atOnce, lstate, root, used, holds, idx, old, scan>>
    PROVE  EbrInv'
<1> USE DEF EbrInv
<1>1. /\ epoch' \in Epochs /\ lists' \in [Epochs -> Seq(Objects)] /\ freed' \in Seq(Objects)
      /\ idx' \in [Actors -> Epochs] /\ old' \in [Actors -> Seq(Objects)]
      /\ scan' \in [Actors -> Nat]
    BY DEF EbrTypeOK
<1>2. EbrTypeOK' /\ Sections' /\ OnePoll' /\ Ending'
    BY <1>1, PollFrame DEF InPoll
<1>3. \A u \in EbrThreads : ~ Passed(u)'
    BY PollerOutside DEF Passed, EbrTypeOK, InPoll
<1>4. PollerList' /\ PusherList' /\ RootApart' /\ HeldSafe'
    BY <1>3, SafeKept DEF EbrTypeOK, Actors
<1> QED
    BY <1>2, <1>4

\* The poll has found every thread outside, or has looked at it before it came
\* in, and moves the epoch on: what any of them holds now was in no list of the
\* last epoch.
LEMMA PollMovesOn ==
    ASSUME EbrInv, NEW a \in Actors, at[a] = "scan", scan[a] = 0,
           at' = [at EXCEPT ![a] = "out"], gstate' = "NORMAL", mutex' = NULL,
           epoch' = (epoch + 1) % 3,
           UNCHANGED <<threads, lists, freed, atOnce, lstate, root, used, holds, idx, old, scan>>
    PROVE  EbrInv'
<1> USE DEF EbrInv
<1>1. /\ epoch \in Epochs /\ epoch' \in Epochs /\ LastList(epoch) \in Epochs
      /\ LastList(epoch') = epoch /\ OldList(epoch') = LastList(epoch)
    BY EpochFacts DEF EbrTypeOK
<1>2. /\ lists' \in [Epochs -> Seq(Objects)] /\ freed' \in Seq(Objects)
      /\ idx' \in [Actors -> Epochs] /\ old' \in [Actors -> Seq(Objects)]
      /\ scan' \in [Actors -> Nat]
    BY DEF EbrTypeOK
<1>3. EbrTypeOK' /\ Sections' /\ OnePoll' /\ Ending'
    BY <1>1, <1>2, PollFrame DEF InPoll
<1>4. \A u \in EbrThreads : ~ Passed(u)'
    BY PollerOutside DEF Passed, EbrTypeOK, InPoll
<1>5. ASSUME NEW u \in EbrThreads, at[u] \in InSection PROVE Passed(u)
    <2>1. PICK i \in 1 .. Len(threads) : threads[i] = u
        BY <1>5 DEF Sections, SectionOf, InSection
    <2>2. Len(threads) - scan[a] = Len(threads)
        BY LenProperties DEF EbrTypeOK
    <2> QED
        BY <2>1, <2>2 DEF Passed
<1>6. \A u \in EbrThreads : (at'[u] \in {"replaced", "retire", "push"} => at'[u] = at[u])
    BY DEF EbrTypeOK, Actors
<1>7. PollerList'
    BY PollerOutside DEF PollerList, EbrTypeOK, InPoll
<1>8. PusherList'
    BY <1>1, <1>4, <1>5, <1>6 DEF PusherList, InSection
<1>9. RootApart'
    BY <1>6 DEF RootApart, InList, Freed, FreedAtOnce
<1>10. HeldSafe'
    <2>1. \A u \in EbrThreads : holds[u] # NULL => Passed(u)
        BY <1>5 DEF Sections, SectionOf
    <2> QED
        BY <1>1, <1>4, <2>1 DEF HeldSafe, InList, Freed
<1> QED
    BY <1>3, <1>7, <1>8, <1>9, <1>10

LEMMA PollKeeps ==
    ASSUME EbrInv, NEW a \in Actors, PollStep(a)
    PROVE  EbrInv'
<1>1. CASE PollScan(a)
    <2> DEFINE n == scan[a]
               blocked == n > 0 /\ lstate[threads[Len(threads) - n + 1]] = "ACTIVE"
    <2>1. CASE n > 0 /\ ~ blocked
        BY <1>1, <2>1, PollPassKeeps DEF PollScan, clientVars
    <2>2. CASE blocked
        BY <1>1, <2>2, PollBlockedKeeps DEF PollScan, clientVars
    <2>3. CASE ~ (n > 0)
        <3>1. n = 0
            BY <2>3 DEF EbrInv, EbrTypeOK
        <3> QED
            BY <1>1, <2>3, <3>1, PollMovesOn DEF PollScan, clientVars
    <2> QED
        BY <2>1, <2>2, <2>3
<1> QED
    BY <1>1, PollBeginKeeps, PollHeadKeeps, PollFreeKeeps, PollClearKeeps, PollLockKeeps DEF PollStep

--------------------------------------------------------------------------------
(* Destroy                                                                   *)

\* The owner retires the last object, or frees it at once, when every thread is
\* outside for good.
LEMMA DestroyRetireKeeps == ASSUME EbrInv, DestroyRetire PROVE EbrInv'
<1> USE DEF EbrInv
<1>1. /\ at[OWNER] = "running" /\ at' = [at EXCEPT ![OWNER] = "retired"]
      /\ \A t \in EbrThreads : at[t] \in {"done", "out"}
      /\ \/ lists' = [lists EXCEPT ![epoch] = <<root>> \o @] /\ atOnce' = atOnce
         \/ atOnce' = Append(atOnce, root) /\ lists' = lists
      /\ root' = NULL
      /\ UNCHANGED <<gstate, epoch, threads, mutex, freed, lstate, used, holds, idx, old, scan>>
    BY DEF DestroyRetire, MayDestroy, Go, pollVars
<1>2. OWNER \in Actors /\ root \in Objects /\ epoch \in Epochs
    BY <1>1 DEF Actors, Ending, EbrTypeOK
<1>3. \A t \in EbrThreads : at'[t] = at[t] /\ holds[t] = NULL
    BY <1>1, EbrAssumption DEF EbrTypeOK, Actors, Sections, SectionOf, InSection
<1>4. lists' \in [Epochs -> Seq(Objects)] /\ atOnce' \in Seq(Objects)
    <2>1. <<root>> \o lists[epoch] \in Seq(Objects)
        BY <1>2 DEF EbrTypeOK
    <2>2. Append(atOnce, root) \in Seq(Objects) /\ atOnce \in Seq(Objects)
        BY <1>2 DEF EbrTypeOK
    <2>3. lists \in [Epochs -> Seq(Objects)]
        BY DEF EbrTypeOK
    <2>4. CASE lists' = lists
        BY <1>1, <2>2, <2>3, <2>4
    <2>5. CASE lists' = [lists EXCEPT ![epoch] = <<root>> \o lists[epoch]] /\ atOnce' = atOnce
        BY <2>1, <2>2, <2>3, <2>5
    <2> QED
        BY <1>1, <2>4, <2>5
<1>5. EbrTypeOK'
    BY <1>1, <1>4 DEF EbrTypeOK, InSection, InPoll, Objects
<1>6. Sections'
    BY <1>1, <1>3 DEF Sections, SectionOf
<1>7. OnePoll' /\ PollerList'
    <2>1. \A a \in Actors : at[a] \notin InPoll /\ at'[a] \notin InPoll
        BY <1>1 DEF EbrTypeOK, Actors, InPoll
    <2> QED
        BY <2>1 DEF OnePoll, PollerList, InPoll
<1>8. Ending'
    BY <1>1, <1>2, <1>3 DEF Ending, EbrTypeOK
<1>9. PusherList' /\ HeldSafe'
    BY <1>1, <1>3 DEF PusherList, HeldSafe
<1>10. RootApart'
    <2>1. NULL \notin Objects
        BY EbrAssumption DEF Objects
    <2>2. \A e \in Epochs : Elems(lists'[e]) \subseteq Objects
        BY <1>4, ElemsFacts
    <2>3. Freed' \subseteq Objects /\ FreedAtOnce' \subseteq Objects
        BY <1>1, <1>4, ElementOfSeq DEF Freed, FreedAtOnce, EbrTypeOK
    <2> QED
        BY <1>1, <1>3, <2>1, <2>2, <2>3 DEF RootApart, InList
<1> QED
    BY <1>5, <1>6, <1>7, <1>8, <1>9, <1>10

\* The owner has polled, and tells the reclamation to take nothing more.
LEMMA DestroyInactiveKeeps == ASSUME EbrInv, DestroyInactive PROVE EbrInv'
<1> USE DEF EbrInv
<1>1. /\ at[OWNER] = "out" /\ at' = [at EXCEPT ![OWNER] = "try"]
      /\ gstate = "NORMAL" /\ gstate' = "INACTIVE"
      /\ UNCHANGED <<epoch, threads, mutex, lists, freed, atOnce, lstate, root, used, holds, idx, old, scan>>
    BY DEF DestroyInactive, Go, clientVars, pollVars
<1>2. OWNER \in Actors /\ \A t \in EbrThreads : t # OWNER /\ at'[t] = at[t]
    BY <1>1, EbrAssumption DEF Actors, EbrTypeOK
<1>3. EbrTypeOK'
    BY <1>1 DEF EbrTypeOK, InSection, InPoll, Objects
<1>4. Sections'
    BY <1>1, <1>2 DEF Sections, SectionOf
<1>5. \A a \in Actors : at[a] \notin InPoll /\ at'[a] \notin InPoll
    BY <1>1 DEF OnePoll, EbrTypeOK, InPoll
<1>6. OnePoll'
    BY <1>5 DEF OnePoll, InPoll
<1>7. Ending'
    BY <1>1, <1>2 DEF Ending, EbrTypeOK
<1>8. \A u \in EbrThreads : ~ Passed(u)'
    BY <1>5 DEF Passed, InPoll
<1>9. PollerList' /\ PusherList' /\ RootApart' /\ HeldSafe'
    BY <1>1, <1>8, SafeKept DEF EbrTypeOK, Actors
<1> QED
    BY <1>3, <1>4, <1>6, <1>7, <1>9

--------------------------------------------------------------------------------
LEMMA EbrInitInv == EbrInit => EbrInv
<1> SUFFICES ASSUME EbrInit PROVE EbrInv
    OBVIOUS
<1> USE DEF EbrInit
<1>1. 1 \in Nat /\ Objects = {1}
    BY DEF Objects
<1>2. EbrTypeOK
    BY <1>1 DEF EbrTypeOK, Epochs
<1>3. \A a \in Actors : at[a] \in {"running", "new"}
    OBVIOUS
<1>4. Sections
    BY EbrAssumption DEF Sections, SectionOf, Actors, InSection
<1>5. OnePoll /\ PollerList
    BY <1>3 DEF OnePoll, PollerList, InPoll
<1>6. Ending
    BY EbrAssumption DEF Ending, Actors
<1>7. PusherList /\ HeldSafe
    BY <1>3 DEF PusherList, HeldSafe, Actors
<1>8. RootApart
    BY <1>3 DEF RootApart, InList, Elems, Freed, FreedAtOnce, Actors
<1> QED
    BY <1>2, <1>4, <1>5, <1>6, <1>7, <1>8 DEF EbrInv

LEMMA EbrKeepsInv == EbrInv /\ [EbrNext]_ebrVars => EbrInv'
<1> SUFFICES ASSUME EbrInv, [EbrNext]_ebrVars PROVE EbrInv'
    OBVIOUS
<1>1. CASE EbrDestroy
    <2>1. OWNER \in Actors
        BY DEF Actors
    <2> QED
        BY <1>1, <2>1, TryDestroyKeeps DEF EbrDestroy, Go, clientVars, pollVars
<1>2. CASE UNCHANGED ebrVars
    <2>1. \A u \in EbrThreads : Passed(u)' <=> Passed(u)
        BY <1>2 DEF Passed, ebrVars
    <2>2. PollerList' /\ PusherList' /\ RootApart' /\ HeldSafe'
        BY <1>2, <2>1, SafeKept DEF ebrVars
    <2> QED
        BY <1>2, <2>2 DEF EbrInv, EbrTypeOK, Sections, SectionOf, OnePoll, Ending, ebrVars, Objects
<1> QED
    BY <1>1, <1>2, ThreadKeeps, PollKeeps, DestroyRetireKeeps, DestroyInactiveKeeps DEF EbrNext

\* The invariant holds for ever.
THEOREM EbrInvariance == EbrSpec => []EbrInv
    BY EbrInitInv, EbrKeepsInv, PTL DEF EbrSpec

\* No poll and no destroy frees what a thread may still hold from its critical
\* section, and nobody frees what the pointer leads to; only a retire whose
\* malloc fails frees what others may hold (clog_ebr_defer_release, poll, enter
\* and exit).
THEOREM ReadersAreSafe == EbrSpec => []GracePeriod
<1>1. EbrInv => GracePeriod
    <2> SUFFICES ASSUME EbrInv PROVE GracePeriod
        OBVIOUS
    <2>1. Freed \subseteq Objects /\ NULL \notin Objects
        BY EbrAssumption, ElementOfSeq DEF EbrInv, EbrTypeOK, Freed, Objects
    <2> QED
        BY <2>1 DEF EbrInv, RootApart, HeldSafe, GracePeriod
<1> QED
    BY <1>1, EbrInvariance, PTL

--------------------------------------------------------------------------------
(* What is retired is freed once                                            *)


\* An object is in one list, at one place.
ListsApart ==
    /\ \A e \in Epochs : Once(lists[e])
    /\ \A e, f \in Epochs : e # f => InList(e) \cap InList(f) = {}

\* What is freed is in no list any more, but for the list a poll is emptying.
FreedApart ==
    /\ Once(freed)
    /\ \A e \in Epochs : InList(e) \cap Freed # {} =>
            e = OldList(epoch) /\ \E a \in Actors : at[a] = "clear"

\* A poll empties the list it has freed.
PollerFrees ==
    \A a \in Actors : at[a] \in {"free", "clear"} =>
        /\ idx[a] = OldList(epoch)
        /\ at[a] = "clear" => InList(OldList(epoch)) \subseteq Freed

\* What a thread is retiring is in no list and nobody else's.
RetireesApart ==
    \A t \in EbrThreads : at[t] \in {"replaced", "retire", "push"} =>
        /\ \A e \in Epochs : holds[t] \notin InList(e)
        /\ \A u \in EbrThreads : at[u] \in {"replaced", "retire", "push"} /\ holds[u] = holds[t] => u = t

\* What was freed at once is nowhere else.
AtOnceApart ==
    /\ Once(atOnce) /\ FreedAtOnce \cap Freed = {}
    /\ \A e \in Epochs : InList(e) \cap FreedAtOnce = {}
    /\ \A t \in EbrThreads : at[t] \in {"replaced", "retire", "push"} => holds[t] \notin FreedAtOnce

\* An object the pointer does not lead to is freed, listed or being retired.
NoneLost ==
    \A o \in Objects :
        \/ o = root \/ o \in Freed \cup FreedAtOnce
        \/ \E e \in Epochs : o \in InList(e)
        \/ \E t \in EbrThreads : at[t] \in {"replaced", "retire", "push"} /\ holds[t] = o

\* The last of the owner and the threads to go frees everything.
LastOneFrees ==
    /\ at[OWNER] # "running" => root = NULL
    /\ gstate = "freed" => \A e \in Epochs : lists[e] = <<>>
    /\ at[OWNER] \in {"try", "done"} => gstate \in {"INACTIVE", "freed"}
    /\ at[OWNER] = "done" /\ gstate = "INACTIVE" => \E t \in EbrThreads : at[t] # "done"

RetireInv ==
    /\ ListsApart /\ FreedApart /\ PollerFrees /\ RetireesApart
    /\ AtOnceApart /\ NoneLost /\ LastOneFrees

--------------------------------------------------------------------------------
(* Sequences without repetition                                             *)

LEMMA OnceConcat ==
    ASSUME NEW S, NEW s \in Seq(S), NEW r \in Seq(S), Once(s), Once(r), Elems(s) \cap Elems(r) = {}
    PROVE  Once(s \o r)
<1>1. /\ Len(s) \in Nat /\ Len(r) \in Nat /\ Len(s \o r) = Len(s) + Len(r)
      /\ \A i \in 1 .. Len(s) + Len(r) :
            (s \o r)[i] = IF i <= Len(s) THEN s[i] ELSE r[i - Len(s)]
    BY LenProperties, ConcatProperties
<1>2. \A i \in 1 .. Len(s), j \in 1 .. Len(r) : s[i] # r[j]
    BY DEF Elems
<1> SUFFICES ASSUME NEW i \in 1 .. Len(s) + Len(r), NEW j \in 1 .. Len(s) + Len(r),
                    (s \o r)[i] = (s \o r)[j]
             PROVE  i = j
    BY <1>1 DEF Once
<1>3. CASE i <= Len(s) /\ j <= Len(s)
    BY <1>1, <1>3 DEF Once
<1>4. CASE ~ (i <= Len(s)) /\ ~ (j <= Len(s))
    <2>1. i - Len(s) \in 1 .. Len(r) /\ j - Len(s) \in 1 .. Len(r)
        BY <1>1, <1>4
    <2>2. r[i - Len(s)] = r[j - Len(s)]
        BY <1>1, <1>4
    <2>3. i - Len(s) = j - Len(s)
        BY <2>1, <2>2 DEF Once
    <2> QED
        BY <1>1, <2>3
<1>5. CASE i <= Len(s) /\ ~ (j <= Len(s))
    <2>1. i \in 1 .. Len(s) /\ j - Len(s) \in 1 .. Len(r)
        BY <1>1, <1>5
    <2>2. s[i] = r[j - Len(s)]
        BY <1>1, <1>5
    <2> QED
        BY <1>2, <2>1, <2>2
<1>6. CASE ~ (i <= Len(s)) /\ j <= Len(s)
    <2>1. j \in 1 .. Len(s) /\ i - Len(s) \in 1 .. Len(r)
        BY <1>1, <1>6
    <2>2. s[j] = r[i - Len(s)]
        BY <1>1, <1>6
    <2> QED
        BY <1>2, <2>1, <2>2
<1> QED
    BY <1>3, <1>4, <1>5, <1>6

--------------------------------------------------------------------------------
(* The steps that keep it                                                   *)

\* Nothing moves between the pointer, the threads, the lists and what is freed.
LEMMA SameLists ==
    ASSUME EbrInv, RetireInv, LastOneFrees', UNCHANGED <<lists, freed, atOnce, root, used>>,
           \A t \in EbrThreads : at'[t] \in {"replaced", "retire", "push"} <=> at[t] \in {"replaced", "retire", "push"},
           \A t \in EbrThreads : at[t] \in {"replaced", "retire", "push"} => holds'[t] = holds[t],
           \A a \in Actors : at'[a] = "clear" <=> at[a] = "clear",
           \A a \in Actors : at'[a] = "clear" => idx'[a] = idx[a],
           \A a \in Actors : at'[a] = "free" => idx'[a] = OldList(epoch),
           epoch' = epoch \/ \A a \in Actors : at[a] # "clear" /\ at'[a] \notin {"free", "clear"}
    PROVE  RetireInv'
<1> USE DEF RetireInv
<1>1. ListsApart'
    BY DEF ListsApart, InList
<1>2. FreedApart'
    BY DEF FreedApart, InList, Freed
<1>3. PollerFrees'
    BY DEF PollerFrees, InList, Freed
<1>4. RetireesApart'
    BY DEF RetireesApart, InList
<1>5. NoneLost'
    <2> SUFFICES ASSUME NEW o \in Objects
                 PROVE  \/ o = root \/ o \in Freed \cup FreedAtOnce
                        \/ \E e \in Epochs : o \in InList(e)
                        \/ \E t \in EbrThreads : at'[t] \in {"replaced", "retire", "push"} /\ holds'[t] = o
        BY DEF NoneLost, Objects, Freed, FreedAtOnce, InList
    <2> QED
        BY DEF NoneLost
<1>6. AtOnceApart'
    <2>1. /\ FreedAtOnce' = FreedAtOnce /\ Freed' = Freed
          /\ \A e \in Epochs : InList(e)' = InList(e)
        BY DEF FreedAtOnce, Freed, InList
    <2> QED
        BY <2>1 DEF AtOnceApart
<1> QED
    BY <1>1, <1>2, <1>3, <1>4, <1>5, <1>6

\* Neither the owner nor the last thread goes.
LEMMA NobodyGoes ==
    ASSUME LastOneFrees,
           at'[OWNER] # "running" => at[OWNER] # "running",
           root' = root \/ at[OWNER] = "running",
           gstate' = "freed" => gstate = "freed" /\ lists' = lists,
           at'[OWNER] \in {"try", "done"} => at'[OWNER] = at[OWNER] /\ gstate' = gstate,
           \A t \in EbrThreads : at'[t] = "done" => at[t] = "done"
    PROVE  LastOneFrees'
BY DEF LastOneFrees

\* Coming and going, reading the pointer, and whatever has to start again.
LEMMA ThreadLeavesLists ==
    ASSUME EbrInv, RetireInv, NEW t \in EbrThreads,
           \/ Register(t) \/ EnterCheck(t) \/ EnterSwap(t) \/ Load(t) \/ RetireLoad(t)
           \/ Exit(t) \/ Unregister(t)
           \/ Replace(t) /\ root # holds[t]
           \/ RetirePush(t) /\ ~ MayPush(t)
    PROVE  RetireInv'
<1> DEFINE to == at'[t]
<1>1. /\ at' = [at EXCEPT ![t] = to]
      /\ <<at[t], to>> \in {<<"new", "out">>, <<"out", "enter">>, <<"enter", "in">>, <<"in", "holding">>,
                            <<"replaced", "push">>, <<"retire", "push">>, <<"holding", "out">>,
                            <<"retired", "out">>,
                            <<"out", "unregister">>, <<"holding", "in">>, <<"push", "retire">>}
      /\ UNCHANGED <<gstate, epoch, lists, freed, atOnce, root, used>>
      /\ holds' = holds \/ (holds' = [holds EXCEPT ![t] = holds'[t]] /\ to \in {"holding", "out"})
      /\ idx' = idx \/ (idx' = [idx EXCEPT ![t] = idx'[t]] /\ to = "push")
    BY DEF Register, EnterCheck, EnterSwap, EnterState, Load, RetireLoad, Exit, Unregister, Replace,
        RetirePush, Go, globalVars, clientVars, pollVars, EbrInv, EbrTypeOK, Actors
<1> HIDE DEF to
<1>2. /\ t # OWNER /\ t \in Actors /\ OWNER \in Actors
      /\ \A a \in Actors : at'[a] = IF a = t THEN to ELSE at[a]
    BY <1>1, EbrAssumption DEF EbrInv, EbrTypeOK, Actors
<1>3. at'[OWNER] = at[OWNER] /\ \A u \in EbrThreads : at'[u] = "done" => at[u] = "done"
    BY <1>1, <1>2 DEF Actors
<1>4. LastOneFrees'
    BY <1>1, <1>3, NobodyGoes DEF RetireInv
<1>5. \A u \in EbrThreads : at'[u] \in {"replaced", "retire", "push"} <=> at[u] \in {"replaced", "retire", "push"}
    BY <1>1, <1>2 DEF Actors
<1>6. \A u \in EbrThreads : at[u] \in {"replaced", "retire", "push"} => holds'[u] = holds[u]
    BY <1>1 DEF EbrInv, EbrTypeOK
<1>7. \A a \in Actors : (at'[a] = "clear" <=> at[a] = "clear") /\ (at'[a] = "free" <=> at[a] = "free")
    BY <1>1, <1>2
<1>8. \A a \in Actors : at[a] \in {"free", "clear"} => idx'[a] = idx[a]
    BY <1>1 DEF EbrInv, EbrTypeOK
<1>9. \A a \in Actors : at'[a] = "free" => idx'[a] = OldList(epoch)
    BY <1>7, <1>8 DEF RetireInv, PollerFrees
<1> QED
    BY <1>1, <1>4, <1>5, <1>6, <1>7, <1>8, <1>9, SameLists

\* The object a thread takes out of the pointer is its own to retire.
LEMMA ReplaceRetires ==
    ASSUME EbrInv, RetireInv, NEW t \in EbrThreads, Replace(t), root = holds[t]
    PROVE  RetireInv'
<1> USE DEF RetireInv
<1>1. /\ at[t] = "holding" /\ at' = [at EXCEPT ![t] = "replaced"]
      /\ root' = used + 1 /\ used' = used + 1
      /\ UNCHANGED <<gstate, epoch, threads, mutex, lists, atOnce, lstate, freed, holds, idx, old, scan>>
    BY DEF Replace, globalVars, pollVars
<1>2. /\ t # OWNER /\ t \in Actors /\ OWNER \in Actors
      /\ \A a \in Actors : at'[a] = IF a = t THEN "replaced" ELSE at[a]
    BY <1>1, EbrAssumption DEF EbrInv, EbrTypeOK, Actors
<1>3. at[OWNER] = "running" /\ gstate # "freed"
    BY <1>1 DEF EbrInv, Ending
<1>4. LastOneFrees'
    BY <1>1, <1>2, <1>3, NobodyGoes DEF Actors
<1>5. ListsApart'
    BY <1>1 DEF ListsApart, InList
<1>6. FreedApart' /\ PollerFrees'
    <2>1. FreedApart'
        BY <1>1 DEF FreedApart, InList, Freed
    <2>2. \A a \in Actors : at'[a] = "clear" => at[a] = "clear"
        BY <1>2
    <2>3. PollerFrees'
        BY <1>1, <1>2, <2>2 DEF PollerFrees, InList, Freed
    <2> QED
        BY <2>1, <2>3
<1>7. RetireesApart'
    <2>1. /\ \A e \in Epochs : holds[t] \notin InList(e)
          /\ \A u \in EbrThreads : at[u] \in {"replaced", "retire", "push"} => holds[u] # holds[t]
        BY DEF EbrInv, RootApart
    <2> QED
        BY <1>1, <1>2, <2>1 DEF RetireesApart, InList, Actors
<1>8. NoneLost'
    <2>1. used \in Nat
        BY DEF EbrInv, EbrTypeOK
    <2>2. ASSUME NEW o \in Objects, o # root
          PROVE  \/ o \in Freed \cup FreedAtOnce
                 \/ \E e \in Epochs : o \in InList(e)
                 \/ \E u \in EbrThreads : at'[u] \in {"replaced", "retire", "push"} /\ holds[u] = o
        BY <1>2, <2>2 DEF NoneLost, Actors
    <2>3. at'[t] \in {"replaced", "retire", "push"} /\ holds[t] = root
        BY <1>2
    <2>4. \A o \in 1 .. used + 1 : o \in Objects \/ o = used + 1
        BY <2>1 DEF Objects
    <2> QED
        BY <1>1, <2>2, <2>3, <2>4 DEF NoneLost, Objects, Freed, FreedAtOnce, InList
<1>9. AtOnceApart'
    <2>1. /\ FreedAtOnce' = FreedAtOnce /\ Freed' = Freed
          /\ \A e \in Epochs : InList(e)' = InList(e)
        BY <1>1 DEF FreedAtOnce, Freed, InList
    <2>2. holds[t] \notin FreedAtOnce
        BY DEF EbrInv, RootApart
    <2> QED
        BY <1>1, <1>2, <2>1, <2>2 DEF AtOnceApart, Actors
<1> QED
    BY <1>4, <1>5, <1>6, <1>7, <1>8, <1>9

\* An object freed at once was its thread's to retire, and is nobody's now.
LEMMA AtOnceRetires ==
    ASSUME EbrInv, RetireInv, NEW t \in EbrThreads, RetireAtOnce(t)
    PROVE  RetireInv'
<1> USE DEF RetireInv
<1>0. PICK o : o = holds[t]
    OBVIOUS
<1>1. /\ at[t] = "replaced" /\ at' = [at EXCEPT ![t] = "retired"]
      /\ atOnce' = Append(atOnce, o)
      /\ UNCHANGED <<gstate, epoch, threads, mutex, lists, lstate, freed, root, used, holds,
                     idx, old, scan>>
    BY <1>0 DEF RetireAtOnce, Go, clientVars, pollVars
<1>2. /\ t # OWNER /\ t \in Actors /\ OWNER \in Actors
      /\ \A a \in Actors : at'[a] = IF a = t THEN "retired" ELSE at[a]
    BY <1>1, EbrAssumption DEF EbrInv, EbrTypeOK, Actors
<1>3. /\ o \in Objects /\ o \notin Freed /\ o \notin FreedAtOnce
      /\ \A e \in Epochs : o \notin InList(e)
      /\ \A u \in EbrThreads : at'[u] \in {"replaced", "retire", "push"} =>
            at[u] \in {"replaced", "retire", "push"} /\ holds[u] # o /\ u # t
    <2>1. o \in Objects /\ o \notin Freed
        BY <1>0, <1>1 DEF EbrInv, EbrTypeOK, Sections, SectionOf, InSection, HeldSafe
    <2>2. o \notin FreedAtOnce /\ \A e \in Epochs : o \notin InList(e)
        BY <1>0, <1>1 DEF RetireesApart, AtOnceApart
    <2>3. \A u \in EbrThreads : at'[u] \in {"replaced", "retire", "push"} =>
            at[u] \in {"replaced", "retire", "push"} /\ holds[u] # o /\ u # t
        BY <1>0, <1>1, <1>2 DEF RetireesApart, Actors
    <2> QED
        BY <2>1, <2>2, <2>3
<1>4. FreedAtOnce' = FreedAtOnce \cup {o} /\ Once(atOnce')
    BY <1>1, <1>3, AppendFrees DEF EbrInv, EbrTypeOK, AtOnceApart
<1>5. /\ Freed' = Freed /\ Objects' = Objects
      /\ \A e \in Epochs : InList(e)' = InList(e)
      /\ \A a \in Actors : at'[a] \in {"free", "clear"} <=> at[a] \in {"free", "clear"}
      /\ \A a \in Actors : at'[a] = "clear" <=> at[a] = "clear"
    BY <1>1, <1>2 DEF Freed, Objects, InList
<1>6. ListsApart'
    BY <1>1, <1>5 DEF ListsApart
<1>7. FreedApart'
    BY <1>1, <1>5 DEF FreedApart
<1>8. PollerFrees'
    <2>1. OldList(epoch) \in Epochs
        BY EpochFacts DEF EbrInv, EbrTypeOK
    <2> QED
        BY <1>1, <1>5, <2>1 DEF PollerFrees
<1>9. RetireesApart'
    BY <1>1, <1>3, <1>5 DEF RetireesApart
<1>10. AtOnceApart'
    <2>1. \A u \in EbrThreads : at'[u] \in {"replaced", "retire", "push"} => holds[u] \notin FreedAtOnce'
        BY <1>3, <1>4 DEF AtOnceApart
    <2>2. FreedAtOnce' \cap Freed = {} /\ \A e \in Epochs : InList(e) \cap FreedAtOnce' = {}
        BY <1>3, <1>4 DEF AtOnceApart
    <2> QED
        BY <1>1, <1>4, <1>5, <2>1, <2>2 DEF AtOnceApart
<1>11. NoneLost'
    <2> SUFFICES ASSUME NEW x \in Objects, x # o
                 PROVE  \/ x = root \/ x \in Freed \cup FreedAtOnce
                        \/ \E e \in Epochs : x \in InList(e)
                        \/ \E u \in EbrThreads :
                              at'[u] \in {"replaced", "retire", "push"} /\ holds[u] = x
        BY <1>1, <1>4, <1>5 DEF NoneLost
    <2>1. \A u \in EbrThreads : holds[u] = x => u = t \/ at'[u] = at[u]
        BY <1>2 DEF Actors
    <2> QED
        BY <1>0, <2>1 DEF NoneLost
<1>12. LastOneFrees'
    <2>1. gstate # "freed"
        BY <1>1, EbrAssumption DEF EbrInv, Ending
    <2>2. at'[OWNER] = at[OWNER] /\ \A u \in EbrThreads : at'[u] = "done" => at[u] = "done"
        BY <1>1, <1>2 DEF Actors
    <2> QED
        BY <1>1, <2>1, <2>2, NobodyGoes
<1> QED
    BY <1>6, <1>7, <1>8, <1>9, <1>10, <1>11, <1>12

\* An object pushed to the list of this epoch or of the last one, and that was
\* in no list.
LEMMA PushedApart ==
    ASSUME EbrInv, ListsApart, FreedApart, NEW o \in Objects, NEW e \in {epoch, LastList(epoch)},
           o \notin Freed, \A d \in Epochs : o \notin InList(d),
           lists' = [lists EXCEPT ![e] = <<o>> \o lists[e]],
           UNCHANGED <<epoch, freed>>,
           \A a \in Actors : at[a] = "clear" => at'[a] = "clear"
    PROVE  /\ ListsApart' /\ FreedApart'
           /\ \A d \in Epochs : InList(d)' = IF d = e THEN {o} \cup InList(d) ELSE InList(d)
           /\ e # OldList(epoch)
<1>1. /\ e \in Epochs /\ lists[e] \in Seq(Objects) /\ <<o>> \in Seq(Objects)
      /\ e # OldList(epoch) /\ OldList(epoch) \in Epochs
    BY EpochFacts DEF EbrInv, EbrTypeOK
<1>2. Elems(<<o>>) = {o}
    BY <1>1, ElemsFacts
<1>3. Elems(<<o>> \o lists[e]) = {o} \cup Elems(lists[e])
    BY <1>1, <1>2, ObjectElems
<1>4. \A d \in Epochs : lists'[d] = IF d = e THEN <<o>> \o lists[d] ELSE lists[d]
    BY <1>1 DEF EbrInv, EbrTypeOK
<1>5. \A d \in Epochs : InList(d)' = IF d = e THEN {o} \cup InList(d) ELSE InList(d)
    <2> SUFFICES ASSUME NEW d \in Epochs
                 PROVE  InList(d)' = IF d = e THEN {o} \cup InList(d) ELSE InList(d)
        OBVIOUS
    <2>1. InList(d)' = Elems(lists'[d])
        BY DEF InList
    <2>2. CASE d = e
        <3>1. lists'[d] = <<o>> \o lists[e]
            BY <1>4, <2>2
        <3> QED
            BY <1>3, <2>1, <2>2, <3>1 DEF InList
    <2>3. CASE d # e
        BY <1>4, <2>1, <2>3 DEF InList
    <2> QED
        BY <2>2, <2>3
<1>6. Once(<<o>> \o lists[e])
    <2>1. Once(<<o>>)
        BY DEF Once
    <2>2. Elems(<<o>>) \cap Elems(lists[e]) = {}
        BY <1>1, <1>2 DEF InList
    <2> QED
        BY <1>1, <2>1, <2>2, OnceConcat DEF ListsApart
<1>7. ListsApart'
    <2>1. \A d \in Epochs : Once(lists'[d])
        BY <1>4, <1>6 DEF ListsApart
    <2>2. \A d, f \in Epochs : d # f => InList(d)' \cap InList(f)' = {}
        BY <1>5 DEF ListsApart
    <2> QED
        BY <2>1, <2>2 DEF ListsApart
<1>8. FreedApart'
    <2>1. Freed' = Freed
        BY DEF Freed
    <2>2. \A d \in Epochs : InList(d)' \cap Freed # {} => InList(d) \cap Freed # {}
        BY <1>5
    <2> QED
        BY <2>1, <2>2 DEF FreedApart
<1> QED
    BY <1>1, <1>5, <1>7, <1>8

\* What was being retired is in a list.
LEMMA PushRetires ==
    ASSUME EbrInv, RetireInv, NEW t \in EbrThreads, RetirePush(t), MayPush(t)
    PROVE  RetireInv'
<1> USE DEF RetireInv
<1>0. PICK o, e : o = holds[t] /\ e = idx[t]
    OBVIOUS
<1>1. /\ at[t] = "push" /\ at' = [at EXCEPT ![t] = "retired"]
      /\ lists' = [lists EXCEPT ![e] = <<o>> \o lists[e]]
      /\ UNCHANGED <<gstate, epoch, threads, mutex, freed, atOnce, lstate, root, used, holds, idx, old, scan>>
    BY <1>0 DEF RetirePush, MayPush, clientVars, pollVars
<1>2. /\ t # OWNER /\ t \in Actors /\ OWNER \in Actors
      /\ \A a \in Actors : at'[a] = IF a = t THEN "retired" ELSE at[a]
    BY <1>1, EbrAssumption DEF EbrInv, EbrTypeOK, Actors
<1>3. o \in Objects /\ e \in {epoch, LastList(epoch)} /\ o \notin Freed
    BY <1>0, <1>1 DEF EbrInv, EbrTypeOK, Sections, SectionOf, InSection, PusherList, HeldSafe
<1>4. \A d \in Epochs : o \notin InList(d)
    BY <1>0, <1>1 DEF RetireesApart
<1>5. \A a \in Actors : at'[a] \in {"free", "clear"} <=> at[a] \in {"free", "clear"}
    BY <1>1, <1>2
<1>6. \A a \in Actors : at'[a] = "clear" <=> at[a] = "clear"
    BY <1>1, <1>2
<1>7. /\ ListsApart' /\ FreedApart'
      /\ \A d \in Epochs : InList(d)' = IF d = e THEN {o} \cup InList(d) ELSE InList(d)
      /\ e # OldList(epoch)
    BY <1>1, <1>3, <1>4, <1>6, PushedApart
<1>8. /\ Freed' = Freed /\ FreedAtOnce' = FreedAtOnce /\ Objects' = Objects
      /\ OldList(epoch) \in Epochs /\ e \in Epochs
    BY <1>1, <1>3, EpochFacts DEF Freed, FreedAtOnce, Objects, EbrInv, EbrTypeOK
<1>9. PollerFrees'
    <2>0. PICK d \in Epochs : d = OldList(epoch)
        BY <1>8
    <2>1. InList(d)' = InList(d)
        BY <1>7, <2>0
    <2> QED
        BY <1>1, <1>5, <1>6, <1>8, <2>0, <2>1 DEF PollerFrees
<1>10. RetireesApart'
    <2>1. \A u \in EbrThreads : at'[u] \in {"replaced", "retire", "push"} => at[u] \in {"replaced", "retire", "push"} /\ holds[u] # o
        BY <1>0, <1>1, <1>2 DEF RetireesApart, Actors
    <2> QED
        BY <1>1, <1>7, <2>1 DEF RetireesApart
<1>11. NoneLost'
    <2> SUFFICES ASSUME NEW x \in Objects
                 PROVE  \/ x = root \/ x \in Freed \cup FreedAtOnce
                        \/ \E d \in Epochs : x \in InList(d)'
                        \/ \E u \in EbrThreads : at'[u] \in {"replaced", "retire", "push"} /\ holds[u] = x
        BY <1>1, <1>8 DEF NoneLost
    <2>1. CASE x = o
        BY <1>7, <1>8, <2>1
    <2>2. CASE x # o
        <3>1. \A d \in Epochs : x \in InList(d) => x \in InList(d)'
            BY <1>7
        <3>2. \A u \in EbrThreads : at[u] \in {"replaced", "retire", "push"} /\ holds[u] = x => at'[u] = at[u]
            BY <1>0, <1>2, <2>2 DEF Actors
        <3> QED
            BY <3>1, <3>2 DEF NoneLost
    <2> QED
        BY <2>1, <2>2
<1>12. LastOneFrees'
    <2>1. gstate # "freed"
        BY <1>1, EbrAssumption DEF EbrInv, Ending
    <2>2. at'[OWNER] = at[OWNER] /\ \A u \in EbrThreads : at'[u] = "done" => at[u] = "done"
        BY <1>1, <1>2 DEF Actors
    <2> QED
        BY <1>1, <2>1, <2>2, NobodyGoes
<1>13. AtOnceApart'
    <2>1. \A u \in EbrThreads : at'[u] \in {"replaced", "retire", "push"} =>
            at[u] \in {"replaced", "retire", "push"}
        BY <1>2 DEF Actors
    <2>2. o \notin FreedAtOnce
        BY <1>0, <1>1 DEF AtOnceApart
    <2> QED
        BY <1>1, <1>7, <1>8, <2>1, <2>2 DEF AtOnceApart
<1> QED
    BY <1>7, <1>9, <1>10, <1>11, <1>12, <1>13

\* A poll begins, looks for its list, and later at the threads.
LEMMA PollLeavesLists ==
    ASSUME EbrInv, RetireInv, NEW a \in Actors,
           PollBegin(a) \/ PollHead(a) \/ PollLock(a) \/ PollScan(a)
    PROVE  RetireInv'
<1> DEFINE to == at'[a]
<1>1. /\ at' = [at EXCEPT ![a] = to] \/ (at' = at /\ at[a] = "scan")
      /\ at[a] \in {"retired", "out", "gc", "lock", "scan"}
      /\ at[a] = "retired" <=> a = OWNER /\ at[a] \notin InPoll
      /\ at[a] = "out" => at[OWNER] = "running"
      /\ to \in {"gc", "out", "free", "scan"}
      /\ UNCHANGED <<lists, freed, atOnce, root, used, holds>>
      /\ gstate' # gstate => gstate' \in {"GC", "NORMAL"}
      /\ idx' = idx \/ (idx' = [idx EXCEPT ![a] = OldList(epoch)] /\ to = "free")
      /\ to = "free" => idx'[a] = OldList(epoch)
      /\ epoch' = epoch \/ (at[a] = "scan" /\ to # "free")
    BY DEF PollBegin, PollHead, PollLock, PollScan, MayPoll, Usable, Go, InPoll,
        globalVars, clientVars, pollVars, EbrInv, EbrTypeOK, Actors
<1>0. to = at'[a]
    OBVIOUS
<1> HIDE DEF to
<1>2. OWNER \in Actors /\ \A b \in Actors : at'[b] = IF b = a THEN to ELSE at[b]
    <2>1. DOMAIN at = Actors
        BY DEF EbrInv, EbrTypeOK
    <2>2. CASE at' = [at EXCEPT ![a] = to]
        BY <2>1, <2>2 DEF Actors
    <2>3. CASE at' = at
        BY <1>0, <2>3 DEF Actors
    <2> QED
        BY <1>1, <2>2, <2>3
<1>3. \A t \in EbrThreads : at'[t] \in {"replaced", "retire", "push"} <=> at[t] \in {"replaced", "retire", "push"}
    BY <1>1, <1>2, EbrAssumption DEF Actors, InPoll
<1>4. \A b \in Actors : (at'[b] = "clear" <=> at[b] = "clear")
    BY <1>1, <1>2
<1>5. \A b \in Actors : at'[b] \in {"free", "clear"} /\ b # a => idx'[b] = idx[b] /\ at'[b] = at[b]
    BY <1>1, <1>2 DEF EbrInv, EbrTypeOK
<1>6. \A b \in Actors : at'[b] = "clear" => idx'[b] = idx[b]
    BY <1>1, <1>2, <1>5
<1>7. \A b \in Actors : at'[b] = "free" => idx'[b] = OldList(epoch)
    BY <1>1, <1>2, <1>5 DEF RetireInv, PollerFrees
<1>8. epoch' = epoch \/ \A b \in Actors : at[b] # "clear" /\ at'[b] \notin {"free", "clear"}
    BY <1>1, <1>2, PollerOutside DEF InPoll
<1>9. LastOneFrees'
    <2>1. at'[OWNER] \in {"try", "done"} => at'[OWNER] = at[OWNER] /\ gstate' = gstate
        <3> SUFFICES ASSUME at'[OWNER] \in {"try", "done"} PROVE at'[OWNER] = at[OWNER] /\ gstate' = gstate
            OBVIOUS
        <3>1. a # OWNER /\ at'[OWNER] = at[OWNER]
            BY <1>1, <1>2
        <3>2. at[a] \in InPoll
            BY <1>1, <3>1 DEF InPoll
        <3>3. gstate = "GC"
            BY <3>2, PollerOutside
        <3> QED
            BY <3>1, <3>3 DEF RetireInv, LastOneFrees
    <2>2. at'[OWNER] # "running" => at[OWNER] # "running"
        BY <1>1, <1>2
    <2>3. \A t \in EbrThreads : at'[t] = "done" => at[t] = "done"
        BY <1>1, <1>2 DEF Actors
    <2> QED
        BY <1>1, <2>1, <2>2, <2>3, NobodyGoes DEF RetireInv
<1> QED
    BY <1>1, <1>3, <1>4, <1>6, <1>7, <1>8, <1>9, SameLists

\* What poll frees is in its list, and in no other.
LEMMA PollFrees ==
    ASSUME EbrInv, RetireInv, NEW a \in Actors, PollFree(a)
    PROVE  RetireInv'
<1> USE DEF RetireInv
<1>0. PICK e \in Epochs : e = OldList(epoch)
    BY EpochFacts DEF EbrInv, EbrTypeOK
<1>1. /\ at[a] = "free" /\ at' = [at EXCEPT ![a] = "clear"] /\ freed' = freed \o lists[e]
      /\ UNCHANGED <<gstate, epoch, threads, mutex, lists, atOnce, lstate, root, used, holds, idx, old, scan>>
    BY <1>0 DEF PollFree, Go, clientVars, pollVars, EbrInv, PollerList
<1>2. /\ OWNER \in Actors
      /\ \A b \in Actors : at'[b] = IF b = a THEN "clear" ELSE at[b]
    BY <1>1 DEF EbrInv, EbrTypeOK, Actors
<1>3. \A b \in Actors : at[b] # "clear" /\ (b # a => at[b] # "free")
    BY <1>1, PollerOutside DEF InPoll
<1>4. /\ freed \in Seq(Objects) /\ lists[e] \in Seq(Objects) /\ Freed = Elems(freed)
      /\ Freed' = Elems(freed')
    BY <1>0 DEF EbrInv, EbrTypeOK, Freed, Elems
<1>5. Freed' = Freed \cup InList(e)
    BY <1>1, <1>4, ObjectElems DEF InList
<1>6. \A d \in Epochs : InList(d) \cap Freed = {}
    BY <1>3 DEF FreedApart
<1>7. ListsApart'
    BY <1>1 DEF ListsApart, InList
<1>8. FreedApart'
    <2>1. Once(freed \o lists[e])
        BY <1>0, <1>4, <1>6, OnceConcat DEF FreedApart, ListsApart, InList
    <2>2. \A d \in Epochs : InList(d) \cap (Freed \cup InList(e)) # {} => d = e
        BY <1>0, <1>6 DEF ListsApart
    <2>3. at'[a] = "clear"
        BY <1>2
    <2>4. \A d \in Epochs : InList(d)' = InList(d)
        BY <1>1 DEF InList
    <2> QED
        BY <1>0, <1>1, <1>5, <2>1, <2>2, <2>3, <2>4 DEF FreedApart
<1>9. PollerFrees'
    <2>1. idx[a] = e
        BY <1>0, <1>1 DEF PollerFrees
    <2>2. InList(e)' = InList(e)
        BY <1>1 DEF InList
    <2>3. \A b \in Actors : at'[b] \in {"free", "clear"} => b = a
        BY <1>2, <1>3
    <2> QED
        BY <1>0, <1>1, <1>5, <2>1, <2>2, <2>3 DEF PollerFrees
<1>10. \A t \in EbrThreads : at'[t] \in {"replaced", "retire", "push"} <=> at[t] \in {"replaced", "retire", "push"}
    BY <1>1, <1>2 DEF Actors
<1>11. RetireesApart'
    BY <1>1, <1>10 DEF RetireesApart, InList
<1>12. NoneLost'
    BY <1>1, <1>5, <1>10 DEF NoneLost, InList, Objects, FreedAtOnce
<1>13. LastOneFrees'
    BY <1>1, <1>2, NobodyGoes DEF Actors
<1>14. AtOnceApart'
    <2>1. FreedAtOnce' = FreedAtOnce /\ \A d \in Epochs : InList(d)' = InList(d)
        BY <1>1 DEF FreedAtOnce, InList
    <2>2. FreedAtOnce \cap (Freed \cup InList(e)) = {}
        BY DEF AtOnceApart
    <2> QED
        BY <1>1, <1>5, <1>10, <2>1, <2>2 DEF AtOnceApart
<1> QED
    BY <1>7, <1>8, <1>9, <1>11, <1>12, <1>13, <1>14

\* The list poll empties, without a look at what came into it, holds nothing
\* that was not freed.
LEMMA PollEmpties ==
    ASSUME EbrInv, RetireInv, NEW a \in Actors, PollClear(a)
    PROVE  RetireInv'
<1> USE DEF RetireInv
<1>0. PICK e \in Epochs : e = OldList(epoch)
    BY EpochFacts DEF EbrInv, EbrTypeOK
<1>1. /\ at[a] = "clear" /\ at' = [at EXCEPT ![a] = "lock"]
      /\ lists' = [lists EXCEPT ![e] = <<>>] /\ InList(e) \subseteq Freed
      /\ UNCHANGED <<gstate, epoch, threads, mutex, freed, atOnce, lstate, root, used, holds, idx, old, scan>>
    BY <1>0 DEF PollClear, Go, clientVars, pollVars, PollerFrees
<1>2. /\ OWNER \in Actors
      /\ \A b \in Actors : at'[b] = IF b = a THEN "lock" ELSE at[b]
    BY <1>1 DEF EbrInv, EbrTypeOK, Actors
<1>3. \A b \in Actors : at'[b] \notin {"free", "clear"}
    BY <1>1, <1>2, PollerOutside DEF InPoll
<1>4. \A d \in Epochs : lists'[d] = IF d = e THEN <<>> ELSE lists[d]
    BY <1>1 DEF EbrInv, EbrTypeOK
<1>5. \A d \in Epochs : InList(d)' = IF d = e THEN {} ELSE InList(d)
    BY <1>4 DEF InList, Elems
<1>6. Freed' = Freed /\ FreedAtOnce' = FreedAtOnce /\ Objects' = Objects
    BY <1>1 DEF Freed, FreedAtOnce, Objects
<1>7. ListsApart'
    <2>1. Once(<<>>)
        BY DEF Once
    <2> QED
        BY <1>4, <1>5, <2>1 DEF ListsApart
<1>8. FreedApart'
    BY <1>0, <1>1, <1>5, <1>6 DEF FreedApart
<1>9. PollerFrees'
    BY <1>3 DEF PollerFrees
<1>10. \A t \in EbrThreads : at'[t] \in {"replaced", "retire", "push"} <=> at[t] \in {"replaced", "retire", "push"}
    BY <1>1, <1>2 DEF Actors
<1>11. RetireesApart'
    BY <1>1, <1>5, <1>10 DEF RetireesApart
<1>12. NoneLost'
    BY <1>1, <1>5, <1>6, <1>10 DEF NoneLost
<1>13. LastOneFrees'
    <2>1. gstate = "GC"
        BY <1>1, PollerOutside DEF InPoll
    <2> QED
        BY <1>1, <1>2, <2>1, NobodyGoes DEF Actors
<1>14. AtOnceApart'
    BY <1>1, <1>5, <1>6, <1>10 DEF AtOnceApart
<1> QED
    BY <1>7, <1>8, <1>9, <1>11, <1>12, <1>13, <1>14

\* The owner retires what the pointer leads to, or frees it at once.
LEMMA DestroyRetires == ASSUME EbrInv, RetireInv, DestroyRetire PROVE RetireInv'
<1> USE DEF RetireInv
<1>0. PICK o, e : o = root /\ e = epoch
    OBVIOUS
<1>1. /\ at[OWNER] = "running" /\ at' = [at EXCEPT ![OWNER] = "retired"]
      /\ \A t \in EbrThreads : at[t] \in {"done", "out"}
      /\ \/ lists' = [lists EXCEPT ![e] = <<o>> \o lists[e]] /\ atOnce' = atOnce
         \/ atOnce' = Append(atOnce, o) /\ lists' = lists
      /\ root' = NULL
      /\ UNCHANGED <<gstate, epoch, threads, mutex, freed, lstate, used, holds, idx, old, scan>>
    BY <1>0 DEF DestroyRetire, MayDestroy, Go, pollVars, EbrInv, EbrTypeOK
<1>2. \A a \in Actors : at'[a] = IF a = OWNER THEN "retired" ELSE at[a]
    BY <1>1 DEF EbrInv, EbrTypeOK, Actors
<1>3. OWNER \in Actors /\ \A t \in EbrThreads : t # OWNER /\ at'[t] = at[t]
    BY <1>2, EbrAssumption DEF Actors
<1>4. /\ o \in Objects /\ o \notin Freed /\ o \notin FreedAtOnce
      /\ \A d \in Epochs : o \notin InList(d)
    BY <1>0, <1>1 DEF EbrInv, EbrTypeOK, Ending, RootApart
<1>5. \A a \in Actors : at[a] \notin {"free", "clear"} /\ at'[a] \notin {"free", "clear"}
    BY <1>1, <1>2 DEF Actors
<1>6. Freed' = Freed /\ Objects' = Objects /\ e \in Epochs
    BY <1>0, <1>1 DEF Freed, Objects, EbrInv, EbrTypeOK
<1>7. /\ ListsApart' /\ FreedApart' /\ AtOnceApart'
      /\ \A d \in Epochs : InList(d) \subseteq InList(d)'
      /\ FreedAtOnce \subseteq FreedAtOnce' /\ (o \in InList(e)' \/ o \in FreedAtOnce')
    <2>1. CASE lists' = [lists EXCEPT ![e] = <<o>> \o lists[e]] /\ atOnce' = atOnce
        <3>1. /\ ListsApart' /\ FreedApart' /\ FreedAtOnce' = FreedAtOnce
              /\ \A d \in Epochs : InList(d)' = IF d = e THEN {o} \cup InList(d) ELSE InList(d)
            <4>1. e \in {epoch, LastList(epoch)} /\ UNCHANGED <<epoch, freed>>
                BY <1>0, <1>1
            <4>2. FreedAtOnce' = FreedAtOnce
                BY <2>1 DEF FreedAtOnce
            <4> QED
                BY <1>4, <1>5, <2>1, <4>1, <4>2, PushedApart
        <3>2. AtOnceApart'
            BY <1>1, <1>3, <1>4, <1>6, <2>1, <3>1 DEF AtOnceApart
        <3> QED
            BY <1>6, <3>1, <3>2
    <2>2. CASE atOnce' = Append(atOnce, o) /\ lists' = lists
        <3>1. FreedAtOnce' = FreedAtOnce \cup {o} /\ Once(atOnce')
            BY <1>4, <2>2, AppendFrees DEF EbrInv, EbrTypeOK, AtOnceApart
        <3>2. \A d \in Epochs : InList(d)' = InList(d)
            BY <2>2 DEF InList
        <3>3. ListsApart'
            BY <2>2, <3>2 DEF ListsApart
        <3>4. FreedApart'
            BY <1>1, <1>5, <1>6, <3>2 DEF FreedApart
        <3>5. AtOnceApart'
            BY <1>1, <1>3, <1>4, <1>6, <3>1, <3>2 DEF AtOnceApart
        <3> QED
            BY <3>1, <3>2, <3>3, <3>4, <3>5
    <2> QED
        BY <1>1, <2>1, <2>2
<1>8. PollerFrees'
    BY <1>5 DEF PollerFrees
<1>9. RetireesApart'
    BY <1>1, <1>3 DEF RetireesApart
<1>10. NoneLost'
    <2> SUFFICES ASSUME NEW x \in Objects
                 PROVE  x \in Freed \cup FreedAtOnce' \/ \E d \in Epochs : x \in InList(d)'
        BY <1>6 DEF NoneLost
    <2>1. x = o \/ x \in Freed \cup FreedAtOnce \/ \E d \in Epochs : x \in InList(d)
        BY <1>0, <1>1 DEF NoneLost
    <2> QED
        BY <1>6, <1>7, <2>1
<1>11. LastOneFrees'
    <2>1. gstate # "freed"
        BY <1>1 DEF EbrInv, Ending
    <2> QED
        BY <1>1, <1>2, <1>3, <2>1 DEF LastOneFrees
<1> QED
    BY <1>7, <1>8, <1>9, <1>10, <1>11

LEMMA DestroyStops == ASSUME EbrInv, RetireInv, DestroyInactive PROVE RetireInv'
<1> USE DEF RetireInv
<1>1. /\ at[OWNER] = "out" /\ at' = [at EXCEPT ![OWNER] = "try"] /\ gstate' = "INACTIVE"
      /\ UNCHANGED <<epoch, threads, mutex, lists, freed, atOnce, lstate, root, used, holds, idx, old, scan>>
    BY DEF DestroyInactive, Go, clientVars, pollVars
<1>2. OWNER \in Actors /\ \A a \in Actors : at'[a] = IF a = OWNER THEN "try" ELSE at[a]
    BY <1>1 DEF EbrInv, EbrTypeOK, Actors
<1>3. LastOneFrees'
    BY <1>1, <1>2 DEF LastOneFrees
<1>4. \A t \in EbrThreads : t # OWNER /\ at'[t] = at[t]
    BY <1>2, EbrAssumption DEF Actors
<1>5. \A a \in Actors : at'[a] = "free" => idx'[a] = OldList(epoch)
    BY <1>1, <1>2 DEF PollerFrees
<1>6. \A a \in Actors : at'[a] = "clear" <=> at[a] = "clear"
    BY <1>1, <1>2
<1> QED
    BY <1>1, <1>3, <1>4, <1>5, <1>6, SameLists

\* The owner or the last thread is through: everything is freed, or somebody
\* has yet to come by.
LEMMA GoingFrees ==
    ASSUME EbrInv, RetireInv, NEW a \in Actors,
           at[a] = IF a = OWNER THEN "try" ELSE "unregister",
           at' = [at EXCEPT ![a] = "done"], TryDestroy,
           UNCHANGED <<epoch, mutex, atOnce, lstate, root, used, holds, idx, old, scan>>
    PROVE  RetireInv'
<1> USE DEF RetireInv
<1>1. /\ OWNER \in Actors /\ EbrThreads \subseteq Actors /\ OWNER \notin EbrThreads
      /\ \A b \in Actors : at'[b] = IF b = a THEN "done" ELSE at[b]
    BY EbrAssumption DEF EbrInv, EbrTypeOK, Actors
<1>2. \A b \in Actors : (at'[b] = "clear" <=> at[b] = "clear") /\ (at'[b] = "free" <=> at[b] = "free")
    BY <1>1
<1>3. \A t \in EbrThreads : at'[t] \in {"replaced", "retire", "push"} <=> at[t] \in {"replaced", "retire", "push"}
    BY <1>1
<1>4. CASE ~ Finished
    <2>1. UNCHANGED <<freed, lists, gstate>>
        BY <1>4 DEF TryDestroy
    <2>2. \A u \in EbrThreads : lstate[u] # "RELEASED" => at'[u] # "done"
        <3> SUFFICES ASSUME NEW u \in EbrThreads, lstate[u] # "RELEASED" PROVE at'[u] # "done"
            OBVIOUS
        <3>1. at[u] \notin {"unregister", "done"}
            BY DEF EbrInv, Sections, SectionOf
        <3> QED
            BY <1>1, <3>1
    <2>3. LastOneFrees'
        BY <1>1, <1>4, <2>1, <2>2 DEF LastOneFrees, Finished
    <2>4. \A b \in Actors : at'[b] = "free" => idx'[b] = OldList(epoch)
        BY <1>2 DEF PollerFrees
    <2> QED
        BY <1>2, <1>3, <2>1, <2>3, <2>4, SameLists
<1>5. CASE Finished
    <2>1. /\ freed' = freed \o lists[0] \o lists[1] \o lists[2]
          /\ lists' = [e \in Epochs |-> <<>>] /\ gstate' = "freed"
        BY <1>5 DEF TryDestroy
    <2>2. /\ gstate = "INACTIVE" /\ at[OWNER] # "running" /\ root = NULL
          /\ \A b \in Actors : at[b] \notin InPoll
        BY <1>5, PollerOutside DEF Finished, EbrInv, Ending, LastOneFrees
    <2>3. \A b \in Actors : at[b] \notin {"free", "clear"} /\ at'[b] \notin {"free", "clear"}
        BY <1>2, <2>2 DEF InPoll
    <2>4. \A t \in EbrThreads : at[t] \notin {"replaced", "retire", "push"} /\ at'[t] \notin {"replaced", "retire", "push"}
        BY <1>3, <1>5 DEF Finished, EbrInv, Sections, SectionOf
    <2>5. /\ 0 \in Epochs /\ 1 \in Epochs /\ 2 \in Epochs /\ \A d \in Epochs : d \in {0, 1, 2}
          /\ \A d \in Epochs : lists[d] \in Seq(Objects) /\ freed \in Seq(Objects)
          /\ Freed = Elems(freed) /\ Freed' = Elems(freed')
        BY DEF Epochs, EbrInv, EbrTypeOK, Freed, Elems
    <2>6. \A d \in Epochs : InList(d) \cap Freed = {}
        BY <2>3 DEF FreedApart
    <2>7. /\ InList(0) \cap InList(1) = {} /\ InList(0) \cap InList(2) = {}
           /\ InList(1) \cap InList(2) = {}
        <3>1. 0 # 1 /\ 0 # 2 /\ 1 # 2
            OBVIOUS
        <3> QED
            BY <2>5, <3>1 DEF ListsApart
    <2> DEFINE f0 == freed \o lists[0]
               f1 == f0 \o lists[1]
    <2>8. f0 \in Seq(Objects) /\ Elems(f0) = Freed \cup InList(0) /\ Once(f0)
        BY <2>5, <2>6, ObjectElems, OnceConcat DEF ListsApart, FreedApart, InList
    <2> HIDE DEF f0
    <2>9. f1 \in Seq(Objects) /\ Elems(f1) = Freed \cup InList(0) \cup InList(1) /\ Once(f1)
        <3>1. Elems(f0) \cap Elems(lists[1]) = {}
            BY <2>5, <2>6, <2>8, <2>7 DEF InList
        <3> QED
            BY <2>5, <2>8, <3>1, ObjectElems, OnceConcat DEF ListsApart, InList
    <2> HIDE DEF f1
    <2>10. /\ Freed' = Freed \cup InList(0) \cup InList(1) \cup InList(2) /\ Once(freed')
        <3>1. Elems(f1) \cap Elems(lists[2]) = {}
            BY <2>5, <2>6, <2>9, <2>7 DEF InList
        <3>2. freed' = f1 \o lists[2]
            BY <2>1 DEF f0, f1
        <3>3. Once(f1 \o lists[2]) /\ Elems(f1 \o lists[2]) = Elems(f1) \cup Elems(lists[2])
            BY <2>5, <2>9, <3>1, ObjectElems, OnceConcat DEF ListsApart
        <3> QED
            BY <2>5, <2>9, <3>2, <3>3 DEF InList
    <2>11. \A d \in Epochs : lists'[d] = <<>> /\ InList(d)' = {}
        BY <2>1 DEF InList, Elems
    <2>12. ListsApart'
        <3>1. Once(<<>>)
            BY DEF Once
        <3> QED
            BY <2>11, <3>1 DEF ListsApart
    <2>13. FreedApart' /\ PollerFrees' /\ RetireesApart'
        BY <2>3, <2>4, <2>10, <2>11 DEF FreedApart, PollerFrees, RetireesApart
    <2>14. NoneLost'
        <3>1. \A d \in Epochs : InList(d) \subseteq Freed'
            BY <2>5, <2>10
        <3> QED
            BY <2>4, <2>10, <3>1 DEF NoneLost, Objects, FreedAtOnce
    <2>15. LastOneFrees'
        BY <2>1, <2>2, <2>11 DEF LastOneFrees
    <2>16. AtOnceApart'
        <3>1. FreedAtOnce' = FreedAtOnce
            BY DEF FreedAtOnce
        <3>2. FreedAtOnce \cap (Freed \cup InList(0) \cup InList(1) \cup InList(2)) = {}
            BY <2>5 DEF AtOnceApart
        <3> QED
            BY <2>4, <2>10, <2>11, <3>1, <3>2 DEF AtOnceApart
    <2> QED
        BY <2>12, <2>13, <2>14, <2>15, <2>16
<1> QED
    BY <1>4, <1>5

LEMMA RetireInit == EbrInit => RetireInv
<1> SUFFICES ASSUME EbrInit PROVE RetireInv
    OBVIOUS
<1> USE DEF EbrInit
<1>1. /\ \A e \in Epochs : lists[e] = <<>> /\ InList(e) = {}
      /\ Once(<<>>) /\ Freed = {} /\ FreedAtOnce = {} /\ Objects = {1}
    BY DEF InList, Elems, Once, Freed, FreedAtOnce, Objects
<1>2. \A a \in Actors : at[a] \in {"running", "new"}
    OBVIOUS
<1>3. at[OWNER] = "running" /\ EbrThreads \subseteq Actors
    BY DEF Actors
<1>4. ListsApart /\ FreedApart /\ AtOnceApart
    BY <1>1 DEF ListsApart, FreedApart, AtOnceApart
<1>5. PollerFrees /\ RetireesApart /\ NoneLost /\ LastOneFrees
    BY <1>1, <1>2, <1>3 DEF PollerFrees, RetireesApart, NoneLost, LastOneFrees
<1> QED
    BY <1>4, <1>5 DEF RetireInv

LEMMA RetireKept == EbrInv /\ RetireInv /\ [EbrNext]_ebrVars => RetireInv'
<1> SUFFICES ASSUME EbrInv, RetireInv, [EbrNext]_ebrVars PROVE RetireInv'
    OBVIOUS
<1>1. CASE \E t \in EbrThreads : EbrStep(t)
    <2>1. PICK t \in EbrThreads : EbrStep(t)
        BY <1>1
    <2>2. CASE UnregisterDestroy(t)
        <3>1. t \in Actors /\ t # OWNER
            BY EbrAssumption DEF Actors
        <3> QED
            BY <2>2, <3>1, GoingFrees DEF UnregisterDestroy, Go, clientVars, pollVars
    <2>3. CASE Replace(t)
        BY <2>3, ThreadLeavesLists, ReplaceRetires
    <2>4. CASE RetirePush(t)
        BY <2>4, ThreadLeavesLists, PushRetires
    <2> QED
        BY <2>1, <2>2, <2>3, <2>4, ThreadLeavesLists, AtOnceRetires DEF EbrStep
<1>2. CASE \E a \in Actors : PollStep(a)
    BY <1>2, PollLeavesLists, PollFrees, PollEmpties DEF PollStep
<1>3. CASE EbrDestroy
    <2>1. OWNER \in Actors
        BY DEF Actors
    <2> QED
        BY <1>3, <2>1, GoingFrees DEF EbrDestroy, Go, clientVars, pollVars
<1>4. CASE UNCHANGED ebrVars
    <2>1. LastOneFrees'
        BY <1>4 DEF ebrVars, RetireInv, LastOneFrees
    <2>2. \A a \in Actors : at'[a] = "free" => idx'[a] = OldList(epoch)
        BY <1>4 DEF ebrVars, RetireInv, PollerFrees
    <2> QED
        BY <1>4, <2>1, <2>2, SameLists DEF ebrVars
<1> QED
    BY <1>1, <1>2, <1>3, <1>4, DestroyRetires, DestroyStops DEF EbrNext

\* What is retired is in one list until it is freed, once; and when the owner
\* and every thread are through, everything is freed, whichever of them is last
\* (clog_ebr_defer_release, poll, destroy and unregister).
THEOREM RetiredOnce == EbrSpec => []RetiredFreedOnce
<1>1. EbrInv /\ RetireInv => RetiredFreedOnce
    <2> SUFFICES ASSUME EbrInv, RetireInv PROVE RetiredFreedOnce
        OBVIOUS
    <2> USE DEF RetireInv
    <2>1. /\ freed \in Seq(Objects) /\ Freed = Elems(freed) /\ Freed \subseteq Objects
          /\ atOnce \in Seq(Objects) /\ FreedAtOnce = Elems(atOnce) /\ FreedAtOnce \subseteq Objects
          /\ NULL \notin Objects
        BY EbrAssumption, ElemsFacts DEF EbrInv, EbrTypeOK, Freed, FreedAtOnce, Elems, Objects
    <2>2. Len(freed) = Cardinality(Freed) /\ Len(atOnce) = Cardinality(FreedAtOnce)
          /\ Freed \cap FreedAtOnce = {}
        BY <2>1, OnceCount DEF FreedApart, AtOnceApart
    <2>3. \A o \in Objects : o = root \/ o \in Freed \cup FreedAtOnce
           \/ (\E e \in Epochs : \E i \in 1 .. Len(lists[e]) : lists[e][i] = o)
           \/ (\E t \in EbrThreads : at[t] \in {"replaced", "retire", "push"} /\ holds[t] = o)
        BY DEF NoneLost, InList, Elems
    <2>4. ASSUME \A a \in Actors : at[a] = "done"
          PROVE  gstate = "freed" /\ Freed \cup FreedAtOnce = Objects
        <3>1. at[OWNER] = "done" /\ \A t \in EbrThreads : at[t] = "done"
            BY <2>4 DEF Actors
        <3>2. gstate = "freed" /\ root = NULL
            BY <3>1 DEF LastOneFrees
        <3>3. \A e \in Epochs : InList(e) = {}
            BY <3>2 DEF LastOneFrees, InList, Elems
        <3> QED
            BY <2>1, <3>1, <3>2, <3>3 DEF NoneLost
    <2> QED
        BY <2>2, <2>3, <2>4 DEF RetiredFreedOnce, Objects
<1>2. EbrSpec => []RetireInv
    BY RetireInit, RetireKept, EbrInvariance, PTL DEF EbrSpec
<1> QED
    BY <1>1, <1>2, EbrInvariance, PTL

--------------------------------------------------------------------------------
(* The atomic queue                                                         *)

Nodes == 1 .. Len(aqNext)
Gone == Elems(retired)

Writing == {"eTail", "eNext", "eHelp", "eCheck", "eLink"}
Reading == {"dHead", "dTail", "dNext", "dHelp", "dCheck", "dSwap"}

AqTypeOK ==
    /\ aqNext \in Seq(Nat) /\ aqData \in Seq(Nat) /\ Len(aqData) = Len(aqNext)
    /\ aqState \in {"RUNNING", "gone"}
    /\ retired \in Seq(Nat)
    /\ upc \in [Users -> {"idle", "eSwing", "dData", "dDone"} \cup Writing \cup Reading]
    /\ uh \in [Users -> Nat] /\ ut \in [Users -> Nat] /\ un \in [Users -> Nat]
    /\ node \in [Users -> Nat] /\ got \in [Users -> Nat \cup {EMPTY}]

\* s is the list of the nodes linked so far, and r the place of each node in it, 0
\* for one that is not linked yet: a node leads to its successor, the last one and
\* those outside lead nowhere.
Listed(next, s, r) ==
    /\ s \in Seq(1 .. Len(next)) /\ r \in [1 .. Len(next) -> 0 .. Len(s)]
    /\ \A i \in 1 .. Len(s) : r[s[i]] = i
    /\ \A n \in 1 .. Len(next) : r[n] # 0 => s[r[n]] = n
    /\ \A n \in 1 .. Len(next) : next[n] = IF r[n] \in 1 .. Len(s) - 1 THEN s[r[n] + 1] ELSE 0

Linked(r, n) == n \in Nodes /\ r[n] # 0

\* A node that is not linked is in the hands of one writer.
OwnNodes(r) ==
    /\ \A u \in Users :
        /\ upc[u] \in Writing => node[u] \in Nodes /\ r[node[u]] = 0
        /\ upc[u] = "eSwing" => Linked(r, node[u])
    /\ \A u, v \in Users : upc[u] \in Writing /\ upc[v] \in Writing /\ node[u] = node[v] => u = v
    /\ \A n \in Nodes : r[n] = 0 => \E u \in Users : upc[u] \in Writing /\ node[u] = n

\* What a thread has loaded is linked, and the head it loaded not ahead of the head.
LoadedBy(r, u) ==
    /\ upc[u] \in {"eNext", "eHelp", "eCheck", "eLink"} => Linked(r, ut[u])
    /\ upc[u] \in {"eHelp", "dHelp"} => Linked(r, un[u])
    /\ upc[u] \in {"dTail", "dNext", "dCheck", "dSwap", "dData"} =>
            Linked(r, uh[u]) /\ r[uh[u]] <= r[aqHead]
    /\ upc[u] \in {"dCheck", "dSwap", "dData"} => un[u] \in {0, aqNext[uh[u]]}
    /\ upc[u] \in {"dSwap", "dData"} => un[u] # 0
    /\ upc[u] = "dData" => r[uh[u]] < r[aqHead]
    /\ upc[u] \in Reading \cup {"dData"} => got[u] = EMPTY

Loaded(r) == \A u \in Users : LoadedBy(r, u)

\* A node has its data until the thread that moved the head onto it takes it.
Filled(r) ==
    /\ \A n \in Nodes : r[n] = 0 \/ r[n] > r[aqHead] => aqData[n] = n
    /\ \A u \in Users : upc[u] = "dData" => aqData[un[u]] = un[u]

\* The nodes before the head are retired, or one thread is about to.
Retiring(r) ==
    /\ Once(retired)
    /\ \A n \in Gone : Linked(r, n) /\ r[n] < r[aqHead]
    /\ \A u \in Users : upc[u] = "dData" => uh[u] \notin Gone
    /\ \A u, v \in Users : upc[u] = "dData" /\ upc[v] = "dData" /\ uh[u] = uh[v] => u = v
    /\ \A n \in Nodes : r[n] \in 1 .. r[aqHead] - 1 =>
            n \in Gone \/ \E u \in Users : upc[u] = "dData" /\ uh[u] = n

Running(s, r) ==
    /\ Listed(aqNext, s, r) /\ Linked(r, aqHead) /\ Linked(r, aqTail)
    /\ OwnNodes(r) /\ Loaded(r) /\ Filled(r) /\ Retiring(r)

Destroyed ==
    /\ \A u \in Users : upc[u] = "idle"
    /\ Once(retired) /\ Gone = Nodes

AqInv ==
    /\ AqTypeOK
    /\ aqState = "RUNNING" => \E s, r : Running(s, r)
    /\ aqState = "gone" => Destroyed

--------------------------------------------------------------------------------
(* What the list says of the nodes behind a node                            *)

BehindIn(next) ==
    CHOOSE f : f = [n \in 1 .. Len(next) |-> IF next[n] = 0 THEN <<>> ELSE <<next[n]>> \o f[next[n]]]

LEMMA BehindIsIn == Behind = BehindIn(aqNext) /\ Behind' = BehindIn(aqNext')
BY DEF Behind, BehindIn

LEMMA Greatest ==
    ASSUME NEW n \in Nat, NEW T \in SUBSET (1 .. n), T # {}
    PROVE  \E m \in T : \A k \in T : k <= m
<1> DEFINE Less == {pair \in Nat \X Nat : pair[1] < pair[2]}
           Heights == {n - k : k \in T}
<1>1. Less = OpToRel(<, Nat)
    BY DEF OpToRel
<1>2. IsWellFoundedOn(Less, Nat)
    BY <1>1, NatLessThanWellFounded
<1>3. \A k, m \in Nat : k < m => <<k, m>> \in Less
    OBVIOUS
<1>4. \A k \in T : k \in 1 .. n /\ n - k \in Nat
    OBVIOUS
<1>5. Heights \in SUBSET Nat /\ Heights # {}
    BY <1>4
<1> HIDE DEF Less
<1>6. PICK h \in Heights : \A k \in Heights : ~ (<<k, h>> \in Less)
    <2> HIDE DEF Heights
    <2> QED
        BY <1>2, <1>5, WFMin
<1>7. PICK m \in T : h = n - m
    BY <1>6
<1>8. \A k \in T : ~ (n - k < n - m)
    BY <1>3, <1>4, <1>6, <1>7
<1> QED
    BY <1>4, <1>7, <1>8

\* The elements of a sequence from a place on.
LEMMA FromPlaceOn ==
    ASSUME NEW S, NEW s \in Seq(S), NEW i \in 1 .. Len(s)
    PROVE  /\ SubSeq(s, i, Len(s)) \in Seq(S) /\ Len(SubSeq(s, i, Len(s))) = Len(s) - i + 1
           /\ \A k \in 1 .. Len(s) - i + 1 : SubSeq(s, i, Len(s))[k] = s[i + k - 1]
<1>1. Len(s) \in Nat /\ i \in Nat /\ \A k \in 1 .. Len(s) : s[k] \in S
    BY LenProperties, ElementOfSeq
<1> QED
    BY <1>1

\* The rest of a sequence from a place on: the element there, and the rest from the next.
LEMMA RestOfSeq ==
    ASSUME NEW S, NEW s \in Seq(S), NEW i \in 1 .. Len(s)
    PROVE  <<s[i]>> \o SubSeq(s, i + 1, Len(s)) = SubSeq(s, i, Len(s))
<1> DEFINE left == <<s[i]>> \o SubSeq(s, i + 1, Len(s))
           right == SubSeq(s, i, Len(s))
<1>1. Len(s) \in Nat /\ i \in Nat /\ \A k \in 1 .. Len(s) : s[k] \in S
    BY LenProperties, ElementOfSeq
<1>2. SubSeq(s, i + 1, Len(s)) \in Seq(S) /\ Len(SubSeq(s, i + 1, Len(s))) = Len(s) - i
    BY <1>1
<1>3. right \in Seq(S) /\ Len(right) = Len(s) - i + 1
    BY FromPlaceOn
<1>4. left \in Seq(S) /\ Len(left) = Len(s) - i + 1
    BY <1>1, <1>2
<1>5. \A k \in 1 .. Len(s) - i + 1 : left[k] = s[i + k - 1]
    BY <1>1
<1>6. \A k \in 1 .. Len(s) - i + 1 : right[k] = s[i + k - 1]
    BY FromPlaceOn
<1> HIDE DEF left, right
<1>7. left = right
    BY <1>3, <1>4, <1>5, <1>6, SeqEqual
<1> QED
    BY <1>7 DEF left, right

\* Behind a linked node are those that follow it in the list, in its order.
LEMMA BehindListed ==
    ASSUME NEW next \in Seq(Nat), NEW s, NEW r, Listed(next, s, r)
    PROVE  \A i \in 1 .. Len(s) : BehindIn(next)[s[i]] = SubSeq(s, i + 1, Len(s))
<1> DEFINE N == 1 .. Len(next)
           Rest(n) == IF r[n] = 0 THEN <<>> ELSE SubSeq(s, r[n] + 1, Len(s))
           Step(f) == [n \in N |-> IF next[n] = 0 THEN <<>> ELSE <<next[n]>> \o f[next[n]]]
           W == [n \in N |-> Rest(n)]
           F == BehindIn(next)
<1>1. /\ s \in Seq(N) /\ r \in [N -> 0 .. Len(s)] /\ Len(s) \in Nat
      /\ \A i \in 1 .. Len(s) : s[i] \in N /\ r[s[i]] = i
      /\ \A n \in N : r[n] # 0 => s[r[n]] = n
      /\ \A n \in N : next[n] = IF r[n] \in 1 .. Len(s) - 1 THEN s[r[n] + 1] ELSE 0
    <2>1. s \in Seq(N)
        BY DEF Listed
    <2> QED
        BY <2>1, ElementOfSeq, LenProperties DEF Listed
<1>2. \A i \in 1 .. Len(s) - 1 : <<s[i + 1]>> \o SubSeq(s, i + 2, Len(s)) = SubSeq(s, i + 1, Len(s))
    <2> SUFFICES ASSUME NEW i \in 1 .. Len(s) - 1
                 PROVE  <<s[i + 1]>> \o SubSeq(s, i + 2, Len(s)) = SubSeq(s, i + 1, Len(s))
        OBVIOUS
    <2>1. i + 1 \in 1 .. Len(s) /\ (i + 1) + 1 = i + 2
        BY <1>1
    <2> QED
        BY <1>1, <2>1, RestOfSeq
<1>3. SubSeq(s, Len(s) + 1, Len(s)) = <<>>
    BY <1>1
<1>4. \A n \in N : Rest(n) = IF next[n] = 0 THEN <<>> ELSE <<next[n]>> \o W[next[n]]
    <2> SUFFICES ASSUME NEW n \in N
                 PROVE  Rest(n) = IF next[n] = 0 THEN <<>> ELSE <<next[n]>> \o W[next[n]]
        OBVIOUS
    <2>1. CASE r[n] \in 1 .. Len(s) - 1
        <3>1. r[n] \in Nat /\ r[n] # 0 /\ r[n] + 1 \in 1 .. Len(s)
            <4>1. Len(s) \in Nat
                BY <1>1
            <4> QED
                BY <2>1, <4>1
        <3>2. next[n] = s[r[n] + 1]
            BY <1>1, <2>1
        <3>3. next[n] \in N /\ next[n] # 0 /\ r[next[n]] = r[n] + 1
            <4>1. \A i \in 1 .. Len(s) : s[i] \in N /\ r[s[i]] = i
                BY <1>1
            <4>2. \A i \in 1 .. Len(s) : s[i] # 0
                BY <4>1
            <4> QED
                BY <3>1, <3>2, <4>1, <4>2
        <3>4. W[next[n]] = SubSeq(s, r[n] + 2, Len(s))
            <4>1. (r[n] + 1) + 1 = r[n] + 2 /\ r[n] + 1 # 0
                BY <3>1
            <4>2. W[next[n]] = Rest(next[n])
                BY <3>3
            <4> QED
                BY <3>3, <4>1, <4>2
        <3> QED
            BY <1>2, <2>1, <3>1, <3>2, <3>3, <3>4
    <2>2. CASE r[n] \notin 1 .. Len(s) - 1
        <3>1. next[n] = 0
            BY <1>1, <2>2
        <3>2. r[n] \in 0 .. Len(s)
            BY <1>1
        <3>3. r[n] = 0 \/ r[n] = Len(s)
            BY <1>1, <2>2, <3>2
        <3> QED
            BY <1>3, <3>1, <3>3
    <2> QED
        BY <2>1, <2>2
<1>5. W = Step(W)
    BY <1>4, SMTT(60)
<1>6. F = Step(F)
    <2>1. \E f : f = Step(f)
        BY <1>5
    <2> QED
        BY <2>1 DEF BehindIn
<1>7. \A n \in N : F[n] = IF next[n] = 0 THEN <<>> ELSE <<next[n]>> \o F[next[n]]
    <2> HIDE DEF F
    <2> QED
        BY <1>6
<1> DEFINE Bad == {i \in 1 .. Len(s) : F[s[i]] # SubSeq(s, i + 1, Len(s))}
<1> HIDE DEF F
<1> SUFFICES ASSUME Bad # {} PROVE FALSE
    BY DEF F
<1>8. PICK m \in Bad : \A k \in Bad : k <= m
    <2>1. Bad \in SUBSET (1 .. Len(s))
        OBVIOUS
    <2> QED
        BY <1>1, <2>1, Greatest
<1>9. m \in 1 .. Len(s) /\ F[s[m]] # SubSeq(s, m + 1, Len(s))
    BY <1>8
<1>10. CASE m = Len(s)
    <2>1. next[s[m]] = 0
        BY <1>1, <1>9, <1>10
    <2> QED
        BY <1>1, <1>3, <1>7, <1>9, <1>10, <2>1
<1>11. CASE m # Len(s)
    <2>1. m \in 1 .. Len(s) - 1 /\ m + 1 \in 1 .. Len(s) /\ ~ (m + 1 <= m) /\ (m + 1) + 1 = m + 2
        BY <1>1, <1>9, <1>11
    <2>2. F[s[m + 1]] = SubSeq(s, m + 2, Len(s))
        <3>1. m + 1 \notin Bad
            BY <1>8, <2>1
        <3>2. F[s[m + 1]] = SubSeq(s, (m + 1) + 1, Len(s))
            BY <2>1, <3>1
        <3> QED
            BY <2>1, <3>2
    <2>3. s[m] \in N /\ r[s[m]] = m /\ s[m + 1] \in N /\ s[m + 1] # 0
        <3> HIDE DEF N
        <3>1. s[m] \in N /\ r[s[m]] = m /\ s[m + 1] \in N
            BY <1>1, <1>9, <2>1
        <3>2. 0 \notin N
            BY DEF N
        <3> QED
            BY <3>1, <3>2
    <2>4. next[s[m]] = s[m + 1]
        <3>1. r[s[m]] \in 1 .. Len(s) - 1 /\ s[r[s[m]] + 1] = s[m + 1]
            BY <2>1, <2>3
        <3>2. next[s[m]] = IF r[s[m]] \in 1 .. Len(s) - 1 THEN s[r[s[m]] + 1] ELSE 0
            BY <1>1, <2>3
        <3> QED
            BY <3>1, <3>2
    <2>5. F[s[m]] = <<s[m + 1]>> \o F[s[m + 1]]
        BY <1>7, <2>3, <2>4
    <2> QED
        BY <1>2, <1>9, <2>1, <2>2, <2>5
<1> QED
    BY <1>10, <1>11
--------------------------------------------------------------------------------
(* The steps of one thread that leave the list, the head, the data and what *)
(* is retired as they are                                                   *)

\* No thread but u moves.
OnlyMoves(u) == \A v \in Users \ {u} :
    /\ upc'[v] = upc[v] /\ uh'[v] = uh[v] /\ ut'[v] = ut[v] /\ un'[v] = un[v]
    /\ node'[v] = node[v] /\ got'[v] = got[v]

LEMMA MovesOnly ==
    ASSUME AqTypeOK, NEW u \in Users, AqStep(u)
    PROVE  OnlyMoves(u)
<1> USE DEF OnlyMoves, AqTypeOK, Goto, listVars, loadedVars, callVars
<1>1. CASE BeginEnqueue(u) \/ LoadTail(u) \/ LoadTailNext(u) \/ EnqueueHelp(u)
    BY <1>1 DEF BeginEnqueue, LoadTail, LoadTailNext, EnqueueHelp
<1>2. CASE EnqueueCheck(u) \/ Link(u) \/ EndEnqueue(u) \/ BeginDequeue(u)
    BY <1>2 DEF EnqueueCheck, Link, EndEnqueue, BeginDequeue
<1>3. CASE LoadHead(u) \/ LoadTailToo(u) \/ LoadHeadNext(u) \/ DequeueHelp(u)
    BY <1>3 DEF LoadHead, LoadTailToo, LoadHeadNext, DequeueHelp
<1>4. CASE DequeueCheck(u) \/ SwapHead(u) \/ TakeData(u) \/ EndDequeue(u)
    BY <1>4 DEF DequeueCheck, SwapHead, TakeData, EndDequeue
<1> QED
    BY <1>1, <1>2, <1>3, <1>4 DEF AqStep

\* What the thread has loaded afterwards is all that such a step has to get right.
LEMMA LocalStep ==
    ASSUME NEW s, NEW r, Running(s, r), NEW u \in Users, OnlyMoves(u),
           UNCHANGED <<aqHead, aqNext, aqData, retired>>, node'[u] = node[u],
           Linked(r, aqTail'), LoadedBy(r, u)', upc[u] # "dData", upc'[u] # "dData",
           upc'[u] \in Writing <=> upc[u] \in Writing,
           upc'[u] = "eSwing" => upc[u] = "eSwing"
    PROVE  Running(s, r)'
<1> USE DEF Running
<1>1. Listed(aqNext, s, r)' /\ Linked(r, aqHead)' /\ Linked(r, aqTail)'
    BY DEF Linked, Nodes
<1>2. OwnNodes(r)'
    <2>1. \A v \in Users : /\ upc'[v] \in Writing <=> upc[v] \in Writing
                           /\ upc'[v] = "eSwing" => upc[v] = "eSwing"
                           /\ node'[v] = node[v]
        BY DEF OnlyMoves
    <2> QED
        BY <2>1 DEF OwnNodes, Linked, Nodes
<1>3. Loaded(r)'
    <2> SUFFICES ASSUME NEW v \in Users, v # u PROVE LoadedBy(r, v)'
        BY DEF Loaded
    <2>1. /\ upc'[v] = upc[v] /\ uh'[v] = uh[v] /\ ut'[v] = ut[v] /\ un'[v] = un[v]
          /\ got'[v] = got[v] /\ LoadedBy(r, v)
        BY DEF OnlyMoves, Loaded
    <2> QED
        BY <2>1 DEF LoadedBy, Linked, Nodes
<1>4. \A v \in Users : upc'[v] = "dData" <=> upc[v] = "dData"
    BY DEF OnlyMoves
<1>5. \A v \in Users : upc[v] = "dData" => uh'[v] = uh[v] /\ un'[v] = un[v]
    BY DEF OnlyMoves
<1>6. Filled(r)'
    BY <1>4, <1>5 DEF Filled, Nodes
<1>7. Retiring(r)'
    <2>1. Gone' = Gone /\ Nodes' = Nodes /\ Once(retired)' = Once(retired)
        BY DEF Gone, Elems, Nodes, Once
    <2>2. \A n : Linked(r, n)' <=> Linked(r, n)
        BY <2>1 DEF Linked
    <2> HIDE DEF Running
    <2>3. Retiring(r)
        BY DEF Running
    <2> QED
        BY <1>4, <1>5, <2>1, <2>2, <2>3 DEF Retiring
<1> QED
    BY <1>1, <1>2, <1>3, <1>6, <1>7

\* A linked node's successor is linked, and is the next in the list.
LEMMA NextLinked ==
    ASSUME AqTypeOK, NEW s, NEW r, Listed(aqNext, s, r), NEW n, Linked(r, n)
    PROVE  /\ r[n] \in 1 .. Len(s) /\ Len(s) \in Nat /\ s[r[n]] = n /\ aqNext[n] \in Nat
           /\ aqNext[n] = 0 => r[n] = Len(s)
           /\ aqNext[n] # 0 => /\ Linked(r, aqNext[n]) /\ r[aqNext[n]] = r[n] + 1
                               /\ aqNext[n] = s[r[n] + 1]
<1>1. /\ s \in Seq(Nodes) /\ r \in [Nodes -> 0 .. Len(s)] /\ n \in Nodes /\ r[n] # 0
      /\ s[r[n]] = n /\ aqNext[n] = IF r[n] \in 1 .. Len(s) - 1 THEN s[r[n] + 1] ELSE 0
      /\ \A i \in 1 .. Len(s) : r[s[i]] = i
    BY DEF Listed, Linked, Nodes
<1>2. Len(s) \in Nat /\ \A i \in 1 .. Len(s) : s[i] \in Nodes
    BY <1>1, LenProperties, ElementOfSeq
<1>3. r[n] \in 1 .. Len(s) /\ aqNext[n] \in Nat
    <2>1. r[n] \in 0 .. Len(s)
        BY <1>1
    <2> QED
        <3>1. r[n] \in 1 .. Len(s)
            BY <1>1, <1>2, <2>1
        <3>2. aqNext[n] \in Nat
            BY <1>1, ElementOfSeq DEF AqTypeOK, Nodes
        <3> QED
            BY <3>1, <3>2
<1>4. CASE r[n] \in 1 .. Len(s) - 1
    <2>1. r[n] + 1 \in 1 .. Len(s) /\ r[n] + 1 # 0 /\ aqNext[n] = s[r[n] + 1]
        BY <1>1, <1>2, <1>4
    <2>2. s[r[n] + 1] \in Nodes /\ r[s[r[n] + 1]] = r[n] + 1
        BY <1>1, <1>2, <2>1
    <2>3. aqNext[n] # 0
        BY <2>1, <2>2 DEF Nodes
    <2> QED
        BY <1>1, <1>2, <1>3, <2>1, <2>2, <2>3 DEF Linked
<1>5. CASE r[n] \notin 1 .. Len(s) - 1
    BY <1>1, <1>2, <1>3, <1>5
<1> QED
    BY <1>4, <1>5

LEMMA LocalActions ==
    ASSUME AqTypeOK, NEW s, NEW r, Running(s, r), NEW u \in Users,
           \/ LoadTail(u) \/ LoadTailNext(u) \/ EnqueueHelp(u) \/ EnqueueCheck(u)
           \/ EndEnqueue(u) \/ BeginDequeue(u) \/ LoadHead(u) \/ LoadTailToo(u)
           \/ LoadHeadNext(u) \/ DequeueHelp(u) \/ DequeueCheck(u) \/ EndDequeue(u)
           \/ Link(u) /\ ~ MayLink(ut[u])
           \/ SwapHead(u) /\ ~ Wins(u)
    PROVE  Running(s, r)'
<1> DEFINE Keeps ==
        /\ UNCHANGED <<aqHead, aqNext, aqData, retired>> /\ node'[u] = node[u]
        /\ Linked(r, aqTail') /\ LoadedBy(r, u)' /\ upc[u] # "dData" /\ upc'[u] # "dData"
        /\ upc'[u] \in Writing <=> upc[u] \in Writing
        /\ upc'[u] = "eSwing" => upc[u] = "eSwing"
<1> SUFFICES Keeps
    <2>1. OnlyMoves(u)
        BY MovesOnly DEF AqStep
    <2> QED
        BY <2>1, LocalStep
<1>1. /\ Linked(r, aqHead) /\ Linked(r, aqTail) /\ LoadedBy(r, u) /\ Listed(aqNext, s, r)
      /\ upc[u] = "eSwing" => Linked(r, node[u])
    BY DEF Running, Loaded, OwnNodes
<1>2. /\ u \in DOMAIN upc /\ u \in DOMAIN uh /\ u \in DOMAIN ut /\ u \in DOMAIN un /\ u \in DOMAIN got
      /\ upc \in [Users -> {"idle", "eSwing", "dData", "dDone"} \cup Writing \cup Reading]
      /\ uh \in [Users -> Nat] /\ ut \in [Users -> Nat] /\ un \in [Users -> Nat]
      /\ got \in [Users -> Nat \cup {EMPTY}]
    BY DEF AqTypeOK
<1>3. \A n : Linked(r, n) => (aqNext[n] # 0 => Linked(r, aqNext[n]))
    BY <1>1, NextLinked
<1>4. r[aqHead] \in Nat
    BY <1>1, NextLinked
<1>5. aqNext' = aqNext => \A n : Linked(r, n)' <=> Linked(r, n)
    BY DEF Linked, Nodes
<1> USE DEF At, Goto, listVars, loadedVars, callVars, SwapTail, Writing, Reading
<1>6. CASE LoadTail(u)
    BY <1>1, <1>2, <1>5, <1>6 DEF LoadTail, LoadedBy
<1>7. CASE LoadTailNext(u)
    BY <1>1, <1>2, <1>3, <1>5, <1>7 DEF LoadTailNext, LoadedBy
<1>8. CASE EnqueueHelp(u)
    BY <1>1, <1>2, <1>5, <1>8 DEF EnqueueHelp, LoadedBy
<1>9. CASE EnqueueCheck(u)
    BY <1>1, <1>2, <1>5, <1>9 DEF EnqueueCheck, LoadedBy
<1>10. CASE Link(u) /\ ~ MayLink(ut[u])
    BY <1>1, <1>2, <1>5, <1>10 DEF Link, LoadedBy
<1>11. CASE EndEnqueue(u)
    BY <1>1, <1>2, <1>5, <1>11 DEF EndEnqueue, LoadedBy
<1>12. CASE BeginDequeue(u)
    BY <1>1, <1>2, <1>5, <1>12 DEF BeginDequeue, LoadedBy
<1>13. CASE LoadHead(u)
    BY <1>1, <1>2, <1>4, <1>5, <1>13 DEF LoadHead, LoadedBy
<1>14. CASE LoadTailToo(u)
    BY <1>1, <1>2, <1>5, <1>14 DEF LoadTailToo, LoadedBy
<1>15. CASE LoadHeadNext(u)
    BY <1>1, <1>2, <1>3, <1>5, <1>15 DEF LoadHeadNext, LoadedBy
<1>16. CASE DequeueHelp(u)
    BY <1>1, <1>2, <1>5, <1>16 DEF DequeueHelp, LoadedBy
<1>17. CASE DequeueCheck(u)
    BY <1>1, <1>2, <1>5, <1>17 DEF DequeueCheck, LoadedBy
<1>18. CASE SwapHead(u) /\ ~ Wins(u)
    BY <1>1, <1>2, <1>5, <1>18 DEF SwapHead, LoadedBy
<1>19. CASE EndDequeue(u)
    BY <1>1, <1>2, <1>5, <1>19 DEF EndDequeue, LoadedBy
<1> QED
    BY <1>6, <1>7, <1>8, <1>9, <1>10, <1>11, <1>12, <1>13,
       <1>14, <1>15, <1>16, <1>17, <1>18, <1>19

--------------------------------------------------------------------------------
(* The steps that change the list, the head or what is retired              *)

\* A node of its own, which nothing leads to yet.
LEMMA BeginEnqueueKeeps ==
    ASSUME AqTypeOK, NEW s, NEW r, Running(s, r), NEW u \in Users, BeginEnqueue(u)
    PROVE  \E r2 : Running(s, r2)'
<1>0. PICK m : m = Len(aqNext) + 1
    OBVIOUS
<1> DEFINE r2 == [n \in 1 .. m |-> IF n = m THEN 0 ELSE r[n]]
<1>1. /\ upc[u] = "idle" /\ upc' = [upc EXCEPT ![u] = "eTail"] /\ OnlyMoves(u)
      /\ aqNext' = Append(aqNext, 0) /\ aqData' = Append(aqData, Len(aqData) + 1)
      /\ node' = [node EXCEPT ![u] = Len(aqNext')]
      /\ UNCHANGED <<aqHead, aqTail, aqState, retired, uh, ut, un, got>>
    BY MovesOnly DEF BeginEnqueue, AqStep, At, Goto, loadedVars
<1>2. /\ aqNext \in Seq(Nat) /\ aqData \in Seq(Nat) /\ Len(aqData) = Len(aqNext)
      /\ Len(aqNext) \in Nat /\ m \in Nat /\ m \notin Nodes
    BY <1>0, LenProperties DEF AqTypeOK, Nodes
<1>3. /\ aqNext' \in Seq(Nat) /\ Len(aqNext') = m /\ aqNext'[m] = 0
      /\ \A n \in Nodes : aqNext'[n] = aqNext[n]
    BY <1>0, <1>1, <1>2 DEF Nodes
<1>4. aqData'[m] = m /\ \A n \in Nodes : aqData'[n] = aqData[n]
    BY <1>0, <1>1, <1>2 DEF Nodes
<1>5. Nodes' = 1 .. m /\ \A n \in Nodes' : n = m \/ n \in Nodes
    BY <1>0, <1>2, <1>3 DEF Nodes
<1>6. upc'[u] = "eTail" /\ node'[u] = m
    BY <1>1, <1>3 DEF AqTypeOK
<1>7. r2[m] = 0 /\ \A n \in Nodes : r2[n] = r[n] /\ n \in Nodes'
    BY <1>0, <1>2, <1>5 DEF Nodes
<1>8. \A n : Linked(r2, n)' <=> Linked(r, n)
    BY <1>5, <1>7 DEF Linked
<1> HIDE DEF r2
<1>9. Listed(aqNext, s, r2)'
    <2>1. /\ s \in Seq(Nodes) /\ r \in [Nodes -> 0 .. Len(s)]
          /\ \A i \in 1 .. Len(s) : r[s[i]] = i
          /\ \A n \in Nodes : r[n] # 0 => s[r[n]] = n
          /\ \A n \in Nodes : aqNext[n] = IF r[n] \in 1 .. Len(s) - 1 THEN s[r[n] + 1] ELSE 0
        BY DEF Running, Listed, Nodes
    <2>2. Len(s) \in Nat /\ \A i \in 1 .. Len(s) : s[i] \in Nodes
        BY <2>1, LenProperties, ElementOfSeq
    <2>3. s \in Seq(1 .. m)
        <3>1. Nodes \subseteq 1 .. m
            BY <1>5, <1>7
        <3> QED
            BY <2>1, <3>1, SeqMonotonic
    <2>4. r2 \in [1 .. m -> 0 .. Len(s)]
        BY <1>5, <1>7, <2>1, <2>2 DEF r2
    <2>5. \A i \in 1 .. Len(s) : r2[s[i]] = i
        BY <1>7, <2>1, <2>2
    <2>6. \A n \in 1 .. m : r2[n] # 0 => s[r2[n]] = n
        BY <1>5, <1>7, <2>1
    <2>7. \A n \in 1 .. m : aqNext'[n] = IF r2[n] \in 1 .. Len(s) - 1 THEN s[r2[n] + 1] ELSE 0
        <3> SUFFICES ASSUME NEW n \in 1 .. m
                     PROVE  aqNext'[n] = IF r2[n] \in 1 .. Len(s) - 1 THEN s[r2[n] + 1] ELSE 0
            OBVIOUS
        <3>1. CASE n = m
            BY <1>3, <1>7, <3>1
        <3>2. CASE n \in Nodes
            BY <1>3, <1>7, <2>1, <3>2
        <3> QED
            BY <1>5, <3>1, <3>2
    <2> QED
        BY <1>3, <2>3, <2>4, <2>5, <2>6, <2>7 DEF Listed
<1>10. aqHead \in Nodes /\ r2[aqHead] = r[aqHead] /\ Linked(r2, aqHead)' /\ Linked(r2, aqTail)'
    BY <1>1, <1>7, <1>8 DEF Running, Linked
<1>11. OwnNodes(r2)'
    <2>1. OwnNodes(r)
        BY DEF Running
    <2>2. \A v \in Users \ {u} : upc'[v] = upc[v] /\ node'[v] = node[v]
        BY <1>1 DEF OnlyMoves
    <2>3. \A v \in Users : upc[v] \in Writing => node[v] # m
        BY <1>2, <2>1 DEF OwnNodes
    <2>4. "eTail" \in Writing /\ "idle" \notin Writing
        BY DEF Writing
    <2>5. \A v \in Users : /\ upc'[v] \in Writing => node'[v] \in Nodes' /\ r2[node'[v]] = 0
                           /\ upc'[v] = "eSwing" => Linked(r2, node[v])' /\ node'[v] = node[v]
        <3> SUFFICES ASSUME NEW v \in Users
                     PROVE  /\ upc'[v] \in Writing => node'[v] \in Nodes' /\ r2[node'[v]] = 0
                            /\ upc'[v] = "eSwing" => Linked(r2, node[v])' /\ node'[v] = node[v]
            OBVIOUS
        <3>1. CASE v = u
            BY <1>0, <1>2, <1>5, <1>6, <1>7, <3>1
        <3>2. CASE v # u
            BY <1>7, <1>8, <2>1, <2>2, <3>2 DEF OwnNodes, Linked
        <3> QED
            BY <3>1, <3>2
    <2>6. \A v, w \in Users : upc'[v] \in Writing /\ upc'[w] \in Writing /\ node'[v] = node'[w] => v = w
        BY <1>6, <2>1, <2>2, <2>3 DEF OwnNodes
    <2>7. \A n \in Nodes' : r2[n] = 0 => \E v \in Users : upc'[v] \in Writing /\ node'[v] = n
        <3> SUFFICES ASSUME NEW n \in Nodes', r2[n] = 0
                     PROVE  \E v \in Users : upc'[v] \in Writing /\ node'[v] = n
            OBVIOUS
        <3>1. CASE n = m
            BY <1>6, <2>4, <3>1
        <3>2. CASE n \in Nodes
            <4>1. PICK v \in Users : upc[v] \in Writing /\ node[v] = n
                BY <1>7, <2>1, <3>2 DEF OwnNodes
            <4>2. v # u
                BY <1>1, <2>4, <4>1
            <4> QED
                BY <2>2, <4>1, <4>2
        <3> QED
            BY <1>5, <3>1, <3>2
    <2> QED
        BY <2>5, <2>6, <2>7 DEF OwnNodes
<1>12. Loaded(r2)'
    <2> SUFFICES ASSUME NEW v \in Users PROVE LoadedBy(r2, v)'
        BY DEF Loaded
    <2>1. CASE v = u
        BY <1>6, <2>1 DEF LoadedBy, Reading
    <2>2. CASE v # u
        <3>1. LoadedBy(r, v) /\ upc'[v] = upc[v]
            BY <1>1, <2>2 DEF Running, Loaded, OnlyMoves
        <3>2. Linked(r, uh[v]) => r2[uh[v]] = r[uh[v]] /\ aqNext'[uh[v]] = aqNext[uh[v]]
            BY <1>3, <1>7 DEF Linked
        <3> QED
            BY <1>1, <1>8, <1>10, <3>1, <3>2 DEF LoadedBy
    <2> QED
        BY <2>1, <2>2
<1>13. \A v \in Users : upc'[v] = "dData" <=> upc[v] = "dData"
    BY <1>1, <1>6 DEF OnlyMoves
<1>14. Filled(r2)'
    <2>1. Filled(r) /\ Loaded(r)
        BY DEF Running
    <2>2. \A n \in Nodes' : r2[n] = 0 \/ r2[n] > r2[aqHead] => aqData'[n] = n
        BY <1>4, <1>5, <1>7, <1>10, <2>1 DEF Filled
    <2>3. ASSUME NEW v \in Users, upc[v] = "dData" PROVE aqData'[un[v]] = un[v]
        <3>1. un[v] = aqNext[uh[v]] /\ un[v] # 0 /\ Linked(r, uh[v])
            BY <2>1, <2>3 DEF Loaded, LoadedBy
        <3>2. un[v] \in Nodes
            BY <3>1, NextLinked DEF Running, Linked
        <3> QED
            BY <1>4, <2>1, <2>3, <3>2 DEF Filled
    <2> QED
        BY <1>1, <1>13, <2>2, <2>3 DEF Filled
<1>15. Retiring(r2)'
    <2>1. Retiring(r) /\ Gone' = Gone /\ Once(retired)' /\ r[aqHead] \in Nat
        <3>1. Retiring(r) /\ Gone' = Gone /\ Once(retired)' = Once(retired)
            BY <1>1 DEF Running, Gone, Elems, Once
        <3>2. r[aqHead] \in Nat
            BY NextLinked DEF Running
        <3> QED
            BY <3>1, <3>2 DEF Retiring
    <2>2. \A n \in Gone' : Linked(r2, n)' /\ r2[n] < r2[aqHead]
        BY <1>7, <1>8, <1>10, <2>1 DEF Retiring, Linked
    <2>3. \A n \in Nodes' : r2[n] \in 1 .. r2[aqHead] - 1 =>
            n \in Gone \/ \E v \in Users : upc[v] = "dData" /\ uh[v] = n
        BY <1>5, <1>7, <1>10, <2>1 DEF Retiring
    <2> QED
        BY <1>1, <1>13, <2>1, <2>2, <2>3 DEF Retiring
<1>16. Running(s, r2)'
    BY <1>9, <1>10, <1>11, <1>12, <1>14, <1>15 DEF Running
<1> QED
    BY <1>16

\* The node is linked behind the last one.
LEMMA LinkKeeps ==
    ASSUME AqTypeOK, NEW s, NEW r, Running(s, r), NEW u \in Users, Link(u), MayLink(ut[u]),
           NEW x, x = node[u]
    PROVE  Running(Append(s, x), [r EXCEPT ![x] = Len(s) + 1])'
<1>0. PICK t, N : x = node[u] /\ t = ut[u] /\ N = Nodes
    OBVIOUS
<1> DEFINE s2 == Append(s, x)
           r2 == [r EXCEPT ![x] = Len(s) + 1]
<1>1. /\ upc[u] = "eLink" /\ upc' = [upc EXCEPT ![u] = "eSwing"] /\ OnlyMoves(u)
      /\ aqNext' = [aqNext EXCEPT ![t] = x] /\ aqNext[t] = 0
      /\ UNCHANGED <<aqHead, aqTail, aqData, aqState, retired, uh, ut, un, node, got>>
    BY <1>0, MovesOnly DEF Link, MayLink, AqStep, At, Goto, loadedVars, callVars
<1>2. /\ x \in N /\ r[x] = 0 /\ Linked(r, t) /\ x \in Nat /\ x # 0
    BY <1>0, <1>1 DEF Running, OwnNodes, Loaded, LoadedBy, Writing, Nodes
<1>3. /\ s \in Seq(N) /\ r \in [N -> 0 .. Len(s)]
      /\ \A i \in 1 .. Len(s) : r[s[i]] = i
      /\ \A n \in N : r[n] # 0 => s[r[n]] = n
      /\ \A n \in N : aqNext[n] = IF r[n] \in 1 .. Len(s) - 1 THEN s[r[n] + 1] ELSE 0
    BY <1>0 DEF Running, Listed, Nodes
<1>4. /\ Len(s) \in Nat /\ Len(s) # 0 /\ \A i \in 1 .. Len(s) : s[i] \in N /\ s[i] # x
      /\ t \in N /\ r[t] = Len(s)
    <2>1. /\ Len(s) \in Nat /\ \A i \in 1 .. Len(s) : s[i] \in N
        BY <1>3, LenProperties, ElementOfSeq
    <2>2. t \in N /\ r[t] # 0 /\ r[t] = Len(s)
        BY <1>0, <1>1, <1>2, NextLinked DEF Running, Linked
    <2> QED
        BY <1>2, <1>3, <2>1, <2>2
<1>5. /\ s2 \in Seq(N) /\ Len(s2) = Len(s) + 1 /\ s2[Len(s) + 1] = x
      /\ \A i \in 1 .. Len(s) : s2[i] = s[i]
    BY <1>2, <1>3, AppendProperties
<1>6. /\ r2 \in [N -> 0 .. Len(s) + 1] /\ r2[x] = Len(s) + 1 /\ \A n \in N \ {x} : r2[n] = r[n]
    BY <1>2, <1>3, <1>4
<1>7. /\ Nodes' = N /\ Len(aqNext') = Len(aqNext) /\ aqNext'[t] = x
      /\ \A n \in N \ {t} : aqNext'[n] = aqNext[n]
    BY <1>0, <1>1, <1>2, <1>4 DEF AqTypeOK, Nodes
<1> HIDE DEF s2, r2
<1>8. \A n : Linked(r, n) => /\ Linked(r2, n)' /\ n # x /\ r2[n] = r[n] /\ n \in N
                             /\ r[n] \in 1 .. Len(s)
    <2> SUFFICES ASSUME NEW n, Linked(r, n)
                 PROVE  Linked(r2, n)' /\ n # x /\ r2[n] = r[n] /\ n \in N /\ r[n] \in 1 .. Len(s)
        OBVIOUS
    <2>1. n \in N /\ r[n] # 0 /\ n # x
        BY <1>0, <1>2 DEF Linked
    <2>2. r2[n] = r[n] /\ r[n] \in 0 .. Len(s)
        BY <1>3, <1>6, <2>1
    <2> QED
        BY <1>4, <1>7, <2>1, <2>2 DEF Linked
<1>9. Listed(aqNext, s2, r2)'
    <2>1. \A i \in 1 .. Len(s) + 1 : r2[s2[i]] = i
        <3> SUFFICES ASSUME NEW i \in 1 .. Len(s) + 1 PROVE r2[s2[i]] = i
            OBVIOUS
        <3>1. CASE i = Len(s) + 1
            BY <1>5, <1>6, <3>1
        <3>2. CASE i \in 1 .. Len(s)
            BY <1>3, <1>4, <1>5, <1>6, <3>2
        <3> QED
            BY <1>4, <3>1, <3>2
    <2>2. \A n \in N : r2[n] # 0 => s2[r2[n]] = n
        <3> SUFFICES ASSUME NEW n \in N, r2[n] # 0 PROVE s2[r2[n]] = n
            OBVIOUS
        <3>1. CASE n = x
            BY <1>5, <1>6, <3>1
        <3>2. CASE n # x
            <4>1. r2[n] = r[n] /\ r[n] \in 1 .. Len(s)
                BY <1>3, <1>4, <1>6, <3>2
            <4> QED
                BY <1>3, <1>5, <4>1
        <3> QED
            BY <3>1, <3>2
    <2>3. \A n \in N : aqNext'[n] = IF r2[n] \in 1 .. Len(s) THEN s2[r2[n] + 1] ELSE 0
        <3> SUFFICES ASSUME NEW n \in N
                     PROVE  aqNext'[n] = IF r2[n] \in 1 .. Len(s) THEN s2[r2[n] + 1] ELSE 0
            OBVIOUS
        <3>1. CASE n = x
            <4>1. aqNext'[n] = 0
                BY <1>2, <1>3, <1>4, <1>7, <3>1
            <4> QED
                BY <1>4, <1>6, <3>1, <4>1
        <3>2. CASE n = t
            BY <1>2, <1>4, <1>5, <1>6, <1>7, <3>2
        <3>3. CASE n # x /\ n # t
            <4>1. r2[n] = r[n] /\ aqNext'[n] = aqNext[n] /\ r[n] \in 0 .. Len(s)
                BY <1>3, <1>6, <1>7, <3>3
            <4>2. r[n] # Len(s)
                BY <1>3, <1>4, <3>3
            <4>3. CASE r[n] = 0
                BY <1>3, <4>1, <4>3
            <4>4. CASE r[n] # 0
                <5>1. r[n] \in 1 .. Len(s) - 1 /\ r[n] \in 1 .. Len(s) /\ r[n] + 1 \in 1 .. Len(s)
                    BY <1>4, <4>1, <4>2, <4>4
                <5>2. aqNext[n] = s[r[n] + 1]
                    BY <1>3, <5>1
                <5>3. s2[r[n] + 1] = s[r[n] + 1]
                    BY <1>5, <5>1
                <5> QED
                    BY <4>1, <5>1, <5>2, <5>3
            <4> QED
                BY <4>3, <4>4
        <3> QED
            BY <3>1, <3>2, <3>3
    <2>4. N = 1 .. Len(aqNext') /\ (Len(s) + 1) - 1 = Len(s)
        BY <1>0, <1>4, <1>7 DEF Nodes
    <2> QED
        BY <1>5, <1>6, <2>1, <2>2, <2>3, <2>4 DEF Listed
<1>10. Linked(r, aqHead) /\ r2[aqHead] = r[aqHead] /\ Linked(r2, aqHead)' /\ Linked(r2, aqTail)'
    BY <1>1, <1>8 DEF Running
<1>11. OwnNodes(r2)'
    <2>1. OwnNodes(r)
        BY DEF Running
    <2>2. \A v \in Users \ {u} : upc'[v] = upc[v]
        BY <1>1 DEF OnlyMoves
    <2>3. upc[u] \in Writing /\ upc'[u] = "eSwing" /\ upc'[u] \notin Writing
        BY <1>1 DEF AqTypeOK, Writing
    <2>4. \A v \in Users \ {u} : upc[v] \in Writing => node[v] # x
        BY <1>0, <2>1, <2>3 DEF OwnNodes
    <2>5. ASSUME NEW v \in Users
          PROVE  /\ upc'[v] \in Writing => node[v] \in N /\ r2[node[v]] = 0
                 /\ upc'[v] = "eSwing" => node[v] \in N /\ r2[node[v]] # 0
        <3>1. CASE v = u
            BY <1>0, <1>2, <1>4, <1>6, <2>3, <3>1
        <3>2. CASE v # u
            BY <1>0, <1>6, <1>8, <2>1, <2>2, <2>4, <3>2 DEF OwnNodes
        <3> QED
            BY <3>1, <3>2
    <2>6. \A v, w \in Users : upc'[v] \in Writing /\ upc'[w] \in Writing /\ node[v] = node[w] => v = w
        BY <2>1, <2>2, <2>3 DEF OwnNodes
    <2>7. ASSUME NEW n \in N, r2[n] = 0
          PROVE  \E v \in Users : upc'[v] \in Writing /\ node[v] = n
        <3>1. n # x /\ r[n] = 0
            BY <1>4, <1>6, <2>7
        <3>2. PICK v \in Users : upc[v] \in Writing /\ node[v] = n
            BY <1>0, <2>1, <3>1 DEF OwnNodes
        <3> QED
            BY <1>0, <2>2, <3>1, <3>2
    <2> QED
        BY <1>1, <1>7, <2>5, <2>6, <2>7 DEF OwnNodes, Linked
<1>12. Loaded(r2)'
    <2> SUFFICES ASSUME NEW v \in Users PROVE LoadedBy(r2, v)'
        BY DEF Loaded
    <2>1. CASE v = u
        <3>1. upc'[v] = "eSwing"
            BY <1>1, <2>1 DEF AqTypeOK
        <3> QED
            BY <3>1 DEF LoadedBy, Reading
    <2>2. CASE v # u
        <3>1. LoadedBy(r, v) /\ upc'[v] = upc[v]
            BY <1>1, <2>2 DEF Running, Loaded, OnlyMoves
        <3>2. ASSUME Linked(r, uh[v]), un[v] \in {0, aqNext[uh[v]]}
              PROVE  un[v] \in {0, aqNext'[uh[v]]}
            BY <1>1, <1>7, <1>8, <3>2
        <3> QED
            BY <1>1, <1>8, <1>10, <3>1, <3>2 DEF LoadedBy
    <2> QED
        BY <2>1, <2>2
<1>13. \A v \in Users : upc'[v] = "dData" <=> upc[v] = "dData"
    BY <1>1 DEF OnlyMoves, AqTypeOK
<1>14. Filled(r2)'
    <2>1. Filled(r)
        BY DEF Running
    <2>2. ASSUME NEW n \in N, r2[n] = 0 \/ r2[n] > r2[aqHead] PROVE aqData[n] = n
        BY <1>0, <1>2, <1>6, <1>10, <2>1, <2>2 DEF Filled
    <2> QED
        BY <1>1, <1>7, <1>13, <2>1, <2>2 DEF Filled
<1>15. Retiring(r2)'
    <2>1. Retiring(r) /\ Gone' = Gone /\ Once(retired)' = Once(retired)
        BY <1>1 DEF Running, Gone, Elems, Once
    <2>2. \A n \in Gone : Linked(r2, n)' /\ r2[n] < r2[aqHead]
        BY <1>8, <1>10, <2>1 DEF Retiring
    <2>3. ASSUME NEW n \in N, r2[n] \in 1 .. r2[aqHead] - 1
          PROVE  n \in Gone \/ \E v \in Users : upc[v] = "dData" /\ uh[v] = n
        <3>1. r[aqHead] \in 1 .. Len(s)
            BY <1>8, <1>10
        <3>2. n # x
            BY <1>4, <1>6, <1>10, <2>3, <3>1
        <3> QED
            BY <1>0, <1>6, <1>10, <2>1, <2>3, <3>2 DEF Retiring
    <2> QED
        BY <1>1, <1>7, <1>13, <2>1, <2>2, <2>3 DEF Retiring
<1> QED
    <2>1. Running(s2, r2)'
        BY <1>9, <1>10, <1>11, <1>12, <1>14, <1>15 DEF Running
    <2> QED
        BY <2>1 DEF s2, r2

\* The head moves on to the next node; whoever moved it is to retire the old one.
LEMMA SwapHeadKeeps ==
    ASSUME AqTypeOK, NEW s, NEW r, Running(s, r), NEW u \in Users, SwapHead(u), Wins(u)
    PROVE  Running(s, r)'
<1>0. PICK h, m, N : h = aqHead /\ m = un[u] /\ N = Nodes
    OBVIOUS
<1>1. /\ upc[u] = "dSwap" /\ upc' = [upc EXCEPT ![u] = "dData"] /\ OnlyMoves(u)
      /\ uh[u] = h /\ aqHead' = m
      /\ UNCHANGED <<aqNext, aqTail, aqData, aqState, retired, uh, ut, un, node, got>>
    BY <1>0, MovesOnly DEF SwapHead, Wins, AqStep, At, Goto, loadedVars, callVars
<1>2. /\ LoadedBy(r, u) /\ Linked(r, h) /\ m = aqNext[h] /\ m # 0
    BY <1>0, <1>1 DEF Running, Loaded, LoadedBy
<1>3. /\ Linked(r, m) /\ r[m] = r[h] + 1 /\ r[h] \in Nat /\ s[r[h]] = h
    BY <1>2, NextLinked DEF Running
<1>4. \A n : Linked(r, n) => r[n] \in Nat /\ n \in N
    BY <1>0, NextLinked DEF Running, Linked
<1>5. Nodes' = N /\ \A n : Linked(r, n)' <=> Linked(r, n)
    BY <1>0, <1>1 DEF Linked, Nodes
<1>6. Listed(aqNext, s, r)' /\ Linked(r, aqHead)' /\ Linked(r, aqTail)'
    BY <1>1, <1>3, <1>5 DEF Running
<1>7. upc'[u] = "dData" /\ \A v \in Users \ {u} : upc'[v] = upc[v]
    BY <1>1 DEF AqTypeOK
<1>8. OwnNodes(r)'
    <2>1. \A v \in Users : /\ upc'[v] \in Writing <=> upc[v] \in Writing
                           /\ upc'[v] = "eSwing" <=> upc[v] = "eSwing"
        BY <1>1, <1>7 DEF Writing
    <2> QED
        BY <1>0, <1>1, <1>5, <2>1 DEF Running, OwnNodes
<1>9. Loaded(r)'
    <2> SUFFICES ASSUME NEW v \in Users PROVE LoadedBy(r, v)'
        BY DEF Loaded
    <2>1. CASE v = u
        <3>1. upc'[v] = "dData" /\ got'[v] = EMPTY /\ r[h] <= r[m] /\ r[h] < r[m]
            BY <1>1, <1>2, <1>3, <1>7, <2>1 DEF LoadedBy, Reading
        <3> QED
            BY <1>1, <1>2, <1>5, <2>1, <3>1 DEF LoadedBy
    <2>2. CASE v # u
        <3>1. LoadedBy(r, v) /\ upc'[v] = upc[v]
            BY <1>7, <2>2 DEF Running, Loaded
        <3>2. ASSUME Linked(r, uh[v]), r[uh[v]] <= r[h]
              PROVE  r[uh[v]] <= r[m]
            BY <1>3, <1>4, <3>2
        <3>3. ASSUME Linked(r, uh[v]), r[uh[v]] < r[h]
              PROVE  r[uh[v]] < r[m]
            BY <1>3, <1>4, <3>3
        <3> QED
            BY <1>0, <1>1, <1>5, <3>1, <3>2, <3>3 DEF LoadedBy
    <2> QED
        BY <2>1, <2>2
<1>10. \A v \in Users : upc'[v] = "dData" => v = u \/ upc[v] = "dData"
    BY <1>7
<1>11. Filled(r)'
    <2>1. Filled(r) /\ \A n \in N : r[n] \in Nat
        BY <1>0 DEF Running, Listed, Nodes
    <2>2. \A n \in N : r[n] = 0 \/ r[n] > r[m] => aqData[n] = n
        BY <1>0, <1>3, <2>1 DEF Filled
    <2>3. aqData[m] = m
        BY <1>0, <1>3, <1>4, <2>1 DEF Filled
    <2> QED
        BY <1>0, <1>1, <1>5, <1>10, <2>1, <2>2, <2>3 DEF Filled
<1>12. Retiring(r)'
    <2>1. Retiring(r) /\ Gone' = Gone /\ Once(retired)' = Once(retired)
        BY <1>1 DEF Running, Gone, Elems, Once
    <2>2. \A n \in Gone : Linked(r, n) /\ r[n] < r[m] /\ n # h
        BY <1>0, <1>3, <1>4, <2>1 DEF Retiring
    <2>3. \A v \in Users : upc[v] = "dData" => uh[v] # h
        BY <1>0, <1>3 DEF Running, Loaded, LoadedBy
    <2>4. \A v \in Users : upc'[v] = "dData" => uh[v] \notin Gone
        BY <1>1, <1>10, <2>1, <2>2 DEF Retiring
    <2>5. \A v, w \in Users : upc'[v] = "dData" /\ upc'[w] = "dData" /\ uh[v] = uh[w] => v = w
        BY <1>1, <1>10, <2>1, <2>3 DEF Retiring
    <2>6. ASSUME NEW n \in N, r[n] \in 1 .. r[m] - 1
          PROVE  n \in Gone \/ \E v \in Users : upc'[v] = "dData" /\ uh[v] = n
        <3>1. CASE r[n] = r[h]
            <4>1. n = h
                BY <1>0, <1>3, <2>6, <3>1 DEF Running, Listed, Nodes
            <4> QED
                BY <1>1, <1>7, <4>1
        <3>2. CASE r[n] # r[h]
            <4>1. r[n] \in 1 .. r[h] - 1
                BY <1>3, <2>6, <3>2
            <4>2. n \in Gone \/ \E v \in Users : upc[v] = "dData" /\ uh[v] = n
                BY <1>0, <2>1, <4>1 DEF Retiring
            <4> QED
                BY <1>1, <1>7, <4>2
        <3> QED
            BY <3>1, <3>2
    <2> QED
        BY <1>1, <1>5, <2>1, <2>2, <2>4, <2>5, <2>6 DEF Retiring
<1> QED
    BY <1>6, <1>8, <1>9, <1>11, <1>12 DEF Running

\* Appending what a sequence does not have.
LEMMA AppendOnce ==
    ASSUME NEW S, NEW q \in Seq(S), NEW x \in S, Once(q), x \notin Elems(q)
    PROVE  Once(Append(q, x)) /\ Elems(Append(q, x)) = Elems(q) \cup {x}
<1>1. /\ Len(q) \in Nat /\ Len(Append(q, x)) = Len(q) + 1 /\ Append(q, x)[Len(q) + 1] = x
      /\ \A i \in 1 .. Len(q) : Append(q, x)[i] = q[i] /\ q[i] # x
    BY LenProperties, AppendProperties DEF Elems
<1>2. \A i \in 1 .. Len(q) + 1 : i \in 1 .. Len(q) \/ i = Len(q) + 1
    BY <1>1
<1> DEFINE a == Append(q, x)
<1> HIDE DEF a
<1>3. Once(a)
    BY <1>1, <1>2 DEF Once, a
<1>4. Elems(a) = Elems(q) \cup {x}
    BY <1>1, <1>2 DEF Elems, a
<1> QED
    BY <1>3, <1>4 DEF a

\* The old dummy is retired, and the data of the new one taken.
LEMMA TakeDataKeeps ==
    ASSUME AqTypeOK, NEW s, NEW r, Running(s, r), NEW u \in Users, TakeData(u)
    PROVE  Running(s, r)'
<1>0. PICK d, m, N : d = uh[u] /\ m = un[u] /\ N = Nodes
    OBVIOUS
<1>1. /\ upc[u] = "dData" /\ upc' = [upc EXCEPT ![u] = "dDone"] /\ OnlyMoves(u)
      /\ aqData' = [aqData EXCEPT ![m] = 0] /\ retired' = Append(retired, d)
      /\ UNCHANGED <<aqHead, aqNext, aqTail, aqState, uh, ut, un, node>>
    BY <1>0, MovesOnly DEF TakeData, AqStep, At, Goto, loadedVars
<1>2. Linked(r, d) /\ m = aqNext[d] /\ m # 0 /\ r[d] < r[aqHead] /\ Linked(r, aqHead)
    BY <1>0, <1>1 DEF Running, Loaded, LoadedBy
<1>3. /\ Linked(r, m) /\ r[m] = r[d] + 1 /\ r[m] \in Nat /\ r[d] \in Nat /\ r[aqHead] \in Nat
      /\ r[m] # 0 /\ r[m] <= r[aqHead] /\ m \in N /\ d \in Nat
    <2>1. Linked(r, m) /\ r[m] = r[d] + 1
        BY <1>2, NextLinked DEF Running
    <2>2. r[d] \in 1 .. Len(s) /\ r[aqHead] \in 1 .. Len(s) /\ Len(s) \in Nat
        BY <1>2, NextLinked DEF Running
    <2>3. m \in N /\ d \in Nat
        BY <1>0, <1>2, <2>1 DEF Linked, Nodes
    <2> QED
        BY <1>2, <2>1, <2>2, <2>3
<1>4. Nodes' = N /\ \A n : Linked(r, n)' <=> Linked(r, n)
    BY <1>0, <1>1 DEF Linked, Nodes
<1>5. Listed(aqNext, s, r)' /\ Linked(r, aqHead)' /\ Linked(r, aqTail)'
    BY <1>1, <1>4 DEF Running
<1>6. upc'[u] = "dDone" /\ \A v \in Users \ {u} : upc'[v] = upc[v]
    BY <1>1 DEF AqTypeOK
<1>7. OwnNodes(r)'
    <2>1. \A v \in Users : /\ upc'[v] \in Writing <=> upc[v] \in Writing
                           /\ upc'[v] = "eSwing" <=> upc[v] = "eSwing"
        BY <1>1, <1>6 DEF Writing
    <2> QED
        BY <1>0, <1>1, <1>4, <2>1 DEF Running, OwnNodes
<1>8. Loaded(r)'
    <2> SUFFICES ASSUME NEW v \in Users PROVE LoadedBy(r, v)'
        BY DEF Loaded
    <2>1. CASE v = u
        BY <1>6, <2>1 DEF LoadedBy, Reading
    <2>2. CASE v # u
        <3>1. LoadedBy(r, v) /\ upc'[v] = upc[v] /\ got'[v] = got[v]
            BY <1>1, <2>2 DEF Running, Loaded, OnlyMoves
        <3> QED
            BY <1>1, <1>4, <3>1 DEF LoadedBy
    <2> QED
        BY <2>1, <2>2
<1>9. \A v \in Users : upc'[v] = "dData" => v # u /\ upc[v] = "dData"
    BY <1>6
<1>10. Filled(r)'
    <2>1. Filled(r)
        BY DEF Running
    <2>2. \A n \in N \ {m} : aqData'[n] = aqData[n]
        BY <1>0, <1>1, <1>3 DEF AqTypeOK, Nodes
    <2>3. ASSUME NEW n \in N, r[n] = 0 \/ r[n] > r[aqHead] PROVE aqData'[n] = n
        <3>1. n # m
            BY <1>3, <2>3
        <3> QED
            BY <1>0, <2>1, <2>2, <2>3, <3>1 DEF Filled
    <2>4. ASSUME NEW v \in Users, upc'[v] = "dData" PROVE aqData'[un[v]] = un[v]
        <3>1. v # u /\ upc[v] = "dData" /\ uh[v] # d
            BY <1>0, <1>1, <1>9, <2>4 DEF Running, Retiring
        <3>2. Linked(r, uh[v]) /\ un[v] = aqNext[uh[v]] /\ un[v] # 0
            BY <3>1 DEF Running, Loaded, LoadedBy
        <3>3. /\ Linked(r, un[v]) /\ r[un[v]] = r[uh[v]] + 1 /\ r[uh[v]] \in Nat
              /\ s[r[uh[v]]] = uh[v]
            BY <3>2, NextLinked DEF Running
        <3>4. s[r[d]] = d
            BY <1>2, NextLinked DEF Running
        <3>5. un[v] # m /\ un[v] \in N
            BY <1>0, <1>3, <3>1, <3>3, <3>4 DEF Linked
        <3> QED
            BY <2>1, <2>2, <3>1, <3>5 DEF Filled
    <2> QED
        BY <1>1, <1>4, <2>3, <2>4 DEF Filled
<1>11. Retiring(r)'
    <2>1. Retiring(r) /\ retired \in Seq(Nat)
        BY DEF Running, AqTypeOK
    <2>2. d \notin Gone
        BY <1>0, <1>1, <2>1 DEF Retiring
    <2>3. Once(retired') /\ Gone' = Gone \cup {d}
        <3>1. Once(Append(retired, d)) /\ Elems(Append(retired, d)) = Elems(retired) \cup {d}
            BY <1>3, <2>1, <2>2, AppendOnce DEF Retiring, Gone
        <3> QED
            BY <1>1, <3>1 DEF Gone
    <2>4. \A n \in Gone \cup {d} : Linked(r, n) /\ r[n] < r[aqHead]
        BY <1>2, <2>1 DEF Retiring
    <2>5. \A v \in Users : upc'[v] = "dData" => uh[v] \notin Gone \cup {d}
        BY <1>0, <1>1, <1>9, <2>1 DEF Retiring
    <2>6. \A v, w \in Users : upc'[v] = "dData" /\ upc'[w] = "dData" /\ uh[v] = uh[w] => v = w
        BY <1>9, <2>1 DEF Retiring
    <2>7. \A n \in N : r[n] \in 1 .. r[aqHead] - 1 =>
            n \in Gone \cup {d} \/ \E v \in Users : upc'[v] = "dData" /\ uh[v] = n
        BY <1>0, <1>6, <2>1 DEF Retiring
    <2> QED
        BY <1>1, <1>4, <2>3, <2>4, <2>5, <2>6, <2>7 DEF Retiring
<1> QED
    BY <1>5, <1>7, <1>8, <1>10, <1>11 DEF Running

--------------------------------------------------------------------------------
(* Types                                                                    *)

LEMMA TypeKept ==
    ASSUME AqTypeOK, NEW s, NEW r, Running(s, r), NEW u \in Users, AqStep(u)
    PROVE  AqTypeOK'
<1> DEFINE Pcs == {"idle", "eSwing", "dData", "dDone"} \cup Writing \cup Reading
<1>1. /\ aqNext \in Seq(Nat) /\ aqData \in Seq(Nat) /\ Len(aqData) = Len(aqNext)
      /\ aqState \in {"RUNNING", "gone"} /\ retired \in Seq(Nat) /\ upc \in [Users -> Pcs]
      /\ uh \in [Users -> Nat] /\ ut \in [Users -> Nat] /\ un \in [Users -> Nat]
      /\ node \in [Users -> Nat] /\ got \in [Users -> Nat \cup {EMPTY}]
    BY DEF AqTypeOK
<1>2. LoadedBy(r, u) /\ Linked(r, aqHead) /\ Linked(r, aqTail)
    BY DEF Running, Loaded
<1>3. \A n : Linked(r, n) => n \in 1 .. Len(aqNext) /\ n \in Nat /\ aqNext[n] \in Nat /\ aqData[n] \in Nat
    BY <1>1, ElementOfSeq DEF Linked, Nodes
<1> USE DEF At, Goto, listVars, loadedVars, callVars
<1> HIDE DEF Pcs
<1>4. {"idle", "eSwing", "dData", "dDone", "eTail", "eNext", "eHelp", "eCheck", "eLink",
       "dHead", "dTail", "dNext", "dHelp", "dCheck", "dSwap"} \subseteq Pcs
    BY DEF Pcs, Writing, Reading
<1> SUFFICES /\ aqNext' \in Seq(Nat) /\ aqData' \in Seq(Nat) /\ Len(aqData') = Len(aqNext')
             /\ aqState' \in {"RUNNING", "gone"} /\ retired' \in Seq(Nat) /\ upc' \in [Users -> Pcs]
             /\ uh' \in [Users -> Nat] /\ ut' \in [Users -> Nat] /\ un' \in [Users -> Nat]
             /\ node' \in [Users -> Nat] /\ got' \in [Users -> Nat \cup {EMPTY}]
    BY DEF AqTypeOK, Pcs
<1>5. CASE BeginEnqueue(u)
    <2>1. /\ aqNext' \in Seq(Nat) /\ aqData' \in Seq(Nat) /\ Len(aqNext') = Len(aqNext) + 1
          /\ Len(aqData') = Len(aqData) + 1 /\ Len(aqNext') \in Nat
        <3>1. aqNext' = Append(aqNext, 0) /\ aqData' = Append(aqData, Len(aqData) + 1)
            BY <1>5 DEF BeginEnqueue
        <3>2. Len(aqNext) \in Nat /\ Len(aqData) \in Nat /\ Len(aqData) + 1 \in Nat
            BY <1>1, LenProperties
        <3> QED
            BY <1>1, <3>1, <3>2, AppendProperties
    <2> QED
        BY <1>1, <1>4, <1>5, <2>1 DEF BeginEnqueue
<1>6. CASE LoadTail(u) \/ LoadTailToo(u)
    BY <1>1, <1>2, <1>3, <1>4, <1>6 DEF LoadTail, LoadTailToo
<1>7. CASE LoadTailNext(u)
    <2>1. aqNext[ut[u]] \in Nat
        BY <1>2, <1>3, <1>7 DEF LoadTailNext, LoadedBy
    <2> QED
        BY <1>1, <1>4, <1>7, <2>1 DEF LoadTailNext
<1>8. CASE EnqueueHelp(u) \/ EnqueueCheck(u) \/ EndEnqueue(u) \/ BeginDequeue(u)
    BY <1>1, <1>4, <1>8 DEF EnqueueHelp, EnqueueCheck, EndEnqueue, BeginDequeue
<1>9. CASE Link(u)
    <2>1. ut[u] \in 1 .. Len(aqNext) /\ node[u] \in Nat
        BY <1>1, <1>2, <1>3, <1>9 DEF Link, LoadedBy
    <2>2. /\ [aqNext EXCEPT ![ut[u]] = node[u]] \in Seq(Nat)
          /\ Len([aqNext EXCEPT ![ut[u]] = node[u]]) = Len(aqNext)
        BY <1>1, <2>1, ExceptSeq
    <2>3. aqNext' \in Seq(Nat) /\ Len(aqNext') = Len(aqNext) /\ upc' \in [Users -> Pcs]
        BY <1>1, <1>4, <1>9, <2>2 DEF Link
    <2> QED
        BY <1>1, <1>9, <2>3 DEF Link
<1>10. CASE LoadHead(u)
    BY <1>1, <1>2, <1>3, <1>4, <1>10 DEF LoadHead
<1>11. CASE LoadHeadNext(u)
    <2>1. aqNext[uh[u]] \in Nat
        BY <1>2, <1>3, <1>11 DEF LoadHeadNext, LoadedBy
    <2>2. upc' \in [Users -> Pcs]
        BY <1>1, <1>4, <1>11, <2>1 DEF LoadHeadNext
    <2> QED
        BY <1>1, <1>11, <2>1, <2>2 DEF LoadHeadNext
<1>12. CASE DequeueHelp(u) \/ DequeueCheck(u) \/ SwapHead(u) \/ EndDequeue(u)
    BY <1>1, <1>4, <1>12 DEF DequeueHelp, DequeueCheck, SwapHead, EndDequeue
<1>13. CASE TakeData(u)
    <2>1. Linked(r, un[u])
        BY <1>2, <1>13, NextLinked DEF TakeData, LoadedBy, Running
    <2>2. un[u] \in 1 .. Len(aqData) /\ aqData[un[u]] \in Nat /\ uh[u] \in Nat
        BY <1>1, <1>3, <2>1
    <2>3. /\ [aqData EXCEPT ![un[u]] = 0] \in Seq(Nat)
          /\ Len([aqData EXCEPT ![un[u]] = 0]) = Len(aqData)
        BY <1>1, <2>2, ExceptSeq
    <2>4. Append(retired, uh[u]) \in Seq(Nat)
        BY <1>1, <2>2
    <2> QED
        BY <1>1, <1>4, <1>13, <2>2, <2>3, <2>4 DEF TakeData
<1> QED
    BY <1>5, <1>6, <1>7, <1>8, <1>9, <1>10, <1>11, <1>12, <1>13 DEF AqStep

--------------------------------------------------------------------------------
(* Destroy                                                                  *)

LEMMA Regrouped ==
    ASSUME NEW p \in Seq(Nat), NEW q \in Seq(Nat), NEW t \in Seq(Nat)
    PROVE  (p \o q) \o t = p \o (q \o t)
<1> DEFINE left == (p \o q) \o t
           right == p \o (q \o t)
<1>1. Len(p) \in Nat /\ Len(q) \in Nat /\ Len(t) \in Nat /\ p \o q \in Seq(Nat) /\ q \o t \in Seq(Nat)
    BY ConcatProperties, LenProperties
<1>2. /\ left \in Seq(Nat) /\ right \in Seq(Nat)
      /\ Len(left) = Len(p) + Len(q) + Len(t) /\ Len(right) = Len(p) + Len(q) + Len(t)
    BY <1>1
<1>3. \A i \in 1 .. Len(left) : left[i] = right[i]
    BY <1>1, <1>2
<1> HIDE DEF left, right
<1>4. left = right
    BY <1>2, <1>3, SeqEqual
<1> QED
    BY <1>4 DEF left, right

\* What two sequences have that share nothing.
LEMMA ConcatOnce ==
    ASSUME NEW S, NEW p \in Seq(S), NEW q \in Seq(S), Once(p), Once(q),
           \A i \in 1 .. Len(p), j \in 1 .. Len(q) : p[i] # q[j]
    PROVE  Once(p \o q) /\ Elems(p \o q) = Elems(p) \cup Elems(q) /\ p \o q \in Seq(S)
<1> DEFINE c == p \o q
<1>1. Len(p) \in Nat /\ Len(q) \in Nat
    BY LenProperties
<1>2. c \in Seq(S) /\ Len(c) = Len(p) + Len(q)
    BY ConcatProperties
<1>3. /\ \A i \in 1 .. Len(p) : i \in 1 .. Len(c) /\ c[i] = p[i]
      /\ \A j \in 1 .. Len(q) : j + Len(p) \in 1 .. Len(c) /\ c[j + Len(p)] = q[j]
    BY <1>1, <1>2
<1>4. \A k \in 1 .. Len(c) : k \in 1 .. Len(p) \/ \E j \in 1 .. Len(q) : k = j + Len(p)
    <2> SUFFICES ASSUME NEW k \in 1 .. Len(c), k \notin 1 .. Len(p)
                 PROVE  \E j \in 1 .. Len(q) : k = j + Len(p)
        OBVIOUS
    <2>1. k - Len(p) \in 1 .. Len(q) /\ k = (k - Len(p)) + Len(p)
        BY <1>1, <1>2
    <2> QED
        BY <2>1
<1> HIDE DEF c
<1>5. Elems(c) = Elems(p) \cup Elems(q)
    <2>1. \A k \in 1 .. Len(c) : c[k] \in Elems(p) \cup Elems(q)
        <3> SUFFICES ASSUME NEW k \in 1 .. Len(c) PROVE c[k] \in Elems(p) \cup Elems(q)
            OBVIOUS
        <3>1. CASE k \in 1 .. Len(p)
            BY <1>3, <3>1 DEF Elems
        <3>2. CASE k \notin 1 .. Len(p)
            <4>1. PICK j \in 1 .. Len(q) : k = j + Len(p)
                BY <1>4, <3>2
            <4> QED
                BY <1>3, <4>1 DEF Elems
        <3> QED
            BY <3>1, <3>2
    <2>2. (\A i \in 1 .. Len(p) : p[i] \in Elems(c)) /\ \A j \in 1 .. Len(q) : q[j] \in Elems(c)
        BY <1>3 DEF Elems
    <2> QED
        BY <2>1, <2>2 DEF Elems
<1>6. Once(c)
    <2> SUFFICES ASSUME NEW i \in 1 .. Len(c), NEW j \in 1 .. Len(c), c[i] = c[j] PROVE i = j
        BY DEF Once
    <2>1. CASE i \in 1 .. Len(p) /\ j \in 1 .. Len(p)
        BY <1>3, <2>1 DEF Once
    <2>2. CASE i \notin 1 .. Len(p) /\ j \notin 1 .. Len(p)
        <3>1. PICK k, m \in 1 .. Len(q) : i = k + Len(p) /\ j = m + Len(p)
            BY <1>4, <2>2
        <3>2. q[k] = q[m]
            BY <1>3, <3>1
        <3> QED
            BY <3>1, <3>2 DEF Once
    <2>3. CASE i \in 1 .. Len(p) /\ j \notin 1 .. Len(p)
        <3>1. PICK m \in 1 .. Len(q) : j = m + Len(p)
            BY <1>4, <2>3
        <3> QED
            BY <1>3, <2>3, <3>1
    <2>4. CASE i \notin 1 .. Len(p) /\ j \in 1 .. Len(p)
        <3>1. PICK k \in 1 .. Len(q) : i = k + Len(p)
            BY <1>4, <2>4
        <3> QED
            BY <1>3, <2>4, <3>1
    <2> QED
        BY <2>1, <2>2, <2>3, <2>4
<1> QED
    BY <1>2, <1>5, <1>6 DEF c

Live == <<aqHead>> \o Behind[aqHead]

\* The head and the nodes behind it are the rest of the list.
LEMMA HeadAndBehind ==
    ASSUME AqTypeOK, NEW s, NEW r, Running(s, r), NEW h, h = r[aqHead]
    PROVE  /\ Behind[aqHead] = SubSeq(s, h + 1, Len(s))
           /\ Live \in Seq(Nat) /\ Len(Live) = Len(s) - h + 1
           /\ \A i \in 1 .. Len(Live) :
                Live[i] = s[h + i - 1] /\ Linked(r, Live[i]) /\ r[Live[i]] = h + i - 1
<1>0. PICK live : live = Live
    OBVIOUS
<1>1. /\ s \in Seq(Nodes) /\ \A i \in 1 .. Len(s) : r[s[i]] = i
      /\ Len(s) \in Nat /\ r[aqHead] \in 1 .. Len(s) /\ s[r[aqHead]] = aqHead
    <2>1. s \in Seq(Nodes) /\ \A i \in 1 .. Len(s) : r[s[i]] = i
        BY DEF Running, Listed, Nodes
    <2>2. Len(s) \in Nat /\ r[aqHead] \in 1 .. Len(s) /\ s[r[aqHead]] = aqHead
        BY NextLinked DEF Running
    <2> QED
        BY <2>1, <2>2
<1>2. Behind[aqHead] = SubSeq(s, r[aqHead] + 1, Len(s))
    <2>1. Listed(aqNext, s, r) /\ aqNext \in Seq(Nat)
        BY DEF Running, AqTypeOK
    <2>2. \A i \in 1 .. Len(s) : BehindIn(aqNext)[s[i]] = SubSeq(s, i + 1, Len(s))
        BY <2>1, BehindListed
    <2> QED
        BY <1>1, <2>2, BehindIsIn
<1>3. live = SubSeq(s, r[aqHead], Len(s))
    BY <1>0, <1>1, <1>2, RestOfSeq DEF Live
<1>4. h = r[aqHead]
    OBVIOUS
<1>5. \A i \in 1 .. Len(s) : s[i] \in Nodes /\ i # 0
    BY <1>1, ElementOfSeq
<1>6. /\ live \in Seq(Nodes) /\ Len(live) = Len(s) - h + 1
      /\ \A i \in 1 .. Len(s) - h + 1 : live[i] = s[h + i - 1]
    <2>1. h \in 1 .. Len(s) /\ live = SubSeq(s, h, Len(s))
        BY <1>1, <1>3, <1>4
    <2> QED
        BY <1>1, <2>1, FromPlaceOn
<1>7. ASSUME NEW i \in 1 .. Len(live)
      PROVE  live[i] = s[h + i - 1] /\ Linked(r, live[i]) /\ r[live[i]] = h + i - 1
    <2>1. h \in 1 .. Len(s) /\ h + i - 1 \in 1 .. Len(s)
        BY <1>1, <1>4, <1>6
    <2>2. live[i] = s[h + i - 1]
        BY <1>6
    <2> QED
        BY <1>1, <1>5, <2>1, <2>2 DEF Linked
<1>8. live \in Seq(Nat)
    BY <1>6, SeqMonotonic DEF Nodes
<1> QED
    BY <1>0, <1>2, <1>4, <1>6, <1>7, <1>8

\* With no call under way every node is linked, and those before the head retired.
LEMMA DestroyKeeps ==
    ASSUME AqTypeOK, NEW s, NEW r, Running(s, r), AqDestroy
    PROVE  AqTypeOK' /\ Destroyed'
<1>0. PICK live, h, N : live = Live /\ h = r[aqHead] /\ N = Nodes
    OBVIOUS
<1>1. /\ \A u \in Users : upc[u] = "idle"
      /\ aqState' = "gone"
      /\ UNCHANGED <<aqNext, aqData, upc, uh, ut, un, node, got>>
      /\ retired' = retired \o <<aqHead>> \o Behind[aqHead]
    BY DEF AqDestroy, At, loadedVars, callVars
<1>2. /\ Behind[aqHead] = SubSeq(s, h + 1, Len(s))
      /\ live \in Seq(Nat) /\ Len(live) = Len(s) - h + 1
      /\ \A i \in 1 .. Len(live) : live[i] = s[h + i - 1] /\ Linked(r, live[i]) /\ r[live[i]] = h + i - 1
    BY <1>0, HeadAndBehind
<1>3. /\ retired \in Seq(Nat) /\ Once(retired) /\ \A n \in Gone : Linked(r, n) /\ r[n] < h
    BY <1>0 DEF AqTypeOK, Running, Retiring
<1>4. /\ s \in Seq(N) /\ r \in [N -> 0 .. Len(s)] /\ Len(s) \in Nat /\ h \in 1 .. Len(s)
      /\ \A n \in N : r[n] # 0 => s[r[n]] = n
      /\ aqHead \in N
    <2>1. s \in Seq(N) /\ r \in [N -> 0 .. Len(s)] /\ \A n \in N : r[n] # 0 => s[r[n]] = n
        BY <1>0 DEF Running, Listed, Nodes
    <2>2. Len(s) \in Nat /\ h \in 1 .. Len(s) /\ aqHead \in N
        BY <1>0, NextLinked DEF Running, Linked
    <2> QED
        BY <2>1, <2>2
<1>5. retired' = retired \o live
    <2>1. Behind[aqHead] \in Seq(N)
        BY <1>2, <1>4
    <2>2. N \subseteq Nat
        BY <1>0 DEF Nodes
    <2>3. Behind[aqHead] \in Seq(Nat) /\ <<aqHead>> \in Seq(Nat)
        <3>1. Behind[aqHead] \in Seq(Nat)
            BY <2>1, <2>2, SeqMonotonic
        <3>2. aqHead \in Nat
            BY <1>4, <2>2
        <3> QED
            BY <3>1, <3>2
    <2> QED
        <3>1. (retired \o <<aqHead>>) \o Behind[aqHead] = retired \o (<<aqHead>> \o Behind[aqHead])
            BY <1>3, <2>3, Regrouped, Zenon
        <3> QED
            BY <1>0, <1>1, <3>1, Zenon DEF Live
<1>6. Once(live)
    <2> SUFFICES ASSUME NEW i \in 1 .. Len(live), NEW j \in 1 .. Len(live), live[i] = live[j]
                 PROVE  i = j
        BY DEF Once
    <2>1. h + i - 1 = h + j - 1
        BY <1>2
    <2> QED
        BY <1>2, <1>4, <2>1
<1>7. \A i \in 1 .. Len(retired), j \in 1 .. Len(live) : retired[i] # live[j]
    <2> SUFFICES ASSUME NEW i \in 1 .. Len(retired), NEW j \in 1 .. Len(live), retired[i] = live[j]
                 PROVE  FALSE
        OBVIOUS
    <2>1. retired[i] \in Gone
        BY DEF Gone, Elems
    <2>2. r[live[j]] < h /\ r[live[j]] = h + j - 1
        BY <1>2, <1>3, <2>1
    <2> QED
        BY <1>2, <1>4, <2>2
<1>8. Once(retired') /\ Gone' = Gone \cup Elems(live) /\ retired' \in Seq(Nat)
    <2>1. live \in Seq(Nat)
        BY <1>2
    <2>2. /\ Once(retired \o live) /\ retired \o live \in Seq(Nat)
          /\ Elems(retired \o live) = Elems(retired) \cup Elems(live)
        BY <1>3, <1>6, <1>7, <2>1, ConcatOnce
    <2> QED
        BY <1>5, <2>2 DEF Gone
<1>9. Gone \cup Elems(live) \subseteq N
    BY <1>0, <1>2, <1>3 DEF Elems, Linked
<1>10. ASSUME NEW n \in N PROVE n \in Gone \cup Elems(live)
    <2>1. r[n] # 0
        BY <1>0, <1>1 DEF Running, OwnNodes, Writing
    <2>2. r[n] \in 1 .. Len(s) /\ s[r[n]] = n
        <3>1. r[n] \in 0 .. Len(s)
            BY <1>4
        <3> QED
            BY <1>4, <2>1, <3>1
    <2>3. CASE r[n] < h
        <3>1. r[n] \in 1 .. h - 1
            BY <1>4, <2>2, <2>3
        <3> QED
            BY <1>0, <1>1, <3>1 DEF Running, Retiring
    <2>4. CASE ~ (r[n] < h)
        <3>1. r[n] - h + 1 \in 1 .. Len(live) /\ h + (r[n] - h + 1) - 1 = r[n]
            <4>1. Len(live) = Len(s) - h + 1 /\ Len(s) \in Nat /\ h \in 1 .. Len(s)
                BY <1>2, <1>4
            <4>2. r[n] \in 1 .. Len(s)
                BY <2>2
            <4> QED
                BY <2>4, <4>1, <4>2
        <3>2. live[r[n] - h + 1] = n
            BY <1>2, <2>2, <3>1
        <3> QED
            BY <3>1, <3>2 DEF Elems
    <2> QED
        BY <2>3, <2>4
<1>11. AqTypeOK'
    BY <1>1, <1>8 DEF AqTypeOK
<1> QED
    BY <1>0, <1>1, <1>8, <1>9, <1>10, <1>11 DEF Destroyed, Nodes

--------------------------------------------------------------------------------
(* The invariant                                                            *)

\* What the list and the places become with each step of a thread.
LEMMA StepKeeps ==
    ASSUME AqTypeOK, NEW s, NEW r, Running(s, r), NEW u \in Users, AqStep(u)
    PROVE  \E s2, r2 : Running(s2, r2)'
<1>1. CASE BeginEnqueue(u)
    BY <1>1, BeginEnqueueKeeps
<1>2. CASE Link(u) /\ MayLink(ut[u])
    BY <1>2, LinkKeeps
<1>3. CASE SwapHead(u) /\ Wins(u)
    BY <1>3, SwapHeadKeeps
<1>4. CASE TakeData(u)
    BY <1>4, TakeDataKeeps
<1>5. CASE \/ LoadTail(u) \/ LoadTailNext(u) \/ EnqueueHelp(u) \/ EnqueueCheck(u)
           \/ EndEnqueue(u) \/ BeginDequeue(u) \/ LoadHead(u) \/ LoadTailToo(u)
           \/ LoadHeadNext(u) \/ DequeueHelp(u) \/ DequeueCheck(u) \/ EndDequeue(u)
           \/ Link(u) /\ ~ MayLink(ut[u])
           \/ SwapHead(u) /\ ~ Wins(u)
    BY <1>5, LocalActions
<1> QED
    BY <1>1, <1>2, <1>3, <1>4, <1>5 DEF AqStep

LEMMA InitKeeps == AqInit => AqInv
<1> SUFFICES ASSUME AqInit PROVE AqInv
    OBVIOUS
<1> DEFINE s == <<1>>
           r == [n \in 1 .. 1 |-> 1]
<1>1. /\ aqNext = <<0>> /\ Len(aqNext) = 1 /\ aqNext[1] = 0 /\ aqData = <<0>> /\ Len(aqData) = 1
      /\ aqHead = 1 /\ aqTail = 1 /\ aqState = "RUNNING" /\ retired = <<>> /\ Len(retired) = 0
      /\ \A u \in Users : upc[u] = "idle"
    BY DEF AqInit
<1>2. AqTypeOK
    BY <1>1 DEF AqInit, AqTypeOK
<1>3. Nodes = {1} /\ Gone = {}
    BY <1>1 DEF Nodes, Gone, Elems
<1>4. /\ s \in Seq(1 .. Len(aqNext)) /\ Len(s) = 1 /\ s[1] = 1
      /\ r \in [1 .. Len(aqNext) -> 0 .. 1] /\ r[1] = 1 /\ 1 .. 1 = {1} /\ 1 .. 0 = {}
    BY <1>1
<1> HIDE DEF s, r
<1>5. Listed(aqNext, s, r)
    BY <1>1, <1>4 DEF Listed
<1>6. Linked(r, aqHead) /\ Linked(r, aqTail)
    BY <1>1, <1>3, <1>4 DEF Linked
<1>7. OwnNodes(r) /\ Loaded(r)
    BY <1>1, <1>3, <1>4 DEF OwnNodes, Loaded, LoadedBy, Writing, Reading
<1>8. Filled(r) /\ Retiring(r)
    BY <1>1, <1>3, <1>4 DEF Filled, Retiring, Once
<1> QED
    BY <1>1, <1>2, <1>5, <1>6, <1>7, <1>8 DEF AqInv, Running

LEMMA NextKeeps == AqInv /\ [AqNext]_aqVars => AqInv'
<1> SUFFICES ASSUME AqInv, [AqNext]_aqVars PROVE AqInv'
    OBVIOUS
<1>1. CASE UNCHANGED aqVars
    <2>1. ASSUME NEW s, NEW r, Running(s, r) PROVE Running(s, r)'
        BY <1>1, <2>1 DEF aqVars, Running, Linked, OwnNodes, Loaded, LoadedBy, Filled, Retiring,
                          Once, Gone, Elems, Nodes
    <2> QED
        BY <1>1, <2>1 DEF aqVars, AqInv, AqTypeOK, Destroyed, Once, Gone, Elems, Nodes
<1>2. ASSUME NEW u \in Users, AqStep(u) PROVE AqInv'
    <2>1. aqState = "RUNNING" /\ AqTypeOK
        <3>1. upc[u] # "idle" \/ aqState = "RUNNING"
            BY <1>2 DEF AqStep, At, BeginEnqueue, LoadTail, LoadTailNext, EnqueueHelp, EnqueueCheck,
                Link, EndEnqueue, BeginDequeue, LoadHead, LoadTailToo, LoadHeadNext, DequeueHelp,
                DequeueCheck, SwapHead, TakeData, EndDequeue
        <3> QED
            BY <3>1 DEF AqInv, AqTypeOK, Destroyed
    <2>2. PICK s, r : Running(s, r)
        BY <2>1 DEF AqInv
    <2>3. aqState' = aqState
        BY <1>2 DEF AqStep, BeginEnqueue, LoadTail, LoadTailNext, EnqueueHelp, EnqueueCheck,
            Link, EndEnqueue, BeginDequeue, LoadHead, LoadTailToo, LoadHeadNext, DequeueHelp,
            DequeueCheck, SwapHead, TakeData, EndDequeue, listVars
    <2>4. AqTypeOK'
        BY <1>2, <2>1, <2>2, TypeKept
    <2>5. \E s2, r2 : Running(s2, r2)'
        BY <1>2, <2>1, <2>2, StepKeeps
    <2> QED
        BY <2>1, <2>3, <2>4, <2>5 DEF AqInv
<1>3. CASE AqDestroy
    <2>1. aqState = "RUNNING" /\ aqState' = "gone" /\ AqTypeOK
        BY <1>3 DEF AqDestroy, AqInv
    <2>2. PICK s, r : Running(s, r)
        BY <2>1 DEF AqInv
    <2>3. AqTypeOK' /\ Destroyed'
        BY <1>3, <2>1, <2>2, DestroyKeeps
    <2> QED
        BY <2>1, <2>3 DEF AqInv
<1> QED
    BY <1>1, <1>2, <1>3 DEF AqNext

\* The linked nodes form one list with the head and the tail in it, every node that
\* is not linked is in the hands of one writer, every node before the head is retired
\* or about to be by one reader (clog_atomic_queue_enqueue, _dequeue, _destroy).
THEOREM ListInvariance == AqSpec => []AqInv
BY InitKeeps, NextKeeps, PTL DEF AqSpec

\* Every node is retired at most once, none that the head still leads to, and all of
\* them by destroy (clog_atomic_queue_dequeue, _destroy).
THEOREM EachNodeRetiredOnce == AqSpec => []NodesRetiredOnce
<1>1. AqInv => NodesRetiredOnce
    <2> SUFFICES ASSUME AqInv PROVE NodesRetiredOnce
        OBVIOUS
    <2>1. AqTypeOK /\ retired \in Seq(Nat)
        BY DEF AqInv, AqTypeOK
    <2>2. CASE aqState = "RUNNING"
        <3>1. PICK s, r : Running(s, r)
            BY <2>2 DEF AqInv
        <3>2. PICK h : h = r[aqHead]
            OBVIOUS
        <3>3. Once(retired) /\ \A n \in Gone : Linked(r, n) /\ r[n] < h
            BY <3>1, <3>2 DEF Running, Retiring
        <3>4. Cardinality(Gone) = Len(retired)
            BY <2>1, <3>3, OnceCount DEF Gone
        <3>5. /\ \A i \in 1 .. Len(Live) : r[Live[i]] = h + i - 1
              /\ Len(Live) = Len(s) - h + 1 /\ h \in Nat /\ Len(s) \in Nat
            <4>1. Listed(aqNext, s, r) /\ Linked(r, aqHead)
                BY <3>1 DEF Running
            <4>2. h \in 1 .. Len(s) /\ Len(s) \in Nat
                BY <2>1, <3>2, <4>1, NextLinked
            <4> QED
                BY <2>1, <3>1, <3>2, <4>2, HeadAndBehind
        <3>6. \A i \in 1 .. Len(Live) : Live[i] \notin Gone
            <4> SUFFICES ASSUME NEW i \in 1 .. Len(Live), Live[i] \in Gone PROVE FALSE
                OBVIOUS
            <4>1. h + i - 1 < h
                BY <3>3, <3>5
            <4> QED
                BY <3>5, <4>1
        <3> QED
            BY <2>2, <3>4, <3>6 DEF NodesRetiredOnce, Gone, Elems, Live
    <2>3. CASE aqState = "gone"
        <3>1. Once(retired) /\ Gone = Nodes
            BY <2>3 DEF AqInv, Destroyed
        <3>2. Cardinality(Gone) = Len(retired)
            BY <2>1, <3>1, OnceCount DEF Gone
        <3> QED
            BY <2>3, <3>1, <3>2 DEF NodesRetiredOnce, Gone, Elems, Nodes
    <2> QED
        BY <2>1, <2>2, <2>3 DEF AqTypeOK
<1> QED
    BY <1>1, ListInvariance, PTL

--------------------------------------------------------------------------------
(* Linearizability: each step is one of SharedFifo's or none                *)

Queue == IF aqState = "gone" THEN <<>> ELSE Behind[aqHead]
Calls == [u \in Users |-> CallOf(u)]
Call(op, item) == [op |-> op, item |-> item]

\* What is behind a linked node.
LEMMA BehindPlace ==
    ASSUME NEW next \in Seq(Nat), NEW s, NEW r, Listed(next, s, r), NEW n \in 1 .. Len(next), r[n] # 0
    PROVE  BehindIn(next)[n] = SubSeq(s, r[n] + 1, Len(s))
<1>1. /\ r[n] \in 0 .. Len(s) /\ s[r[n]] = n /\ s \in Seq(1 .. Len(next))
    BY DEF Listed
<1>2. r[n] \in 1 .. Len(s)
    BY <1>1, LenProperties
<1>3. BehindIn(next)[s[r[n]]] = SubSeq(s, r[n] + 1, Len(s))
    BY <1>2, BehindListed
<1> QED
    BY <1>1, <1>3

\* Appending to a sequence appends to its rest.
LEMMA EndAppended ==
    ASSUME NEW S, NEW s \in Seq(S), NEW x \in S, NEW i \in 1 .. Len(s)
    PROVE  SubSeq(Append(s, x), i + 1, Len(Append(s, x))) = Append(SubSeq(s, i + 1, Len(s)), x)
<1> DEFINE a == Append(s, x)
           rest == SubSeq(s, i + 1, Len(s))
           left == SubSeq(a, i + 1, Len(a))
           right == Append(rest, x)
<1>1. /\ a \in Seq(S) /\ Len(s) \in Nat /\ Len(a) = Len(s) + 1 /\ a[Len(s) + 1] = x
      /\ \A k \in 1 .. Len(s) : a[k] = s[k]
    BY AppendProperties, LenProperties
<1>2. i + 1 \in 1 .. Len(a) /\ i \in Nat
    BY <1>1
<1>3. /\ rest \in Seq(S) /\ Len(rest) = Len(s) - i
      /\ \A k \in 1 .. Len(s) - i : rest[k] = s[i + k]
    BY <1>1
<1> HIDE DEF a, rest
<1>4. /\ left \in Seq(S) /\ Len(left) = Len(s) - i + 1
      /\ \A k \in 1 .. Len(s) - i + 1 : left[k] = a[i + k]
    <2>1. /\ left \in Seq(S) /\ Len(left) = Len(a) - (i + 1) + 1
          /\ \A k \in 1 .. Len(a) - (i + 1) + 1 : left[k] = a[(i + 1) + k - 1]
        BY <1>1, <1>2, FromPlaceOn
    <2>2. Len(a) - (i + 1) + 1 = Len(s) - i + 1
        BY <1>1, <1>2
    <2>3. \A k \in 1 .. Len(s) - i + 1 : (i + 1) + k - 1 = i + k
        BY <1>1, <1>2
    <2> QED
        BY <2>1, <2>2, <2>3
<1>5. /\ right \in Seq(S) /\ Len(right) = Len(s) - i + 1 /\ right[Len(s) - i + 1] = x
      /\ \A k \in 1 .. Len(s) - i : right[k] = rest[k]
    BY <1>3, AppendProperties
<1> HIDE DEF left, right
<1>6. \A k \in 1 .. Len(left) : left[k] = right[k]
    <2> SUFFICES ASSUME NEW k \in 1 .. Len(s) - i + 1 PROVE left[k] = right[k]
        BY <1>4
    <2>1. CASE k = Len(s) - i + 1
        <3>1. i + k = Len(s) + 1
            BY <1>1, <1>2, <2>1
        <3> QED
            BY <1>1, <1>4, <1>5, <2>1, <3>1
    <2>2. CASE k # Len(s) - i + 1
        <3>1. k \in 1 .. Len(s) - i /\ i + k \in 1 .. Len(s)
            BY <1>1, <1>2, <2>2
        <3> QED
            BY <1>1, <1>3, <1>4, <1>5, <3>1
    <2> QED
        BY <2>1, <2>2
<1>7. left = right
    BY <1>4, <1>5, <1>6, SeqEqual
<1> QED
    BY <1>7 DEF left, right, a, rest

\* The first element and the rest.
LEMMA FrontOfSeq ==
    ASSUME NEW S, NEW x \in S, NEW q \in Seq(S), NEW w, w = <<x>> \o q
    PROVE  w # <<>> /\ Head(w) = x /\ Tail(w) = q
<1>1. <<x>> \in Seq(S) /\ Len(<<x>>) = 1 /\ <<x>>[1] = x /\ Len(q) \in Nat
    BY LenProperties
<1>2. /\ w \in Seq(S) /\ Len(w) = 1 + Len(q) /\ w[1] = x
      /\ \A k \in 1 .. Len(q) : w[k + 1] = q[k]
    BY <1>1
<1>3. w # <<>> /\ Head(w) = w[1]
    BY <1>1, <1>2, EmptySeq
<1>4. /\ Tail(w) \in Seq(S) /\ Len(Tail(w)) = Len(w) - 1
      /\ \A k \in 1 .. Len(Tail(w)) : Tail(w)[k] = w[k + 1]
    BY <1>2, <1>3, HeadTailProperties
<1>5. Tail(w) = q
    BY <1>1, <1>2, <1>4, SeqEqual
<1> QED
    BY <1>2, <1>3, <1>5

LEMMA SameQueue ==
    ASSUME UNCHANGED <<aqHead, aqNext, aqState>>
    PROVE  Queue' = Queue
BY BehindIsIn DEF Queue

LEMMA CallMoves ==
    ASSUME AqTypeOK, NEW u \in Users, OnlyMoves(u)
    PROVE  Calls' = [Calls EXCEPT ![u] = CallOf(u)']
<1>1. \A v \in Users \ {u} : CallOf(v)' = CallOf(v)
    BY DEF OnlyMoves, CallOf
<1> QED
    BY <1>1 DEF Calls

\* Moving to a place in the code where the call is the same.
LEMMA SameCall ==
    ASSUME AqTypeOK, NEW u \in Users, OnlyMoves(u), CallOf(u)' = CallOf(u)
    PROVE  Calls' = Calls
BY CallMoves DEF Calls

LEMMA Fifos ==
    ASSUME NEW u \in Users, NEW x,
           \/ /\ Calls[u].op = "idle" /\ x \in 1 .. MaxNodes /\ Queue' = Queue
              /\ Calls' = [Calls EXCEPT ![u] = Call("writing", x)]
           \/ /\ Calls[u] = Call("writing", x) /\ Queue' = Append(Queue, x)
              /\ Calls' = [Calls EXCEPT ![u] = Call("wrote", x)]
           \/ /\ Calls[u].op = "idle" /\ Queue' = Queue
              /\ Calls' = [Calls EXCEPT ![u] = Call("reading", EMPTY)]
           \/ /\ Calls[u].op = "reading" /\ Queue # <<>> /\ x = Head(Queue) /\ Queue' = Tail(Queue)
              /\ Calls' = [Calls EXCEPT ![u] = Call("read", x)]
           \/ /\ Calls[u].op = "reading" /\ Queue = <<>> /\ Queue' = Queue
              /\ Calls' = [Calls EXCEPT ![u] = Call("read", EMPTY)]
           \/ /\ Calls[u].op \in {"wrote", "read"} /\ Queue' = Queue
              /\ Calls' = [Calls EXCEPT ![u] = Call("idle", EMPTY)]
    PROVE  Fifo!FifoNext
<1> USE DEF Queue, Calls, Call, Fifo!FifoNext, Fifo!Doing, Fifo!Become
<1>1. CASE /\ Calls[u].op = "idle" /\ x \in 1 .. MaxNodes /\ Queue' = Queue
           /\ Calls' = [Calls EXCEPT ![u] = Call("writing", x)]
    BY <1>1 DEF Fifo!BeginWrite
<1>2. CASE /\ Calls[u] = Call("writing", x) /\ Queue' = Append(Queue, x)
           /\ Calls' = [Calls EXCEPT ![u] = Call("wrote", x)]
    <2>1. Calls[u].op = "writing" /\ Calls[u].item = x
        BY <1>2
    <2>2. Fifo!Append1(u)
        BY <1>2, <2>1 DEF Fifo!Append1
    <2> QED
        BY <2>2
<1>3. CASE /\ Calls[u].op = "idle" /\ Queue' = Queue
           /\ Calls' = [Calls EXCEPT ![u] = Call("reading", EMPTY)]
    BY <1>3 DEF Fifo!BeginRead
<1>4. CASE /\ Calls[u].op = "reading" /\ Queue # <<>> /\ x = Head(Queue) /\ Queue' = Tail(Queue)
           /\ Calls' = [Calls EXCEPT ![u] = Call("read", x)]
    BY <1>4 DEF Fifo!Take
<1>5. CASE /\ Calls[u].op = "reading" /\ Queue = <<>> /\ Queue' = Queue
           /\ Calls' = [Calls EXCEPT ![u] = Call("read", EMPTY)]
    BY <1>5 DEF Fifo!FindEmpty
<1>6. CASE /\ Calls[u].op \in {"wrote", "read"} /\ Queue' = Queue
           /\ Calls' = [Calls EXCEPT ![u] = Call("idle", EMPTY)]
    BY <1>6 DEF Fifo!End
<1> QED
    BY <1>1, <1>2, <1>3, <1>4, <1>5, <1>6

LEMMA BeginEnqueueWrites ==
    ASSUME AqInv, AqInv', NEW u \in Users, BeginEnqueue(u)
    PROVE  Fifo!FifoNext
<1>1. /\ aqState = "RUNNING" /\ AqTypeOK /\ AqTypeOK' /\ upc[u] = "idle" /\ upc'[u] = "eTail"
      /\ OnlyMoves(u) /\ aqHead' = aqHead /\ aqState' = aqState
      /\ aqNext' = Append(aqNext, 0) /\ node'[u] = Len(aqNext') /\ Len(aqNext) < MaxNodes
    BY MovesOnly DEF BeginEnqueue, AqInv, AqTypeOK, AqStep, At, Goto
<1>2. PICK s, r : Running(s, r)
    BY <1>1 DEF AqInv
<1>3. PICK r2 : Running(s, r2)'
    BY <1>1, <1>2, BeginEnqueueKeeps
<1>4. PICK h : h = r[aqHead]
    OBVIOUS
<1>5. h \in 1 .. Len(s) /\ s[h] = aqHead /\ Linked(r, aqHead)
    BY <1>1, <1>2, <1>4, NextLinked DEF Running
<1>6. Behind[aqHead] = SubSeq(s, h + 1, Len(s))
    BY <1>1, <1>2, <1>4, HeadAndBehind
<1>7. Behind'[aqHead'] = SubSeq(s, h + 1, Len(s))
    <2>1. Listed(aqNext', s, r2) /\ aqNext' \in Seq(Nat)
        BY <1>1, <1>3 DEF Running, AqTypeOK
    <2>2. BehindIn(aqNext')[s[h]] = SubSeq(s, h + 1, Len(s))
        BY <1>5, <2>1, BehindListed
    <2> QED
        BY <1>1, <1>5, <2>2, BehindIsIn
<1>8. Queue' = Queue
    BY <1>1, <1>6, <1>7 DEF Queue
<1>9. node'[u] \in 1 .. MaxNodes
    <2>1. aqNext \in Seq(Nat)
        BY <1>1 DEF AqTypeOK
    <2>2. Len(aqNext') = Len(aqNext) + 1 /\ Len(aqNext) \in Nat
        BY <1>1, <2>1, AppendProperties, LenProperties
    <2> QED
        BY <1>1, <2>2, AqAssumption
<1>10. Calls[u].op = "idle" /\ CallOf(u)' = Call("writing", node'[u])
    BY <1>1 DEF Calls, Call, CallOf
<1> QED
    BY <1>1, <1>8, <1>9, <1>10, CallMoves, Fifos

LEMMA LinkAppends ==
    ASSUME AqInv, AqInv', NEW u \in Users, Link(u), MayLink(ut[u])
    PROVE  Fifo!FifoNext
<1>1. /\ AqTypeOK /\ AqTypeOK' /\ upc[u] = "eLink" /\ upc'[u] = "eSwing"
      /\ OnlyMoves(u) /\ aqHead' = aqHead /\ aqState' = aqState /\ node' = node
    BY MovesOnly DEF Link, AqInv, AqTypeOK, AqStep, At, Goto, callVars
<1>2. aqState = "RUNNING"
    BY <1>1 DEF AqInv, AqTypeOK, Destroyed
<1>3. PICK s, r : Running(s, r)
    BY <1>2 DEF AqInv
<1>4. PICK x, h, N : x = node[u] /\ h = r[aqHead] /\ N = Nodes
    OBVIOUS
<1> DEFINE s2 == Append(s, x)
           r2 == [r EXCEPT ![x] = Len(s) + 1]
<1>5. Running(s2, r2)'
    BY <1>1, <1>3, <1>4, LinkKeeps
<1>6. h \in 1 .. Len(s) /\ s[h] = aqHead /\ Len(s) \in Nat
    BY <1>1, <1>3, <1>4, NextLinked DEF Running
<1>7. Behind[aqHead] = SubSeq(s, h + 1, Len(s))
    BY <1>1, <1>3, <1>4, HeadAndBehind
<1>8. s \in Seq(N) /\ x \in N
    BY <1>1, <1>3, <1>4 DEF Running, Listed, OwnNodes, Nodes, Writing
<1>9. Len(s2) = Len(s) + 1 /\ s2[h] = s[h] /\ s2[Len(s) + 1] = x
    BY <1>6, <1>8, AppendProperties
<1>10. SubSeq(s2, h + 1, Len(s2)) = Append(SubSeq(s, h + 1, Len(s)), x)
    BY <1>6, <1>8, <1>9, EndAppended
<1> HIDE DEF s2, r2
<1>11. Behind'[aqHead'] = SubSeq(s2, h + 1, Len(s2))
    <2>1. Listed(aqNext', s2, r2) /\ aqNext' \in Seq(Nat)
        BY <1>1, <1>5 DEF Running, AqTypeOK
    <2>2. h \in 1 .. Len(s2)
        BY <1>6, <1>9
    <2>3. BehindIn(aqNext')[s2[h]] = SubSeq(s2, h + 1, Len(s2))
        BY <2>1, <2>2, BehindListed
    <2> QED
        BY <1>1, <1>6, <1>9, <2>3, BehindIsIn
<1>12. Queue' = Append(Queue, x)
    BY <1>1, <1>2, <1>7, <1>10, <1>11 DEF Queue
<1>13. Calls[u] = Call("writing", x) /\ CallOf(u)' = Call("wrote", x)
    BY <1>1, <1>4 DEF Calls, Call, CallOf
<1> QED
    BY <1>1, <1>12, <1>13, CallMoves, Fifos

LEMMA SwapHeadTakes ==
    ASSUME AqInv, AqInv', NEW u \in Users, SwapHead(u), Wins(u)
    PROVE  Fifo!FifoNext
<1>1. /\ AqTypeOK /\ AqTypeOK' /\ upc[u] = "dSwap" /\ upc'[u] = "dData"
      /\ OnlyMoves(u) /\ uh[u] = aqHead /\ aqHead' = un[u] /\ aqState' = aqState
      /\ aqNext' = aqNext /\ un' = un
    BY MovesOnly DEF SwapHead, Wins, AqInv, AqTypeOK, AqStep, At, Goto, callVars, loadedVars
<1>2. aqState = "RUNNING"
    BY <1>1 DEF AqInv, AqTypeOK, Destroyed
<1>3. PICK s, r : Running(s, r)
    BY <1>2 DEF AqInv
<1>4. PICK m, h : m = un[u] /\ h = r[aqHead]
    OBVIOUS
<1>5. m = aqNext[aqHead] /\ m # 0
    BY <1>1, <1>3, <1>4 DEF Running, Loaded, LoadedBy
<1>6. /\ h \in 1 .. Len(s) /\ Linked(r, m) /\ r[m] = h + 1 /\ m = s[h + 1] /\ r[m] \in 1 .. Len(s)
    BY <1>1, <1>3, <1>4, <1>5, NextLinked DEF Running
<1>7. Behind[aqHead] = SubSeq(s, h + 1, Len(s))
    BY <1>1, <1>3, <1>4, HeadAndBehind
<1>8. Behind'[m] = SubSeq(s, r[m] + 1, Len(s))
    <2>1. Listed(aqNext, s, r) /\ aqNext \in Seq(Nat) /\ m \in 1 .. Len(aqNext) /\ r[m] # 0
        BY <1>1, <1>3, <1>6 DEF Running, AqTypeOK, Linked, Nodes
    <2> QED
        BY <1>1, <2>1, BehindPlace, BehindIsIn
<1>9. Behind[aqHead] = <<m>> \o Behind'[m] /\ Behind'[m] \in Seq(Nodes) /\ m \in Nodes
    <2>1. s \in Seq(Nodes) /\ h + 1 \in 1 .. Len(s) /\ m \in Nodes
        BY <1>3, <1>6 DEF Running, Listed, Linked, Nodes
    <2>2. <<s[h + 1]>> \o SubSeq(s, (h + 1) + 1, Len(s)) = SubSeq(s, h + 1, Len(s))
        BY <2>1, RestOfSeq
    <2>3. SubSeq(s, (h + 1) + 1, Len(s)) \in Seq(Nodes)
        BY <2>1
    <2> QED
        BY <1>6, <1>7, <1>8, <2>1, <2>2, <2>3
<1>10. /\ Behind[aqHead] # <<>> /\ Head(Behind[aqHead]) = m /\ Tail(Behind[aqHead]) = Behind'[m]
    BY <1>9, FrontOfSeq
<1>11. Queue # <<>> /\ m = Head(Queue) /\ Queue' = Tail(Queue)
    BY <1>1, <1>2, <1>4, <1>10 DEF Queue
<1>12. Calls[u].op = "reading" /\ CallOf(u)' = Call("read", m)
    BY <1>1, <1>4 DEF Calls, Call, CallOf
<1> QED
    BY <1>1, <1>11, <1>12, CallMoves, Fifos

\* A reader finds the queue empty when the dummy it loaded leads nowhere: then it is
\* still the head.
LEMMA LoadHeadNextFinds ==
    ASSUME AqInv, NEW u \in Users, LoadHeadNext(u)
    PROVE  Fifo!FifoNext \/ UNCHANGED <<Queue, Calls>>
<1>1. /\ AqTypeOK /\ upc[u] = "dNext" /\ OnlyMoves(u) /\ Queue' = Queue
      /\ got' = got /\ aqState' = aqState
    BY MovesOnly, SameQueue DEF LoadHeadNext, AqInv, AqStep, At, listVars, callVars
<1>2. aqState = "RUNNING"
    BY <1>1 DEF AqInv, AqTypeOK, Destroyed
<1>3. PICK s, r : Running(s, r)
    BY <1>2 DEF AqInv
<1>4. Calls[u].op = "reading" /\ CallOf(u) = Call("reading", EMPTY)
    BY <1>1 DEF Calls, Call, CallOf
<1>5. CASE uh[u] = ut[u] /\ aqNext[uh[u]] = 0
    <2>1. upc'[u] = "dDone" /\ got[u] = EMPTY /\ Linked(r, uh[u]) /\ r[uh[u]] <= r[aqHead]
        BY <1>1, <1>3, <1>5 DEF LoadHeadNext, Goto, AqTypeOK, Running, Loaded, LoadedBy, Reading
    <2>2. r[uh[u]] = Len(s) /\ r[aqHead] \in 1 .. Len(s) /\ Len(s) \in Nat /\ r[uh[u]] \in 1 .. Len(s)
        BY <1>1, <1>3, <1>5, <2>1, NextLinked DEF Running
    <2>3. r[aqHead] = Len(s)
        BY <2>1, <2>2
    <2>4. Behind[aqHead] = SubSeq(s, Len(s) + 1, Len(s))
        BY <1>1, <1>3, <2>3, HeadAndBehind
    <2>5. Queue = <<>>
        BY <1>2, <2>2, <2>4, SubSeqEmpty DEF Queue
    <2>6. CallOf(u)' = Call("read", EMPTY)
        BY <1>1, <2>1 DEF Call, CallOf
    <2> QED
        BY <1>1, <1>4, <2>5, <2>6, CallMoves, Fifos
<1>6. CASE ~ (uh[u] = ut[u] /\ aqNext[uh[u]] = 0)
    <2>1. upc'[u] \in {"dHelp", "dCheck"}
        BY <1>1, <1>6 DEF LoadHeadNext, Goto, AqTypeOK
    <2>2. CallOf(u)' = CallOf(u)
        BY <1>4, <2>1 DEF Call, CallOf
    <2> QED
        BY <1>1, <2>2, SameCall
<1> QED
    BY <1>5, <1>6

\* The steps that are seen of nobody: loads, checks, help with the tail, swaps that
\* fail, and the data taken after the head was won.
LEMMA HiddenSteps ==
    ASSUME AqInv, NEW u \in Users,
           \/ LoadTail(u) \/ LoadTailNext(u) \/ EnqueueHelp(u) \/ EnqueueCheck(u) \/ LoadHead(u)
           \/ LoadTailToo(u) \/ DequeueHelp(u) \/ DequeueCheck(u) \/ TakeData(u)
           \/ Link(u) /\ ~ MayLink(ut[u])
           \/ SwapHead(u) /\ ~ Wins(u)
    PROVE  UNCHANGED <<Queue, Calls>>
<1> USE DEF At, Goto, listVars, loadedVars, callVars
<1>1. AqTypeOK /\ OnlyMoves(u)
    BY MovesOnly DEF AqInv, AqStep
<1>2. CASE LoadTail(u) \/ LoadTailNext(u) \/ EnqueueHelp(u) \/ EnqueueCheck(u)
    <2>1. /\ UNCHANGED <<aqHead, aqNext, aqState, node>>
          /\ upc[u] \in Writing /\ upc'[u] \in Writing
        BY <1>1, <1>2 DEF LoadTail, LoadTailNext, EnqueueHelp, EnqueueCheck, AqTypeOK, Writing
    <2>2. CallOf(u)' = CallOf(u)
        BY <2>1 DEF CallOf, Writing
    <2> QED
        BY <1>1, <2>1, <2>2, SameCall, SameQueue
<1>3. CASE Link(u) /\ ~ MayLink(ut[u])
    <2>1. /\ UNCHANGED <<aqHead, aqNext, aqState, node>>
          /\ upc[u] \in Writing /\ upc'[u] \in Writing
        BY <1>1, <1>3 DEF Link, AqTypeOK, Writing
    <2>2. CallOf(u)' = CallOf(u)
        BY <2>1 DEF CallOf, Writing
    <2> QED
        BY <1>1, <2>1, <2>2, SameCall, SameQueue
<1>4. CASE LoadHead(u) \/ LoadTailToo(u) \/ DequeueHelp(u) \/ DequeueCheck(u)
    <2>1. /\ UNCHANGED <<aqHead, aqNext, aqState>>
          /\ upc[u] \in Reading /\ upc'[u] \in Reading
        BY <1>1, <1>4 DEF LoadHead, LoadTailToo, DequeueHelp, DequeueCheck, AqTypeOK, Reading
    <2>2. CallOf(u)' = CallOf(u)
        BY <2>1 DEF CallOf, Reading
    <2> QED
        BY <1>1, <2>1, <2>2, SameCall, SameQueue
<1>5. CASE SwapHead(u) /\ ~ Wins(u)
    <2>1. /\ UNCHANGED <<aqHead, aqNext, aqState>>
          /\ upc[u] \in Reading /\ upc'[u] \in Reading
        BY <1>1, <1>5 DEF SwapHead, AqTypeOK, Reading
    <2>2. CallOf(u)' = CallOf(u)
        BY <2>1 DEF CallOf, Reading
    <2> QED
        BY <1>1, <2>1, <2>2, SameCall, SameQueue
<1>6. CASE TakeData(u)
    <2>1. /\ UNCHANGED <<aqHead, aqNext, aqState>> /\ upc[u] = "dData" /\ upc'[u] = "dDone"
          /\ got'[u] = aqData[un[u]]
        BY <1>1, <1>6 DEF TakeData, AqTypeOK
    <2>2. aqState = "RUNNING"
        BY <1>1, <2>1 DEF AqInv, AqTypeOK, Destroyed
    <2>3. aqData[un[u]] = un[u]
        BY <2>1, <2>2 DEF AqInv, Running, Filled
    <2>4. CallOf(u)' = CallOf(u)
        BY <2>1, <2>3 DEF CallOf
    <2> QED
        BY <1>1, <2>1, <2>4, SameCall, SameQueue
<1> QED
    BY <1>2, <1>3, <1>4, <1>5, <1>6

LEMMA BeginAndEnd ==
    ASSUME AqInv, NEW u \in Users, EndEnqueue(u) \/ BeginDequeue(u) \/ EndDequeue(u)
    PROVE  Fifo!FifoNext
<1> USE DEF At, Goto, listVars, loadedVars, callVars
<1>1. AqTypeOK /\ OnlyMoves(u)
    BY MovesOnly DEF AqInv, AqStep
<1>2. UNCHANGED <<aqHead, aqNext, aqState>>
    BY DEF EndEnqueue, BeginDequeue, EndDequeue
<1>3. CASE EndEnqueue(u) \/ EndDequeue(u)
    <2>1. upc[u] \in {"eSwing", "dDone"} /\ upc'[u] = "idle"
        BY <1>1, <1>3 DEF EndEnqueue, EndDequeue, AqTypeOK
    <2>2. Calls[u].op \in {"wrote", "read"} /\ CallOf(u)' = Call("idle", EMPTY)
        BY <2>1 DEF Calls, Call, CallOf
    <2> QED
        BY <1>1, <1>2, <2>2, SameQueue, CallMoves, Fifos
<1>4. CASE BeginDequeue(u)
    <2>1. upc[u] = "idle" /\ upc'[u] = "dHead"
        BY <1>1, <1>4 DEF BeginDequeue, AqTypeOK
    <2>2. Calls[u].op = "idle" /\ CallOf(u)' = Call("reading", EMPTY)
        BY <2>1 DEF Calls, Call, CallOf
    <2> QED
        BY <1>1, <1>2, <2>2, SameQueue, CallMoves, Fifos
<1> QED
    BY <1>3, <1>4

LEMMA DestroyDiscards ==
    ASSUME AqDestroy
    PROVE  Fifo!FifoNext
<1>1. /\ \A u \in Users : upc[u] = "idle"
      /\ UNCHANGED <<upc, node, un, got>> /\ aqState' = "gone"
    BY DEF AqDestroy, At, loadedVars, callVars
<1>2. Queue' = <<>> /\ Calls' = Calls
    BY <1>1 DEF Queue, Calls, CallOf
<1>3. \A u \in Users : Calls[u].op = "idle"
    BY <1>1 DEF Calls, CallOf
<1> QED
    BY <1>2, <1>3 DEF Fifo!FifoNext, Fifo!Discard, Fifo!Doing, Queue, Calls

\* Linearizability: every behaviour is one of the queue whose calls take effect in an
\* instant between their start and their answer, a write with the link, a read with the
\* swap of the head or the load that finds nothing, whoever helps whose tail along
\* meanwhile (clog_atomic_queue_enqueue, _dequeue, _destroy).
THEOREM QueueIsLinearizable == AqSpec => ImplementsFifo
<1>1. AqInit => Fifo!FifoInit
    <2> SUFFICES ASSUME AqInit PROVE Fifo!FifoInit
        OBVIOUS
    <2>1. aqNext = <<0>> /\ aqHead = 1 /\ aqState = "RUNNING" /\ \A u \in Users : upc[u] = "idle"
        BY DEF AqInit
    <2>2. AqInv
        BY InitKeeps
    <2>3. PICK s, r : Running(s, r)
        BY <2>1, <2>2 DEF AqInv
    <2>4. /\ Linked(r, aqHead) /\ Listed(aqNext, s, r) /\ AqTypeOK /\ aqNext[aqHead] = 0
        BY <2>1, <2>2, <2>3 DEF AqInv, Running
    <2>5. r[aqHead] = Len(s) /\ Len(s) \in Nat
        BY <2>4, NextLinked
    <2>6. Behind[aqHead] = SubSeq(s, Len(s) + 1, Len(s))
        BY <2>3, <2>4, <2>5, HeadAndBehind
    <2>7. Queue = <<>>
        BY <2>1, <2>5, <2>6, SubSeqEmpty DEF Queue
    <2>8. Calls = [u \in Users |-> Call("idle", EMPTY)]
        BY <2>1 DEF Calls, Call, CallOf
    <2> QED
        BY <2>7, <2>8 DEF Fifo!FifoInit, Fifo!Idle, Queue, Calls, Call
<1>2. AqInv /\ AqInv' /\ [AqNext]_aqVars => [Fifo!FifoNext]_(Fifo!fifoVars)
    <2> SUFFICES ASSUME AqInv, AqInv', [AqNext]_aqVars
                 PROVE  Fifo!FifoNext \/ UNCHANGED <<Queue, Calls>>
        BY DEF Fifo!fifoVars, Queue, Calls
    <2>1. CASE UNCHANGED aqVars
        <3>1. UNCHANGED <<aqHead, aqNext, aqState, upc, node, un, got>>
            BY <2>1 DEF aqVars
        <3>2. Calls' = Calls
            BY <3>1 DEF Calls, CallOf
        <3> QED
            BY <3>1, <3>2, SameQueue
    <2>2. ASSUME NEW u \in Users, AqStep(u)
          PROVE  Fifo!FifoNext \/ UNCHANGED <<Queue, Calls>>
        <3>1. CASE BeginEnqueue(u)
            BY <3>1, BeginEnqueueWrites
        <3>2. CASE Link(u) /\ MayLink(ut[u])
            BY <3>2, LinkAppends
        <3>3. CASE SwapHead(u) /\ Wins(u)
            BY <3>3, SwapHeadTakes
        <3>4. CASE LoadHeadNext(u)
            BY <3>4, LoadHeadNextFinds
        <3>5. CASE EndEnqueue(u) \/ BeginDequeue(u) \/ EndDequeue(u)
            BY <3>5, BeginAndEnd
        <3>6. CASE \/ LoadTail(u) \/ LoadTailNext(u) \/ EnqueueHelp(u) \/ EnqueueCheck(u)
                   \/ LoadHead(u) \/ LoadTailToo(u) \/ DequeueHelp(u) \/ DequeueCheck(u)
                   \/ TakeData(u)
                   \/ Link(u) /\ ~ MayLink(ut[u])
                   \/ SwapHead(u) /\ ~ Wins(u)
            BY <3>6, HiddenSteps
        <3> QED
            BY <2>2, <3>1, <3>2, <3>3, <3>4, <3>5, <3>6 DEF AqStep
    <2>3. CASE AqDestroy
        BY <2>3, DestroyDiscards
    <2> QED
        BY <2>1, <2>2, <2>3 DEF AqNext
<1> QED
    BY <1>1, <1>2, ListInvariance, PTL DEF AqSpec, ImplementsFifo, Fifo!FifoSpec

--------------------------------------------------------------------------------
(* The error ring                                                           *)

ErrTypeOK ==
    /\ errLines \in Seq(Nat) /\ errNum \in Nat /\ errCount \in Nat
    /\ epc \in [ErrThreads -> {"out", "load", "swap", "fill"}]
    /\ eold \in [ErrThreads -> Nat] /\ mine \in [ErrThreads -> Nat]
    /\ claimed \in Seq(Nat)
    /\ puts \in Nat /\ clears \in Nat
    /\ told \in [ErrThreads -> Nat]

\* The count is that of the claims, and a claim is for a line that exists.
LinesEnough ==
    /\ Len(errLines) = errNum
    /\ errCount = Len(claimed) /\ errCount <= errNum
    /\ \A t \in ErrThreads :
        /\ told[t] <= errNum
        /\ epc[t] \in {"swap", "fill"} => eold[t] < errNum

\* Whoever fills a line that no clear has overtaken has claimed that one, alone.
OwnLine ==
    \A t \in ErrThreads : epc[t] = "fill" /\ eold[t] + 1 \notin overtaken =>
        /\ eold[t] < errCount /\ claimed[eold[t] + 1] = mine[t]
        /\ \A u \in ErrThreads : epc[u] = "fill" /\ eold[u] = eold[t] => u = t

\* A line that was claimed holds the error, or somebody is about to fill it.
LinesFilled ==
    \A i \in 1 .. errCount :
        \/ i \in overtaken
        \/ errLines[i] = claimed[i]
        \/ \E t \in ErrThreads : epc[t] = "fill" /\ eold[t] + 1 = i

ErrInv == ErrTypeOK /\ LinesEnough /\ OwnLine /\ LinesFilled

\* A ring without lines.
LEMMA ErrInitInv == ErrInit => ErrInv
<1> SUFFICES ASSUME ErrInit PROVE ErrInv
    OBVIOUS
<1>1. Len(errLines) = 0 /\ Len(claimed) = 0
    BY DEF ErrInit
<1> QED
    BY <1>1 DEF ErrInit, ErrInv, ErrTypeOK, LinesEnough, OwnLine, LinesFilled

\* setup and cleanup, while nobody else is in the library.
LEMMA SetupKeeps ==
    ASSUME ErrInv, Cleanup \/ \E num \in 1 .. MaxErrors : ErrSetup(num)
    PROVE  ErrInv'
<1> USE DEF ErrInv
<1>1. /\ \A t \in ErrThreads : epc[t] = "out"
      /\ told' = [t \in ErrThreads |-> 0]
      /\ UNCHANGED <<epc, eold, mine, puts, clears>>
    BY DEF Cleanup, ErrSetup, Alone, ErrAt
<1>2. /\ errLines' \in Seq(Nat) /\ errNum' \in Nat /\ Len(errLines') = errNum'
      /\ errCount' = 0 /\ claimed' = <<>>
    <2>1. CASE Cleanup
        BY <2>1 DEF Cleanup
    <2>2. ASSUME NEW num \in 1 .. MaxErrors, ErrSetup(num)
          PROVE  /\ errLines' \in Seq(Nat) /\ errNum' \in Nat /\ Len(errLines') = errNum'
                 /\ errCount' = 0 /\ claimed' = <<>>
        <3>1. errNum = 0 /\ errCount = 0 /\ Len(claimed) = 0 /\ claimed' = claimed /\ num \in Nat
            BY <2>2 DEF ErrSetup, ErrTypeOK, LinesEnough
        <3>2. claimed = <<>>
            BY <3>1, EmptySeq DEF ErrTypeOK
        <3>3. CASE errLines' = [i \in 1 .. num |-> 0] /\ errNum' = num /\ errCount' = 0
            BY <3>1, <3>2, <3>3
        <3>4. CASE errLines' = <<>> /\ UNCHANGED <<errNum, errCount>>
            BY <3>1, <3>2, <3>4
        <3> QED
            BY <2>2, <3>3, <3>4 DEF ErrSetup, LinesAfterFailure
    <2> QED
        BY <2>1, <2>2
<1>3. Len(claimed') = 0
    BY <1>2
<1> QED
    BY <1>1, <1>2, <1>3 DEF ErrTypeOK, LinesEnough, OwnLine, LinesFilled

\* A step of a put that changes neither the lines nor the count, and get.
LEMMA LookKeeps ==
    ASSUME ErrInv, NEW t \in ErrThreads,
           \/ PutBegin(t) \/ PutLoad(t) \/ ErrGet(t)
           \/ PutSwap(t) /\ ~ MayClaim(t)
    PROVE  ErrInv'
<1> USE DEF ErrInv
<1>1. /\ UNCHANGED <<errLines, errNum, errCount, claimed, overtaken, clears>>
      /\ puts' \in Nat
      /\ epc[t] # "fill"
      /\ epc' \in [ErrThreads -> {"out", "load", "swap", "fill"}]
      /\ eold' \in [ErrThreads -> Nat] /\ mine' \in [ErrThreads -> Nat]
      /\ epc'[t] # "fill" /\ (epc'[t] = "swap" => eold'[t] < errNum)
      /\ \A u \in ErrThreads : u # t =>
            epc'[u] = epc[u] /\ eold'[u] = eold[u] /\ mine'[u] = mine[u]
    <2> USE DEF ErrAt, ErrGo, ErrTypeOK, LinesEnough
    <2>1. CASE PutBegin(t)
        BY <2>1 DEF PutBegin
    <2>2. CASE PutLoad(t)
        BY <2>2 DEF PutLoad
    <2>3. CASE ErrGet(t)
        BY <2>3 DEF ErrGet
    <2>4. CASE PutSwap(t) /\ ~ MayClaim(t)
        BY <2>4 DEF PutSwap
    <2> QED
        BY <2>1, <2>2, <2>3, <2>4
<1>2. told' \in [ErrThreads -> Nat] /\ \A u \in ErrThreads : told'[u] <= errNum
    <2> USE DEF ErrTypeOK, LinesEnough
    <2>1. CASE ErrGet(t)
        BY <2>1 DEF ErrGet
    <2>2. CASE told' = told
        BY <2>2
    <2> QED
        BY <2>1, <2>2 DEF PutBegin, PutLoad, PutSwap
<1>3. \A u \in ErrThreads : epc[u] = "fill" <=> epc'[u] = "fill"
    BY <1>1
<1>4. ErrTypeOK' /\ LinesEnough'
    BY <1>1, <1>2 DEF ErrTypeOK, LinesEnough
<1>5. OwnLine'
    BY <1>1, <1>3 DEF OwnLine
<1>6. LinesFilled'
    BY <1>1, <1>3 DEF LinesFilled
<1> QED
    BY <1>4, <1>5, <1>6

\* The claim of a line.
LEMMA ClaimKeeps ==
    ASSUME ErrInv, NEW t \in ErrThreads, PutSwap(t), MayClaim(t)
    PROVE  ErrInv'
<1> USE DEF ErrInv
<1>1. /\ epc[t] = "swap" /\ epc' = [epc EXCEPT ![t] = "fill"]
      /\ errCount' = errCount + 1 /\ claimed' = Append(claimed, mine[t])
      /\ eold[t] = errCount /\ errCount < errNum /\ mine[t] \in Nat
      /\ UNCHANGED <<errLines, errNum, eold, mine, overtaken, puts, clears, told>>
    BY DEF PutSwap, MayClaim, ErrAt, ErrGo, ErrTypeOK, LinesEnough
<1>2. /\ claimed' \in Seq(Nat) /\ Len(claimed') = errCount + 1
      /\ claimed'[errCount + 1] = mine[t]
      /\ \A i \in 1 .. errCount : claimed'[i] = claimed[i]
    BY <1>1, AppendProperties DEF ErrTypeOK, LinesEnough
<1>3. ErrTypeOK' /\ LinesEnough'
    BY <1>1, <1>2 DEF ErrTypeOK, LinesEnough
<1>4. OwnLine'
    <2>0. \A u \in ErrThreads : epc'[u] = IF u = t THEN "fill" ELSE epc[u]
        BY <1>1 DEF ErrTypeOK
    <2> SUFFICES ASSUME NEW u \in ErrThreads, epc'[u] = "fill", eold[u] + 1 \notin overtaken
                 PROVE  /\ eold[u] < errCount + 1 /\ claimed'[eold[u] + 1] = mine[u]
                        /\ \A w \in ErrThreads : epc'[w] = "fill" /\ eold[w] = eold[u] => w = u
        BY <1>1 DEF OwnLine
    <2>1. ASSUME NEW w \in ErrThreads, w # t, epc[w] = "fill", eold[w] + 1 \notin overtaken
          PROVE  /\ eold[w] < errCount /\ claimed[eold[w] + 1] = mine[w]
                 /\ \A v \in ErrThreads : epc[v] = "fill" /\ eold[v] = eold[w] => v = w
        BY <2>1 DEF OwnLine
    <2>2. CASE u = t
        <3>1. ASSUME NEW w \in ErrThreads, epc'[w] = "fill", eold[w] = eold[u], w # u PROVE FALSE
            <4>1. epc[w] = "fill" /\ eold[w] = errCount /\ eold[w] + 1 \notin overtaken
                BY <1>1, <2>0, <2>2, <3>1
            <4>2. eold[w] < errCount
                BY <2>1, <2>2, <3>1, <4>1
            <4> QED
                BY <4>1, <4>2 DEF ErrTypeOK
        <3> QED
            BY <1>1, <1>2, <2>2, <3>1 DEF ErrTypeOK
    <2>3. CASE u # t
        <3>1. eold[u] < errCount /\ claimed[eold[u] + 1] = mine[u]
              /\ \A v \in ErrThreads : epc[v] = "fill" /\ eold[v] = eold[u] => v = u
            BY <2>0, <2>1, <2>3
        <3>2. eold[u] + 1 \in 1 .. errCount
            BY <3>1 DEF ErrTypeOK
        <3>3. eold[u] # eold[t]
            BY <1>1, <3>1 DEF ErrTypeOK
        <3>4. \A w \in ErrThreads : epc'[w] = "fill" /\ eold[w] = eold[u] => w = u
            BY <2>0, <3>1, <3>3
        <3> QED
            BY SMTT(60), <1>2, <3>1, <3>2, <3>4 DEF ErrTypeOK
    <2> QED
        BY <2>2, <2>3
<1>5. LinesFilled'
    <2> SUFFICES ASSUME NEW i \in 1 .. errCount + 1, i \notin overtaken
                 PROVE  \/ errLines[i] = claimed'[i]
                        \/ \E u \in ErrThreads : epc'[u] = "fill" /\ eold[u] + 1 = i
        BY <1>1 DEF LinesFilled
    <2>1. CASE i = errCount + 1
        BY <1>1, <2>1 DEF ErrTypeOK
    <2>2. CASE i # errCount + 1
        <3>1. i \in 1 .. errCount
            BY <2>2 DEF ErrTypeOK
        <3>2. \A u \in ErrThreads : epc[u] = "fill" => epc'[u] = "fill"
            BY <1>1 DEF ErrTypeOK
        <3> QED
            BY <1>2, <3>1, <3>2 DEF LinesFilled
    <2> QED
        BY <2>1, <2>2
<1> QED
    BY <1>3, <1>4, <1>5

\* The line that was claimed is filled, by the one who did.
LEMMA FillKeeps ==
    ASSUME ErrInv, NEW t \in ErrThreads, PutFill(t)
    PROVE  ErrInv'
<1> USE DEF ErrInv
<1>0. PICK k : k = eold[t] + 1
    OBVIOUS
<1>1. /\ epc[t] = "fill" /\ epc' = [epc EXCEPT ![t] = "out"]
      /\ errLines' = [errLines EXCEPT ![k] = mine[t]]
      /\ mine[t] \in Nat /\ k \in 1 .. Len(errLines) /\ eold[t] \in Nat
      /\ UNCHANGED <<errNum, errCount, eold, mine, claimed, overtaken, puts, clears, told>>
    BY <1>0 DEF PutFill, ErrAt, ErrGo, ErrTypeOK, LinesEnough
<1>2. /\ errLines' \in Seq(Nat) /\ Len(errLines') = Len(errLines)
      /\ \A i \in 1 .. Len(errLines) : errLines'[i] = IF i = k THEN mine[t] ELSE errLines[i]
    BY <1>1, ExceptSeq DEF ErrTypeOK
<1>3. /\ ErrTypeOK' /\ LinesEnough'
    BY <1>1, <1>2 DEF ErrTypeOK, LinesEnough
<1>4. OwnLine'
    BY <1>1 DEF OwnLine, ErrTypeOK
<1>5. LinesFilled'
    <2> SUFFICES ASSUME NEW i \in 1 .. errCount, i \notin overtaken
                 PROVE  \/ errLines'[i] = claimed[i]
                        \/ \E u \in ErrThreads : epc'[u] = "fill" /\ eold[u] + 1 = i
        BY <1>1 DEF LinesFilled
    <2>1. i \in 1 .. Len(errLines)
        BY DEF ErrTypeOK, LinesEnough
    <2>2. CASE i = k
        BY <1>0, <1>1, <1>2, <2>1, <2>2 DEF OwnLine
    <2>3. CASE i # k
        <3>1. \A u \in ErrThreads : epc[u] = "fill" /\ eold[u] + 1 = i => epc'[u] = "fill"
            BY <1>0, <1>1, <2>3 DEF ErrTypeOK
        <3> QED
            BY <1>2, <2>1, <2>3, <3>1 DEF LinesFilled
    <2> QED
        BY <2>2, <2>3
<1> QED
    BY <1>3, <1>4, <1>5

\* A log call begins while others may be anywhere in a put.
LEMMA ClearKeeps ==
    ASSUME ErrInv, NEW t \in ErrThreads, ErrClear(t)
    PROVE  ErrInv'
<1>1. clears' \in Nat /\ Len(claimed') = 0 /\ claimed' \in Seq(Nat)
    BY DEF ErrClear, ErrInv, ErrTypeOK
<1>2. \A u \in ErrThreads : epc[u] = "fill" => eold[u] + 1 \in overtaken'
    BY DEF ErrClear, ErrAt
<1> QED
    BY <1>1, <1>2 DEF ErrClear, ErrInv, ErrTypeOK, LinesEnough, OwnLine, LinesFilled

\* A line that no clear has overtaken has one writer and holds its error, and
\* nobody writes outside the array, whatever is cleared meanwhile
\* (clog_err_put, clear, get, setup and cleanup).
THEOREM ErrorsApart == ErrSpec => []ErrorsKeptApart
<1>1. ErrInv /\ [ErrNext]_errVars => ErrInv'
    <2> SUFFICES ASSUME ErrInv, [ErrNext]_errVars PROVE ErrInv'
        OBVIOUS
    <2>1. CASE UNCHANGED errVars
        BY <2>1 DEF errVars, ErrInv, ErrTypeOK, LinesEnough, OwnLine, LinesFilled
    <2> QED
        BY <2>1, SetupKeeps, LookKeeps, ClaimKeeps, FillKeeps, ClearKeeps DEF ErrNext
<1>2. ErrInv => ErrorsKeptApart
    <2> SUFFICES ASSUME ErrInv, NEW i \in (1 .. errNum) \ overtaken
                 PROVE  /\ \A t \in Writers(i) :
                            Writers(i) = {t} /\ i <= errCount /\ mine[t] = claimed[i]
                        /\ i <= errCount /\ Writers(i) = {} => errLines[i] = claimed[i]
        BY DEF ErrInv, LinesEnough, ErrorsKeptApart, ErrAt
    <2>1. errNum \in Nat /\ errCount \in Nat /\ i \in 1 .. errNum /\ i \notin overtaken
        BY DEF ErrInv, ErrTypeOK
    <2>2. ASSUME NEW t \in Writers(i)
          PROVE  Writers(i) = {t} /\ i <= errCount /\ mine[t] = claimed[i]
        <3>1. t \in ErrThreads /\ epc[t] = "fill" /\ eold[t] + 1 = i /\ eold[t] \in Nat
            BY DEF Writers, ErrAt, ErrInv, ErrTypeOK
        <3>2. /\ eold[t] < errCount /\ claimed[i] = mine[t]
              /\ \A u \in ErrThreads : epc[u] = "fill" /\ eold[u] = eold[t] => u = t
            BY <2>1, <3>1 DEF ErrInv, OwnLine
        <3>3. \A u \in Writers(i) : u \in ErrThreads /\ epc[u] = "fill" /\ eold[u] = eold[t]
            BY <3>1 DEF Writers, ErrAt, ErrInv, ErrTypeOK
        <3> QED
            BY <2>1, <3>1, <3>2, <3>3
    <2>3. ASSUME i <= errCount, Writers(i) = {} PROVE errLines[i] = claimed[i]
        <3>1. i \in 1 .. errCount
            BY <2>1, <2>3
        <3> QED
            BY <2>1, <2>3, <3>1 DEF ErrInv, LinesFilled, Writers, ErrAt
    <2> QED
        BY <2>2, <2>3
<1> QED
    BY <1>1, <1>2, ErrInitInv, PTL DEF ErrSpec

================================================================================
