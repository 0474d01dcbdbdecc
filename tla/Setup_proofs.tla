------------------------------ MODULE Setup_proofs ------------------------------
(***************************************************************************)
(* Proofs about ContextSetup, for any objects, modules, formats and any    *)
(* number of repeated setups: every object has one owner, the chains are   *)
(* in order, a setup that succeeds leaves everything in place, and destroy *)
(* leaves nothing behind.  Behind them, those about the functions a setup  *)
(* calls: Paths and the lines of ConfigText.                               *)
(***************************************************************************)
EXTENDS ContextSetup, Paths, ConfigText,
        FiniteSetTheorems, SequenceTheorems, WellFoundedInduction, TLAPS

--------------------------------------------------------------------------------
(* Sums over the objects of a kind                                          *)

\* A set of naturals that is not empty has a least one.
LEMMA LeastOf ==
    ASSUME NEW T \in SUBSET Nat, T # {}
    PROVE  \E m \in T : \A k \in T : m <= k
<1> DEFINE Less == {pair \in Nat \X Nat : pair[1] < pair[2]}
<1>1. Less = OpToRel(<, Nat)
    BY DEF OpToRel
<1>2. IsWellFoundedOn(Less, Nat)
    BY <1>1, NatLessThanWellFounded
<1>3. \A k, m \in Nat : k < m => <<k, m>> \in Less
    OBVIOUS
<1> HIDE DEF Less
<1>4. PICK m \in T : \A k \in T : ~ (<<k, m>> \in Less)
    BY <1>2, WFMin
<1>5. \A k \in T : ~ (k < m)
    BY <1>3, <1>4
<1> QED
    BY <1>5

\* A set of sets that is not empty has a member that lies in it without any of
\* the sets that lack one element more.
LEMMA LeastSet ==
    ASSUME NEW S, IsFiniteSet(S), NEW Bad \in SUBSET (SUBSET S), Bad # {}
    PROVE  \E s \in Bad : \A x \in s : s \ {x} \notin Bad
<1> DEFINE T == {Cardinality(s) : s \in Bad}
<1>1. \A s \in SUBSET S : Cardinality(s) \in Nat /\ IsFiniteSet(s)
    BY FS_Subset, FS_CardinalityType
<1>2. T \in SUBSET Nat /\ T # {}
    BY <1>1
<1>3. PICK m \in T : \A k \in T : m <= k
    BY <1>2, LeastOf
<1>4. PICK s \in Bad : m = Cardinality(s)
    BY <1>3
<1>5. ASSUME NEW x \in s PROVE s \ {x} \notin Bad
    <2>1. Cardinality(s \ {x}) = Cardinality(s) - 1 /\ Cardinality(s) \in Nat
        BY <1>1, FS_RemoveElement
    <2> QED
        BY <1>3, <1>4, <2>1
<1> QED
    BY <1>5

\* The sums that MapThenSumSet takes its result from.
First(s) == CHOOSE x \in s : TRUE
Adds(T, f, F) == F = [s \in T |-> IF s = {} THEN 0 ELSE f[First(s)] + F[s \ {First(s)}]]

\* CHOOSE takes an element of the set.
LEMMA FirstIn == \A s : s # {} => First(s) \in s
    BY DEF First

\* Over a finite set there are such sums, by the size of its subsets.
LEMMA SumsExist ==
    ASSUME NEW S, IsFiniteSet(S), NEW f \in [S -> Nat]
    PROVE  \E F \in [SUBSET S -> Nat] : Adds(SUBSET S, f, F)
<1> DEFINE Part(n) == {s \in SUBSET S : Cardinality(s) <= n}
           Bad == {n \in Nat : ~ \E F \in [Part(n) -> Nat] : Adds(Part(n), f, F)}
<1>1. \A s \in SUBSET S : /\ Cardinality(s) \in Nat /\ IsFiniteSet(s)
                          /\ Cardinality(s) <= Cardinality(S)
    BY FS_Subset, FS_CardinalityType
<1>2. Cardinality(S) \in Nat /\ Part(Cardinality(S)) = SUBSET S
    BY <1>1
<1>3. \A s \in SUBSET S : Cardinality(s) = 0 <=> s = {}
    BY <1>1, FS_EmptySet
<1>4. Bad = {}
    <2> SUFFICES ASSUME Bad # {} PROVE FALSE
        OBVIOUS
    <2>1. PICK n \in Bad : \A k \in Bad : n <= k
        BY LeastOf
    <2>2. n \in Nat
        OBVIOUS
    <2>3. CASE n = 0
        <3> DEFINE H == [s \in Part(n) |-> 0]
        <3>1. \A s \in Part(n) : s = {}
            BY <1>1, <1>3, <2>3
        <3>2. H \in [Part(n) -> Nat] /\ Adds(Part(n), f, H)
            BY <3>1 DEF Adds
        <3> QED
            BY <3>2
    <2>4. CASE n # 0
        <3>1. n - 1 \in Nat /\ n - 1 \notin Bad
            BY <2>1, <2>2, <2>4
        <3>2. PICK F \in [Part(n - 1) -> Nat] : Adds(Part(n - 1), f, F)
            BY <3>1
        <3> DEFINE H == [s \in Part(n) |->
                            IF s = {} THEN 0 ELSE f[First(s)] + F[s \ {First(s)}]]
        <3>3. ASSUME NEW s \in Part(n), s # {}
              PROVE  First(s) \in S /\ s \ {First(s)} \in Part(n - 1)
            <4>1. First(s) \in s
                BY <3>3, FirstIn
            <4>2. Cardinality(s \ {First(s)}) = Cardinality(s) - 1
                BY <1>1, <4>1, FS_RemoveElement
            <4>3. Cardinality(s) - 1 <= n - 1
                BY <1>1, <2>2
            <4> QED
                BY <4>1, <4>2, <4>3
        <3>4. ASSUME NEW s \in Part(n - 1) PROVE s \in Part(n) /\ H[s] = F[s]
            <4>1. s \in Part(n)
                BY <1>1, <2>2
            <4>2. F[s] = IF s = {} THEN 0 ELSE f[First(s)] + F[s \ {First(s)}]
                BY <3>2 DEF Adds
            <4> QED
                BY <4>1, <4>2
        <3>5. H \in [Part(n) -> Nat]
            BY <3>3
        <3>6. ASSUME NEW s \in Part(n), s # {} PROVE F[s \ {First(s)}] = H[s \ {First(s)}]
            BY <3>3, <3>4, <3>6
        <3>7. Adds(Part(n), f, H)
            <4>1. H = [s \in Part(n) |-> IF s = {} THEN 0 ELSE f[First(s)] + H[s \ {First(s)}]]
                BY <3>6
            <4> HIDE DEF H
            <4> QED
                BY <4>1 DEF Adds
        <3> QED
            BY <3>5, <3>7
    <2> QED
        BY <2>3, <2>4
<1>5. Cardinality(S) \notin Bad
    BY <1>4
<1>6. \E F \in [Part(Cardinality(S)) -> Nat] : Adds(Part(Cardinality(S)), f, F)
    BY <1>2, <1>5
<1> QED
    BY <1>2, <1>6

Sums(S, f, F) == f \in [S -> Nat] /\ F \in [SUBSET S -> Nat] /\ Adds(SUBSET S, f, F)
ApartFrom(S, x, f, g) == \A y \in S \ {x} : f[y] = g[y]

\* Two sums over functions that differ at x at most, differ as the functions do.
LEMMA SumsDiffer ==
    ASSUME NEW S, IsFiniteSet(S), NEW f, NEW F, Sums(S, f, F), NEW g, NEW G, Sums(S, g, G),
           NEW x \in S, ApartFrom(S, x, f, g)
    PROVE  G[S] + f[x] = F[S] + g[x]
<1>0. /\ f \in [S -> Nat] /\ F \in [SUBSET S -> Nat] /\ Adds(SUBSET S, f, F)
      /\ g \in [S -> Nat] /\ G \in [SUBSET S -> Nat] /\ Adds(SUBSET S, g, G)
    BY DEF Sums
<1> DEFINE Good(s) == IF x \in s THEN G[s] + f[x] = F[s] + g[x] ELSE G[s] = F[s]
           Bad == {s \in SUBSET S : ~ Good(s)}
<1>1. SUFFICES ASSUME Bad # {} PROVE FALSE
    OBVIOUS
<1>2. PICK s \in Bad : \A y \in s : s \ {y} \notin Bad
    BY <1>1, LeastSet
<1>3. s \in SUBSET S /\ ~ Good(s)
    OBVIOUS
<1>4. /\ F[s] = IF s = {} THEN 0 ELSE f[First(s)] + F[s \ {First(s)}]
      /\ G[s] = IF s = {} THEN 0 ELSE g[First(s)] + G[s \ {First(s)}]
    BY <1>0, <1>3 DEF Adds
<1>5. CASE s = {}
    BY <1>3, <1>4, <1>5
<1>6. CASE s # {}
    <2> DEFINE y == First(s)
               r == s \ {First(s)}
    <2>1. y \in s /\ y \in S /\ r \in SUBSET S
        BY <1>3, <1>6, FirstIn
    <2>2. Good(r)
        BY <1>2, <2>1
    <2>3. F[s] = f[y] + F[r] /\ G[s] = g[y] + G[r]
        BY <1>4, <1>6
    <2>4. F[r] \in Nat /\ f[y] \in Nat /\ g[y] \in Nat /\ f[x] \in Nat /\ g[x] \in Nat
        BY <1>0, <2>1
    <2>5. CASE y = x
        <3>1. x \in s /\ ~ (x \in r) /\ G[r] = F[r]
            BY <2>1, <2>2, <2>5
        <3> QED
            BY <1>3, <2>3, <2>4, <2>1, <2>5, <3>1
    <2>6. CASE y # x
        <3>1. (x \in s <=> x \in r) /\ f[y] = g[y]
            BY <2>1, <2>6 DEF ApartFrom
        <3>2. CASE x \in s
            <4>1. G[r] + f[x] = F[r] + g[x]
                BY <2>2, <3>1, <3>2
            <4>2. G[r] \in Nat
                BY <1>0, <1>3, <2>1, <3>2
            <4>3. G[s] + f[x] = F[s] + g[x]
                BY <2>3, <2>4, <3>1, <4>1, <4>2
            <4> QED
                BY <1>3, <3>2, <4>3
        <3>3. CASE x \notin s
            BY <1>3, <2>2, <2>3, <3>1, <3>3
        <3> QED
            BY <3>2, <3>3
    <2> QED
        BY <2>5, <2>6
<1> QED
    BY <1>5, <1>6

\* There is one only.
LEMMA SumIsOne ==
    ASSUME NEW S, IsFiniteSet(S), NEW f, NEW F, Adds(SUBSET S, f, F), NEW G, Adds(SUBSET S, f, G)
    PROVE  F[S] = G[S]
<1> DEFINE Bad == {s \in SUBSET S : F[s] # G[s]}
<1>1. SUFFICES ASSUME Bad # {} PROVE FALSE
    OBVIOUS
<1>2. PICK s \in Bad : \A y \in s : s \ {y} \notin Bad
    BY <1>1, LeastSet
<1>3. /\ F[s] = IF s = {} THEN 0 ELSE f[First(s)] + F[s \ {First(s)}]
      /\ G[s] = IF s = {} THEN 0 ELSE f[First(s)] + G[s \ {First(s)}]
    BY DEF Adds
<1>4. s # {}
    BY <1>3
<1>5. First(s) \in s /\ s \ {First(s)} \in SUBSET S
    BY <1>4, FirstIn
<1>6. F[s \ {First(s)}] = G[s \ {First(s)}]
    BY <1>2, <1>5
<1> QED
    BY <1>3, <1>6

SumOf(S, f) == CHOOSE n : \E F \in [SUBSET S -> Nat] : Adds(SUBSET S, f, F) /\ n = F[S]

\* The sum over a finite set: what one value contributes, and when it is nothing.
LEMMA SumFacts ==
    ASSUME NEW S, IsFiniteSet(S), NEW f \in [S -> Nat]
    PROVE  /\ SumOf(S, f) \in Nat
           /\ \A x \in S : f[x] <= SumOf(S, f)
           /\ (\A x \in S : f[x] = 0) => SumOf(S, f) = 0
<1>1. PICK F \in [SUBSET S -> Nat] : Adds(SUBSET S, f, F) /\ SumOf(S, f) = F[S]
    BY SumsExist DEF SumOf
<1>2. SumOf(S, f) \in Nat
    BY <1>1
<1>3. ASSUME NEW x \in S PROVE f[x] <= SumOf(S, f)
    <2> DEFINE g == [f EXCEPT ![x] = 0]
    <2>1. g \in [S -> Nat] /\ g[x] = 0 /\ ApartFrom(S, x, f, g)
        BY DEF ApartFrom
    <2> HIDE DEF g
    <2>2. PICK G \in [SUBSET S -> Nat] : Adds(SUBSET S, g, G)
        BY <2>1, SumsExist
    <2>3. Sums(S, f, F) /\ Sums(S, g, G)
        BY <1>1, <2>1, <2>2 DEF Sums
    <2>5. G[S] + f[x] = F[S] + g[x]
        BY <2>1, <2>3, SumsDiffer
    <2>4. G[S] \in Nat /\ F[S] \in Nat /\ f[x] \in Nat
        OBVIOUS
    <2> QED
        BY <1>1, <2>1, <2>4, <2>5
<1>4. ASSUME \A x \in S : f[x] = 0 PROVE SumOf(S, f) = 0
    <2> DEFINE Z == [s \in SUBSET S |-> 0]
    <2>1. \A s \in SUBSET S : s # {} => First(s) \in S /\ s \ {First(s)} \in SUBSET S
        BY FirstIn
    <2>2. Z = [s \in SUBSET S |-> IF s = {} THEN 0 ELSE f[First(s)] + Z[s \ {First(s)}]]
        BY <1>4, <2>1
    <2>3. Adds(SUBSET S, f, Z)
        <3> HIDE DEF Z
        <3> QED
            BY <2>2 DEF Adds
    <2>4. F[S] = Z[S]
        <3> HIDE DEF Z
        <3> QED
            BY <1>1, <2>3, SumIsOne
    <2> QED
        BY <1>1, <2>4
<1> QED
    BY <1>2, <1>3, <1>4

\* ... in terms of the sum.
LEMMA SumChange ==
    ASSUME NEW S, IsFiniteSet(S), NEW f \in [S -> Nat], NEW g \in [S -> Nat], NEW x \in S,
           ApartFrom(S, x, f, g)
    PROVE  SumOf(S, g) + f[x] = SumOf(S, f) + g[x]
<1>1. PICK F \in [SUBSET S -> Nat] : Adds(SUBSET S, f, F) /\ SumOf(S, f) = F[S]
    BY SumsExist DEF SumOf
<1>2. PICK G \in [SUBSET S -> Nat] : Adds(SUBSET S, g, G) /\ SumOf(S, g) = G[S]
    BY SumsExist DEF SumOf
<1>3. Sums(S, f, F) /\ Sums(S, g, G)
    BY <1>1, <1>2 DEF Sums
<1>4. G[S] + f[x] = F[S] + g[x]
    BY <1>3, SumsDiffer
<1> QED
    BY <1>1, <1>2, <1>4

ChanTypes == [Channels -> [param : BOOLEAN, queues : Nat]]
DispTypes == [Dispatchers -> [extra : BOOLEAN, threads : Nat, channel : Channels \cup {NULL}]]

\* The queues and the threads as such sums.
QueuesIn(f) == MapThenSumSet(LAMBDA c : f[c].queues, Channels)
ThreadsIn(f) == MapThenSumSet(LAMBDA d : f[d].threads, Dispatchers)

\* MapThenSumSet over the channels and over the dispatchers.
LEMMA QueuesSum ==
    ASSUME NEW f \in ChanTypes
    PROVE  /\ [c \in Channels |-> f[c].queues] \in [Channels -> Nat]
           /\ QueuesIn(f) = SumOf(Channels, [c \in Channels |-> f[c].queues])
<1> DEFINE part == [c \in Channels |-> f[c].queues]
<1>1. IsFiniteSet(Channels) /\ part \in [Channels -> Nat]
    BY SetupAssumption DEF ChanTypes
<1>2. \A c \in Channels : part[c] = f[c].queues
    OBVIOUS
<1> HIDE DEF part
<1>3. PICK F \in [SUBSET Channels -> Nat] :
            Adds(SUBSET Channels, part, F) /\ SumOf(Channels, part) = F[Channels]
    BY <1>1, SumsExist DEF SumOf
<1> DEFINE iter == CHOOSE G : G = [s \in SUBSET Channels |->
                        IF s = {} THEN 0 ELSE f[First(s)].queues + G[s \ {First(s)}]]
<1>4. QueuesIn(f) = iter[Channels]
    BY DEF QueuesIn, MapThenSumSet, MapThenFoldSet, First
<1>5. \A G : Adds(SUBSET Channels, part, G) <=>
             G = [s \in SUBSET Channels |->
                        IF s = {} THEN 0 ELSE f[First(s)].queues + G[s \ {First(s)}]]
    BY <1>2, FirstIn DEF Adds
<1>6. Adds(SUBSET Channels, part, iter)
    BY <1>3, <1>5
<1>7. iter[Channels] = F[Channels]
    <2> HIDE DEF iter
    <2> QED
        BY <1>1, <1>3, <1>6, SumIsOne
<1> QED
    BY <1>1, <1>3, <1>4, <1>7 DEF part

LEMMA ThreadsSum ==
    ASSUME NEW f \in DispTypes
    PROVE  /\ [d \in Dispatchers |-> f[d].threads] \in [Dispatchers -> Nat]
           /\ ThreadsIn(f) = SumOf(Dispatchers, [d \in Dispatchers |-> f[d].threads])
<1> DEFINE part == [d \in Dispatchers |-> f[d].threads]
<1>1. IsFiniteSet(Dispatchers) /\ part \in [Dispatchers -> Nat]
    BY SetupAssumption DEF DispTypes
<1>2. \A d \in Dispatchers : part[d] = f[d].threads
    OBVIOUS
<1> HIDE DEF part
<1>3. PICK F \in [SUBSET Dispatchers -> Nat] :
            Adds(SUBSET Dispatchers, part, F) /\ SumOf(Dispatchers, part) = F[Dispatchers]
    BY <1>1, SumsExist DEF SumOf
<1> DEFINE iter == CHOOSE G : G = [s \in SUBSET Dispatchers |->
                        IF s = {} THEN 0 ELSE f[First(s)].threads + G[s \ {First(s)}]]
<1>4. ThreadsIn(f) = iter[Dispatchers]
    BY DEF ThreadsIn, MapThenSumSet, MapThenFoldSet, First
<1>5. \A G : Adds(SUBSET Dispatchers, part, G) <=>
             G = [s \in SUBSET Dispatchers |->
                        IF s = {} THEN 0 ELSE f[First(s)].threads + G[s \ {First(s)}]]
    BY <1>2, FirstIn DEF Adds
<1>6. Adds(SUBSET Dispatchers, part, iter)
    BY <1>3, <1>5
<1>7. iter[Dispatchers] = F[Dispatchers]
    <2> HIDE DEF iter
    <2> QED
        BY <1>1, <1>3, <1>6, SumIsOne
<1> QED
    BY <1>1, <1>3, <1>4, <1>7 DEF part

\* What one object contributes.
LEMMA QueuesChange ==
    ASSUME NEW f \in ChanTypes, NEW g \in ChanTypes, NEW c \in Channels,
           \A o \in Channels \ {c} : g[o] = f[o]
    PROVE  /\ QueuesIn(f) \in Nat /\ QueuesIn(g) \in Nat
           /\ QueuesIn(g) + f[c].queues = QueuesIn(f) + g[c].queues
           /\ f[c].queues <= QueuesIn(f) /\ g[c].queues <= QueuesIn(g)
<1> DEFINE p == [o \in Channels |-> f[o].queues]
           q == [o \in Channels |-> g[o].queues]
<1>1. /\ p \in [Channels -> Nat] /\ QueuesIn(f) = SumOf(Channels, p)
      /\ q \in [Channels -> Nat] /\ QueuesIn(g) = SumOf(Channels, q)
    BY QueuesSum
<1>2. ApartFrom(Channels, c, p, q) /\ p[c] = f[c].queues /\ q[c] = g[c].queues
    BY DEF ApartFrom
<1>3. IsFiniteSet(Channels)
    BY SetupAssumption
<1> HIDE DEF p, q
<1>4. SumOf(Channels, q) + p[c] = SumOf(Channels, p) + q[c]
    BY <1>1, <1>2, <1>3, SumChange
<1> QED
    BY <1>1, <1>2, <1>3, <1>4, SumFacts

LEMMA ThreadsChange ==
    ASSUME NEW f \in DispTypes, NEW g \in DispTypes, NEW d \in Dispatchers,
           \A o \in Dispatchers \ {d} : g[o] = f[o]
    PROVE  /\ ThreadsIn(f) \in Nat /\ ThreadsIn(g) \in Nat
           /\ ThreadsIn(g) + f[d].threads = ThreadsIn(f) + g[d].threads
           /\ f[d].threads <= ThreadsIn(f) /\ g[d].threads <= ThreadsIn(g)
<1> DEFINE p == [o \in Dispatchers |-> f[o].threads]
           q == [o \in Dispatchers |-> g[o].threads]
<1>1. /\ p \in [Dispatchers -> Nat] /\ ThreadsIn(f) = SumOf(Dispatchers, p)
      /\ q \in [Dispatchers -> Nat] /\ ThreadsIn(g) = SumOf(Dispatchers, q)
    BY ThreadsSum
<1>2. ApartFrom(Dispatchers, d, p, q) /\ p[d] = f[d].threads /\ q[d] = g[d].threads
    BY DEF ApartFrom
<1>3. IsFiniteSet(Dispatchers)
    BY SetupAssumption
<1> HIDE DEF p, q
<1>4. SumOf(Dispatchers, q) + p[d] = SumOf(Dispatchers, p) + q[d]
    BY <1>1, <1>2, <1>3, SumChange
<1> QED
    BY <1>1, <1>2, <1>3, <1>4, SumFacts

\* The sums of this state and of the next.
LEMMA QueuesAndThreads ==
    /\ Queues = QueuesIn(chan) /\ Threads = ThreadsIn(disp)
    /\ Queues' = QueuesIn(chan') /\ Threads' = ThreadsIn(disp')
BY DEF Queues, Threads, QueuesIn, ThreadsIn, MapThenSumSet, MapThenFoldSet

--------------------------------------------------------------------------------
(* What holds of a context                                                  *)

Chained == UNION {Range(filters[t]) : t \in Types}

\* A param that is allocated is that of a filter somebody has to free.
ParamsOwned == params \subseteq own \cup Chained

\* A recorder stands in the map under its id.
ById == \A id \in Ids : RecorderMap[id] # NULL => RecorderId[RecorderMap[id]] = id

\* Nothing is open but what the context points to,
OpenIsHeld ==
    /\ \A c \in Channels : chan[c].param => c = channel /\ chan[c].queues > 0
    /\ \A d \in Dispatchers : disp[d].extra => d = dispatcher /\ disp[d].threads > 0
    /\ \A r \in Recorders : opens[r] \in IF r \in InMap THEN 0 .. 1 + retries ELSE {0}

\* and what no close can reach are the queues and threads of repeated setups.
LostAreRetries ==
    /\ Queues <= retries + (IF \E c \in Channels : chan[c].param THEN 1 ELSE 0)
    /\ Threads <= retries + (IF \E d \in Dispatchers : disp[d].extra THEN 1 ELSE 0)

\* Setup has checked what it left, and nothing changes it any more.
SetupDone ==
    /\ state = "CREATED" => formatter.interpolator \in {NULL, asked}
    /\ state = "RUNNING" =>
        /\ modules # NULL
        /\ formatter = [map |-> FALSE, context |-> FALSE, interpolator |-> asked]
        /\ channel # NULL /\ chan[channel].param
        /\ dispatcher # NULL /\ disp[dispatcher].extra /\ disp[dispatcher].channel = channel
        /\ \A r \in InMap : opens[r] # 0

\* How far destroy has come.
TakenDown ==
    /\ state \in {"CREATED", "RUNNING", "FREED"} => step = "none"
    /\ state = "STOPPING" => step \in {"dispatcher", "channel", "recorders"}
    /\ state = "DESTROYED" => step \in {"filters", "rest"}
    /\ step \in {"channel", "recorders", "filters", "rest"} \/ state = "FREED" => dispatcher = NULL
    /\ step \in {"recorders", "filters", "rest"} \/ state = "FREED" => channel = NULL
    /\ step \in {"filters", "rest"} \/ state = "FREED" => recorders = NULL
    /\ step = "rest" \/ state = "FREED" => \A t \in Types : filters[t] = <<>>

\* A filter is added once, and is in its chain until the chain is freed.
AddedOnce ==
    \A t \in Types :
        /\ \A i, j \in 1 .. Len(added[t]) : added[t][i] = added[t][j] => i = j
        /\ Range(added[t]) \cap own = {}
        /\ state = "CREATED" => Range(filters[t]) = Range(added[t])

SetupInv ==
    /\ OneOwner /\ ParamsOwned /\ ById
    /\ OpenIsHeld /\ LostAreRetries
    /\ SetupDone /\ TakenDown
    /\ AddedOnce /\ FiltersInOrder

--------------------------------------------------------------------------------
(* Types                                                                    *)

\* The sequence r is s with e at place p.
Inserted(s, p, e, r) ==
    /\ Len(r) = Len(s) + 1
    /\ \A k \in 1 .. p - 1 : r[k] = s[k]
    /\ r[p] = e
    /\ \A k \in p + 1 .. Len(s) + 1 : r[k] = s[k - 1]

\* Inserting into a sequence: its length and its elements.
LEMMA InsertFacts ==
    ASSUME NEW S, NEW s \in Seq(S), NEW e \in S, NEW p \in 1 .. Len(s) + 1
    PROVE  InsertAt(s, p, e) \in Seq(S) /\ Inserted(s, p, e, InsertAt(s, p, e))
<1> DEFINE a == SubSeq(s, 1, p - 1)
           b == SubSeq(s, p, Len(s))
<1>1. a \in Seq(S) /\ Len(a) = p - 1 /\ \A k \in 1 .. p - 1 : a[k] = s[k]
    OBVIOUS
<1>2. b \in Seq(S) /\ Len(b) = Len(s) + 1 - p /\ \A k \in 1 .. Len(s) + 1 - p : b[k] = s[k + p - 1]
    OBVIOUS
<1>3. InsertAt(s, p, e) = (a \o <<e>>) \o b
    BY DEF InsertAt
<1> HIDE DEF a, b
<1>4. PICK c : c = a \o <<e>>
    OBVIOUS
<1>5. /\ c \in Seq(S) /\ Len(c) = p /\ c[p] = e
      /\ \A k \in 1 .. p - 1 : c[k] = s[k]
    BY <1>1, <1>4
<1>6. InsertAt(s, p, e) = c \o b
    BY <1>3, <1>4
<1>7. /\ c \o b \in Seq(S) /\ Len(c \o b) = Len(s) + 1
      /\ \A k \in 1 .. p : (c \o b)[k] = c[k]
      /\ \A k \in p + 1 .. Len(s) + 1 : (c \o b)[k] = b[k - p]
    <2>1. /\ c \o b \in Seq(S) /\ Len(c \o b) = Len(c) + Len(b)
          /\ \A k \in 1 .. Len(c) + Len(b) :
                (c \o b)[k] = IF k <= Len(c) THEN c[k] ELSE b[k - Len(c)]
        <3>1. c \in Seq(S) /\ b \in Seq(S)
            BY <1>2, <1>5
        <3> QED
            BY ONLY <3>1, ConcatProperties
    <2>3. Len(c) + Len(b) = Len(s) + 1 /\ p \in Nat /\ Len(s) \in Nat
        BY <1>2, <1>5
    <2> QED
        BY <1>2, <1>5, <2>1, <2>3
<1>8. \A k \in p + 1 .. Len(s) + 1 : k - p \in 1 .. Len(s) + 1 - p /\ b[k - p] = s[k - 1]
    BY <1>2
<1> QED
    BY <1>5, <1>6, <1>7, <1>8 DEF Inserted

\* Where a filter comes to stand in its chain.
LEMMA ChainPlace ==
    ASSUME NEW chain \in Seq(Filters), NEW f \in Filters
    PROVE  \E p \in 1 .. Len(chain) + 1 :
                /\ AddToChain(chain, f) = InsertAt(chain, p, f)
                /\ \A k \in 1 .. p - 1 : Priority[chain[k]] <= Priority[f]
                /\ p <= Len(chain) => Priority[f] < Priority[chain[p]]
<1> DEFINE later == {i \in 1 .. Len(chain) : Priority[f] < Priority[chain[i]]}
<1>1. \A g \in Filters : Priority[g] \in Nat
    BY SetupAssumption
<1>2. \A i \in 1 .. Len(chain) : chain[i] \in Filters
    OBVIOUS
<1>3. CASE later = {}
    <2>1. AddToChain(chain, f) = InsertAt(chain, Len(chain) + 1, f)
        BY <1>3 DEF AddToChain
    <2>2. \A k \in 1 .. Len(chain) : Priority[chain[k]] <= Priority[f]
        BY <1>1, <1>2, <1>3
    <2> QED
        BY <2>1, <2>2
<1>4. CASE later # {}
    <2>1. PICK m \in later : \A k \in later : m <= k
        <3>1. later \in SUBSET Nat
            OBVIOUS
        <3> HIDE DEF later
        <3> QED
            BY <1>4, <3>1, LeastOf
    <2>2. Min(later) \in later /\ \A k \in later : Min(later) <= k
        BY <2>1 DEF Min
    <2>3. AddToChain(chain, f) = InsertAt(chain, Min(later), f)
        BY <1>4 DEF AddToChain
    <2> HIDE DEF later
    <2>4. PICK p : p = Min(later)
        OBVIOUS
    <2>5. p \in 1 .. Len(chain) /\ Priority[f] < Priority[chain[p]]
        BY <2>2, <2>4 DEF later
    <2>6. \A k \in 1 .. p - 1 : k \in 1 .. Len(chain) /\ k \notin later
        BY <2>2, <2>4, <2>5
    <2>7. \A k \in 1 .. p - 1 : Priority[chain[k]] <= Priority[f]
        BY <1>1, <1>2, <2>6 DEF later
    <2> QED
        BY <2>3, <2>4, <2>5, <2>7
<1> QED
    BY <1>3, <1>4

\* The kinds of what the context holds.
LEMMA HeldKinds ==
    ASSUME SetupTypeOK
    PROVE  /\ RecorderMap \in [Ids -> Recorders \cup {NULL}]
           /\ InMap \subseteq Recorders
           /\ Chained \subseteq Filters
           /\ Held = ({channel, dispatcher} \cup InMap \cup Chained) \ {NULL}
           /\ NULL \notin Objects
           /\ \A t \in Types : Range(filters[t]) \subseteq Filters
<1>1. RecorderMap \in [Ids -> Recorders \cup {NULL}]
    BY DEF SetupTypeOK, RecorderMap, NoRecorders
<1>2. InMap \subseteq Recorders
    BY <1>1 DEF InMap
<1>3. \A t \in Types : Range(filters[t]) \subseteq Filters
    BY DEF SetupTypeOK, Range
<1>4. Chained \subseteq Filters
    BY <1>3 DEF Chained
<1> QED
    BY <1>1, <1>2, <1>3, <1>4, SetupAssumption DEF Held, Chained, Objects

\* The fields of the objects after an open and a close.
LEMMA OpenAndClose ==
    ASSUME SetupTypeOK, OpenIsHeld
    PROVE  /\ \A c \in Channels :
                /\ OpenChannel(c) \in ChanTypes /\ CloseChannel(c) \in ChanTypes
                /\ OpenChannel(c)[c].param /\ OpenChannel(c)[c].queues = chan[c].queues + 1
                /\ ~ CloseChannel(c)[c].param
                /\ CloseChannel(c)[c].queues =
                        IF chan[c].param THEN chan[c].queues - 1 ELSE chan[c].queues
                /\ \A o \in Channels \ {c} : OpenChannel(c)[o] = chan[o] /\ CloseChannel(c)[o] = chan[o]
           /\ \A d \in Dispatchers :
                /\ OpenDispatcher(d) \in DispTypes /\ CloseDispatcher(d) \in DispTypes
                /\ OpenDispatcher(d)[d].extra /\ OpenDispatcher(d)[d].channel = channel
                /\ OpenDispatcher(d)[d].threads = disp[d].threads + 1
                /\ ~ CloseDispatcher(d)[d].extra
                /\ CloseDispatcher(d)[d].threads =
                        IF disp[d].extra THEN disp[d].threads - 1 ELSE disp[d].threads
                /\ \A o \in Dispatchers \ {d} :
                        OpenDispatcher(d)[o] = disp[o] /\ CloseDispatcher(d)[o] = disp[o]
<1>1. ASSUME NEW c \in Channels
      PROVE  /\ OpenChannel(c) \in ChanTypes /\ CloseChannel(c) \in ChanTypes
             /\ OpenChannel(c)[c].param /\ OpenChannel(c)[c].queues = chan[c].queues + 1
             /\ ~ CloseChannel(c)[c].param
             /\ CloseChannel(c)[c].queues =
                     IF chan[c].param THEN chan[c].queues - 1 ELSE chan[c].queues
             /\ \A o \in Channels \ {c} : OpenChannel(c)[o] = chan[o] /\ CloseChannel(c)[o] = chan[o]
    <2>1. PICK row : row = chan[c]
        OBVIOUS
    <2>2. chan \in ChanTypes /\ row \in [param : BOOLEAN, queues : Nat] /\ (row.param => row.queues > 0)
        BY <2>1 DEF SetupTypeOK, OpenIsHeld, ChanTypes
    <2>3. OpenChannel(c) = [chan EXCEPT ![c] = [param |-> TRUE, queues |-> row.queues + 1]]
        BY <2>1 DEF OpenChannel
    <2>4. CloseChannel(c) =
            [chan EXCEPT ![c] = IF row.param THEN [param |-> FALSE, queues |-> row.queues - 1] ELSE row]
        BY <2>1 DEF CloseChannel
    <2>5. PICK closed : closed = IF row.param THEN [param |-> FALSE, queues |-> row.queues - 1] ELSE row
        OBVIOUS
    <2>6. closed \in [param : BOOLEAN, queues : Nat] /\ ~ closed.param
          /\ closed.queues = IF row.param THEN row.queues - 1 ELSE row.queues
        BY <2>2, <2>5
    <2>7. CloseChannel(c) = [chan EXCEPT ![c] = closed]
        BY <2>4, <2>5
    <2>8. /\ OpenChannel(c) \in ChanTypes
          /\ OpenChannel(c)[c].param /\ OpenChannel(c)[c].queues = row.queues + 1
          /\ \A o \in Channels \ {c} : OpenChannel(c)[o] = chan[o]
        BY <2>2, <2>3 DEF ChanTypes
    <2>9. /\ CloseChannel(c) \in ChanTypes /\ CloseChannel(c)[c] = closed
          /\ \A o \in Channels \ {c} : CloseChannel(c)[o] = chan[o]
        BY <2>2, <2>6, <2>7 DEF ChanTypes
    <2> QED
        BY <2>1, <2>6, <2>8, <2>9
<1>2. ASSUME NEW d \in Dispatchers
      PROVE  /\ OpenDispatcher(d) \in DispTypes /\ CloseDispatcher(d) \in DispTypes
             /\ OpenDispatcher(d)[d].extra /\ OpenDispatcher(d)[d].channel = channel
             /\ OpenDispatcher(d)[d].threads = disp[d].threads + 1
             /\ ~ CloseDispatcher(d)[d].extra
             /\ CloseDispatcher(d)[d].threads =
                     IF disp[d].extra THEN disp[d].threads - 1 ELSE disp[d].threads
             /\ \A o \in Dispatchers \ {d} :
                     OpenDispatcher(d)[o] = disp[o] /\ CloseDispatcher(d)[o] = disp[o]
    <2> DEFINE Row == [extra : BOOLEAN, threads : Nat, channel : Channels \cup {NULL}]
    <2>1. PICK row : row = disp[d]
        OBVIOUS
    <2>2. /\ disp \in DispTypes /\ row \in Row /\ (row.extra => row.threads > 0)
          /\ channel \in Channels \cup {NULL}
        BY <2>1 DEF SetupTypeOK, OpenIsHeld, DispTypes
    <2>3. OpenDispatcher(d) =
            [disp EXCEPT ![d] = [extra |-> TRUE, threads |-> row.threads + 1, channel |-> channel]]
        BY <2>1 DEF OpenDispatcher
    <2> DEFINE Closed ==
            /\ CloseDispatcher(d) \in DispTypes
            /\ ~ CloseDispatcher(d)[d].extra
            /\ CloseDispatcher(d)[d].threads = IF row.extra THEN row.threads - 1 ELSE row.threads
            /\ \A o \in Dispatchers \ {d} : CloseDispatcher(d)[o] = disp[o]
    <2>4. ASSUME row.extra PROVE Closed
        <3>1. CloseDispatcher(d) = [disp EXCEPT ![d].extra = FALSE, ![d].threads = @ - 1]
            BY <2>1, <2>4 DEF CloseDispatcher
        <3>2. row.threads - 1 \in Nat
            BY <2>2, <2>4
        <3>3. /\ CloseDispatcher(d) \in DispTypes /\ ~ CloseDispatcher(d)[d].extra
              /\ CloseDispatcher(d)[d].threads = row.threads - 1
              /\ \A o \in Dispatchers \ {d} : CloseDispatcher(d)[o] = disp[o]
            BY <2>1, <2>2, <3>1, <3>2 DEF DispTypes
        <3> QED
            BY <2>1, <2>4, <3>3
    <2>5. ASSUME ~ row.extra PROVE Closed
        BY <2>1, <2>2, <2>5 DEF CloseDispatcher
    <2>6. PICK opened : opened = [extra |-> TRUE, threads |-> row.threads + 1, channel |-> channel]
        OBVIOUS
    <2>7. /\ opened \in Row /\ opened.extra /\ opened.channel = channel
          /\ opened.threads = row.threads + 1
        BY <2>2, <2>6
    <2>8. /\ OpenDispatcher(d) \in DispTypes /\ OpenDispatcher(d)[d] = opened
          /\ \A o \in Dispatchers \ {d} : OpenDispatcher(d)[o] = disp[o]
        BY <2>2, <2>3, <2>6, <2>7 DEF DispTypes
    <2>9. Closed
        BY <2>4, <2>5
    <2> QED
        BY <2>1, <2>7, <2>8, <2>9
<1> QED
    BY <1>1, <1>2

\* Buffer pool, modules and format.
LEMMA ConfigureTypes ==
    ASSUME SetupTypeOK,
           \/ SetBufferPool
           \/ SetModules
           \/ \E m \in Modules : AddModule(m)
           \/ AddModulesFails
           \/ RegisterPlaceholder
           \/ \E format \in Formats : SetLogFormat(format)
    PROVE  SetupTypeOK'
<1> USE DEF SetupTypeOK, Configure, objectVars, historyVars
<1>1. CASE SetBufferPool
    BY <1>1 DEF SetBufferPool
<1>2. ASSUME NEW names \in SUBSET Modules, SetModuleMap(names) PROVE SetupTypeOK'
    BY <1>2 DEF SetModuleMap
<1>3. ModuleMap \in SUBSET Modules
    BY DEF ModuleMap
<1>4. CASE SetModules \/ AddModulesFails \/ \E m \in Modules : AddModule(m)
    <2> HIDE DEF SetupTypeOK, Configure, objectVars, historyVars
    <2> QED
        BY <1>2, <1>3, <1>4 DEF SetModules, AddModulesFails, AddModule
<1> DEFINE Formatter == [map : BOOLEAN, context : BOOLEAN, interpolator : Formats \cup {NULL}]
<1>5. ASSUME NEW f \in Formatter, SetFormatter(f), asked' \in Formats \cup {NULL} PROVE SetupTypeOK'
    BY <1>5 DEF SetFormatter
<1>6. \A f \in Formatter : InitInterpolator(f) \subseteq Formatter
    BY DEF InitInterpolator
<1>7. formatter \in Formatter
    OBVIOUS
<1>8. \A f \in Formatter, i \in Formats \cup {NULL} : [f EXCEPT !.interpolator = i] \in Formatter
    OBVIOUS
<1>9. asked \in Formats \cup {NULL}
    OBVIOUS
<1> HIDE DEF Formatter, SetupTypeOK, Configure, objectVars, historyVars
<1>10. CASE RegisterPlaceholder
    BY <1>5, <1>6, <1>7, <1>9, <1>10 DEF RegisterPlaceholder
<1>11. ASSUME NEW format \in Formats, SetLogFormat(format) PROVE SetupTypeOK'
    BY <1>5, <1>6, <1>7, <1>8, <1>11 DEF SetLogFormat
<1> QED
    BY <1>1, <1>4, <1>10, <1>11

\* Objects handed over.
LEMMA HandOverTypes ==
    ASSUME SetupTypeOK, OpenIsHeld,
           \/ \E f \in Filters : AddFilter(f)
           \/ \E c \in Channels : SetChannel(c)
           \/ \E d \in Dispatchers : SetDispatcher(d)
           \/ \E r \in Recorders : AddRecorder(r) \/ AddRecorderNoKey(r) \/ AddRecorderNoEntry(r)
    PROVE  SetupTypeOK'
<1> USE DEF SetupTypeOK, Configure, objectVars, historyVars
<1>1. ASSUME NEW f \in Filters, AddFilter(f) PROVE SetupTypeOK'
    <2>1. FilterType[f] \in Types
        BY SetupAssumption
    <2>2. AddToChain(filters[FilterType[f]], f) \in Seq(Filters)
        BY <2>1, ChainPlace, InsertFacts
    <2>3. Append(added[FilterType[f]], f) \in Seq(Filters)
        BY <2>1
    <2>4. filters' \in [Types -> Seq(Filters)] /\ added' \in [Types -> Seq(Filters)]
        BY <1>1, <2>1, <2>2, <2>3 DEF AddFilter
    <2> QED
        BY <1>1, <2>4 DEF AddFilter
<1>2. ASSUME NEW c \in Channels, SetChannel(c) PROVE SetupTypeOK'
    <2>1. chan' \in ChanTypes
        BY <1>2, OpenAndClose DEF SetChannel, ChanTypes
    <2> QED
        BY <1>2, <2>1 DEF SetChannel, ChanTypes
<1>3. ASSUME NEW d \in Dispatchers, SetDispatcher(d) PROVE SetupTypeOK'
    <2>1. disp' \in DispTypes
        BY <1>3, OpenAndClose DEF SetDispatcher, DispTypes
    <2> QED
        BY <1>3, <2>1 DEF SetDispatcher, DispTypes
<1>4. ASSUME NEW r \in Recorders, AddRecorder(r) \/ AddRecorderNoKey(r) \/ AddRecorderNoEntry(r)
      PROVE  SetupTypeOK'
    <2>1. RecorderMap \in [Ids -> Recorders \cup {NULL}]
        BY HeldKinds
    <2>2. recorders' \in [Ids -> Recorders \cup {NULL}]
        BY <1>4, <2>1 DEF AddRecorder, AddRecorderNoKey, AddRecorderNoEntry
    <2>3. opens' \in [Recorders -> Nat]
        BY <1>4 DEF AddRecorder, AddRecorderNoKey, AddRecorderNoEntry
    <2> QED
        BY <1>4, <2>2, <2>3 DEF AddRecorder, AddRecorderNoKey, AddRecorderNoEntry
<1> QED
    BY <1>1, <1>2, <1>3, <1>4

\* Setup and destroy.
LEMMA LifeTypes ==
    ASSUME SetupTypeOK, OpenIsHeld,
           \/ SetupDispatcherFails \/ SetupRecorderFails \/ SetupSucceeds
           \/ DestroyBegin \/ DestroyDispatcher \/ DestroyChannel \/ DestroyRecorders
           \/ DestroyFilters \/ DestroyRest
    PROVE  SetupTypeOK'
<1> USE DEF SetupTypeOK, configVars, objectVars, historyVars
<1>1. CASE SetupDispatcherFails \/ SetupRecorderFails \/ SetupSucceeds
    <2>1. MaySetup /\ channel \in Channels /\ dispatcher \in Dispatchers
        BY <1>1 DEF SetupDispatcherFails, SetupRecorderFails, SetupSucceeds, MaySetup
    <2>2. retries' \in 0 .. MaxRetries
        BY <2>1, SetupAssumption DEF MaySetup
    <2>3. chan' \in ChanTypes
        BY <1>1, <2>1, OpenAndClose DEF SetupDispatcherFails, SetupRecorderFails, SetupSucceeds
    <2>4. disp' \in DispTypes
        <3>1. CASE SetupDispatcherFails
            <4>1. PICK extra \in {disp[dispatcher].extra, FALSE} :
                    disp' = [disp EXCEPT ![dispatcher].channel = channel, ![dispatcher].extra = extra]
                BY <3>1 DEF SetupDispatcherFails
            <4>2. extra \in BOOLEAN /\ disp \in DispTypes
                BY <2>1 DEF DispTypes
            <4> HIDE DEF SetupTypeOK, configVars, objectVars, historyVars
            <4> QED
                BY <2>1, <4>1, <4>2 DEF DispTypes
        <3>2. CASE disp' = OpenDispatcher(dispatcher)
            BY <2>1, <3>2, OpenAndClose
        <3> QED
            BY <1>1, <3>1, <3>2 DEF SetupRecorderFails, SetupSucceeds
    <2>5. opens' \in [Recorders -> Nat]
        BY <1>1 DEF SetupDispatcherFails, SetupRecorderFails, SetupSucceeds
    <2>6. /\ state' \in {state, "RUNNING"}
          /\ formatter' \in {formatter, [formatter EXCEPT !.map = FALSE, !.context = FALSE]}
          /\ UNCHANGED <<step, pool, modules, filters, channel, dispatcher, recorders,
                         heap, params, own, asked, added>>
        BY <1>1 DEF SetupDispatcherFails, SetupRecorderFails, SetupSucceeds
    <2>7. formatter' \in [map : BOOLEAN, context : BOOLEAN, interpolator : Formats \cup {NULL}]
        BY <2>6
    <2>8. state' \in {"CREATED", "RUNNING", "STOPPING", "DESTROYED", "FREED"}
        BY <2>6
    <2>9. chan' \in [Channels -> [param : BOOLEAN, queues : Nat]]
        BY <2>3 DEF ChanTypes
    <2>10. disp' \in [Dispatchers ->
                        [extra : BOOLEAN, threads : Nat, channel : Channels \cup {NULL}]]
        BY <2>4 DEF DispTypes
    <2> QED
        BY <2>2, <2>5, <2>6, <2>7, <2>8, <2>9, <2>10
<1>2. CASE DestroyBegin
    BY <1>2 DEF DestroyBegin
<1>3. CASE DestroyDispatcher
    <2>1. disp' \in DispTypes
        BY <1>3, OpenAndClose DEF DestroyDispatcher, DispTypes
    <2> QED
        BY <1>3, <2>1 DEF DestroyDispatcher, DispTypes
<1>4. CASE DestroyChannel
    <2>1. chan' \in ChanTypes
        BY <1>4, OpenAndClose DEF DestroyChannel, ChanTypes
    <2> QED
        BY <1>4, <2>1 DEF DestroyChannel, ChanTypes
<1>5. CASE DestroyRecorders
    <2>1. opens' \in [Recorders -> Nat]
        BY <1>5 DEF DestroyRecorders
    <2> QED
        BY <1>5, <2>1 DEF DestroyRecorders
<1>6. CASE DestroyFilters
    <2>1. filters' \in [Types -> Seq(Filters)]
        BY <1>6 DEF DestroyFilters
    <2>2. heap' \subseteq Objects /\ params' \subseteq Filters
        BY <1>6 DEF DestroyFilters
    <2> QED
        BY <1>6, <2>1, <2>2 DEF DestroyFilters
<1>7. CASE DestroyRest
    BY <1>7 DEF DestroyRest
<1> QED
    BY <1>1, <1>2, <1>3, <1>4, <1>5, <1>6, <1>7

--------------------------------------------------------------------------------
(* Owners                                                                   *)

Owners == OneOwner /\ ParamsOwned /\ ById

\* A call that hands nothing over.
LEMMA NothingHandedOver ==
    ASSUME Owners, SetupTypeOK',
           UNCHANGED <<channel, dispatcher, recorders, filters, heap, own, params>>
    PROVE  Owners'
<1>1. RecorderMap' = RecorderMap
    BY DEF RecorderMap, NoRecorders
<1>2. InMap' = InMap /\ Chained' = Chained
    BY <1>1 DEF InMap, Chained
<1>3. Held' = Held
    BY <1>1 DEF Held, InMap
<1> QED
    BY <1>1, <1>2, <1>3 DEF Owners, OneOwner, ParamsOwned, ById

\* A channel and a dispatcher, and the one that was there before.
LEMMA ChannelHandedOver ==
    ASSUME Owners, SetupTypeOK', UNCHANGED <<dispatcher, recorders, filters, params>>,
           heap' = heap \ {channel},
           \/ channel' \in own \cap heap /\ own' = own \ {channel'}
           \/ channel' = NULL /\ own' = own
    PROVE  Owners'
<1>1. RecorderMap' = RecorderMap
    BY DEF RecorderMap, NoRecorders
<1>2. InMap' = InMap /\ Chained' = Chained
    BY <1>1 DEF InMap, Chained
<1>3. /\ Held = ({channel, dispatcher} \cup InMap \cup Chained) \ {NULL}
      /\ InMap \subseteq Recorders /\ Chained \subseteq Filters
      /\ channel \in Channels \cup {NULL} /\ dispatcher \in Dispatchers \cup {NULL}
      /\ channel' \in Channels \cup {NULL}
      /\ NULL \notin Objects /\ NULL \notin own
    BY HeldKinds DEF Owners, OneOwner, SetupTypeOK
<1>4. Held' = ({channel', dispatcher} \cup InMap \cup Chained) \ {NULL}
    BY <1>1, <1>2 DEF Held, InMap, Chained
<1>5. /\ channel # dispatcher \/ channel = NULL
      /\ channel \notin InMap /\ channel \notin Chained
      /\ channel' \notin Chained
    BY <1>3, SetupAssumption DEF Objects
<1>6. Held \subseteq heap /\ Held \cap own = {} /\ heap \subseteq Held \cup own
    BY DEF Owners, OneOwner
<1>7. Held' \subseteq heap' /\ Held' \cap own' = {} /\ heap' \subseteq Held' \cup own'
    BY <1>3, <1>4, <1>5, <1>6
<1>8. params \subseteq Filters /\ params' \subseteq own' \cup Chained'
    BY <1>2, <1>3, SetupAssumption DEF Owners, OneOwner, SetupTypeOK, ParamsOwned
<1> QED
    BY <1>1, <1>7, <1>8 DEF Owners, OneOwner, ParamsOwned, ById

LEMMA DispatcherHandedOver ==
    ASSUME Owners, SetupTypeOK', UNCHANGED <<channel, recorders, filters, params>>,
           heap' = heap \ {dispatcher},
           \/ dispatcher' \in own \cap heap /\ own' = own \ {dispatcher'}
           \/ dispatcher' = NULL /\ own' = own
    PROVE  Owners'
<1>1. RecorderMap' = RecorderMap
    BY DEF RecorderMap, NoRecorders
<1>2. InMap' = InMap /\ Chained' = Chained
    BY <1>1 DEF InMap, Chained
<1>3. /\ Held = ({channel, dispatcher} \cup InMap \cup Chained) \ {NULL}
      /\ InMap \subseteq Recorders /\ Chained \subseteq Filters
      /\ channel \in Channels \cup {NULL} /\ dispatcher \in Dispatchers \cup {NULL}
      /\ dispatcher' \in Dispatchers \cup {NULL}
      /\ NULL \notin Objects /\ NULL \notin own
    BY HeldKinds DEF Owners, OneOwner, SetupTypeOK
<1>4. Held' = ({channel, dispatcher'} \cup InMap \cup Chained) \ {NULL}
    BY <1>1, <1>2 DEF Held, InMap, Chained
<1>5. /\ dispatcher # channel \/ dispatcher = NULL
      /\ dispatcher \notin InMap /\ dispatcher \notin Chained
      /\ dispatcher' \notin Chained
    BY <1>3, SetupAssumption DEF Objects
<1>6. Held \subseteq heap /\ Held \cap own = {} /\ heap \subseteq Held \cup own
    BY DEF Owners, OneOwner
<1>7. Held' \subseteq heap' /\ Held' \cap own' = {} /\ heap' \subseteq Held' \cup own'
    BY <1>3, <1>4, <1>5, <1>6
<1>8. params \subseteq Filters /\ params' \subseteq own' \cup Chained'
    BY <1>2, <1>3, SetupAssumption DEF Owners, OneOwner, SetupTypeOK, ParamsOwned
<1> QED
    BY <1>1, <1>7, <1>8 DEF Owners, OneOwner, ParamsOwned, ById

\* A recorder, and the one of its id; or all of them at the end.
LEMMA RecorderHandedOver ==
    ASSUME Owners, SetupTypeOK', UNCHANGED <<channel, dispatcher, filters, params>>,
           \/ \E r \in Recorders : AddRecorder(r) \/ AddRecorderNoKey(r) \/ AddRecorderNoEntry(r)
           \/ recorders' = NULL /\ heap' = heap \ InMap /\ own' = own
    PROVE  Owners'
<1>1. /\ Held = ({channel, dispatcher} \cup InMap \cup Chained) \ {NULL}
      /\ InMap \subseteq Recorders /\ Chained \subseteq Filters
      /\ channel \in Channels \cup {NULL} /\ dispatcher \in Dispatchers \cup {NULL}
      /\ NULL \notin Objects
      /\ RecorderMap \in [Ids -> Recorders \cup {NULL}]
    BY HeldKinds DEF Owners, OneOwner, SetupTypeOK
<1>2. Chained' = Chained
    BY DEF Chained
<1>3. Held' = ({channel, dispatcher} \cup InMap' \cup Chained) \ {NULL}
    BY <1>2 DEF Held, Chained
<1>4. \A r \in Recorders \cup {NULL} :
            r \notin Chained /\ (r # NULL => r # channel /\ r # dispatcher)
    BY <1>1, SetupAssumption DEF Objects
<1>5. Held \subseteq heap /\ Held \cap own = {} /\ heap \subseteq Held \cup own
    BY DEF Owners, OneOwner
<1>6. params \subseteq Filters /\ params \subseteq own \cup Chained
    BY DEF Owners, OneOwner, SetupTypeOK, ParamsOwned
<1>7. \A id \in Ids : RecorderMap[id] # NULL => RecorderId[RecorderMap[id]] = id
    BY DEF Owners, ById
<1> DEFINE Goal == /\ Held' \subseteq heap' /\ Held' \cap own' = {} /\ heap' \subseteq Held' \cup own'
                   /\ params \subseteq own' \cup Chained
                   /\ ById'
<1>8. ASSUME NEW r \in Recorders, AddRecorder(r) PROVE Goal
    <2> DEFINE old == RecorderMap[RecorderId[r]]
    <2>1. /\ r \in own \cap heap /\ own' = own \ {r}
          /\ recorders' = [RecorderMap EXCEPT ![RecorderId[r]] = r]
          /\ heap' = heap \ {old}
        BY <1>8 DEF AddRecorder
    <2>2. RecorderId[r] \in Ids /\ r # NULL
        BY <1>1 DEF Ids, Objects
    <2>3. recorders' \in [Ids -> Recorders \cup {NULL}]
        BY <1>1, <2>1
    <2>4. RecorderMap' = [RecorderMap EXCEPT ![RecorderId[r]] = r]
        BY <2>1, <2>3, SetupAssumption DEF RecorderMap
    <2>5. r \notin InMap
        BY <1>1, <1>5, <2>1, <2>2
    <2>6. ById'
        BY <1>1, <1>7, <2>2, <2>4 DEF ById
    <2>7. InMap' = (InMap \ {old}) \cup {r}
        <3>1. ASSUME NEW x PROVE x \in InMap' => x \in (InMap \ {old}) \cup {r}
            BY <1>1, <1>7, <2>2, <2>4 DEF InMap
        <3>2. ASSUME NEW x \in InMap, x # old PROVE x \in InMap'
            BY <1>1, <2>2, <2>4, <3>2 DEF InMap
        <3>3. r \in InMap'
            BY <1>1, <2>2, <2>4 DEF InMap
        <3> QED
            BY <3>1, <3>2, <3>3
    <2>8. old \in InMap \cup {NULL} /\ old \in Recorders \cup {NULL} /\ r \notin Chained
        BY <1>1, <1>4, <2>2 DEF InMap
    <2>9. /\ Held' \subseteq heap' /\ Held' \cap own' = {} /\ heap' \subseteq Held' \cup own'
          /\ params \subseteq own' \cup Chained
        <3> HIDE DEF old
        <3>1. /\ old \notin Chained /\ (old # NULL => old # channel /\ old # dispatcher)
              /\ r \notin Filters
            BY <1>4, <2>8, SetupAssumption
        <3> QED
            BY <1>1, <1>3, <1>5, <1>6, <2>1, <2>2, <2>5, <2>7, <2>8, <3>1
    <2> QED
        BY <2>6, <2>9
<1>9. ASSUME NEW r \in Recorders, AddRecorderNoKey(r) \/ AddRecorderNoEntry(r) PROVE Goal
    <2>1. /\ r \in own /\ own' = own /\ recorders' = RecorderMap
          /\ heap' = heap \/ heap' = heap \ {r}
        BY <1>9 DEF AddRecorderNoKey, AddRecorderNoEntry, objectVars
    <2>2. RecorderMap' = RecorderMap
        BY <1>1, <2>1, SetupAssumption DEF RecorderMap
    <2>3. InMap' = InMap
        BY <2>2 DEF InMap
    <2>4. ById'
        BY <1>7, <2>2 DEF ById
    <2> QED
        BY <1>1, <1>3, <1>5, <1>6, <2>1, <2>3, <2>4
<1>10. ASSUME recorders' = NULL, heap' = heap \ InMap, own' = own PROVE Goal
    <2>1. RecorderMap' = [id \in Ids |-> NULL]
        BY <1>10 DEF RecorderMap, NoRecorders
    <2>2. InMap' = {} /\ ById'
        BY <2>1 DEF InMap, ById
    <2>3. \A r \in InMap : r \notin Chained /\ r # channel /\ r # dispatcher
        BY <1>1, <1>4 DEF Objects
    <2> QED
        BY <1>1, <1>3, <1>5, <1>6, <1>10, <2>2, <2>3
<1>11. Goal
    BY <1>8, <1>9, <1>10
<1> QED
    BY <1>2, <1>11 DEF Owners, OneOwner, ParamsOwned

\* A filter, and all of them at the end.
LEMMA FilterHandedOver ==
    ASSUME Owners, SetupTypeOK', NEW f \in Filters, AddFilter(f)
    PROVE  Owners' /\ Range(filters'[FilterType[f]]) = Range(filters[FilterType[f]]) \cup {f}
<1> DEFINE t == FilterType[f]
<1>1. /\ Held = ({channel, dispatcher} \cup InMap \cup Chained) \ {NULL}
      /\ InMap \subseteq Recorders /\ Chained \subseteq Filters
      /\ channel \in Channels \cup {NULL} /\ dispatcher \in Dispatchers \cup {NULL}
      /\ NULL \notin Objects /\ t \in Types /\ filters \in [Types -> Seq(Filters)]
    BY HeldKinds, SetupAssumption DEF Owners, OneOwner, SetupTypeOK
<1>2. /\ f \in own \cap heap /\ own' = own \ {f} /\ heap' = heap /\ params' = params
      /\ filters' = [filters EXCEPT ![t] = AddToChain(filters[t], f)]
      /\ UNCHANGED <<channel, dispatcher, recorders>>
    BY DEF AddFilter
<1>3. RecorderMap' = RecorderMap
    BY <1>2 DEF RecorderMap, NoRecorders
<1>4. InMap' = InMap
    BY <1>3 DEF InMap
<1>5. Held' = ({channel, dispatcher} \cup InMap \cup Chained') \ {NULL}
    BY <1>2, <1>3, <1>4 DEF Held, InMap, Chained
<1>6. Range(filters'[t]) = Range(filters[t]) \cup {f}
    <2>1. PICK s : s = filters[t]
        OBVIOUS
    <2>2. s \in Seq(Filters)
        BY <1>1, <2>1
    <2>3. PICK p \in 1 .. Len(s) + 1 : AddToChain(s, f) = InsertAt(s, p, f)
        BY <2>2, ChainPlace
    <2>4. PICK r : r = InsertAt(s, p, f)
        OBVIOUS
    <2>5. /\ r \in Seq(Filters) /\ Len(r) = Len(s) + 1
          /\ \A k \in 1 .. p - 1 : r[k] = s[k]
          /\ r[p] = f
          /\ \A k \in p + 1 .. Len(s) + 1 : r[k] = s[k - 1]
        <3>1. InsertAt(s, p, f) \in Seq(Filters) /\ Inserted(s, p, f, InsertAt(s, p, f))
            BY ONLY f \in Filters, p \in 1 .. Len(s) + 1, <2>2, InsertFacts
        <3> QED
            BY <2>4, <3>1 DEF Inserted
    <2>6. filters'[t] = r
        BY <1>1, <1>2, <2>1, <2>3, <2>4
    <2>7. ASSUME NEW k \in 1 .. Len(r) PROVE r[k] \in {s[j] : j \in 1 .. Len(s)} \cup {f}
        <3>1. k \in 1 .. p - 1 \/ k = p \/ k \in p + 1 .. Len(s) + 1
            BY <2>5
        <3>2. k \in 1 .. p - 1 => k \in 1 .. Len(s)
            BY <2>2
        <3>3. k \in p + 1 .. Len(s) + 1 => k - 1 \in 1 .. Len(s)
            BY <2>2
        <3> QED
            BY <2>5, <3>1, <3>2, <3>3
    <2>8. ASSUME NEW j \in 1 .. Len(s) PROVE s[j] \in {r[k] : k \in 1 .. Len(r)}
        <3>1. CASE j < p
            BY <2>5, <3>1
        <3>2. CASE ~ (j < p)
            <4>1. j + 1 \in p + 1 .. Len(s) + 1 /\ (j + 1) - 1 = j /\ j + 1 \in 1 .. Len(r)
                BY <2>2, <2>5, <3>2
            <4>2. r[j + 1] = s[(j + 1) - 1]
                BY <2>5, <4>1
            <4> QED
                BY <4>1, <4>2
        <3> QED
            BY <3>1, <3>2
    <2>9. p \in 1 .. Len(r)
        BY <2>5
    <2>10. Range(r) = {r[k] : k \in 1 .. Len(r)} /\ Range(s) = {s[j] : j \in 1 .. Len(s)}
        <3>1. DOMAIN r = 1 .. Len(r) /\ DOMAIN s = 1 .. Len(s)
            BY <2>2, <2>5
        <3> QED
            BY <3>1 DEF Range
    <2>11. Range(r) \subseteq Range(s) \cup {f}
        BY <2>7, <2>10
    <2>12. Range(s) \subseteq Range(r) /\ f \in Range(r)
        BY <2>5, <2>8, <2>9, <2>10
    <2> QED
        BY <2>1, <2>6, <2>11, <2>12
<1>7. Chained' = Chained \cup {f}
    <2>1. \A u \in Types \ {t} : filters'[u] = filters[u]
        BY <1>1, <1>2
    <2> HIDE DEF t
    <2>2. \A x : x \in Chained' <=> \E u \in Types : x \in Range(filters'[u])
        BY DEF Chained
    <2>3. \A x : x \in Chained <=> \E u \in Types : x \in Range(filters[u])
        BY DEF Chained
    <2> QED
        BY <1>1, <1>6, <2>1, <2>2, <2>3
<1>8. Held \subseteq heap /\ Held \cap own = {} /\ heap \subseteq Held \cup own
    BY DEF Owners, OneOwner
<1>9. f # NULL
    BY <1>1 DEF Objects
<1>10. Held' \subseteq heap' /\ Held' \cap own' = {} /\ heap' \subseteq Held' \cup own'
    BY <1>1, <1>2, <1>5, <1>7, <1>8, <1>9
<1>11. params' \subseteq own' \cup Chained'
    BY <1>2, <1>7 DEF Owners, ParamsOwned
<1> QED
    BY <1>3, <1>6, <1>10, <1>11 DEF Owners, OneOwner, ParamsOwned, ById

\* ... the filters at the end of destroy.
LEMMA FiltersFreed ==
    ASSUME Owners, SetupTypeOK', DestroyFilters
    PROVE  Owners'
<1>1. /\ Held = ({channel, dispatcher} \cup InMap \cup Chained) \ {NULL}
      /\ InMap \subseteq Recorders /\ Chained \subseteq Filters
      /\ channel \in Channels \cup {NULL} /\ dispatcher \in Dispatchers \cup {NULL}
      /\ NULL \notin Objects
    BY HeldKinds DEF Owners, OneOwner, SetupTypeOK
<1>2. /\ heap' = heap \ Chained /\ params' = params \ Chained /\ own' = own
      /\ filters' = [t \in Types |-> <<>>]
      /\ UNCHANGED <<channel, dispatcher, recorders>>
    BY DEF DestroyFilters, Chained
<1>3. RecorderMap' = RecorderMap
    BY <1>2 DEF RecorderMap, NoRecorders
<1>4. InMap' = InMap
    BY <1>3 DEF InMap
<1>5. Chained' = {}
    BY <1>2 DEF Chained, Range
<1>6. Held' = ({channel, dispatcher} \cup InMap) \ {NULL}
    BY <1>2, <1>3, <1>4, <1>5 DEF Held, InMap, Chained
<1>7. Held \subseteq heap /\ Held \cap own = {} /\ heap \subseteq Held \cup own
    BY DEF Owners, OneOwner
<1>8. \A x \in Chained : x # channel /\ x # dispatcher /\ x \notin InMap
    BY <1>1, SetupAssumption DEF Objects
<1>9. Held' \subseteq heap' /\ Held' \cap own' = {} /\ heap' \subseteq Held' \cup own'
    BY <1>1, <1>2, <1>6, <1>7, <1>8
<1>10. params' \subseteq own' \cup Chained'
    BY <1>2, <1>5 DEF Owners, ParamsOwned
<1> QED
    BY <1>3, <1>9, <1>10 DEF Owners, OneOwner, ParamsOwned, ById

\* Each action, by what it hands over.
LEMMA OwnersKept ==
    ASSUME SetupInv, Next, SetupTypeOK'
    PROVE  Owners'
<1> USE DEF Configure, configVars, objectVars, historyVars
<1>0. Owners
    BY DEF SetupInv, Owners
<1>1. ASSUME \/ SetBufferPool \/ SetModules \/ AddModulesFails \/ RegisterPlaceholder
             \/ \E m \in Modules : AddModule(m)
             \/ \E format \in Formats : SetLogFormat(format)
      PROVE  Owners'
    <2>1. UNCHANGED <<channel, dispatcher, recorders, filters, heap, own, params>>
        BY <1>1 DEF SetBufferPool, SetModules, AddModulesFails, AddModule, SetModuleMap,
            RegisterPlaceholder, SetLogFormat, SetFormatter
    <2> QED
        BY <1>0, <2>1, NothingHandedOver
<1>2. ASSUME \/ SetupDispatcherFails \/ SetupRecorderFails \/ SetupSucceeds
             \/ DestroyBegin \/ DestroyRest
      PROVE  Owners'
    <2>1. UNCHANGED <<channel, dispatcher, recorders, filters, heap, own, params>>
        BY <1>2 DEF SetupDispatcherFails, SetupRecorderFails, SetupSucceeds, DestroyBegin, DestroyRest
    <2> QED
        BY <1>0, <2>1, NothingHandedOver
<1>3. ASSUME NEW f \in Filters, AddFilter(f) PROVE Owners'
    BY <1>0, <1>3, FilterHandedOver
<1>4. ASSUME NEW c \in Channels, SetChannel(c) PROVE Owners'
    BY <1>0, <1>4, ChannelHandedOver DEF SetChannel
<1>5. CASE DestroyChannel
    BY <1>0, <1>5, ChannelHandedOver DEF DestroyChannel
<1>6. ASSUME NEW d \in Dispatchers, SetDispatcher(d) PROVE Owners'
    BY <1>0, <1>6, DispatcherHandedOver DEF SetDispatcher
<1>7. CASE DestroyDispatcher
    BY <1>0, <1>7, DispatcherHandedOver DEF DestroyDispatcher
<1>8. ASSUME NEW r \in Recorders, AddRecorder(r) \/ AddRecorderNoKey(r) \/ AddRecorderNoEntry(r)
      PROVE  Owners'
    <2>1. UNCHANGED <<channel, dispatcher, filters, params>>
        BY <1>8 DEF AddRecorder, AddRecorderNoKey, AddRecorderNoEntry
    <2> QED
        BY <1>0, <1>8, <2>1, RecorderHandedOver
<1>9. CASE DestroyRecorders
    BY <1>0, <1>9, RecorderHandedOver DEF DestroyRecorders
<1>10. CASE DestroyFilters
    BY <1>0, <1>10, FiltersFreed
<1> QED
    BY <1>1, <1>2, <1>3, <1>4, <1>5, <1>6, <1>7, <1>8, <1>9, <1>10 DEF Next

--------------------------------------------------------------------------------
(* What is open                                                             *)

ChannelsOpen ==
    /\ \A c \in Channels : chan[c].param => c = channel /\ chan[c].queues > 0
    /\ Queues <= retries + (IF \E c \in Channels : chan[c].param THEN 1 ELSE 0)

DispatchersOpen ==
    /\ \A d \in Dispatchers : disp[d].extra => d = dispatcher /\ disp[d].threads > 0
    /\ Threads <= retries + (IF \E d \in Dispatchers : disp[d].extra THEN 1 ELSE 0)

RecordersOpen ==
    \A r \in Recorders : opens[r] \in IF r \in InMap THEN 0 .. 1 + retries ELSE {0}

\* What is open, per kind of object, in this state and in the next.
LEMMA OpenParts ==
    /\ OpenIsHeld /\ LostAreRetries <=> ChannelsOpen /\ DispatchersOpen /\ RecordersOpen
    /\ OpenIsHeld' /\ LostAreRetries' <=> ChannelsOpen' /\ DispatchersOpen' /\ RecordersOpen'
BY DEF OpenIsHeld, LostAreRetries, ChannelsOpen, DispatchersOpen, RecordersOpen

\* The channel is closed before another is set, and at the end.
LEMMA ChannelCloses ==
    ASSUME SetupTypeOK, OpenIsHeld, LostAreRetries, retries' = retries,
           chan' = IF channel = NULL THEN chan ELSE CloseChannel(channel)
    PROVE  ChannelsOpen' /\ \A c \in Channels : ~ chan'[c].param
<1>0. ChannelsOpen /\ retries \in Nat /\ chan \in ChanTypes /\ channel \in Channels \cup {NULL}
    BY OpenParts DEF SetupTypeOK, ChanTypes
<1>1. CASE channel = NULL
    <2>1. \A c \in Channels : ~ chan[c].param
        BY <1>0, <1>1, SetupAssumption DEF ChannelsOpen, Objects
    <2>2. chan' = chan /\ Queues' = Queues
        BY <1>1, QueuesAndThreads
    <2> QED
        BY <1>0, <2>1, <2>2 DEF ChannelsOpen
<1>2. CASE channel # NULL
    <2>1. /\ channel \in Channels /\ chan' \in ChanTypes
          /\ ~ chan'[channel].param
          /\ chan'[channel].queues =
                IF chan[channel].param THEN chan[channel].queues - 1 ELSE chan[channel].queues
          /\ \A o \in Channels \ {channel} : chan'[o] = chan[o]
        BY <1>0, <1>2, OpenAndClose
    <2>2. \A c \in Channels : ~ chan'[c].param
        BY <1>0, <2>1 DEF ChannelsOpen
    <2>3. /\ Queues \in Nat /\ Queues' \in Nat
          /\ Queues' + chan[channel].queues = Queues + chan'[channel].queues
        BY <1>0, <2>1, QueuesChange, QueuesAndThreads
    <2>4. chan[channel].queues \in Nat
        BY <1>0, <2>1 DEF ChanTypes
    <2>5. Queues' <= retries
        <3>1. CASE chan[channel].param
            BY <1>0, <2>1, <2>3, <2>4, <3>1 DEF ChannelsOpen
        <3>2. CASE ~ chan[channel].param
            <4>1. ~ \E c \in Channels : chan[c].param
                BY <1>0, <3>2 DEF ChannelsOpen
            <4> QED
                BY <1>0, <2>1, <2>3, <2>4, <3>2, <4>1 DEF ChannelsOpen
        <3> QED
            BY <3>1, <3>2
    <2> QED
        BY <1>0, <2>2, <2>5 DEF ChannelsOpen
<1> QED
    BY <1>1, <1>2

\* ... and so is the dispatcher.
LEMMA DispatcherCloses ==
    ASSUME SetupTypeOK, OpenIsHeld, LostAreRetries, retries' = retries,
           disp' = IF dispatcher = NULL THEN disp ELSE CloseDispatcher(dispatcher)
    PROVE  DispatchersOpen' /\ \A d \in Dispatchers : ~ disp'[d].extra
<1>0. DispatchersOpen /\ retries \in Nat /\ disp \in DispTypes /\ dispatcher \in Dispatchers \cup {NULL}
    BY OpenParts DEF SetupTypeOK, DispTypes
<1>1. CASE dispatcher = NULL
    <2>1. \A d \in Dispatchers : ~ disp[d].extra
        BY <1>0, <1>1, SetupAssumption DEF DispatchersOpen, Objects
    <2>2. disp' = disp /\ Threads' = Threads
        BY <1>1, QueuesAndThreads
    <2> QED
        BY <1>0, <2>1, <2>2 DEF DispatchersOpen
<1>2. CASE dispatcher # NULL
    <2>1. /\ dispatcher \in Dispatchers /\ disp' \in DispTypes
          /\ ~ disp'[dispatcher].extra
          /\ disp'[dispatcher].threads =
                IF disp[dispatcher].extra THEN disp[dispatcher].threads - 1 ELSE disp[dispatcher].threads
          /\ \A o \in Dispatchers \ {dispatcher} : disp'[o] = disp[o]
        BY <1>0, <1>2, OpenAndClose
    <2>2. \A d \in Dispatchers : ~ disp'[d].extra
        BY <1>0, <2>1 DEF DispatchersOpen
    <2>3. /\ Threads \in Nat /\ Threads' \in Nat
          /\ Threads' + disp[dispatcher].threads = Threads + disp'[dispatcher].threads
        BY <1>0, <2>1, ThreadsChange, QueuesAndThreads
    <2>4. disp[dispatcher].threads \in Nat
        BY <1>0, <2>1 DEF DispTypes
    <2>5. Threads' <= retries
        <3>1. CASE disp[dispatcher].extra
            BY <1>0, <2>1, <2>3, <2>4, <3>1 DEF DispatchersOpen
        <3>2. CASE ~ disp[dispatcher].extra
            <4>1. ~ \E d \in Dispatchers : disp[d].extra
                BY <1>0, <3>2 DEF DispatchersOpen
            <4> QED
                BY <1>0, <2>1, <2>3, <2>4, <3>2, <4>1 DEF DispatchersOpen
        <3> QED
            BY <3>1, <3>2
    <2> QED
        BY <1>0, <2>2, <2>5 DEF DispatchersOpen
<1> QED
    BY <1>1, <1>2

\* Setup opens what is set: once, or once more for each retry.
LEMMA SetupRetries ==
    ASSUME SetupTypeOK, MaySetup
    PROVE  /\ channel \in Channels /\ dispatcher \in Dispatchers
           /\ retries \in Nat /\ retries' \in Nat /\ retries' \in {retries, retries + 1}
           /\ chan[channel].param \/ disp[dispatcher].extra \/ (\E r \in InMap : opens[r] > 0)
                => retries' = retries + 1
BY DEF SetupTypeOK, MaySetup, HalfOpen

\* The channel's one queue is new; an older one is lost to a retry.
LEMMA ChannelOpens ==
    ASSUME SetupTypeOK, OpenIsHeld, LostAreRetries, MaySetup,
           chan' = OpenChannel(channel), channel' = channel
    PROVE  ChannelsOpen' /\ chan'[channel].param /\ Queues' > 0
<1>0. /\ ChannelsOpen /\ channel \in Channels /\ chan \in ChanTypes
      /\ retries \in Nat /\ retries' \in Nat /\ retries' \in {retries, retries + 1}
      /\ chan[channel].param => retries' = retries + 1
    BY OpenParts, SetupRetries DEF SetupTypeOK, ChanTypes
<1>1. /\ chan' \in ChanTypes /\ chan'[channel].param
      /\ chan'[channel].queues = chan[channel].queues + 1
      /\ \A o \in Channels \ {channel} : chan'[o] = chan[o]
    BY <1>0, OpenAndClose
<1>2. chan[channel].queues \in Nat
    BY <1>0 DEF ChanTypes
<1>3. /\ Queues \in Nat /\ Queues' \in Nat
      /\ Queues' + chan[channel].queues = Queues + chan'[channel].queues
    BY <1>0, <1>1, QueuesChange, QueuesAndThreads
<1>4. Queues' = Queues + 1
    BY <1>1, <1>2, <1>3
<1>5. \A c \in Channels : chan'[c].param => c = channel' /\ chan'[c].queues > 0
    BY <1>0, <1>1, <1>2 DEF ChannelsOpen
<1>6. PICK after \in Nat : after = retries'
    BY <1>0
<1>7. Queues' <= after + 1
    <2>1. after \in {retries, retries + 1} /\ (chan[channel].param => after = retries + 1)
        BY <1>0, <1>6
    <2>2. retries \in Nat /\ Queues \in Nat
        BY <1>0, <1>3
    <2>3. CASE chan[channel].param
        <3>1. Queues <= retries + 1
            BY <1>0, <1>3, <2>3 DEF ChannelsOpen
        <3> QED
            BY ONLY <1>4, <2>1, <2>2, <2>3, <3>1
    <2>4. CASE ~ chan[channel].param
        <3>1. ~ \E c \in Channels : chan[c].param
            BY <1>0, <2>4 DEF ChannelsOpen
        <3>2. Queues <= retries
            BY <1>0, <1>3, <3>1 DEF ChannelsOpen
        <3> QED
            BY ONLY <1>4, <2>1, <2>2, <3>2
    <2> QED
        BY <2>3, <2>4
<1>8. \E c \in Channels : chan'[c].param
    BY <1>0, <1>1
<1>9. ChannelsOpen'
    BY <1>5, <1>6, <1>7, <1>8 DEF ChannelsOpen
<1>10. Queues' > 0
    BY <1>3, <1>4
<1> QED
    BY <1>1, <1>9, <1>10

\* The dispatcher's thread likewise.
LEMMA DispatcherOpens ==
    ASSUME SetupTypeOK, OpenIsHeld, LostAreRetries, MaySetup,
           disp' = OpenDispatcher(dispatcher), dispatcher' = dispatcher
    PROVE  /\ DispatchersOpen' /\ disp'[dispatcher].extra /\ Threads' > 0
           /\ disp'[dispatcher].channel = channel
<1>0. /\ DispatchersOpen /\ dispatcher \in Dispatchers /\ disp \in DispTypes
      /\ retries \in Nat /\ retries' \in Nat /\ retries' \in {retries, retries + 1}
      /\ disp[dispatcher].extra => retries' = retries + 1
    BY OpenParts, SetupRetries DEF SetupTypeOK, DispTypes
<1>1. /\ disp' \in DispTypes /\ disp'[dispatcher].extra /\ disp'[dispatcher].channel = channel
      /\ disp'[dispatcher].threads = disp[dispatcher].threads + 1
      /\ \A o \in Dispatchers \ {dispatcher} : disp'[o] = disp[o]
    BY <1>0, OpenAndClose
<1>2. disp[dispatcher].threads \in Nat
    BY <1>0 DEF DispTypes
<1>3. /\ Threads \in Nat /\ Threads' \in Nat
      /\ Threads' + disp[dispatcher].threads = Threads + disp'[dispatcher].threads
    BY <1>0, <1>1, ThreadsChange, QueuesAndThreads
<1>4. Threads' = Threads + 1
    BY <1>1, <1>2, <1>3
<1>5. \A d \in Dispatchers : disp'[d].extra => d = dispatcher' /\ disp'[d].threads > 0
    BY <1>0, <1>1, <1>2 DEF DispatchersOpen
<1>6. PICK after \in Nat : after = retries'
    BY <1>0
<1>7. Threads' <= after + 1
    <2>1. after \in {retries, retries + 1} /\ (disp[dispatcher].extra => after = retries + 1)
        BY <1>0, <1>6
    <2>2. retries \in Nat /\ Threads \in Nat
        BY <1>0, <1>3
    <2>3. CASE disp[dispatcher].extra
        <3>1. Threads <= retries + 1
            BY <1>0, <1>3, <2>3 DEF DispatchersOpen
        <3> QED
            BY ONLY <1>4, <2>1, <2>2, <2>3, <3>1
    <2>4. CASE ~ disp[dispatcher].extra
        <3>1. ~ \E d \in Dispatchers : disp[d].extra
            BY <1>0, <2>4 DEF DispatchersOpen
        <3>2. Threads <= retries
            BY <1>0, <1>3, <3>1 DEF DispatchersOpen
        <3> QED
            BY ONLY <1>4, <2>1, <2>2, <3>2
    <2> QED
        BY <2>3, <2>4
<1>8. \E d \in Dispatchers : disp'[d].extra
    BY <1>0, <1>1
<1>9. DispatchersOpen'
    BY <1>5, <1>6, <1>7, <1>8 DEF DispatchersOpen
<1>10. Threads' > 0
    BY <1>3, <1>4
<1> QED
    BY <1>1, <1>9, <1>10

\* The dispatcher that does not open may forget the thread of an earlier setup.
LEMMA DispatcherFails ==
    ASSUME SetupTypeOK, OpenIsHeld, LostAreRetries, MaySetup, dispatcher' = dispatcher,
           NEW extra \in {disp[dispatcher].extra, FALSE},
           disp' = [disp EXCEPT ![dispatcher].channel = channel, ![dispatcher].extra = extra]
    PROVE  DispatchersOpen'
<1>0. /\ DispatchersOpen /\ dispatcher \in Dispatchers /\ disp \in DispTypes
      /\ retries \in Nat /\ retries' \in Nat /\ retries' \in {retries, retries + 1}
      /\ disp[dispatcher].extra => retries' = retries + 1
      /\ channel \in Channels
    BY OpenParts, SetupRetries DEF SetupTypeOK, DispTypes
<1>1. extra \in BOOLEAN /\ (extra => disp[dispatcher].extra)
    BY <1>0 DEF DispTypes
<1>2. /\ disp' \in DispTypes /\ disp'[dispatcher].extra = extra
      /\ disp'[dispatcher].threads = disp[dispatcher].threads
      /\ \A o \in Dispatchers \ {dispatcher} : disp'[o] = disp[o]
    BY <1>0, <1>1 DEF DispTypes
<1>3. disp[dispatcher].threads \in Nat
    BY <1>0 DEF DispTypes
<1>4. Threads \in Nat /\ Threads' = Threads
    <2>1. /\ Threads \in Nat /\ Threads' \in Nat
          /\ Threads' + disp[dispatcher].threads = Threads + disp'[dispatcher].threads
        BY ONLY <1>0, <1>2, ThreadsChange, QueuesAndThreads
    <2> QED
        BY <1>2, <1>3, <2>1
<1>5. \A d \in Dispatchers : disp'[d].extra => d = dispatcher' /\ disp'[d].threads > 0
    BY <1>0, <1>1, <1>2 DEF DispatchersOpen
<1>6. (\E d \in Dispatchers : disp[d].extra) => disp[dispatcher].extra
    BY <1>0 DEF DispatchersOpen
<1>7. Threads' <= retries'
    BY <1>0, <1>4, <1>6 DEF DispatchersOpen
<1>8. Threads' <= retries' + (IF \E d \in Dispatchers : disp'[d].extra THEN 1 ELSE 0)
    BY <1>0, <1>4, <1>7
<1> QED
    BY <1>5, <1>8 DEF DispatchersOpen

\* The recorders.
LEMMA RecordersKept ==
    ASSUME SetupInv, SetupTypeOK', Next
    PROVE  RecordersOpen'
<1> USE DEF Configure, configVars, objectVars, historyVars
<1>0. /\ RecordersOpen /\ retries \in Nat /\ opens \in [Recorders -> Nat]
      /\ RecorderMap \in [Ids -> Recorders \cup {NULL}] /\ NULL \notin Objects
      /\ InMap \subseteq Recorders
    BY OpenParts, HeldKinds DEF SetupInv, OneOwner, SetupTypeOK
<1>1. ASSUME UNCHANGED <<recorders, opens>>, retries' \in Nat, retries' >= retries
      PROVE  RecordersOpen'
    <2>1. InMap' = InMap
        BY <1>1 DEF InMap, RecorderMap, NoRecorders
    <2> QED
        BY <1>0, <1>1, <2>1 DEF RecordersOpen
<1>2. ASSUME NEW r \in Recorders, AddRecorderNoKey(r) \/ AddRecorderNoEntry(r)
      PROVE  RecordersOpen'
    <2>1. recorders' = RecorderMap /\ opens' = opens /\ retries' = retries
        BY <1>2 DEF AddRecorderNoKey, AddRecorderNoEntry
    <2>2. RecorderMap' = RecorderMap
        BY <1>0, <2>1, SetupAssumption DEF RecorderMap
    <2>3. InMap' = InMap
        BY <2>2 DEF InMap
    <2> QED
        BY <1>0, <2>1, <2>3 DEF RecordersOpen
<1>3. ASSUME NEW r \in Recorders, AddRecorder(r) PROVE RecordersOpen'
    <2> DEFINE old == RecorderMap[RecorderId[r]]
    <2>1. /\ recorders' = [RecorderMap EXCEPT ![RecorderId[r]] = r]
          /\ opens' = IF old = NULL THEN opens ELSE [opens EXCEPT ![old] = 0]
          /\ retries' = retries /\ r \in own
        BY <1>3 DEF AddRecorder
    <2>2. RecorderId[r] \in Ids
        BY DEF Ids
    <2>3. RecorderMap' = [RecorderMap EXCEPT ![RecorderId[r]] = r]
        <3>1. recorders' \in [Ids -> Recorders \cup {NULL}]
            BY <1>0, <2>1
        <3> QED
            BY <2>1, <3>1, SetupAssumption DEF RecorderMap
    <2>4. \A x \in InMap \ {old} : x \in InMap'
        BY <1>0, <2>2, <2>3 DEF InMap
    <2>5. r \notin InMap
        <3>1. Held \cap own = {} /\ InMap \subseteq Held
            BY DEF SetupInv, OneOwner, Held, InMap
        <3> QED
            BY <2>1, <3>1
    <2>6. \A x \in Recorders : opens'[x] = IF x = old THEN 0 ELSE opens[x]
        BY <1>0, <2>1 DEF Objects
    <2> HIDE DEF old
    <2>7. ASSUME NEW x \in Recorders
          PROVE  opens'[x] \in IF x \in InMap' THEN 0 .. 1 + retries ELSE {0}
        <3>1. x \in InMap /\ x # old => x \in InMap'
            BY <2>4
        <3>2. x \notin InMap => opens[x] = 0
            BY <1>0 DEF RecordersOpen
        <3>3. opens[x] \in 0 .. 1 + retries
            BY <1>0 DEF RecordersOpen
        <3> QED
            BY <1>0, <2>6, <3>1, <3>2, <3>3
    <2> QED
        BY <2>1, <2>7 DEF RecordersOpen
<1>4. ASSUME SetupRecorderFails \/ SetupSucceeds PROVE RecordersOpen'
    <2>1. MaySetup /\ recorders' = recorders
        BY <1>4 DEF SetupRecorderFails, SetupSucceeds
    <2>2. InMap' = InMap
        BY <2>1 DEF InMap, RecorderMap, NoRecorders
    <2>3. PICK some \in SUBSET InMap :
            opens' = [r \in Recorders |-> IF r \in some THEN opens[r] + 1 ELSE opens[r]]
        BY <1>4 DEF SetupRecorderFails, SetupSucceeds
    <2>4. /\ retries' \in Nat /\ retries' \in {retries, retries + 1}
          /\ (\E r \in InMap : opens[r] > 0) => retries' = retries + 1
        BY <2>1, SetupRetries DEF SetupInv, OneOwner
    <2>5. ASSUME NEW r \in Recorders
          PROVE  opens'[r] \in IF r \in InMap THEN 0 .. 1 + retries' ELSE {0}
        <3>1. opens[r] \in IF r \in InMap THEN 0 .. 1 + retries ELSE {0}
            BY <1>0 DEF RecordersOpen
        <3>2. opens'[r] = IF r \in some THEN opens[r] + 1 ELSE opens[r]
            BY <2>3
        <3>3. CASE r \notin some
            BY <1>0, <2>4, <3>1, <3>2, <3>3
        <3>4. CASE r \in some
            <4>1. r \in InMap /\ opens[r] \in 0 .. 1 + retries /\ opens'[r] = opens[r] + 1
                BY <3>1, <3>2, <3>4
            <4>2. CASE opens[r] > 0
                BY <1>0, <2>4, <4>1, <4>2
            <4>3. CASE ~ (opens[r] > 0)
                BY <1>0, <2>4, <4>1, <4>3
            <4> QED
                BY <4>2, <4>3
        <3> QED
            BY <3>3, <3>4
    <2> QED
        BY <2>2, <2>5 DEF RecordersOpen
<1>5. CASE DestroyRecorders
    BY <1>0, <1>5 DEF DestroyRecorders, RecordersOpen
<1>6. CASE SetupDispatcherFails
    BY <1>0, <1>1, <1>6, SetupRetries DEF SetupDispatcherFails, SetupInv, OneOwner
<1>7. ASSUME \/ SetBufferPool \/ SetModules \/ AddModulesFails \/ RegisterPlaceholder
             \/ \E m \in Modules : AddModule(m)
             \/ \E format \in Formats : SetLogFormat(format)
             \/ \E f \in Filters : AddFilter(f)
             \/ \E c \in Channels : SetChannel(c)
             \/ \E d \in Dispatchers : SetDispatcher(d)
             \/ DestroyBegin \/ DestroyDispatcher \/ DestroyChannel
             \/ DestroyFilters \/ DestroyRest
      PROVE  RecordersOpen'
    <2>1. UNCHANGED <<recorders, opens, retries>>
        BY <1>7 DEF SetBufferPool, SetModules, AddModulesFails, AddModule, SetModuleMap,
            RegisterPlaceholder, SetLogFormat, SetFormatter, AddFilter, SetChannel, SetDispatcher,
            DestroyBegin, DestroyDispatcher, DestroyChannel, DestroyFilters, DestroyRest
    <2> QED
        BY <1>0, <1>1, <2>1
<1> QED
    BY <1>2, <1>3, <1>4, <1>5, <1>6, <1>7 DEF Next

\* Each action, by what it opens and closes.
LEMMA OpenKept ==
    ASSUME SetupInv, SetupTypeOK', Next
    PROVE  OpenIsHeld' /\ LostAreRetries'
<1> USE DEF Configure, configVars, objectVars, historyVars
<1>0. /\ SetupTypeOK /\ OpenIsHeld /\ LostAreRetries
      /\ ChannelsOpen /\ DispatchersOpen /\ retries \in Nat
    BY OpenParts DEF SetupInv, OneOwner, SetupTypeOK
<1>1. ASSUME UNCHANGED <<channel, chan, retries>> PROVE ChannelsOpen'
    BY <1>0, <1>1, QueuesAndThreads DEF ChannelsOpen
<1>2. ASSUME UNCHANGED <<dispatcher, disp, retries>> PROVE DispatchersOpen'
    BY <1>0, <1>2, QueuesAndThreads DEF DispatchersOpen
<1>3. ASSUME SetupDispatcherFails PROVE ChannelsOpen' /\ DispatchersOpen'
    <2>1. MaySetup /\ UNCHANGED <<channel, dispatcher>> /\ chan' = OpenChannel(channel)
        BY <1>3 DEF SetupDispatcherFails
    <2>2. PICK extra \in {disp[dispatcher].extra, FALSE} :
            disp' = [disp EXCEPT ![dispatcher].channel = channel, ![dispatcher].extra = extra]
        BY <1>3 DEF SetupDispatcherFails
    <2> QED
        BY <1>0, <2>1, <2>2, ChannelOpens, DispatcherFails
<1>4. ASSUME SetupRecorderFails \/ SetupSucceeds PROVE ChannelsOpen' /\ DispatchersOpen'
    <2>1. /\ MaySetup /\ UNCHANGED <<channel, dispatcher>> /\ chan' = OpenChannel(channel)
          /\ disp' = OpenDispatcher(dispatcher)
        BY <1>4 DEF SetupRecorderFails, SetupSucceeds
    <2> QED
        BY <1>0, <2>1, ChannelOpens, DispatcherOpens
<1>5. ASSUME DestroyChannel \/ \E c \in Channels : SetChannel(c)
      PROVE  ChannelsOpen' /\ DispatchersOpen'
    <2>1. /\ chan' = IF channel = NULL THEN chan ELSE CloseChannel(channel)
          /\ UNCHANGED <<dispatcher, disp, retries>>
        BY <1>5 DEF DestroyChannel, SetChannel
    <2> QED
        BY <1>0, <1>2, <2>1, ChannelCloses
<1>6. ASSUME DestroyDispatcher \/ \E d \in Dispatchers : SetDispatcher(d)
      PROVE  ChannelsOpen' /\ DispatchersOpen'
    <2>1. /\ disp' = IF dispatcher = NULL THEN disp ELSE CloseDispatcher(dispatcher)
          /\ UNCHANGED <<channel, chan, retries>>
        BY <1>6 DEF DestroyDispatcher, SetDispatcher
    <2> QED
        BY <1>0, <1>1, <2>1, DispatcherCloses
<1>7. ASSUME \/ SetBufferPool \/ SetModules \/ AddModulesFails \/ RegisterPlaceholder
             \/ \E m \in Modules : AddModule(m)
             \/ \E format \in Formats : SetLogFormat(format)
             \/ \E f \in Filters : AddFilter(f)
             \/ \E r \in Recorders : AddRecorder(r) \/ AddRecorderNoKey(r) \/ AddRecorderNoEntry(r)
             \/ DestroyBegin \/ DestroyRecorders \/ DestroyFilters \/ DestroyRest
      PROVE  ChannelsOpen' /\ DispatchersOpen'
    <2>1. UNCHANGED <<channel, chan, dispatcher, disp, retries>>
        BY <1>7 DEF SetBufferPool, SetModules, AddModulesFails, AddModule, SetModuleMap,
            RegisterPlaceholder, SetLogFormat, SetFormatter, AddFilter,
            AddRecorder, AddRecorderNoKey, AddRecorderNoEntry,
            DestroyBegin, DestroyRecorders, DestroyFilters, DestroyRest
    <2> QED
        BY <1>1, <1>2, <2>1
<1>8. ChannelsOpen' /\ DispatchersOpen'
    BY <1>3, <1>4, <1>5, <1>6, <1>7 DEF Next
<1> QED
    BY <1>8, RecordersKept, OpenParts

--------------------------------------------------------------------------------
(* The life of the context                                                  *)

\* Preparing the placeholders leaves the interpolator alone.
LEMMA InterpolatorStays ==
    ASSUME SetupTypeOK, NEW i \in Formats \cup {NULL},
           NEW f \in InitInterpolator([formatter EXCEPT !.interpolator = i])
    PROVE  /\ f.interpolator = i
           /\ \A j \in Formats \cup {NULL} : [f EXCEPT !.interpolator = j].interpolator = j
BY DEF SetupTypeOK, InitInterpolator

\* Calls before setup, failed setups among them.
LEMMA ConfigureKeeps ==
    ASSUME SetupInv, SetupTypeOK',
           \/ SetBufferPool \/ SetModules \/ AddModulesFails \/ RegisterPlaceholder
           \/ \E m \in Modules : AddModule(m)
           \/ \E format \in Formats : SetLogFormat(format)
           \/ \E f \in Filters : AddFilter(f)
           \/ \E c \in Channels : SetChannel(c)
           \/ \E d \in Dispatchers : SetDispatcher(d)
           \/ \E r \in Recorders : AddRecorder(r) \/ AddRecorderNoKey(r) \/ AddRecorderNoEntry(r)
           \/ SetupDispatcherFails \/ SetupRecorderFails
    PROVE  SetupDone' /\ TakenDown'
<1> USE DEF Configure, configVars, objectVars, historyVars
<1>0. SetupTypeOK
    BY DEF SetupInv, OneOwner
<1>1. state = "CREATED" /\ state' = "CREATED" /\ step' = step
    BY DEF SetBufferPool, SetModules, AddModulesFails, AddModule, SetModuleMap,
        RegisterPlaceholder, SetLogFormat, SetFormatter, AddFilter, SetChannel, SetDispatcher,
        AddRecorder, AddRecorderNoKey, AddRecorderNoEntry,
        SetupDispatcherFails, SetupRecorderFails, MaySetup
<1>2. TakenDown'
    BY <1>1 DEF SetupInv, TakenDown
<1>3. formatter.interpolator \in {NULL, asked} /\ formatter.interpolator \in Formats \cup {NULL}
    BY <1>0, <1>1 DEF SetupInv, SetupDone, SetupTypeOK
<1>4. formatter = [formatter EXCEPT !.interpolator = formatter.interpolator]
    BY <1>0 DEF SetupTypeOK
<1>5. formatter'.interpolator \in {NULL, asked'}
    <2>1. CASE RegisterPlaceholder
        BY <1>0, <1>3, <1>4, <2>1, InterpolatorStays DEF RegisterPlaceholder, SetFormatter
    <2>2. ASSUME NEW format \in Formats, SetLogFormat(format)
          PROVE  formatter'.interpolator \in {NULL, asked'}
        <3>1. PICK f \in InitInterpolator([formatter EXCEPT !.interpolator = NULL]) :
                \/ formatter' = f
                \/ formatter' = [f EXCEPT !.interpolator = format]
            BY <2>2 DEF SetLogFormat, SetFormatter
        <3>2. asked' = format
            BY <2>2 DEF SetLogFormat
        <3> QED
            BY <1>0, <3>1, <3>2, InterpolatorStays
    <2>3. CASE UNCHANGED <<formatter, asked>>
        BY <1>3, <2>3
    <2> QED
        BY <2>1, <2>2, <2>3 DEF SetBufferPool, SetModules, AddModulesFails, AddModule, SetModuleMap,
            AddFilter, SetChannel, SetDispatcher,
            AddRecorder, AddRecorderNoKey, AddRecorderNoEntry,
            SetupDispatcherFails, SetupRecorderFails
<1> QED
    BY <1>1, <1>2, <1>5 DEF SetupDone

\* The setup that succeeds.
LEMMA SetupKeepsLife ==
    ASSUME SetupInv, SetupTypeOK', SetupSucceeds
    PROVE  SetupDone' /\ TakenDown'
<1> USE DEF configVars, objectVars, historyVars
<1>0. SetupTypeOK /\ OpenIsHeld /\ LostAreRetries
    BY DEF SetupInv, OneOwner
<1>1. /\ MaySetup /\ state = "CREATED" /\ state' = "RUNNING"
      /\ UNCHANGED <<step, modules, channel, dispatcher, recorders, filters, asked>>
      /\ modules # NULL /\ channel # NULL /\ dispatcher # NULL /\ formatter.interpolator # NULL
      /\ chan' = OpenChannel(channel) /\ disp' = OpenDispatcher(dispatcher)
    BY DEF SetupSucceeds, MaySetup
<1>2. TakenDown'
    BY <1>1 DEF SetupInv, TakenDown
<1>3. formatter.interpolator = asked
    BY <1>1 DEF SetupInv, SetupDone
<1>4. formatter' = [map |-> FALSE, context |-> FALSE, interpolator |-> asked]
    BY <1>0, <1>3 DEF SetupSucceeds, SetupTypeOK
<1>5. /\ chan'[channel].param
      /\ disp'[dispatcher].extra /\ disp'[dispatcher].channel = channel
    BY <1>0, <1>1, ChannelOpens, DispatcherOpens
<1>6. InMap' = InMap /\ InMap \subseteq Recorders
    BY <1>0, <1>1, HeldKinds DEF InMap, RecorderMap, NoRecorders
<1>7. \A r \in InMap : opens'[r] # 0
    <2>1. \A r \in Recorders : opens[r] \in Nat
        BY <1>0 DEF SetupTypeOK
    <2>2. \A r \in InMap : opens'[r] = opens[r] + 1
        BY <1>6 DEF SetupSucceeds
    <2> QED
        BY <1>6, <2>1, <2>2
<1> QED
    BY <1>1, <1>2, <1>4, <1>5, <1>6, <1>7 DEF SetupDone

\* Destroy, component by component.
LEMMA DestroyKeeps ==
    ASSUME SetupInv, SetupTypeOK',
           \/ DestroyBegin \/ DestroyDispatcher \/ DestroyChannel
           \/ DestroyRecorders \/ DestroyFilters \/ DestroyRest
    PROVE  SetupDone' /\ TakenDown'
<1> USE DEF configVars, objectVars, historyVars
<1>1. TakenDown /\ SetupTypeOK
    BY DEF SetupInv, OneOwner
<1>2. state' \in {"STOPPING", "DESTROYED", "FREED"}
    BY <1>1 DEF TakenDown, SetupTypeOK, DestroyBegin, DestroyDispatcher, DestroyChannel,
        DestroyRecorders, DestroyFilters, DestroyRest
<1>3. SetupDone'
    BY <1>2 DEF SetupDone
<1>4. /\ step = "dispatcher" \/ step = "channel" \/ step = "recorders" => state = "STOPPING"
      /\ step = "filters" \/ step = "rest" => state = "DESTROYED"
    BY <1>1 DEF TakenDown, SetupTypeOK
<1>5. CASE DestroyBegin
    <2>1. state' = "STOPPING" /\ step' = "dispatcher"
        BY <1>5 DEF DestroyBegin
    <2> QED
        BY <1>3, <2>1 DEF TakenDown
<1>6. CASE DestroyDispatcher
    <2>1. state' = "STOPPING" /\ step' = "channel" /\ dispatcher' = NULL
        BY <1>4, <1>6 DEF DestroyDispatcher
    <2> QED
        BY <1>3, <2>1 DEF TakenDown
<1>7. CASE DestroyChannel
    <2>1. /\ state' = "STOPPING" /\ step' = "recorders" /\ channel' = NULL
          /\ dispatcher' = NULL
        BY <1>1, <1>4, <1>7 DEF DestroyChannel, TakenDown
    <2> QED
        BY <1>3, <2>1 DEF TakenDown
<1>8. CASE DestroyRecorders
    <2>1. /\ state' = "DESTROYED" /\ step' = "filters" /\ recorders' = NULL
          /\ dispatcher' = NULL /\ channel' = NULL
        BY <1>1, <1>8 DEF DestroyRecorders, TakenDown
    <2> QED
        BY <1>3, <2>1 DEF TakenDown
<1>9. CASE DestroyFilters
    <2>1. /\ state' = "DESTROYED" /\ step' = "rest" /\ filters' = [t \in Types |-> <<>>]
          /\ dispatcher' = NULL /\ channel' = NULL /\ recorders' = NULL
        BY <1>1, <1>4, <1>9 DEF DestroyFilters, TakenDown
    <2> QED
        BY <1>3, <2>1 DEF TakenDown
<1>10. CASE DestroyRest
    <2>1. /\ state' = "FREED" /\ step' = "none" /\ \A t \in Types : filters'[t] = <<>>
          /\ dispatcher' = NULL /\ channel' = NULL /\ recorders' = NULL
        BY <1>1, <1>10 DEF DestroyRest, TakenDown
    <2> QED
        BY <1>3, <2>1 DEF TakenDown
<1> QED
    BY <1>5, <1>6, <1>7, <1>8, <1>9, <1>10

--------------------------------------------------------------------------------
(* The filters' order                                                       *)

\* When a filter was added.
When(s, f) == CHOOSE i \in 1 .. Len(s) : s[i] = f
Distinct(s) == \A i, j \in 1 .. Len(s) : s[i] = s[j] => i = j

\* A filter that was added was added at some time.
LEMMA WhenFacts ==
    ASSUME NEW s \in Seq(Filters), NEW f \in Range(s)
    PROVE  When(s, f) \in 1 .. Len(s) /\ s[When(s, f)] = f
<1>1. \E i \in 1 .. Len(s) : s[i] = f
    BY DEF Range
<1> QED
    BY <1>1 DEF When

\* One filter more changes nothing for the others and comes last itself.
LEMMA WhenAdded ==
    ASSUME NEW s \in Seq(Filters), Distinct(s), NEW f \in Filters, f \notin Range(s)
    PROVE  /\ Distinct(Append(s, f)) /\ Append(s, f) \in Seq(Filters)
           /\ Range(Append(s, f)) = Range(s) \cup {f}
           /\ When(Append(s, f), f) = Len(s) + 1
           /\ \A g \in Range(s) : When(Append(s, f), g) = When(s, g)
<1> DEFINE r == Append(s, f)
<1>1. /\ r \in Seq(Filters) /\ Len(r) = Len(s) + 1 /\ r[Len(s) + 1] = f
      /\ \A i \in 1 .. Len(s) : r[i] = s[i]
      /\ Len(s) \in Nat
    OBVIOUS
<1>2. Range(r) = {r[i] : i \in 1 .. Len(r)} /\ Range(s) = {s[i] : i \in 1 .. Len(s)}
    <2>1. DOMAIN r = 1 .. Len(r) /\ DOMAIN s = 1 .. Len(s)
        BY <1>1
    <2> QED
        BY <2>1 DEF Range
<1> HIDE DEF r
<1>3. \A i \in 1 .. Len(r) : i \in 1 .. Len(s) \/ i = Len(s) + 1
    BY <1>1
<1>4. \A i \in 1 .. Len(s) : i \in 1 .. Len(r) /\ s[i] # f
    BY <1>1, <1>2
<1>5. Len(s) + 1 \in 1 .. Len(r)
    BY <1>1
<1>6. Range(r) = Range(s) \cup {f}
    <2>1. Range(r) \subseteq Range(s) \cup {f}
        BY <1>1, <1>2, <1>3
    <2>2. Range(s) \subseteq Range(r)
        BY <1>1, <1>2, <1>4
    <2>3. f \in Range(r)
        BY <1>1, <1>2, <1>5
    <2> QED
        BY <2>1, <2>2, <2>3
<1>7. Distinct(r)
    <2> SUFFICES ASSUME NEW i \in 1 .. Len(r), NEW j \in 1 .. Len(r), r[i] = r[j] PROVE i = j
        BY DEF Distinct
    <2>1. CASE i \in 1 .. Len(s) /\ j \in 1 .. Len(s)
        BY <1>1, <2>1 DEF Distinct
    <2>2. CASE i = Len(s) + 1 \/ j = Len(s) + 1
        BY <1>1, <1>3, <1>4, <2>2
    <2> QED
        BY <1>3, <2>1, <2>2
<1>8. ASSUME NEW g \in Range(r) PROVE When(r, g) \in 1 .. Len(r) /\ r[When(r, g)] = g
    BY <1>1, WhenFacts
<1>9. When(r, f) = Len(s) + 1
    BY <1>1, <1>5, <1>6, <1>7, <1>8 DEF Distinct
<1>10. ASSUME NEW g \in Range(s) PROVE When(r, g) = When(s, g)
    <2>1. When(s, g) \in 1 .. Len(s) /\ s[When(s, g)] = g
        BY WhenFacts
    <2>2. When(r, g) \in 1 .. Len(r) /\ r[When(r, g)] = g
        BY <1>6, <1>8
    <2> QED
        BY <1>1, <1>4, <1>7, <2>1, <2>2 DEF Distinct
<1> QED
    BY <1>1, <1>6, <1>7, <1>9, <1>10 DEF r

\* By priority, and among equals by when they were added.
Before(s, f, g) ==
    \/ Priority[f] < Priority[g]
    \/ Priority[f] = Priority[g] /\ When(s, f) < When(s, g)

ChainInOrder(chain, s) == \A i, j \in 1 .. Len(chain) : i < j => Before(s, chain[i], chain[j])

ChainsInOrder ==
    \A t \in Types :
        /\ Distinct(added[t]) /\ Range(added[t]) \cap own = {}
        /\ state = "CREATED" => Range(filters[t]) = Range(added[t])
        /\ filters[t] # <<>> => Range(filters[t]) = Range(added[t])
        /\ ChainInOrder(filters[t], added[t])

\* The order of the chains, in this state and in the next.
LEMMA ChainParts ==
    /\ AddedOnce /\ FiltersInOrder <=> ChainsInOrder
    /\ AddedOnce' /\ FiltersInOrder' <=> ChainsInOrder'
BY DEF AddedOnce, FiltersInOrder, ChainsInOrder, ChainInOrder, Before, When, Distinct

\* clog_add_filter_to_chain keeps the order.
LEMMA InsertInOrder ==
    ASSUME NEW chain \in Seq(Filters), NEW s \in Seq(Filters), Distinct(s),
           Range(chain) = Range(s), ChainInOrder(chain, s),
           NEW f \in Filters, f \notin Range(s)
    PROVE  ChainInOrder(AddToChain(chain, f), Append(s, f))
<1> DEFINE r == Append(s, f)
<1>1. /\ Range(r) = Range(s) \cup {f} /\ When(r, f) = Len(s) + 1
      /\ \A g \in Range(s) : When(r, g) = When(s, g)
      /\ Len(s) \in Nat
    BY WhenAdded
<1>2. ASSUME NEW k \in 1 .. Len(chain)
      PROVE  /\ chain[k] \in Range(s) /\ When(r, chain[k]) = When(s, chain[k])
             /\ When(s, chain[k]) \in 1 .. Len(s) /\ Priority[chain[k]] \in Nat
    <2>1. chain[k] \in Range(s) /\ chain[k] \in Filters
        <3>1. DOMAIN chain = 1 .. Len(chain) /\ chain[k] \in Filters
            OBVIOUS
        <3>2. chain[k] \in Range(chain)
            BY <3>1 DEF Range
        <3> QED
            BY <3>1, <3>2
    <2> QED
        BY <1>1, <2>1, WhenFacts, SetupAssumption
<1>3. PICK p \in 1 .. Len(chain) + 1 :
        /\ AddToChain(chain, f) = InsertAt(chain, p, f)
        /\ \A k \in 1 .. p - 1 : Priority[chain[k]] <= Priority[f]
        /\ p <= Len(chain) => Priority[f] < Priority[chain[p]]
    BY ChainPlace
<1>4. PICK c : c = InsertAt(chain, p, f)
    OBVIOUS
<1>5. /\ Len(c) = Len(chain) + 1 /\ c[p] = f
      /\ \A k \in 1 .. p - 1 : c[k] = chain[k]
      /\ \A k \in p + 1 .. Len(chain) + 1 : c[k] = chain[k - 1]
    <2>1. Inserted(chain, p, f, InsertAt(chain, p, f))
        BY ONLY chain \in Seq(Filters), f \in Filters, p \in 1 .. Len(chain) + 1, InsertFacts
    <2> QED
        BY <1>4, <2>1 DEF Inserted
<1>6. Priority[f] \in Nat /\ Len(chain) \in Nat
    BY SetupAssumption
<1> HIDE DEF r
<1>7. ASSUME NEW i \in 1 .. Len(chain), NEW j \in 1 .. Len(chain), i < j
      PROVE  Before(r, chain[i], chain[j])
    BY <1>2, <1>7 DEF ChainInOrder, Before
<1>8. ASSUME NEW i \in 1 .. p - 1 PROVE Before(r, chain[i], f)
    <2>1. i \in 1 .. Len(chain)
        BY <1>6
    <2>2. Priority[chain[i]] <= Priority[f] /\ When(r, chain[i]) < When(r, f)
        BY <1>1, <1>2, <1>3, <2>1
    <2> QED
        BY <1>2, <1>6, <2>1, <2>2 DEF Before
<1>9. ASSUME NEW j \in p .. Len(chain) PROVE Before(r, f, chain[j])
    <2>1. p \in 1 .. Len(chain) /\ j \in 1 .. Len(chain)
        BY <1>6
    <2>2. Priority[f] < Priority[chain[p]]
        BY <1>3, <2>1
    <2>3. Priority[chain[p]] <= Priority[chain[j]]
        <3>1. CASE p = j
            BY <1>2, <2>1, <3>1
        <3>2. CASE p < j
            <4>1. Before(r, chain[p], chain[j])
                BY <1>7, <2>1, <3>2
            <4> QED
                BY <1>2, <2>1, <4>1 DEF Before
        <3> QED
            BY <2>1, <3>1, <3>2
    <2>4. Priority[f] < Priority[chain[j]]
        BY <1>2, <1>6, <2>1, <2>2, <2>3
    <2> QED
        BY <2>4 DEF Before
<1>10. ASSUME NEW i \in 1 .. Len(c), NEW j \in 1 .. Len(c), i < j PROVE Before(r, c[i], c[j])
    <2>1. CASE j < p
        <3>1. i \in 1 .. p - 1 /\ j \in 1 .. p - 1 /\ i \in 1 .. Len(chain) /\ j \in 1 .. Len(chain)
            BY <1>5, <1>6, <1>10, <2>1
        <3> QED
            BY <1>5, <1>7, <1>10, <3>1
    <2>2. CASE j = p
        <3>1. i \in 1 .. p - 1
            BY <1>10, <2>2
        <3> QED
            BY <1>5, <1>8, <2>2, <3>1
    <2>3. CASE j > p /\ i < p
        <3>1. i \in 1 .. p - 1 /\ j \in p + 1 .. Len(chain) + 1
            BY <1>5, <1>6, <2>3
        <3>2. i \in 1 .. Len(chain) /\ j - 1 \in 1 .. Len(chain) /\ i < j - 1
            BY <1>6, <2>3, <3>1
        <3>3. c[i] = chain[i] /\ c[j] = chain[j - 1]
            BY <1>5, <3>1
        <3> QED
            BY <1>7, <3>2, <3>3
    <2>4. CASE i = p
        <3>1. j \in p + 1 .. Len(chain) + 1 /\ j - 1 \in p .. Len(chain)
            BY <1>5, <1>6, <1>10, <2>4
        <3>2. c[i] = f /\ c[j] = chain[j - 1]
            BY <1>5, <2>4, <3>1
        <3> QED
            BY <1>9, <3>1, <3>2
    <2>5. CASE i > p
        <3>1. i \in p + 1 .. Len(chain) + 1 /\ j \in p + 1 .. Len(chain) + 1
            BY <1>5, <1>6, <1>10, <2>5
        <3>2. i - 1 \in 1 .. Len(chain) /\ j - 1 \in 1 .. Len(chain) /\ i - 1 < j - 1
            BY <1>6, <1>10, <3>1
        <3>3. c[i] = chain[i - 1] /\ c[j] = chain[j - 1]
            BY <1>5, <3>1
        <3> QED
            BY <1>7, <3>2, <3>3
    <2> QED
        BY <1>5, <1>6, <1>10, <2>1, <2>2, <2>3, <2>4, <2>5
<1>11. ChainInOrder(c, r)
    BY <1>10 DEF ChainInOrder
<1> QED
    BY <1>3, <1>4, <1>11 DEF r

\* Each action: a chain changes when a filter is added and when all are freed.
LEMMA ChainsKept ==
    ASSUME SetupInv, SetupTypeOK', Next
    PROVE  AddedOnce' /\ FiltersInOrder'
<1> USE DEF Configure, configVars, objectVars, historyVars
<1>0. Owners /\ SetupTypeOK /\ ChainsInOrder
    BY ChainParts DEF SetupInv, Owners, OneOwner
<1>1. ASSUME own' \subseteq own, UNCHANGED <<filters, added>>, state' = "CREATED" => state = "CREATED"
      PROVE  ChainsInOrder'
    BY <1>0, <1>1 DEF ChainsInOrder
<1>2. ASSUME NEW f \in Filters, AddFilter(f) PROVE ChainsInOrder'
    <2> DEFINE t == FilterType[f]
    <2>1. /\ state = "CREATED" /\ f \in own /\ own' = own \ {f}
          /\ filters' = [filters EXCEPT ![t] = AddToChain(filters[t], f)]
          /\ added' = [added EXCEPT ![t] = Append(added[t], f)]
        BY <1>2 DEF AddFilter
    <2>2. t \in Types /\ filters \in [Types -> Seq(Filters)] /\ added \in [Types -> Seq(Filters)]
        BY <1>0, SetupAssumption DEF SetupTypeOK
    <2>3. Range(filters'[t]) = Range(filters[t]) \cup {f}
        BY <1>0, <1>2, FilterHandedOver
    <2> HIDE DEF t
    <2>4. /\ filters'[t] = AddToChain(filters[t], f) /\ added'[t] = Append(added[t], f)
          /\ \A u \in Types \ {t} : filters'[u] = filters[u] /\ added'[u] = added[u]
        BY <2>1, <2>2
    <2>5. /\ Distinct(added[t]) /\ Range(added[t]) \cap own = {}
          /\ Range(filters[t]) = Range(added[t]) /\ ChainInOrder(filters[t], added[t])
          /\ f \notin Range(added[t])
          /\ filters[t] \in Seq(Filters) /\ added[t] \in Seq(Filters)
        BY <1>0, <2>1, <2>2 DEF ChainsInOrder
    <2>6. Distinct(added'[t]) /\ Range(added'[t]) = Range(added[t]) \cup {f}
        BY <2>4, <2>5, WhenAdded
    <2>7. ChainInOrder(filters'[t], added'[t])
        BY <2>4, <2>5, InsertInOrder
    <2>8. ASSUME NEW u \in Types
          PROVE  /\ Distinct(added'[u]) /\ Range(added'[u]) \cap own' = {}
                 /\ state' = "CREATED" => Range(filters'[u]) = Range(added'[u])
                 /\ filters'[u] # <<>> => Range(filters'[u]) = Range(added'[u])
                 /\ ChainInOrder(filters'[u], added'[u])
        <3>1. CASE u = t
            BY <2>1, <2>3, <2>5, <2>6, <2>7, <3>1
        <3>2. CASE u # t
            BY <1>0, <2>1, <2>4, <3>2 DEF ChainsInOrder
        <3> QED
            BY <3>1, <3>2
    <2> QED
        BY <2>8 DEF ChainsInOrder
<1>3. ASSUME DestroyFilters PROVE ChainsInOrder'
    <2>1. /\ filters' = [t \in Types |-> <<>>] /\ own' = own /\ added' = added
          /\ state' = state
        BY <1>3 DEF DestroyFilters
    <2>2. state # "CREATED"
        BY <1>3 DEF DestroyFilters, SetupInv, TakenDown
    <2>3. \A t \in Types : filters'[t] = <<>> /\ ChainInOrder(filters'[t], added'[t])
        BY <2>1 DEF ChainInOrder
    <2> QED
        BY <1>0, <2>1, <2>2, <2>3 DEF ChainsInOrder
<1>4. ASSUME \/ SetBufferPool \/ SetModules \/ AddModulesFails \/ RegisterPlaceholder
             \/ \E m \in Modules : AddModule(m)
             \/ \E format \in Formats : SetLogFormat(format)
             \/ \E c \in Channels : SetChannel(c)
             \/ \E d \in Dispatchers : SetDispatcher(d)
             \/ \E r \in Recorders : AddRecorder(r) \/ AddRecorderNoKey(r) \/ AddRecorderNoEntry(r)
      PROVE  ChainsInOrder'
    <2>1. own' \subseteq own /\ UNCHANGED <<filters, added, state>>
        BY <1>4 DEF SetBufferPool, SetModules, AddModulesFails, AddModule, SetModuleMap,
            RegisterPlaceholder, SetLogFormat, SetFormatter, SetChannel, SetDispatcher,
            AddRecorder, AddRecorderNoKey, AddRecorderNoEntry
    <2> QED
        BY <1>1, <2>1
<1>5. ASSUME \/ SetupDispatcherFails \/ SetupRecorderFails \/ SetupSucceeds
             \/ DestroyBegin \/ DestroyDispatcher \/ DestroyChannel
             \/ DestroyRecorders \/ DestroyRest
      PROVE  ChainsInOrder'
    <2>1. own' = own /\ UNCHANGED <<filters, added>> /\ (state' = "CREATED" => state = "CREATED")
        BY <1>5 DEF SetupDispatcherFails, SetupRecorderFails, SetupSucceeds, DestroyBegin,
            DestroyDispatcher, DestroyChannel, DestroyRecorders, DestroyRest
    <2> QED
        BY <1>1, <2>1
<1>6. ChainsInOrder'
    BY <1>2, <1>3, <1>4, <1>5 DEF Next
<1> QED
    BY <1>6, ChainParts

--------------------------------------------------------------------------------
(* The theorems                                                             *)

\* A new context.
LEMMA SetupInitInv == Init => SetupInv
<1> SUFFICES ASSUME Init PROVE SetupInv
    OBVIOUS
<1>1. SetupTypeOK
    <2>1. filters = [t \in Types |-> <<>>] /\ added = [t \in Types |-> <<>>]
        BY DEF Init
    <2>2. filters \in [Types -> Seq(Filters)] /\ added \in [Types -> Seq(Filters)]
        BY <2>1
    <2>3. heap = Objects /\ own = Objects /\ params = Filters /\ retries = 0 /\ retries \in 0 .. MaxRetries
        BY SetupAssumption DEF Init
    <2>4. /\ chan \in [Channels -> [param : BOOLEAN, queues : Nat]]
          /\ disp \in [Dispatchers ->
                        [extra : BOOLEAN, threads : Nat, channel : Channels \cup {NULL}]]
          /\ opens \in [Recorders -> Nat]
        BY DEF Init
    <2>5. formatter \in [map : BOOLEAN, context : BOOLEAN, interpolator : Formats \cup {NULL}]
        BY DEF Init
    <2> QED
        BY <2>2, <2>3, <2>4, <2>5 DEF Init, SetupTypeOK
<1>2. /\ Held = ({channel, dispatcher} \cup InMap \cup Chained) \ {NULL}
      /\ NULL \notin Objects
    BY <1>1, HeldKinds
<1>3. RecorderMap = [id \in Ids |-> NULL]
    BY DEF Init, RecorderMap, NoRecorders
<1>4. InMap = {} /\ ById
    BY <1>3 DEF InMap, ById
<1>5. Chained = {}
    BY DEF Init, Chained, Range
<1>6. OneOwner
    BY <1>1, <1>2, <1>4, <1>5 DEF Init, OneOwner
<1>7. ParamsOwned
    BY DEF Init, ParamsOwned, Objects
<1>8. Queues = 0 /\ Threads = 0
    <2>1. chan \in ChanTypes /\ disp \in DispTypes
        BY <1>1 DEF SetupTypeOK, ChanTypes, DispTypes
    <2>2. IsFiniteSet(Channels) /\ IsFiniteSet(Dispatchers)
        BY SetupAssumption
    <2> DEFINE p == [c \in Channels |-> chan[c].queues]
               q == [d \in Dispatchers |-> disp[d].threads]
    <2>3. /\ p \in [Channels -> Nat] /\ Queues = SumOf(Channels, p)
          /\ q \in [Dispatchers -> Nat] /\ Threads = SumOf(Dispatchers, q)
        BY <2>1, QueuesSum, ThreadsSum, QueuesAndThreads
    <2>4. (\A c \in Channels : p[c] = 0) /\ \A d \in Dispatchers : q[d] = 0
        BY DEF Init
    <2> HIDE DEF p, q
    <2> QED
        BY <2>2, <2>3, <2>4, SumFacts
<1>9. OpenIsHeld
    BY <1>4 DEF Init, OpenIsHeld
<1>10. LostAreRetries
    BY <1>8 DEF Init, LostAreRetries
<1>11. SetupDone /\ TakenDown
    BY DEF Init, SetupDone, TakenDown
<1>12. ChainsInOrder
    BY DEF Init, ChainsInOrder, ChainInOrder, Distinct, Range
<1> QED
    BY <1>4, <1>6, <1>7, <1>9, <1>10, <1>11, <1>12, ChainParts DEF SetupInv

\* A step that changes nothing.
LEMMA SetupStuttersInv == SetupInv /\ UNCHANGED vars => SetupInv'
<1> SUFFICES ASSUME SetupInv, UNCHANGED vars PROVE SetupInv'
    OBVIOUS
<1> USE DEF vars, configVars, objectVars, historyVars
<1>1. RecorderMap' = RecorderMap
    BY DEF RecorderMap, NoRecorders
<1>2. InMap' = InMap /\ Chained' = Chained
    BY <1>1 DEF InMap, Chained
<1>3. Held' = Held
    BY <1>1, <1>2 DEF Held, InMap
<1>4. SetupTypeOK'
    BY DEF SetupInv, OneOwner, SetupTypeOK
<1>5. OneOwner' /\ ParamsOwned' /\ ById'
    BY <1>1, <1>2, <1>3, <1>4 DEF SetupInv, OneOwner, ParamsOwned, ById
<1>6. Queues' = Queues /\ Threads' = Threads
    BY QueuesAndThreads
<1>7. OpenIsHeld' /\ LostAreRetries'
    BY <1>2, <1>6 DEF SetupInv, OpenIsHeld, LostAreRetries
<1>8. SetupDone' /\ TakenDown'
    BY <1>2 DEF SetupInv, SetupDone, TakenDown
<1>9. AddedOnce' /\ FiltersInOrder'
    <2>1. ChainsInOrder
        BY ChainParts DEF SetupInv
    <2>2. ChainsInOrder'
        BY <2>1 DEF ChainsInOrder
    <2> QED
        BY <2>2, ChainParts
<1> QED
    BY <1>5, <1>7, <1>8, <1>9 DEF SetupInv

\* For any objects, modules, formats and number of repeated setups.
THEOREM SetupInvariance == Spec => []SetupInv
<1>1. SetupInv /\ [Next]_vars => SetupInv'
    <2> SUFFICES ASSUME SetupInv, [Next]_vars PROVE SetupInv'
        OBVIOUS
    <2>1. CASE UNCHANGED vars
        BY <2>1, SetupStuttersInv
    <2>2. CASE Next
        <3>1. SetupTypeOK /\ OpenIsHeld
            BY DEF SetupInv, OneOwner
        <3>2. SetupTypeOK'
            BY <2>2, <3>1, ConfigureTypes, HandOverTypes, LifeTypes DEF Next
        <3>3. Owners' /\ OpenIsHeld' /\ LostAreRetries' /\ AddedOnce' /\ FiltersInOrder'
            BY <2>2, <3>2, OwnersKept, OpenKept, ChainsKept
        <3>4. SetupDone' /\ TakenDown'
            BY <2>2, <3>2, ConfigureKeeps, SetupKeepsLife, DestroyKeeps DEF Next
        <3> QED
            BY <3>3, <3>4 DEF SetupInv, Owners
    <2> QED
        BY <2>1, <2>2
<1> QED
    BY <1>1, SetupInitInv, PTL DEF Spec

\* Every object is the context's or the application's, never both's.
THEOREM OneOwnerAlways == Spec => []OneOwner
<1>1. SetupInv => OneOwner
    BY DEF SetupInv
<1> QED
    BY <1>1, SetupInvariance, PTL

\* The chains stand by priority and by when their filters were added.
THEOREM FiltersStayInOrder == Spec => []FiltersInOrder
<1>1. SetupInv => FiltersInOrder
    BY DEF SetupInv
<1> QED
    BY <1>1, SetupInvariance, PTL

\* A setup that succeeded has left everything in place.
THEOREM SetupCompletes == Spec => []RunningIsComplete
<1>1. SetupInv => RunningIsComplete
    <2> SUFFICES ASSUME SetupInv, state = "RUNNING" PROVE RunningIsComplete
        BY DEF RunningIsComplete
    <2>1. SetupTypeOK /\ OpenIsHeld /\ LostAreRetries /\ retries \in Nat
        BY DEF SetupInv, OneOwner, SetupTypeOK
    <2>2. /\ modules # NULL
          /\ formatter = [map |-> FALSE, context |-> FALSE, interpolator |-> asked]
          /\ channel \in Channels /\ chan[channel].param
          /\ dispatcher \in Dispatchers /\ disp[dispatcher].extra /\ disp[dispatcher].channel = channel
          /\ \A r \in InMap : opens[r] # 0
        BY <2>1 DEF SetupInv, SetupDone, SetupTypeOK
    <2>3. /\ \A c \in Channels : chan[c].param <=> c = channel
          /\ \A d \in Dispatchers : disp[d].extra <=> d = dispatcher
          /\ chan[channel].queues > 0 /\ disp[dispatcher].threads > 0
        BY <2>1, <2>2 DEF OpenIsHeld, SetupTypeOK
    <2>4. Queues \in 1 .. 1 + retries
        <3>1. chan \in ChanTypes
            BY <2>1 DEF SetupTypeOK, ChanTypes
        <3>2. chan[channel].queues \in Nat
            BY <2>2, <3>1 DEF ChanTypes
        <3>3. Queues \in Nat /\ chan[channel].queues <= Queues
            BY <2>2, <3>1, QueuesChange, QueuesAndThreads
        <3>4. \E c \in Channels : chan[c].param
            BY <2>2
        <3>5. Queues <= retries + 1
            BY <2>1, <3>4 DEF LostAreRetries
        <3> QED
            BY <2>1, <2>3, <3>2, <3>3, <3>5
    <2>5. Threads \in 1 .. 1 + retries
        <3>1. disp \in DispTypes
            BY <2>1 DEF SetupTypeOK, DispTypes
        <3>2. disp[dispatcher].threads \in Nat
            BY <2>2, <3>1 DEF DispTypes
        <3>3. Threads \in Nat /\ disp[dispatcher].threads <= Threads
            BY <2>2, <3>1, ThreadsChange, QueuesAndThreads
        <3>4. \E d \in Dispatchers : disp[d].extra
            BY <2>2
        <3>5. Threads <= retries + 1
            BY <2>1, <3>4 DEF LostAreRetries
        <3> QED
            BY <2>1, <2>3, <3>2, <3>3, <3>5
    <2>6. \A r \in Recorders : opens[r] \in IF r \in InMap THEN 1 .. 1 + retries ELSE {0}
        BY <2>1, <2>2 DEF OpenIsHeld
    <2> QED
        BY <2>2, <2>3, <2>4, <2>5, <2>6 DEF RunningIsComplete
<1> QED
    BY <1>1, SetupInvariance, PTL

\* A context that is gone has freed and closed what it was given.
THEOREM DestroyLeavesNothing == Spec => []NothingLeftBehind
<1>1. SetupInv => NothingLeftBehind
    <2> SUFFICES ASSUME SetupInv, state = "FREED" PROVE NothingLeftBehind
        BY DEF NothingLeftBehind
    <2>1. SetupTypeOK /\ OpenIsHeld /\ LostAreRetries /\ retries \in Nat
        BY DEF SetupInv, OneOwner, SetupTypeOK
    <2>2. /\ dispatcher = NULL /\ channel = NULL /\ recorders = NULL
          /\ \A t \in Types : filters[t] = <<>>
        BY DEF SetupInv, TakenDown
    <2>3. Chained = {}
        BY <2>2 DEF Chained, Range
    <2>4. InMap = {}
        BY <2>2 DEF InMap, RecorderMap, NoRecorders
    <2>5. Held = {}
        BY <2>1, <2>2, <2>3, <2>4, HeldKinds
    <2>6. heap \subseteq own /\ params \subseteq own
        BY <2>3, <2>5 DEF SetupInv, OneOwner, ParamsOwned
    <2>7. /\ ~ \E c \in Channels : chan[c].param
          /\ ~ \E d \in Dispatchers : disp[d].extra
        BY <2>1, <2>2, HeldKinds DEF OpenIsHeld, Objects
    <2>8. Queues <= retries /\ Threads <= retries
        BY <2>1, <2>7 DEF LostAreRetries
    <2>9. \A r \in Recorders : opens[r] = 0
        BY <2>1, <2>4 DEF OpenIsHeld
    <2> QED
        BY <2>6, <2>8, <2>9 DEF NothingLeftBehind
<1> QED
    BY <1>1, SetupInvariance, PTL

--------------------------------------------------------------------------------
(* Paths                                                                    *)

\* The folds of the code and of what is expected of it.
CreateNode(c, r, segment) == CreatePathNode(r, segment)
NodeSteps == INSTANCE SequenceFolds WITH Op <- CreateNode
AddNameTo(c, n, name) == AddName(n, name)
TextSteps == INSTANCE SequenceFolds WITH Op <- AddNameTo
JoinTo(c, r, i) == JoinName(c.names, c.size, r, i)
JoinSteps == INSTANCE SequenceFolds WITH Op <- JoinTo
MakeNext(call, res, i) == IF res \in {"BUSY", "FAIL"} THEN res ELSE MakeDir(There(call, i))
PlaceSteps == INSTANCE SequenceFolds WITH Op <- AddPlace
MakeSteps == INSTANCE SequenceFolds WITH Op <- MakeNext

LEMMA NamesApart == "/" \notin Names /\ "." \notin Names /\ ".." \notin Names
    BY PathsAssumption

LEMMA FrontFacts ==
    ASSUME NEW S, NEW q \in Seq(S), q # <<>>
    PROVE  /\ Front(q) \in Seq(S) /\ Len(Front(q)) = Len(q) - 1
           /\ \A k \in 1 .. Len(q) - 1 : Front(q)[k] = q[k]
<1>1. Len(q) \in Nat /\ Len(q) # 0 /\ Len(q) - 1 \in 0 .. Len(q)
    BY EmptySeq
<1>2. 1 \in Int /\ Len(q) - 1 \in Int /\ \A i \in 1 .. Len(q) - 1 : q[i] \in S
    BY <1>1, ElementOfSeq
<1> DEFINE t == SubSeq(q, 1, Len(q) - 1)
<1>3. /\ t \in Seq(S)
      /\ Len(t) = IF 1 <= Len(q) - 1 THEN Len(q) - 1 - 1 + 1 ELSE 0
      /\ \A i \in 1 .. Len(q) - 1 - 1 + 1 : t[i] = q[1 + i - 1]
    BY <1>2, SubSeqProperties
<1> HIDE DEF t
<1>4. Len(q) - 1 - 1 + 1 = Len(q) - 1 /\ \A i \in 1 .. Len(q) - 1 : 1 + i - 1 = i
    BY <1>1
<1>5. Len(t) = Len(q) - 1
    <2>1. Len(t) = IF 1 <= Len(q) - 1 THEN Len(q) - 1 - 1 + 1 ELSE 0
        BY <1>3
    <2>2. CASE 1 <= Len(q) - 1
        BY <1>4, <2>1, <2>2
    <2>3. CASE ~(1 <= Len(q) - 1)
        <3>1. \A n \in Nat : n # 0 /\ ~(1 <= n - 1) => n - 1 = 0
            OBVIOUS
        <3> QED
            BY <1>1, <2>1, <2>3, <3>1
    <2> QED
        BY <2>2, <2>3
<1>6. \A k \in 1 .. Len(q) - 1 : t[k] = q[k]
    BY <1>3, <1>4
<1> QED
    BY <1>3, <1>5, <1>6 DEF Front, t

\* Going one segment on.
Rise(segment) == IF segment \in Names THEN 1 ELSE IF segment = ".." THEN -1 ELSE 0

LEMMA DepthSteps ==
    ASSUME NEW s \in Seq(Segments)
    PROVE  /\ Depth(s, 0) = 0
           /\ \A j \in 0 .. Len(s) : Depth(s, j) \in Int
           /\ \A j \in 1 .. Len(s) : Depth(s, j) = Depth(s, j - 1) + Rise(s[j])
<1> DEFINE In(j) == {i \in 1 .. j : s[i] \in Names}
           Up(j) == {i \in 1 .. j : s[i] = ".."}
<1>1. ASSUME NEW j \in 0 .. Len(s)
      PROVE  /\ IsFiniteSet(In(j)) /\ Cardinality(In(j)) \in Nat
             /\ IsFiniteSet(Up(j)) /\ Cardinality(Up(j)) \in Nat
    <2>1. IsFiniteSet(1 .. j)
        BY FS_Interval
    <2>2. In(j) \subseteq 1 .. j /\ Up(j) \subseteq 1 .. j
        OBVIOUS
    <2>3. IsFiniteSet(In(j)) /\ IsFiniteSet(Up(j))
        BY <2>1, <2>2, FS_Subset
    <2> QED
        BY <2>3, FS_CardinalityType
<1>2. Depth(s, 0) = 0
    <2>1. In(0) = {} /\ Up(0) = {}
        OBVIOUS
    <2>2. Cardinality(In(0)) = 0 /\ Cardinality(Up(0)) = 0
        BY <2>1, FS_EmptySet
    <2> QED
        BY <2>2 DEF Depth
<1>3. ASSUME NEW j \in 1 .. Len(s) PROVE Depth(s, j) = Depth(s, j - 1) + Rise(s[j])
    <2>1. j - 1 \in 0 .. Len(s) /\ j \in 0 .. Len(s) /\ s[j] \in Segments
        OBVIOUS
    <2>2. In(j) = IF s[j] \in Names THEN In(j - 1) \cup {j} ELSE In(j - 1)
        OBVIOUS
    <2>3. Up(j) = IF s[j] = ".." THEN Up(j - 1) \cup {j} ELSE Up(j - 1)
        OBVIOUS
    <2>4. j \notin In(j - 1) /\ j \notin Up(j - 1)
        OBVIOUS
    <2> DEFINE a == Cardinality(In(j - 1))
               b == Cardinality(Up(j - 1))
    <2>5. Cardinality(In(j - 1) \cup {j}) = a + 1 /\ Cardinality(Up(j - 1) \cup {j}) = b + 1
        BY <1>1, <2>1, <2>4, FS_AddElement
    <2>6. Cardinality(In(j)) = IF s[j] \in Names THEN a + 1 ELSE a
        BY <2>2, <2>5
    <2>7. Cardinality(Up(j)) = IF s[j] = ".." THEN b + 1 ELSE b
        BY <2>3, <2>5
    <2>8. a \in Nat /\ b \in Nat /\ ~ (s[j] \in Names /\ s[j] = "..")
        BY <1>1, <2>1, PathsAssumption
    <2>9. Depth(s, j) = Cardinality(In(j)) - Cardinality(Up(j)) /\ Depth(s, j - 1) = a - b
        BY DEF Depth
    <2> HIDE DEF In, Up, a, b
    <2> QED
        BY <2>6, <2>7, <2>8, <2>9 DEF Rise
<1>4. ASSUME NEW j \in 0 .. Len(s) PROVE Depth(s, j) \in Int
    <2>1. Cardinality(In(j)) \in Nat /\ Cardinality(Up(j)) \in Nat
        BY <1>1
    <2> QED
        BY <2>1 DEF Depth
<1> QED
    BY <1>2, <1>3, <1>4

\* The names on the stack behind the first n segments stand at the places p: the
\* k-th leads to depth k, and no segment behind it leads above.
Stacked(s, n, names, p) ==
    /\ p \in Seq(1 .. n) /\ Len(p) = Len(names)
    /\ Len(names) = Depth(s, n)
    /\ \A k \in 1 .. Len(p) :
        /\ names[k] = s[p[k]] /\ s[p[k]] \in Names
        /\ Depth(s, p[k]) = k
        /\ \A j \in p[k] .. n : Depth(s, j) >= k

NodesInv(s, n, r) ==
    /\ r.ok \in BOOLEAN /\ r.names \in Seq(Names)
    /\ r.ok => /\ \A j \in 1 .. n : Depth(s, j) >= 0
               /\ \E p : Stacked(s, n, r.names, p)
    /\ ~r.ok => \E j \in 1 .. n : Depth(s, j) < 0

NodeRecords == [ok : BOOLEAN, names : Seq(Names)]

LEMMA NodesKeep ==
    ASSUME NEW s \in Seq(Segments), NEW n \in 1 .. Len(s), NEW r \in NodeRecords, NodesInv(s, n - 1, r)
    PROVE  NodesInv(s, n, CreatePathNode(r, s[n])) /\ CreatePathNode(r, s[n]) \in NodeRecords
<1> DEFINE q == CreatePathNode(r, s[n])
<1>1. /\ s[n] \in Segments /\ n \in Nat /\ n # 0 /\ n - 1 \in 0 .. Len(s)
      /\ "/" \notin Names /\ "." \notin Names /\ ".." \notin Names
    BY NamesApart
<1>2. /\ Depth(s, n) = Depth(s, n - 1) + Rise(s[n])
      /\ Depth(s, n - 1) \in Int
    BY <1>1, DepthSteps
<1>5. \A j \in 1 .. n : j \in 1 .. n - 1 \/ j = n
    BY <1>1
<1>3. CASE ~r.ok
    <2>1. q = r
        BY <1>3 DEF CreatePathNode
    <2>2. PICK j \in 1 .. n - 1 : Depth(s, j) < 0
        BY <1>3 DEF NodesInv
    <2> QED
        BY <1>3, <2>1, <2>2 DEF NodesInv
<1>4. CASE r.ok
    <2>1. PICK p : Stacked(s, n - 1, r.names, p)
        BY <1>4 DEF NodesInv
    <2>2. p \in Seq(1 .. n) /\ \A k \in 1 .. Len(p) : p[k] \in 1 .. n - 1
        BY <2>1 DEF Stacked
    <2>3. Depth(s, n - 1) = Len(r.names) /\ Len(r.names) \in Nat /\ Len(p) = Len(r.names)
        BY <2>1 DEF Stacked, NodeRecords
    <2>4. CASE s[n] \in {"/", "."}
        <3>1. q = r
            BY <1>1, <1>4, <2>4 DEF CreatePathNode
        <3>2. Depth(s, n) = Depth(s, n - 1)
            <4>1. Rise(s[n]) = 0
                BY <1>1, <2>4 DEF Rise
            <4> QED
                BY <1>2, <4>1
        <3>3. Stacked(s, n, r.names, p)
            <4>1. ASSUME NEW k \in 1 .. Len(p), NEW j \in p[k] .. n PROVE Depth(s, j) >= k
                <5>1. CASE j = n
                    BY <2>3, <3>2, <5>1
                <5>2. CASE j # n
                    <6>1. j \in p[k] .. n - 1
                        BY <1>1, <2>2, <5>2
                    <6> QED
                        BY <2>1, <6>1 DEF Stacked
                <5> QED
                    BY <5>1, <5>2
            <4> QED
                BY <2>1, <2>2, <3>2, <4>1 DEF Stacked
        <3>4. \A j \in 1 .. n : Depth(s, j) >= 0
            BY <1>4, <1>5, <2>3, <3>2 DEF NodesInv
        <3> QED
            BY <1>4, <3>1, <3>3, <3>4 DEF NodesInv, NodeRecords
    <2>5. CASE s[n] = ".."
        <3>1. Depth(s, n) = Depth(s, n - 1) - 1
            BY <1>1, <1>2, <2>5 DEF Rise
        <3>2. CASE r.names = <<>>
            <4>1. q = [r EXCEPT !.ok = FALSE]
                BY <1>1, <1>4, <2>5, <3>2 DEF CreatePathNode, Climb
            <4>2. Depth(s, n) < 0
                BY <2>3, <3>1, <3>2
            <4>3. q.ok = FALSE /\ q.names = r.names /\ q \in NodeRecords
                BY <4>1 DEF NodeRecords
            <4> QED
                BY <1>1, <4>2, <4>3 DEF NodesInv, NodeRecords
        <3>3. CASE r.names # <<>>
            <4> DEFINE names == Front(r.names)
                       o == Front(p)
            <4>1. q = [r EXCEPT !.names = names]
                BY <1>1, <1>4, <2>5, <3>3 DEF CreatePathNode, Climb
            <4>2. /\ names \in Seq(Names) /\ Len(names) = Len(r.names) - 1
                  /\ \A k \in 1 .. Len(names) : names[k] = r.names[k]
                BY <3>3, FrontFacts DEF NodeRecords
            <4>3. /\ o \in Seq(1 .. n) /\ Len(o) = Len(p) - 1
                  /\ \A k \in 1 .. Len(o) : o[k] = p[k]
                <5>1. Len(p) # 0 /\ Len(p) \in Nat
                    BY <2>3, <3>3 DEF NodeRecords
                <5> QED
                    BY <2>2, <5>1, FrontFacts, EmptySeq
            <4> HIDE DEF names, o
            <4>4. Stacked(s, n, names, o)
                <5>1. ASSUME NEW k \in 1 .. Len(o), NEW j \in o[k] .. n PROVE Depth(s, j) >= k
                    <6>1. k \in 1 .. Len(p) /\ o[k] = p[k] /\ p[k] \in 1 .. n - 1
                        BY <2>2, <2>3, <4>3
                    <6>2. CASE j = n
                        BY <2>3, <3>1, <4>3, <6>2
                    <6>3. CASE j # n
                        BY <2>1, <6>1, <6>3 DEF Stacked
                    <6> QED
                        BY <6>2, <6>3
                <5>2. \A k \in 1 .. Len(o) :
                        /\ k \in 1 .. Len(p) /\ k \in 1 .. Len(names)
                        /\ names[k] = s[o[k]] /\ s[o[k]] \in Names /\ Depth(s, o[k]) = k
                    <6> TAKE k \in 1 .. Len(o)
                    <6>1. k \in 1 .. Len(p) /\ k \in 1 .. Len(names) /\ o[k] = p[k] /\ names[k] = r.names[k]
                        <7>1. Len(o) = Len(names) /\ k \in 1 .. Len(names) /\ k \in 1 .. Len(p)
                            BY <2>3, <4>2, <4>3
                        <7> QED
                            BY <4>2, <4>3, <7>1
                    <6>2. r.names[k] = s[p[k]] /\ s[p[k]] \in Names /\ Depth(s, p[k]) = k
                        BY <2>1, <6>1 DEF Stacked
                    <6> QED
                        BY <6>1, <6>2
                <5>3. Len(o) = Len(names) /\ Len(names) = Depth(s, n)
                    BY <2>3, <3>1, <4>2, <4>3
                <5> QED
                    BY <4>3, <5>1, <5>2, <5>3 DEF Stacked
            <4>5. \A j \in 1 .. n : Depth(s, j) >= 0
                BY <1>4, <1>5, <2>3, <3>1, <4>2 DEF NodesInv
            <4> QED
                BY <1>4, <4>1, <4>2, <4>4, <4>5 DEF NodesInv, NodeRecords
        <3> QED
            BY <3>2, <3>3
    <2>6. CASE s[n] \in Names
        <3> DEFINE names == Append(r.names, s[n])
                   o == Append(p, n)
        <3>1. q = [r EXCEPT !.names = names]
            BY <1>1, <1>4, <2>6 DEF CreatePathNode
        <3>2. Depth(s, n) = Depth(s, n - 1) + 1
            BY <1>1, <1>2, <2>6 DEF Rise
        <3>3. /\ names \in Seq(Names) /\ Len(names) = Len(r.names) + 1 /\ names[Len(names)] = s[n]
              /\ \A k \in 1 .. Len(r.names) : names[k] = r.names[k]
            BY <2>6 DEF NodeRecords
        <3>4. /\ o \in Seq(1 .. n) /\ Len(o) = Len(p) + 1 /\ o[Len(o)] = n
              /\ \A k \in 1 .. Len(p) : o[k] = p[k]
            BY <1>1, <2>2
        <3> HIDE DEF names, o
        <3>5. Stacked(s, n, names, o)
            <4>1. ASSUME NEW k \in 1 .. Len(p)
                  PROVE  /\ names[k] = s[o[k]] /\ s[o[k]] \in Names
                         /\ Depth(s, o[k]) = k
                         /\ \A j \in o[k] .. n : Depth(s, j) >= k
                BY <2>1, <2>2, <2>3, <3>2, <3>3, <3>4 DEF Stacked
            <4>2. /\ names[Len(o)] = s[o[Len(o)]] /\ s[o[Len(o)]] \in Names
                  /\ Depth(s, o[Len(o)]) = Len(o)
                  /\ \A j \in o[Len(o)] .. n : Depth(s, j) >= Len(o)
                BY <1>1, <2>3, <2>6, <3>2, <3>3, <3>4
            <4>3. \A k \in 1 .. Len(o) : k \in 1 .. Len(p) \/ k = Len(o)
                BY <2>3, <3>4
            <4>4. Len(o) = Len(names) /\ Len(names) = Depth(s, n)
                BY <2>3, <3>2, <3>3, <3>4
            <4> QED
                BY <3>4, <4>1, <4>2, <4>3, <4>4 DEF Stacked
        <3>6. \A j \in 1 .. n : Depth(s, j) >= 0
            BY <1>4, <1>5, <2>3, <3>2 DEF NodesInv
        <3> QED
            BY <1>4, <3>1, <3>3, <3>5, <3>6 DEF NodesInv, NodeRecords
    <2> QED
        BY <1>1, <2>4, <2>5, <2>6 DEF Segments
<1> QED
    BY <1>3, <1>4 DEF NodesInv

LEMMA SubSeqAppend ==
    ASSUME NEW S, NEW p \in Seq(S), NEW m \in Nat, m < Len(p)
    PROVE  /\ SubSeq(p, 1, m) \in Seq(S) /\ SubSeq(p, 1, m + 1) = Append(SubSeq(p, 1, m), p[m + 1])
           /\ SubSeq(p, 1, 0) = <<>> /\ SubSeq(p, 1, Len(p)) = p
    OBVIOUS

\* Increasing places are what Ascending makes of the set of them.
LEMMA AscendingIs ==
    ASSUME NEW n \in Nat, NEW p \in Seq(1 .. n), \A k \in 1 .. Len(p) : \A j \in 1 .. k - 1 : p[j] < p[k]
    PROVE  Ascending({p[k] : k \in 1 .. Len(p)}, n) = p
<1> DEFINE s == [i \in 1 .. n |-> i]
           K == {p[k] : k \in 1 .. Len(p)}
           Z == 1 .. n
<1>1. s \in Seq(Z) /\ Len(s) = n /\ <<>> \in Seq(Z) /\ \A i \in 1 .. n : s[i] = i
    OBVIOUS
<1>2. PlaceSteps!Keeps(K, Seq(Z), Z)
    <2> SUFFICES ASSUME NEW a \in Seq(Z), NEW i \in Z PROVE AddPlace(K, a, i) \in Seq(Z)
        BY DEF PlaceSteps!Keeps
    <2> HIDE DEF K, Z
    <2>1. Append(a, i) \in Seq(Z)
        BY AppendProperties
    <2> QED
        BY <2>1 DEF AddPlace
<1>3. PlaceSteps!Fold(K, <<>>, s) = Ascending(K, n)
    BY DEF PlaceSteps!Fold, PlaceSteps!FoldLeft, PlaceSteps!MapThenFoldSet, PlaceSteps!Max,
           FoldLeft, MapThenFoldSet, Max, Ascending, AddPlace
<1> HIDE DEF s, Z
<1>4. PICK P \in [0 .. Len(s) -> Seq(Z)] :
        PlaceSteps!Steps(P, K, <<>>, s) /\ PlaceSteps!Fold(K, <<>>, s) = P[Len(s)]
    <2> HIDE DEF K
    <2>1. PICK A : A = Seq(Z)
        OBVIOUS
    <2>2. PlaceSteps!Keeps(K, A, Z) /\ <<>> \in A /\ s \in Seq(Z)
        BY <1>1, <1>2, <2>1
    <2>3. \E P \in [0 .. Len(s) -> A] :
            PlaceSteps!Steps(P, K, <<>>, s) /\ PlaceSteps!Fold(K, <<>>, s) = P[Len(s)]
        BY <2>2, PlaceSteps!Partial
    <2> QED
        BY <2>1, <2>3
<1>5. P[0] = <<>> /\ \A i \in 1 .. n : P[i] = AddPlace(K, P[i - 1], i)
    BY <1>1, <1>4 DEF PlaceSteps!Steps
<1> DEFINE Upto(i, m) == /\ P[i] = SubSeq(p, 1, m)
                         /\ \A k \in 1 .. m : p[k] <= i
                         /\ \A k \in m + 1 .. Len(p) : p[k] > i
           Good == {i \in 0 .. n : \E m \in 0 .. Len(p) : Upto(i, m)}
<1>6. Len(p) \in Nat /\ \A k \in 1 .. Len(p) : p[k] \in 1 .. n
    OBVIOUS
<1>7. 0 \in Good
    <2>1. P[0] = SubSeq(p, 1, 0)
        BY <1>5
    <2>2. Upto(0, 0) /\ 0 \in 0 .. Len(p)
        BY <1>6, <2>1
    <2> HIDE DEF Upto
    <2> QED
        BY <2>2
<1>8. ASSUME NEW i \in 1 .. n, i - 1 \in Good PROVE i \in Good
    <2>1. PICK m \in 0 .. Len(p) :
            /\ P[i - 1] = SubSeq(p, 1, m)
            /\ \A k \in 1 .. m : p[k] <= i - 1
            /\ \A k \in m + 1 .. Len(p) : p[k] > i - 1
        BY <1>8
    <2>2. CASE i \in K
        <3>1. PICK k \in 1 .. Len(p) : p[k] = i
            BY <2>2
        <3>2. k \in m + 1 .. Len(p) /\ m + 1 \in 1 .. Len(p)
            BY <1>6, <2>1, <3>1
        <3>3. k = m + 1
            <4>1. CASE k > m + 1
                <5>1. m + 1 \in 1 .. k - 1 /\ m + 1 \in m + 1 .. Len(p)
                    BY <3>2, <4>1
                <5>2. p[m + 1] < i /\ p[m + 1] > i - 1 /\ p[m + 1] \in Int
                    BY <1>6, <2>1, <3>1, <3>2, <5>1
                <5> QED
                    BY <5>2
            <4> QED
                BY <3>2, <4>1
        <3>4. P[i] = Append(P[i - 1], i)
            BY <1>5, <2>2 DEF AddPlace
        <3>5. P[i] = SubSeq(p, 1, m + 1)
            BY <1>6, <2>1, <3>1, <3>2, <3>3, <3>4, SubSeqAppend
        <3>6. \A j \in 1 .. m + 1 : p[j] <= i
            BY <1>6, <2>1, <3>1, <3>2, <3>3
        <3>7. \A j \in m + 1 + 1 .. Len(p) : p[j] > i
            <4> TAKE j \in m + 1 + 1 .. Len(p)
            <4>1. j \in 1 .. Len(p) /\ k \in 1 .. j - 1
                BY <3>2, <3>3
            <4> QED
                BY <1>6, <3>1, <4>1
        <3>8. Upto(i, m + 1) /\ m + 1 \in 0 .. Len(p)
            BY <3>2, <3>5, <3>6, <3>7
        <3> HIDE DEF Upto
        <3> QED
            BY <3>8
    <2>3. CASE i \notin K
        <3>1. P[i] = SubSeq(p, 1, m)
            BY <1>5, <2>1, <2>3 DEF AddPlace
        <3>2. \A k \in 1 .. m : p[k] <= i
            BY <1>6, <2>1
        <3>3. \A k \in m + 1 .. Len(p) : p[k] > i
            BY <1>6, <2>1, <2>3
        <3>4. Upto(i, m)
            BY <3>1, <3>2, <3>3
        <3> HIDE DEF Upto
        <3> QED
            BY <3>4
    <2> QED
        BY <2>2, <2>3
<1> HIDE DEF Good
<1>9. n \in Good
    <2>1. 0 .. n \subseteq Good
        BY <1>7, <1>8, PlaceSteps!FromZero
    <2> QED
        BY <2>1
<1>10. PICK m \in 0 .. Len(p) : P[n] = SubSeq(p, 1, m) /\ \A k \in m + 1 .. Len(p) : p[k] > n
    BY <1>9 DEF Good, Upto
<1>11. m = Len(p)
    BY <1>6, <1>10
<1>12. SubSeq(p, 1, Len(p)) = p
    BY <1>6, EmptySeq
<1> QED
    BY <1>1, <1>3, <1>4, <1>10, <1>11, <1>12

\* The stack behind the last segment holds the names that no ".." undoes.
LEMMA KeptIs ==
    ASSUME NEW s \in Seq(Segments), NEW names \in Seq(Names), NEW p,
           Stacked(s, Len(s), names, p), \A j \in 1 .. Len(s) : Depth(s, j) >= 0
    PROVE  Kept(s) = names
<1> DEFINE n == Len(s)
           K == {i \in 1 .. n : s[i] \in Names /\ ~Undone(s, i)}
           R == {p[k] : k \in 1 .. Len(p)}
<1>1. /\ n \in Nat /\ p \in Seq(1 .. n) /\ Len(p) = Len(names) /\ Len(p) \in Nat /\ Depth(s, n) = Len(p)
      /\ \A k \in 1 .. Len(p) : p[k] \in 1 .. n
    BY DEF Stacked
<1>2. \A k \in 1 .. Len(p) :
        /\ names[k] = s[p[k]] /\ s[p[k]] \in Names /\ Depth(s, p[k]) = k
        /\ \A j \in p[k] .. n : Depth(s, j) >= k
    BY DEF Stacked
<1>3. /\ \A j \in 0 .. n : Depth(s, j) \in Int /\ Depth(s, j) >= 0
      /\ \A j \in 1 .. n : s[j] \in Names => Depth(s, j) = Depth(s, j - 1) + 1
    <2>1. \A j \in 0 .. n : j = 0 \/ j \in 1 .. n
        BY <1>1
    <2> QED
        BY <1>1, <2>1, DepthSteps DEF Rise
<1>4. \A k \in 1 .. Len(p) : \A j \in 1 .. k - 1 : p[j] < p[k]
    <2> SUFFICES ASSUME NEW k \in 1 .. Len(p), NEW j \in 1 .. k - 1, ~(p[j] < p[k]) PROVE FALSE
        OBVIOUS
    <2>1. j \in 1 .. Len(p) /\ j < k /\ p[j] \in p[k] .. n
        BY <1>1
    <2>2. Depth(s, p[j]) >= k /\ Depth(s, p[j]) = j
        BY <1>2, <2>1
    <2> QED
        BY <2>1, <2>2
<1>5. ASSUME NEW k \in 1 .. Len(p) PROVE p[k] \in K
    <2>1. \A j \in p[k] + 1 .. n : j \in p[k] .. n /\ j \in 0 .. n
        BY <1>1
    <2>2. ~Undone(s, p[k])
        BY <1>2, <1>3, <2>1 DEF Undone
    <2> QED
        BY <1>1, <1>2, <2>2
<1>6. ASSUME NEW i \in K PROVE \E k \in 1 .. Len(p) : i = p[k]
    <2> DEFINE d == Depth(s, i)
    <2>1. i \in 1 .. n /\ s[i] \in Names /\ i - 1 \in 0 .. n /\ i \in 0 .. n
        BY <1>1
    <2>2. d = Depth(s, i - 1) + 1 /\ Depth(s, i - 1) \in Int /\ Depth(s, i - 1) >= 0
        BY <1>3, <2>1
    <2>3. \A j \in i .. n : Depth(s, j) >= d
        <3>1. \A j \in i + 1 .. n : j \in 0 .. n
            BY <2>1
        <3>2. \A j \in i + 1 .. n : ~(Depth(s, j) < d)
            BY DEF Undone
        <3>3. \A j \in i .. n : j = i \/ j \in i + 1 .. n
            BY <2>1
        <3>4. \A j \in 0 .. n : Depth(s, j) \in Int
            BY <1>3
        <3>5. d \in Int /\ d >= d
            BY <2>1, <3>4
        <3> HIDE DEF d, K
        <3>6. \A j \in i + 1 .. n : Depth(s, j) >= d
            BY <3>1, <3>2, <3>4, <3>5
        <3> QED
            BY <3>3, <3>5, <3>6 DEF d
    <2>4. n \in i .. n
        BY <1>1, <2>1
    <2>5. d \in 1 .. Len(p)
        <3>1. Depth(s, n) >= d
            BY <2>3, <2>4
        <3> HIDE DEF d
        <3> QED
            BY <1>1, <2>2, <3>1
    <2>6. /\ p[d] \in 1 .. n /\ Depth(s, p[d]) = d /\ \A j \in p[d] .. n : Depth(s, j) >= d
          /\ Depth(s, p[d]) = Depth(s, p[d] - 1) + 1 /\ p[d] - 1 \in 0 .. n
        <3> HIDE DEF d
        <3>1. p[d] \in 1 .. n /\ p[d] - 1 \in 0 .. n
            BY <1>1, <2>5
        <3>2. s[p[d]] \in Names /\ Depth(s, p[d]) = d /\ \A j \in p[d] .. n : Depth(s, j) >= d
            BY <1>2, <2>5
        <3> QED
            BY <1>3, <3>1, <3>2
    <2>7. ~(i < p[d])
        <3>1. i < p[d] => p[d] - 1 \in i .. n
            <4> HIDE DEF d
            <4> QED
                BY <2>1, <2>6
        <3>2. p[d] - 1 \in i .. n => Depth(s, p[d] - 1) >= d
            BY <2>3
        <3>3. Depth(s, p[d] - 1) \in Int
            BY <1>3, <2>6
        <3> HIDE DEF d
        <3> QED
            BY <2>5, <2>6, <3>1, <3>2, <3>3
    <2>8. ~(i > p[d])
        <3>1. i > p[d] => i - 1 \in p[d] .. n
            <4> HIDE DEF d
            <4> QED
                BY <2>1, <2>6
        <3> HIDE DEF d
        <3> QED
            BY <2>2, <2>5, <2>6, <3>1
    <2>9. i = p[d]
        <3> HIDE DEF d
        <3> QED
            BY <2>1, <2>6, <2>7, <2>8
    <2> QED
        BY <2>5, <2>9
<1>7. K = R
    BY <1>5, <1>6
<1>8. Ascending(K, n) = p
    <2> HIDE DEF K
    <2>1. Ascending(R, n) = p
        <3> HIDE DEF n
        <3> QED
            BY <1>1, <1>4, AscendingIs
    <2> QED
        BY <1>7, <2>1
<1>9. Kept(s) = [k \in 1 .. Len(p) |-> s[p[k]]]
    BY <1>8 DEF Kept
<1>10. names = [k \in 1 .. Len(names) |-> names[k]]
    OBVIOUS
<1> HIDE DEF K, R, n
<1>11. \A k \in 1 .. Len(p) : names[k] = s[p[k]]
    BY <1>2
<1>12. [k \in 1 .. Len(p) |-> s[p[k]]] = [k \in 1 .. Len(names) |-> names[k]]
    BY <1>1, <1>11
<1> QED
    BY <1>9, <1>10, <1>12

\* Every path is read to the end of what it keeps, or climbs above the root.
LEMMA NodesFold ==
    ASSUME NEW s \in Seq(Segments)
    PROVE  LET r == FoldLeft(CreatePathNode, [ok |-> TRUE, names |-> <<>>], s)
           IN /\ r \in NodeRecords
              /\ r.ok <=> ~Climbs(s)
              /\ r.ok => r.names = Kept(s)
<1> DEFINE base == [ok |-> TRUE, names |-> <<>>]
           r == FoldLeft(CreatePathNode, base, s)
<1>1. base \in NodeRecords /\ base.ok = TRUE /\ base.names = <<>> /\ Len(s) \in Nat
    BY DEF NodeRecords
<1>2. NodeSteps!Keeps(NULL, NodeRecords, Segments)
    <2> SUFFICES ASSUME NEW a \in NodeRecords, NEW z \in Segments PROVE CreatePathNode(a, z) \in NodeRecords
        BY DEF NodeSteps!Keeps, CreateNode
    <2>1. CASE ~a.ok \/ z \in {"/", "."}
        <3>1. CASE ~a.ok
            BY <3>1 DEF CreatePathNode
        <3>2. CASE a.ok /\ z \in {"/", "."}
            BY <3>2, NamesApart DEF CreatePathNode
        <3> QED
            BY <2>1, <3>1, <3>2
    <2>2. CASE a.ok /\ z = ".."
        <3>1. CreatePathNode(a, z) = Climb(a)
            BY <2>2, NamesApart DEF CreatePathNode
        <3>2. a.names # <<>> => Front(a.names) \in Seq(Names)
            BY FrontFacts DEF NodeRecords
        <3> QED
            BY <3>1, <3>2 DEF Climb, NodeRecords
    <2>3. CASE a.ok /\ z \in Names
        <3>1. CreatePathNode(a, z) = [a EXCEPT !.names = Append(@, z)]
            BY <2>3, NamesApart DEF CreatePathNode
        <3>2. Append(a.names, z) \in Seq(Names)
            BY <2>3 DEF NodeRecords
        <3> QED
            BY <3>1, <3>2 DEF NodeRecords
    <2> QED
        BY <2>1, <2>2, <2>3 DEF Segments, NodeRecords
<1>3. NodeSteps!Fold(NULL, base, s) = r
    BY DEF NodeSteps!Fold, NodeSteps!FoldLeft, NodeSteps!MapThenFoldSet, NodeSteps!Max,
           FoldLeft, MapThenFoldSet, Max, CreateNode
<1> HIDE DEF base, r
<1>4. PICK P \in [0 .. Len(s) -> NodeRecords] : NodeSteps!Steps(P, NULL, base, s) /\ r = P[Len(s)]
    <2>1. \E P \in [0 .. Len(s) -> NodeRecords] :
            NodeSteps!Steps(P, NULL, base, s) /\ NodeSteps!Fold(NULL, base, s) = P[Len(s)]
        BY <1>1, <1>2, NodeSteps!Partial
    <2> QED
        BY <1>3, <2>1
<1>5. P[0] = base /\ \A i \in 1 .. Len(s) : P[i] = CreatePathNode(P[i - 1], s[i])
    BY <1>4 DEF NodeSteps!Steps, CreateNode
<1> DEFINE Good == {i \in 0 .. Len(s) : NodesInv(s, i, P[i])}
<1>6. 0 \in Good
    <2>1. Depth(s, 0) = 0
        BY DepthSteps
    <2>2. Stacked(s, 0, <<>>, <<>>)
        BY <2>1 DEF Stacked
    <2>3. NodesInv(s, 0, base)
        BY <1>1, <2>2 DEF NodesInv, NodeRecords
    <2> QED
        BY <1>1, <1>5, <2>3
<1>7. ASSUME NEW i \in 1 .. Len(s), i - 1 \in Good PROVE i \in Good
    <2>1. P[i - 1] \in NodeRecords /\ i \in 0 .. Len(s) /\ NodesInv(s, i - 1, P[i - 1])
        BY <1>1, <1>4, <1>7
    <2>2. NodesInv(s, i, CreatePathNode(P[i - 1], s[i]))
        BY <2>1, NodesKeep
    <2> QED
        BY <1>5, <2>1, <2>2
<1> HIDE DEF Good
<1>8. Len(s) \in Good
    <2>1. 0 .. Len(s) \subseteq Good
        BY <1>1, <1>6, <1>7, NodeSteps!FromZero
    <2> QED
        BY <1>1, <2>1
<1>9. NodesInv(s, Len(s), r) /\ r \in NodeRecords
    BY <1>1, <1>4, <1>8 DEF Good
<1>10. r.ok => r.names = Kept(s) /\ ~Climbs(s)
    <2> SUFFICES ASSUME r.ok PROVE r.names = Kept(s) /\ ~Climbs(s)
        OBVIOUS
    <2>1. PICK p : Stacked(s, Len(s), r.names, p)
        BY <1>9 DEF NodesInv
    <2>2. \A j \in 1 .. Len(s) : Depth(s, j) >= 0 /\ Depth(s, j) \in Int
        BY <1>1, <1>9, DepthSteps DEF NodesInv
    <2>3. r.names \in Seq(Names)
        BY <1>9 DEF NodesInv
    <2> QED
        BY <2>1, <2>2, <2>3, KeptIs DEF Climbs
<1>11. ~r.ok => Climbs(s)
    BY <1>9 DEF NodesInv, Climbs
<1> QED
    BY <1>9, <1>10, <1>11 DEF r, base

\* How long the text of the first names is, and of all but the last.
LEMMA TextSums ==
    ASSUME NEW names \in Seq(Names)
    PROVE  \E T \in [0 .. Len(names) -> Nat] :
            /\ T[0] = 0
            /\ \A i \in 1 .. Len(names) : T[i] = T[i - 1] + NameLength[names[i]] + 1
            /\ TextLength(names) = T[Len(names)]
<1>1. TextSteps!Keeps(NULL, Nat, Names)
    <2> SUFFICES ASSUME NEW n \in Nat, NEW name \in Names PROVE n + NameLength[name] + 1 \in Nat
        BY DEF TextSteps!Keeps, AddNameTo, AddName
    <2>1. NameLength[name] \in Nat
        BY PathsAssumption
    <2> QED
        BY <2>1
<1>2. TextSteps!Fold(NULL, 0, names) = TextLength(names)
    BY DEF TextSteps!Fold, TextSteps!FoldLeft, TextSteps!MapThenFoldSet, TextSteps!Max,
           FoldLeft, MapThenFoldSet, Max, AddNameTo, AddName, TextLength
<1>3. 0 \in Nat
    OBVIOUS
<1>4. PICK T \in [0 .. Len(names) -> Nat] :
        TextSteps!Steps(T, NULL, 0, names) /\ TextSteps!Fold(NULL, 0, names) = T[Len(names)]
    <2> DEFINE A == Nat
    <2>1. TextSteps!Keeps(NULL, A, Names) /\ 0 \in A
        BY <1>1
    <2> HIDE DEF A
    <2>2. \E T \in [0 .. Len(names) -> A] :
            TextSteps!Steps(T, NULL, 0, names) /\ TextSteps!Fold(NULL, 0, names) = T[Len(names)]
        BY <2>1, TextSteps!Partial
    <2> QED
        BY <2>2 DEF A
<1>5. T[0] = 0 /\ \A i \in 1 .. Len(names) : T[i] = T[i - 1] + NameLength[names[i]] + 1
    BY <1>4 DEF TextSteps!Steps, AddNameTo, AddName
<1> QED
    BY <1>2, <1>4, <1>5

\* The last of the names has what the others leave of the text.
LEMMA TextOfFront ==
    ASSUME NEW names \in Seq(Names), names # <<>>
    PROVE  /\ TextLength(Front(names)) \in Nat
           /\ TextLength(names) = TextLength(Front(names)) + NameLength[names[Len(names)]] + 1
<1> DEFINE f == Front(names)
           n == Len(names)
<1>1. f \in Seq(Names) /\ Len(f) = n - 1 /\ \A k \in 1 .. n - 1 : f[k] = names[k]
    BY FrontFacts
<1>2. n \in Nat /\ n # 0 /\ n - 1 \in Nat /\ n \in 1 .. n
    BY EmptySeq
<1> HIDE DEF f
<1>3. PICK T \in [0 .. n -> Nat] :
            /\ T[0] = 0
            /\ \A i \in 1 .. n : T[i] = T[i - 1] + NameLength[names[i]] + 1
            /\ TextLength(names) = T[n]
    BY TextSums
<1>4. PICK U \in [0 .. Len(f) -> Nat] :
            /\ U[0] = 0
            /\ \A i \in 1 .. Len(f) : U[i] = U[i - 1] + NameLength[f[i]] + 1
            /\ TextLength(f) = U[Len(f)]
    BY <1>1, TextSums
<1> HIDE DEF n
<1> DEFINE Same == {i \in 0 .. n - 1 : T[i] = U[i]}
<1>5. 0 \in Same
    BY <1>2, <1>3, <1>4
<1>6. ASSUME NEW i \in 1 .. n - 1, i - 1 \in Same PROVE i \in Same
    <2>1. i \in 1 .. n /\ i \in 1 .. Len(f) /\ f[i] = names[i] /\ i \in 0 .. n - 1
        BY <1>1, <1>2
    <2>2. T[i] = T[i - 1] + NameLength[names[i]] + 1
        BY <1>3, <2>1
    <2>3. U[i] = U[i - 1] + NameLength[names[i]] + 1
        BY <1>4, <2>1
    <2>4. T[i - 1] = U[i - 1]
        BY <1>6
    <2> QED
        BY <2>1, <2>2, <2>3, <2>4
<1> HIDE DEF Same
<1>7. 0 .. n - 1 \subseteq Same
    BY <1>2, <1>5, <1>6, TextSteps!FromZero
<1>8. T[n - 1] = U[n - 1] /\ U[n - 1] \in Nat
    BY <1>1, <1>2, <1>4, <1>7 DEF Same
<1>9. T[n] = T[n - 1] + NameLength[names[n]] + 1
    BY <1>2, <1>3
<1> QED
    BY <1>1, <1>3, <1>4, <1>8, <1>9 DEF f, n

\* What has been written behind the i-th name.
JoinInv(room, T, n, i, r) ==
    /\ r.ok => /\ r.offset = IF i = n /\ n > 0 THEN T[n] ELSE T[i] + 1
               /\ i = n /\ n > 0 => T[n] <= room - 2
    /\ ~r.ok => n > 0 /\ T[n] > room - 2

JoinRecords == [ok : BOOLEAN, offset : Int]

LEMMA JoinKeeps ==
    ASSUME NEW names \in Seq(Names), NEW room \in Nat, NEW r \in JoinRecords, NEW i \in 1 .. Len(names)
    PROVE  JoinName(names, room, r, i) \in JoinRecords
<1>1. NameLength[names[i]] \in Nat
    BY PathsAssumption, ElementOfSeq
<1> DEFINE q == JoinName(names, room, r, i)
           end == r.offset + NameLength[names[i]]
<1>2. end \in Int /\ end + 1 \in Int
    BY <1>1 DEF JoinRecords
<1>3. \/ q = [r EXCEPT !.ok = FALSE]
      \/ q = [r EXCEPT !.offset = end] \/ q = [r EXCEPT !.offset = end + 1]
    BY DEF JoinName
<1> HIDE DEF end, q
<1>4. q \in JoinRecords
    BY <1>2, <1>3 DEF JoinRecords
<1> QED
    BY <1>4 DEF q

LEMMA JoinStep ==
    ASSUME NEW names \in Seq(Names), NEW room \in Nat, NEW i \in 1 .. Len(names), NEW r \in JoinRecords,
           NEW T \in [0 .. Len(names) -> Nat],
           \A k \in 1 .. Len(names) : T[k] = T[k - 1] + NameLength[names[k]] + 1,
           i < Len(names) => T[Len(names)] >= T[i] + 2,
           JoinInv(room, T, Len(names), i - 1, r)
    PROVE  JoinInv(room, T, Len(names), i, JoinName(names, room, r, i))
<1> DEFINE n == Len(names)
           l == NameLength[names[i]]
           end == r.offset + l
           q == JoinName(names, room, r, i)
<1>1. n \in Nat /\ n > 0 /\ i \in Nat /\ i - 1 \in 0 .. n /\ i - 1 # n /\ i \in 0 .. n
    OBVIOUS
<1>2. T[i] \in Nat /\ T[i - 1] \in Nat /\ T[n] \in Nat /\ T[i] = T[i - 1] + l + 1
    <2>1. n \in 0 .. n
        BY <1>1
    <2>2. T[i] \in Nat /\ T[i - 1] \in Nat /\ T[n] \in Nat
        BY <1>1, <2>1
    <2> QED
        BY <2>2
<1>3. l \in Nat /\ l > 0
    BY PathsAssumption, ElementOfSeq
<1>4. i # n => i < n
    BY <1>1
<1>5. CASE ~r.ok
    <2>1. q = [r EXCEPT !.ok = FALSE]
        BY <1>5 DEF JoinName
    <2>2. q.ok = FALSE
        BY <2>1 DEF JoinRecords
    <2> QED
        BY <1>5, <2>2 DEF JoinInv
<1>6. CASE r.ok
    <2>1. r.offset = T[i - 1] + 1 /\ end = T[i]
        <3>1. r.offset = T[i - 1] + 1
            BY <1>1, <1>6 DEF JoinInv
        <3> HIDE DEF l
        <3> QED
            BY <1>2, <1>3, <3>1
    <2> DEFINE bad == ~StrCopies(l, room - 1 - r.offset) \/ (i < n /\ end + 2 >= room)
    <2>2. q = IF bad THEN [r EXCEPT !.ok = FALSE]
              ELSE [r EXCEPT !.offset = IF i < n THEN end + 1 ELSE end]
        BY <1>6 DEF JoinName
    <2>3. StrCopies(l, room - 1 - r.offset) <=> T[i] <= room - 2
        <3>1. r.offset = T[i] - l /\ T[i] \in Nat /\ l \in Nat /\ l > 0 /\ room \in Nat
            BY <1>2, <1>3, <2>1
        <3>2. PICK o, t, k : o = r.offset /\ t = T[i] /\ k = l
            OBVIOUS
        <3>3. o = t - k /\ t \in Nat /\ k \in Nat /\ k > 0 /\ room \in Nat
            BY <3>1, <3>2
        <3>4. StrCopies(k, room - 1 - o) <=> t <= room - 2
            BY <3>3 DEF StrCopies
        <3> QED
            BY <3>2, <3>4
    <2>4. CASE bad
        <3>1. q.ok = FALSE
            BY <2>2, <2>4 DEF JoinRecords
        <3>2. T[n] > room - 2
            <4>1. T[i] > room - 2 \/ (i < n /\ T[i] + 2 >= room)
                <5> HIDE DEF end
                <5> QED
                    BY <1>2, <2>1, <2>3, <2>4
            <4>2. i = n \/ T[n] >= T[i] + 2
                BY <1>4
            <4> QED
                BY <1>2, <4>1, <4>2
        <3> QED
            BY <1>1, <3>1, <3>2 DEF JoinInv
    <2>5. CASE ~bad
        <3>1. q.ok = TRUE /\ q.offset = IF i < n THEN end + 1 ELSE end
            BY <1>6, <2>2, <2>5 DEF JoinRecords
        <3>2. T[i] <= room - 2
            BY <2>3, <2>5
        <3> HIDE DEF end, bad, q
        <3>3. CASE i = n
            <4>1. JoinInv(room, T, n, i, q)
                BY <1>1, <2>1, <3>1, <3>2, <3>3 DEF JoinInv
            <4> QED
                BY <4>1 DEF q
        <3>4. CASE i < n
            <4>1. JoinInv(room, T, n, i, q)
                BY <1>1, <2>1, <3>1, <3>4 DEF JoinInv
            <4> QED
                BY <4>1 DEF q
        <3> QED
            BY <1>4, <3>3, <3>4
    <2> QED
        BY <2>4, <2>5
<1> QED
    BY <1>5, <1>6

\* A path fits iff its text, with a slash before and none behind, leaves a byte over.
LEMMA JoinedIs ==
    ASSUME NEW names \in Seq(Names), NEW room \in Nat \ {0, 1}
    PROVE  LET j == Joined(names, room)
           IN /\ j.ok \in BOOLEAN
              /\ j.ok <=> (names # <<>> => TextLength(names) <= room - 2)
              /\ j.ok => j.offset < room
<1> DEFINE n == Len(names)
           s == Numbered(names)
           base == [ok |-> TRUE, offset |-> 1]
           c == [names |-> names, size |-> room]
           j == Joined(names, room)
<1>1. /\ n \in Nat /\ (names = <<>> <=> n = 0) /\ base \in JoinRecords /\ base.ok = TRUE /\ base.offset = 1
      /\ c.names = names /\ c.size = room /\ room \in Nat /\ room >= 2
    BY EmptySeq DEF JoinRecords
<1>2. s \in Seq(1 .. n) /\ Len(s) = n /\ \A i \in 1 .. n : s[i] = i
    BY <1>1 DEF Numbered
<1>3. JoinSteps!Fold(c, base, s) = j
    BY DEF JoinSteps!Fold, JoinSteps!FoldLeft, JoinSteps!MapThenFoldSet, JoinSteps!Max,
           FoldLeft, MapThenFoldSet, Max, JoinTo, Joined
<1> HIDE DEF c, base, s, j
<1>4. JoinSteps!Keeps(c, JoinRecords, 1 .. n)
    BY <1>1, JoinKeeps DEF JoinSteps!Keeps, JoinTo
<1>5. PICK P \in [0 .. n -> JoinRecords] : JoinSteps!Steps(P, c, base, s) /\ j = P[n]
    <2>1. \E P \in [0 .. Len(s) -> JoinRecords] :
            JoinSteps!Steps(P, c, base, s) /\ JoinSteps!Fold(c, base, s) = P[Len(s)]
        BY <1>1, <1>2, <1>4, JoinSteps!Partial
    <2> QED
        BY <1>2, <1>3, <2>1
<1>6. P[0] = base /\ \A i \in 1 .. n : P[i] = JoinName(names, room, P[i - 1], i)
    <2>1. P[0] = base /\ \A i \in 1 .. Len(s) : P[i] = JoinTo(c, P[i - 1], s[i])
        BY <1>5 DEF JoinSteps!Steps
    <2>2. ASSUME NEW i \in 1 .. n PROVE P[i] = JoinName(names, room, P[i - 1], i)
        <3>1. P[i] = JoinTo(c, P[i - 1], i)
            BY <1>2, <2>1
        <3> QED
            BY <1>1, <3>1 DEF JoinTo
    <2> QED
        BY <2>1, <2>2
<1>7. PICK T \in [0 .. n -> Nat] :
            /\ T[0] = 0
            /\ \A i \in 1 .. n : T[i] = T[i - 1] + NameLength[names[i]] + 1
            /\ TextLength(names) = T[n]
    BY TextSums
<1>8. \A i \in 1 .. n : NameLength[names[i]] \in Nat /\ NameLength[names[i]] > 0
    BY PathsAssumption, ElementOfSeq
<1>9. \A i \in 1 .. n : i < n => T[n] >= T[i] + 2
    <2> SUFFICES ASSUME NEW i \in 1 .. n, i < n PROVE T[n] >= T[i] + 2
        OBVIOUS
    <2> DEFINE Ahead == {k \in 0 .. n : k > i => T[k] >= T[i] + 2}
    <2>1. 0 \in Ahead
        BY <1>1
    <2>2. ASSUME NEW k \in 1 .. n, k - 1 \in Ahead PROVE k \in Ahead
        <3>1. k \in 0 .. n /\ k - 1 \in 0 .. n /\ i \in 0 .. n
            BY <1>1
        <3>2. T[k] \in Nat /\ T[k - 1] \in Nat /\ T[i] \in Nat
            BY <3>1
        <3>3. T[k] >= T[k - 1] + 2
            <4> DEFINE l == NameLength[names[k]]
            <4>1. T[k] = T[k - 1] + l + 1 /\ l \in Nat /\ l > 0
                BY <1>7, <1>8
            <4> HIDE DEF l
            <4> QED
                BY <3>2, <4>1
        <3>4. k - 1 > i => T[k - 1] >= T[i] + 2
            BY <2>2
        <3>5. k > i => k - 1 > i \/ k - 1 = i
            BY <3>1
        <3>6. k > i => T[k - 1] >= T[i]
            <4>1. CASE k - 1 > i
                BY <3>2, <3>4, <4>1
            <4>2. CASE k - 1 = i
                BY <3>2, <4>2
            <4> QED
                BY <3>5, <4>1, <4>2
        <3>7. k > i => T[k] >= T[i] + 2
            BY <3>2, <3>3, <3>6
        <3> QED
            BY <3>1, <3>7
    <2> HIDE DEF Ahead
    <2>3. 0 .. n \subseteq Ahead
        BY <1>1, <2>1, <2>2, JoinSteps!FromZero
    <2> QED
        BY <1>1, <2>3 DEF Ahead
<1> DEFINE Good == {i \in 0 .. n : JoinInv(room, T, n, i, P[i])}
<1>10. 0 \in Good
    <2>1. JoinInv(room, T, n, 0, base)
        BY <1>1, <1>7 DEF JoinInv
    <2> QED
        BY <1>1, <1>6, <2>1
<1>11. ASSUME NEW i \in 1 .. n, i - 1 \in Good PROVE i \in Good
    <2>1. P[i - 1] \in JoinRecords /\ i \in 0 .. n /\ JoinInv(room, T, n, i - 1, P[i - 1])
        BY <1>1, <1>5, <1>11
    <2>2. JoinInv(room, T, n, i, JoinName(names, room, P[i - 1], i))
        BY <1>1, <1>7, <1>9, <2>1, JoinStep
    <2> QED
        BY <1>6, <2>1, <2>2
<1> HIDE DEF Good
<1>12. n \in Good
    <2>1. 0 .. n \subseteq Good
        BY <1>1, <1>10, <1>11, JoinSteps!FromZero
    <2> QED
        BY <1>1, <2>1
<1>13. JoinInv(room, T, n, n, j) /\ j \in JoinRecords /\ T[n] \in Nat
    BY <1>1, <1>5, <1>12 DEF Good
<1>14. j.ok \in BOOLEAN
    BY <1>13 DEF JoinRecords
<1> HIDE DEF n
<1>15. j.ok <=> (names # <<>> => TextLength(names) <= room - 2)
    BY <1>1, <1>7, <1>13, <1>14 DEF JoinInv
<1>16. j.ok => j.offset < room
    BY <1>1, <1>7, <1>13, <1>14 DEF JoinInv
<1> QED
    BY <1>14, <1>15, <1>16 DEF j

\* Making the directories stops at what is in the way, and goes on past the rest.
LEMMA DirsMade ==
    ASSUME NEW names \in Seq(Names), NEW call, call.dirs \in Nat,
           call.next \in {"none", "file", "raced", "denied"}
    PROVE  DirCreate(call, names) \in {"BUSY", "FAIL"} <=>
             call.dirs + 1 <= Len(names) /\ call.next \in {"file", "denied"}
<1> DEFINE n == Len(names)
           s == Numbered(names)
           Results == {"SUCCESS", "ALREADY_EXISTED", "BUSY", "FAIL"}
           base == "ALREADY_EXISTED"
           Stopped(i) == call.dirs + 1 <= i /\ call.next \in {"file", "denied"}
<1>1. n \in Nat /\ base \in Results /\ s \in Seq(1 .. n) /\ Len(s) = n /\ \A i \in 1 .. n : s[i] = i
    BY DEF Numbered
<1>2. MakeSteps!Fold(call, base, s) = DirCreate(call, names)
    BY DEF MakeSteps!Fold, MakeSteps!FoldLeft, MakeSteps!MapThenFoldSet, MakeSteps!Max,
           FoldLeft, MapThenFoldSet, Max, MakeNext, DirCreate
<1>3. \A i : There(call, i) \in {"none", "dir", "file", "raced", "denied"}
    BY DEF There
<1>4. MakeSteps!Keeps(call, Results, 1 .. n)
    BY <1>3 DEF MakeSteps!Keeps, MakeNext, MakeDir
<1> HIDE DEF s
<1>5. PICK P \in [0 .. n -> Results] : MakeSteps!Steps(P, call, base, s) /\ DirCreate(call, names) = P[n]
    <2>1. \E P \in [0 .. Len(s) -> Results] :
            MakeSteps!Steps(P, call, base, s) /\ MakeSteps!Fold(call, base, s) = P[Len(s)]
        <3> HIDE DEF Results, base, n
        <3> QED
            BY <1>1, <1>4, MakeSteps!Partial
    <2> QED
        BY <1>1, <1>2, <2>1
<1>6. P[0] = base /\ \A i \in 1 .. n : P[i] = MakeNext(call, P[i - 1], i)
    BY <1>1, <1>5 DEF MakeSteps!Steps
<1> DEFINE Good == {i \in 0 .. n : P[i] \in {"BUSY", "FAIL"} <=> Stopped(i)}
<1>7. 0 \in Good
    BY <1>1, <1>6
<1>8. ASSUME NEW i \in 1 .. n, i - 1 \in Good PROVE i \in Good
    <2>1. i \in 0 .. n /\ i \in Nat
        BY <1>1
    <2>2. P[i] = MakeNext(call, P[i - 1], i)
        BY <1>6
    <2>3. CASE P[i - 1] \in {"BUSY", "FAIL"}
        <3>1. P[i] = P[i - 1]
            BY <2>2, <2>3 DEF MakeNext
        <3> QED
            BY <1>8, <2>1, <2>3, <3>1
    <2>4. CASE P[i - 1] \notin {"BUSY", "FAIL"}
        <3>1. P[i] = MakeDir(There(call, i))
            BY <2>2, <2>4 DEF MakeNext
        <3>2. There(call, i) \in {"file", "denied"} <=> i = call.dirs + 1 /\ call.next \in {"file", "denied"}
            BY <2>1 DEF There
        <3>3. MakeDir(There(call, i)) \in {"BUSY", "FAIL"} <=> There(call, i) \in {"file", "denied"}
            BY <1>3 DEF MakeDir
        <3>4. ~Stopped(i - 1)
            BY <1>8, <2>4
        <3>5. Stopped(i) <=> i = call.dirs + 1 /\ call.next \in {"file", "denied"}
            BY <2>1, <3>4
        <3> QED
            BY <2>1, <3>1, <3>2, <3>3, <3>5
    <2> QED
        BY <2>3, <2>4
<1> HIDE DEF Good
<1>9. 0 .. n \subseteq Good
    BY <1>1, <1>7, <1>8, MakeSteps!FromZero
<1>10. n \in 0 .. n
    BY <1>1
<1>11. P[n] \in {"BUSY", "FAIL"} <=> Stopped(n)
    BY <1>9, <1>10 DEF Good
<1> QED
    BY <1>5, <1>11

\* PathsNormalized (clog_normalize, clog_file_get_dir and clog_dir_create), for paths
\* of any length, buffers of any size and any number of directories that are there.
THEOREM PathsAreNormalized ==
    pathCall \in PathCalls(Seq(Segments), Nat \ {0, 1}, Nat) \cup {NULL} => PathsNormalized
<1> SUFFICES ASSUME pathCall \in PathCalls(Seq(Segments), Nat \ {0, 1}, Nat), pathCall # NULL
             PROVE  PathsNormalized
    BY DEF PathsNormalized
<1> DEFINE s == UnnormalizedAbs(pathCall)
           room == pathCall.size
           base == [ok |-> TRUE, names |-> <<>>]
           r == FoldLeft(CreatePathNode, base, s)
           j == Joined(r.names, room)
           out == Normalize(pathCall, room)
           kept == Kept(s)
           res == DirCreate(pathCall, Front(out.names))
<1>1. /\ pathCall.absolute \in BOOLEAN /\ pathCall.segments \in Seq(Segments)
      /\ room \in Nat \ {0, 1} /\ pathCall.dirs \in Nat
      /\ pathCall.next \in {"none", "file", "raced", "denied"}
    BY DEF PathCalls
<1>2. s \in Seq(Segments)
    <2>1. Cwd \in Seq(Segments)
        BY PathsAssumption DEF Segments
    <2> QED
        BY <1>1, <2>1, ConcatProperties DEF UnnormalizedAbs
<1> HIDE DEF s, room
<1>3. r \in NodeRecords /\ (r.ok <=> ~Climbs(s)) /\ (r.ok => r.names = kept)
    BY <1>2, NodesFold
<1>4. /\ out.ok = (Readable(pathCall) /\ r.ok /\ j.ok)
      /\ out.names = r.names /\ out.end = j.offset
    BY DEF Normalize, s
<1> HIDE DEF r, base, out
<1>5. r.names \in Seq(Names) /\ r.ok \in BOOLEAN
    BY <1>3 DEF NodeRecords
<1>6. /\ j.ok \in BOOLEAN
      /\ j.ok <=> (r.names # <<>> => TextLength(r.names) <= room - 2)
      /\ j.ok => j.offset < room
    BY <1>1, <1>5, JoinedIs
<1> HIDE DEF j, kept
<1>7. out.ok <=> /\ Readable(pathCall) /\ ~Climbs(s)
                 /\ kept # <<>> => TextLength(kept) <= room - 2
    BY <1>3, <1>4, <1>6
<1>8. out.ok => out.names = kept /\ out.end < room /\ kept \in Seq(Names)
    BY <1>3, <1>4, <1>5, <1>6
<1>9. ASSUME out.ok, kept # <<>>
      PROVE  /\ GetDirEnd(out.names) < room
             /\ res \in {"BUSY", "FAIL"} <=>
                  pathCall.dirs + 1 < Len(kept) /\ pathCall.next \in {"file", "denied"}
    <2>1. out.names = kept /\ kept \in Seq(Names) /\ TextLength(kept) <= room - 2
        BY <1>7, <1>8, <1>9
    <2>2. /\ TextLength(Front(kept)) \in Nat
          /\ TextLength(kept) = TextLength(Front(kept)) + NameLength[kept[Len(kept)]] + 1
        BY <1>9, <2>1, TextOfFront
    <2>3. kept[Len(kept)] \in Names /\ Len(kept) \in Nat
        BY <1>9, <2>1, EmptySeq, ElementOfSeq, LenProperties
    <2>4. NameLength[kept[Len(kept)]] \in Nat
        BY <2>3, PathsAssumption
    <2>5. GetDirEnd(out.names) < room
        BY <1>1, <2>1, <2>2, <2>4 DEF GetDirEnd
    <2>6. Front(kept) \in Seq(Names) /\ Len(Front(kept)) = Len(kept) - 1
        BY <1>9, <2>1, FrontFacts
    <2>7. res \in {"BUSY", "FAIL"} <=>
            pathCall.dirs + 1 <= Len(Front(kept)) /\ pathCall.next \in {"file", "denied"}
        BY <1>1, <2>1, <2>6, DirsMade
    <2>8. pathCall.dirs + 1 <= Len(kept) - 1 <=> pathCall.dirs + 1 < Len(kept)
        BY <1>1, <2>3
    <2> HIDE DEF res
    <2> QED
        BY <2>5, <2>6, <2>7, <2>8
<1> QED
    BY <1>7, <1>8, <1>9 DEF PathsNormalized, out, s, room, kept

--------------------------------------------------------------------------------
(* Lines of a configuration                                                 *)

\* The loops over a header, a name of it, an array and the digits of a number.
ModeTo(c, mode, m) == NextMode(mode, m)
ModeSteps == INSTANCE SequenceFolds WITH Op <- ModeTo
NameTo(c, r, m) == NextName(r, m)
NameSteps == INSTANCE SequenceFolds WITH Op <- NameTo
ItemTo(c, r, m) == NextItem(r, m)
ItemSteps == INSTANCE SequenceFolds WITH Op <- ItemTo
UintSteps == INSTANCE SequenceFolds WITH Op <- Accumulate
DenoteSteps == INSTANCE SequenceFolds WITH Op <- DenotedBy

\* What the digits of a number denote, and what is accumulated of it.
Denoting(D, radix, digits) ==
    D[0] = 0 /\ \A i \in 1 .. Len(digits) : D[i] = DenotedBy(radix, D[i - 1], digits[i])
Accumulating(U, radix, digits) ==
    U[0] = 0 /\ \A i \in 1 .. Len(digits) : U[i] = Accumulate(radix, U[i - 1], digits[i])

LEMMA DenotesFold ==
    ASSUME NEW radix \in Radices, NEW digits \in Seq(Nat)
    PROVE  \E D \in [0 .. Len(digits) -> Nat] :
              Denoting(D, radix, digits) /\ Denotes(radix, digits) = D[Len(digits)]
<1>1. radix \in Nat
    BY ConfigTextAssumption
<1>2. DenoteSteps!Keeps(radix, Nat, Nat)
    BY <1>1 DEF DenoteSteps!Keeps, DenotedBy
<1>3. Denotes(radix, digits) = DenoteSteps!Fold(radix, 0, digits)
    BY DEF Denotes, DenoteSteps!Fold, DenoteSteps!FoldLeft, DenoteSteps!MapThenFoldSet,
           DenoteSteps!Max, FoldLeft, MapThenFoldSet, Max
<1>4. 0 \in Nat
    OBVIOUS
<1>5. PICK D \in [0 .. Len(digits) -> Nat] :
        DenoteSteps!Steps(D, radix, 0, digits) /\ DenoteSteps!Fold(radix, 0, digits) = D[Len(digits)]
    <2> DEFINE A == Nat
               Z == Nat
    <2>1. DenoteSteps!Keeps(radix, A, Z) /\ digits \in Seq(Z) /\ 0 \in A
        BY <1>2, <1>4
    <2> HIDE DEF A, Z
    <2>2. \E D \in [0 .. Len(digits) -> A] :
            DenoteSteps!Steps(D, radix, 0, digits) /\ DenoteSteps!Fold(radix, 0, digits) = D[Len(digits)]
        BY <2>1, DenoteSteps!Partial
    <2> QED
        BY <2>2 DEF A
<1> QED
    BY <1>3, <1>5 DEF DenoteSteps!Steps, Denoting

LEMMA RangeFacts ==
    ASSUME NEW v \in Nat
    PROVE  /\ UintRange \in Nat /\ UintRange > 0
           /\ UintRange * UintRange \in Nat /\ UintRange * UintRange >= UintRange
           /\ v % (UintRange * UintRange) \in Nat
           /\ v < UintRange * UintRange => v % (UintRange * UintRange) = v
           /\ UintRange \div 2 \in Nat /\ UintRange \div 2 <= UintRange
           /\ v % UintRange \in Nat /\ (v < UintRange => v % UintRange = v) /\ UintRange % UintRange = 0
<1> PICK m : m = UintRange * UintRange
    OBVIOUS
<1>1. UintRange \in Nat /\ UintRange > 0
    BY ConfigTextAssumption
<1>2. m \in Nat /\ m >= UintRange
    BY <1>1
<1>3. \A k \in Nat : k > 0 => v % k \in Nat /\ (v < k => v % k = v) /\ k % k = 0
    OBVIOUS
<1>4. UintRange \div 2 \in Nat /\ UintRange \div 2 <= UintRange
    BY <1>1
<1> QED
    BY <1>1, <1>2, <1>3, <1>4

LEMMA UintRadixFold ==
    ASSUME NEW radix \in Radices, NEW digits \in Seq(Nat)
    PROVE  \E U \in [0 .. Len(digits) -> Nat] :
              Accumulating(U, radix, digits) /\ UintRadix(radix, digits) = U[Len(digits)]
<1>1. radix \in Nat
    BY ConfigTextAssumption
<1>2. UintSteps!Keeps(radix, Nat, Nat)
    <2> SUFFICES ASSUME NEW a \in Nat, NEW d \in Nat PROVE Accumulate(radix, a, d) \in Nat
        BY DEF UintSteps!Keeps
    <2>1. a * radix + d \in Nat
        BY <1>1
    <2> QED
        BY <2>1, RangeFacts DEF Accumulate
<1>3. UintRadix(radix, digits) = UintSteps!Fold(radix, 0, digits)
    BY DEF UintRadix, UintSteps!Fold, UintSteps!FoldLeft, UintSteps!MapThenFoldSet,
           UintSteps!Max, FoldLeft, MapThenFoldSet, Max
<1>4. 0 \in Nat
    OBVIOUS
<1>5. PICK U \in [0 .. Len(digits) -> Nat] :
        UintSteps!Steps(U, radix, 0, digits) /\ UintSteps!Fold(radix, 0, digits) = U[Len(digits)]
    <2> DEFINE A == Nat
               Z == Nat
    <2>1. UintSteps!Keeps(radix, A, Z) /\ digits \in Seq(Z) /\ 0 \in A
        BY <1>2, <1>4
    <2> HIDE DEF A, Z
    <2>2. \E U \in [0 .. Len(digits) -> A] :
            UintSteps!Steps(U, radix, 0, digits) /\ UintSteps!Fold(radix, 0, digits) = U[Len(digits)]
        BY <2>1, UintSteps!Partial
    <2> QED
        BY <2>2 DEF A
<1> QED
    BY <1>3, <1>5 DEF UintSteps!Steps, Accumulating

LEMMA DigitAdds == \A radix \in Radices, a, d \in Nat : a <= a * radix + d
<1>1. \A a, d \in Nat : a <= a * 2 + d /\ a <= a * 8 + d /\ a <= a * 10 + d /\ a <= a * 16 + d
    OBVIOUS
<1> QED
    BY <1>1, ConfigTextAssumption

\* What fits in the accumulator did at each digit.
LEMMA NothingWraps ==
    ASSUME NEW radix \in Radices, NEW digits \in Seq(Nat), Denotes(radix, digits) < UintRange * UintRange
    PROVE  Denotes(radix, digits) \in Nat /\ UintRadix(radix, digits) = Denotes(radix, digits)
<1> DEFINE n == Len(digits)
           m == UintRange * UintRange
<1>1. PICK D \in [0 .. n -> Nat] : Denoting(D, radix, digits) /\ Denotes(radix, digits) = D[n]
    BY DenotesFold
<1>2. PICK U \in [0 .. n -> Nat] : Accumulating(U, radix, digits) /\ UintRadix(radix, digits) = U[n]
    BY UintRadixFold
<1>3. n \in Nat /\ \A i \in 1 .. n : digits[i] \in Nat /\ i - 1 \in 0 .. n /\ i \in 0 .. n
    BY LenProperties, ElementOfSeq
<1>4. m \in Nat
    BY RangeFacts
<1> HIDE DEF n, m
<1>5. \A i \in 1 .. n : D[i] = D[i - 1] * radix + digits[i]
    BY <1>1 DEF Denoting, DenotedBy, n
<1>6. \A i \in 1 .. n : D[i - 1] <= D[i]
    <2> SUFFICES ASSUME NEW i \in 1 .. n PROVE D[i - 1] <= D[i]
        OBVIOUS
    <2> PICK a \in Nat, d \in Nat : a = D[i - 1] /\ d = digits[i]
        BY <1>3
    <2>1. a <= a * radix + d
        BY DigitAdds
    <2> QED
        BY <1>5, <2>1
<1>7. \A i \in 0 .. n : D[i] < m
    <2> DEFINE T == {k \in 0 .. n : D[n - k] < m}
    <2>1. 0 \in T
        BY <1>1, <1>3 DEF m, n
    <2>2. \A k \in 1 .. n : k - 1 \in T => k \in T
        <3> SUFFICES ASSUME NEW k \in 1 .. n, D[n - (k - 1)] < m PROVE D[n - k] < m
            BY <1>3
        <3> PICK i : i = n - k + 1
            OBVIOUS
        <3>1. i \in 1 .. n /\ n - (k - 1) = i /\ n - k = i - 1
            BY <1>3
        <3>2. D[i - 1] <= D[i] /\ D[i] < m /\ D[i] \in Nat /\ D[i - 1] \in Nat
            BY <1>3, <1>6, <3>1
        <3> QED
            BY <1>4, <3>1, <3>2
    <2> HIDE DEF T
    <2>3. 0 .. n \subseteq T
        BY <1>3, <2>1, <2>2, UintSteps!FromZero
    <2> SUFFICES ASSUME NEW i \in 0 .. n PROVE D[i] < m
        OBVIOUS
    <2>4. n - i \in 0 .. n /\ n - (n - i) = i
        BY <1>3
    <2> QED
        BY <2>3, <2>4 DEF T
<1>8. \A i \in 0 .. n : U[i] = D[i]
    <2> DEFINE T == {i \in 0 .. n : U[i] = D[i]}
    <2>1. 0 \in T
        BY <1>1, <1>2, <1>3 DEF Denoting, Accumulating
    <2>2. \A i \in 1 .. n : i - 1 \in T => i \in T
        <3> SUFFICES ASSUME NEW i \in 1 .. n, U[i - 1] = D[i - 1] PROVE U[i] = D[i]
            BY <1>3
        <3>1. U[i] = (D[i - 1] * radix + digits[i]) % m
            BY <1>2 DEF Accumulating, Accumulate, n, m
        <3>2. D[i] \in Nat /\ D[i] < m
            BY <1>3, <1>7
        <3> QED
            BY <1>5, <3>1, <3>2, RangeFacts DEF m
    <2> HIDE DEF T
    <2>3. 0 .. n \subseteq T
        BY <1>3, <2>1, <2>2, UintSteps!FromZero
    <2> QED
        BY <2>3 DEF T
<1>9. n \in 0 .. n
    BY <1>3
<1> QED
    BY <1>1, <1>2, <1>8, <1>9

\* What a 0 alone denotes.
LEMMA ZeroDenotes == \A radix \in Radices : Denotes(radix, <<0>>) = 0
<1> SUFFICES ASSUME NEW radix \in Radices PROVE Denotes(radix, <<0>>) = 0
    OBVIOUS
<1> PICK digits : digits = <<0>>
    OBVIOUS
<1>1. digits \in Seq(Nat) /\ Len(digits) = 1 /\ digits[1] = 0 /\ radix \in Nat
    BY ConfigTextAssumption
<1>2. PICK D \in [0 .. Len(digits) -> Nat] :
        Denoting(D, radix, digits) /\ Denotes(radix, digits) = D[Len(digits)]
    BY <1>1, DenotesFold
<1>3. D[0] = 0 /\ D[1] = DenotedBy(radix, D[0], 0)
    BY <1>1, <1>2 DEF Denoting
<1>4. DenotedBy(radix, 0, 0) = 0
    BY <1>1 DEF DenotedBy
<1> QED
    BY <1>1, <1>2, <1>3, <1>4

\* An integer is refused or its bits are stored, mostly as an unsigned one.
LEMMA NumberRead ==
    ASSUME NEW sign \in {"none", "+", "-"}, NEW radix \in Radices, NEW digits \in Seq(Nat)
    PROVE  NumberStored(sign, radix, digits)
<1> SUFFICES ASSUME Denotes(radix, digits) < UintRange * UintRange,
                    ParseNumber(sign, radix, digits).type # "UNDEFINED"
             PROVE  LET v == Denotes(radix, digits)
                        greatest == IF sign = "-" THEN UintRange \div 2 - 1 ELSE UintRange - 1
                        signed == sign # "none"
                        r == ParseNumber(sign, radix, digits) IN
                    /\ r.type = "REFUSED" <=> v > greatest \/ (signed /\ radix # 10)
                    /\ r.type = "INT" <=> signed /\ radix = 10 /\ digits = <<0>>
                    /\ r.type # "REFUSED" => r.bits = IF sign = "-" /\ v > 0 THEN UintRange - v ELSE v
    BY DEF NumberStored
<1> PICK v : v = Denotes(radix, digits)
    OBVIOUS
<1> PICK r, half, r0 : r = UintRange /\ half = UintRange \div 2 /\ r0 = ParseNumber(sign, radix, digits)
    OBVIOUS
<1> DEFINE signed == sign # "none"
           greatest == IF sign = "-" THEN half - 1 ELSE r - 1
           Bits == IF sign = "-" /\ v > 0 THEN r - v ELSE v
           Low == [k \in Nat |-> k % r]
<1>1. v \in Nat /\ UintRadix(radix, digits) = v
    BY NothingWraps
<1>2. r \in Nat /\ r >= 2 /\ half \in Nat /\ half >= 1 /\ half <= r
    BY ConfigTextAssumption
<1>3. /\ \A k \in Nat : Low[k] = k % r
      /\ \A k \in Nat : k < r => Low[k] = k
      /\ Low[r] = 0
    BY <1>2, RangeFacts
<1> HIDE DEF Low
<1>4. /\ v > r - 1 => v > half - 1
      /\ greatest >= 0
      /\ sign = "-" /\ ~(v > half - 1) => r - v \in Nat /\ r - v <= r /\ (v > 0 => r - v < r) /\ (v = 0 => r - v = r)
    BY <1>1, <1>2
<1>5. ~(v > greatest) /\ sign = "-" => (r - v) % r = Bits
    <2> SUFFICES ASSUME ~(v > greatest), sign = "-" PROVE (r - v) % r = Bits
        OBVIOUS
    <2>1. r - v \in Nat /\ (r - v) % r = Low[r - v]
        BY <1>3, <1>4
    <2>2. CASE v = 0
        <3>1. Low[r - v] = 0
            BY <1>3, <1>4, <2>2
        <3> QED
            BY <2>1, <2>2, <3>1
    <2>3. CASE v > 0
        <3>1. Low[r - v] = r - v
            BY <1>3, <1>4, <2>1, <2>3
        <3> QED
            BY <2>1, <2>3, <3>1
    <2> QED
        BY <1>1, <2>2, <2>3
<1>6. digits = <<0>> => v = 0
    BY ZeroDenotes
<1> PICK empty, zero : empty = (digits = <<>>) /\ zero = (digits = <<0>>)
    OBVIOUS
<1>7. r0 = IF signed /\ radix # 10 THEN Number("REFUSED", 0)
           ELSE IF signed /\ empty THEN Number("UNDEFINED", 0)
           ELSE IF signed /\ zero THEN Number("INT", 0)
           ELSE IF v > r - 1 \/ (sign = "-" /\ v > half - 1) THEN Number("REFUSED", 0)
           ELSE Number("UINT", IF sign = "-" THEN (r - v) % r ELSE v)
    BY <1>1 DEF ParseNumber, UintMax, IntMax
<1>8. \A type, bits : Number(type, bits).type = type /\ Number(type, bits).bits = bits
    BY DEF Number
<1>9. v > r - 1 \/ (sign = "-" /\ v > half - 1) <=> v > greatest
    BY <1>4
<1>10. zero => v = 0 /\ ~(v > greatest) /\ Bits = 0
    <2>1. zero => v = 0
        BY <1>6, Zenon
    <2>2. v = 0 => ~(v > greatest) /\ Bits = 0
        BY <1>1, <1>2, <1>4
    <2> QED
        BY <2>1, <2>2
<1>11. sign = "-" \/ Bits = v
    OBVIOUS
<1>12. r0.type # "UNDEFINED"
    OBVIOUS
<1> HIDE DEF greatest, Bits
<1>13. r0 = IF signed /\ radix # 10 THEN Number("REFUSED", 0)
            ELSE IF signed /\ zero THEN Number("INT", 0)
            ELSE IF v > greatest THEN Number("REFUSED", 0)
            ELSE Number("UINT", Bits)
    BY <1>5, <1>7, <1>8, <1>9, <1>11, <1>12
<1>14. /\ r0.type = "REFUSED" <=> v > greatest \/ (signed /\ radix # 10)
       /\ r0.type = "INT" <=> signed /\ radix = 10 /\ zero
       /\ r0.type # "REFUSED" => r0.bits = Bits
    <2>1. CASE signed /\ radix # 10
        BY <1>8, <1>13, <2>1
    <2>2. CASE signed /\ radix = 10 /\ zero
        BY <1>8, <1>10, <1>13, <2>2
    <2>3. CASE ~(signed /\ radix # 10) /\ ~(signed /\ radix = 10 /\ zero)
        BY <1>8, <1>13, <2>3
    <2> QED
        BY <2>1, <2>2, <2>3
<1> QED
    BY <1>14 DEF greatest, Bits

--------------------------------------------------------------------------------
(* Separators and pieces                                                    *)

LEMMA PlaceAdded ==
    ASSUME NEW i \in Nat, i # 0, NEW T \in SUBSET (1 .. i), NEW U \in SUBSET (1 .. i - 1),
           \A j \in 1 .. i - 1 : j \in T <=> j \in U
    PROVE  /\ Cardinality(T) \in Nat /\ Cardinality(U) \in Nat
           /\ Cardinality(T) = Cardinality(U) + (IF i \in T THEN 1 ELSE 0)
<1>1. IsFiniteSet(1 .. i - 1) /\ IsFiniteSet(1 .. i)
    BY FS_Interval
<1>2. IsFiniteSet(U) /\ Cardinality(U) \in Nat /\ IsFiniteSet(T) /\ Cardinality(T) \in Nat
    BY <1>1, FS_Subset, FS_CardinalityType
<1>3. (\A j \in 1 .. i : j # i => j \in 1 .. i - 1) /\ i \notin 1 .. i - 1 /\ 1 .. i - 1 \subseteq 1 .. i
    OBVIOUS
<1>4. Cardinality(U \cup {i}) = Cardinality(U) + 1
    <2>1. i \notin U
        BY <1>3
    <2> QED
        BY <1>2, <2>1, FS_AddElement
<1>5. CASE i \in T
    <2>1. T = U \cup {i}
        BY <1>3, <1>5
    <2> QED
        BY <1>2, <1>4, <1>5, <2>1
<1>6. CASE i \notin T
    <2>1. T = U
        BY <1>3, <1>6
    <2> QED
        BY <1>2, <1>6, <2>1
<1> QED
    BY <1>5, <1>6

\* The first i marks have one separator more than those before, or one mark
\* more in the piece that ends there.
LEMMA SeparatorsNext ==
    ASSUME NEW s, NEW sep, NEW i \in Nat, i # 0
    PROVE  /\ Separators(s, i, sep) \in Nat /\ Separators(s, i - 1, sep) \in Nat
           /\ Separators(s, i, sep) = Separators(s, i - 1, sep) + (IF s[i] = sep THEN 1 ELSE 0)
<1> DEFINE T == {j \in 1 .. i : s[j] = sep}
           U == {j \in 1 .. i - 1 : s[j] = sep}
<1>1. T \in SUBSET (1 .. i) /\ U \in SUBSET (1 .. i - 1) /\ \A j \in 1 .. i - 1 : j \in T <=> j \in U
    OBVIOUS
<1>2. i \in T <=> s[i] = sep
    OBVIOUS
<1>3. Separators(s, i, sep) = Cardinality(T) /\ Separators(s, i - 1, sep) = Cardinality(U)
    BY DEF Separators
<1> HIDE DEF T, U
<1> QED
    BY <1>1, <1>2, <1>3, PlaceAdded

LEMMA PieceNext ==
    ASSUME NEW s, NEW sep, NEW mark, NEW k, NEW i \in Nat, i # 0
    PROVE  /\ Piece(s, i, sep, mark, k) \in Nat /\ Piece(s, i - 1, sep, mark, k) \in Nat
           /\ Piece(s, i, sep, mark, k) = Piece(s, i - 1, sep, mark, k)
                  + (IF s[i] = mark /\ Separators(s, i, sep) = k - 1 THEN 1 ELSE 0)
<1> DEFINE T == {j \in 1 .. i : s[j] = mark /\ Separators(s, j, sep) = k - 1}
           U == {j \in 1 .. i - 1 : s[j] = mark /\ Separators(s, j, sep) = k - 1}
<1>1. T \in SUBSET (1 .. i) /\ U \in SUBSET (1 .. i - 1) /\ \A j \in 1 .. i - 1 : j \in T <=> j \in U
    OBVIOUS
<1>2. i \in T <=> s[i] = mark /\ Separators(s, i, sep) = k - 1
    OBVIOUS
<1>3. Piece(s, i, sep, mark, k) = Cardinality(T) /\ Piece(s, i - 1, sep, mark, k) = Cardinality(U)
    BY DEF Piece
<1> HIDE DEF T, U
<1> QED
    BY <1>1, <1>2, <1>3, PlaceAdded

LEMMA NoPieces ==
    ASSUME NEW s, NEW sep, NEW mark
    PROVE  Separators(s, 0, sep) = 0 /\ \A k : Piece(s, 0, sep, mark, k) = 0
<1>1. {j \in 1 .. 0 : s[j] = sep} = {}
    OBVIOUS
<1>2. ASSUME NEW k PROVE {j \in 1 .. 0 : s[j] = mark /\ Separators(s, j, sep) = k - 1} = {}
    OBVIOUS
<1> QED
    BY <1>1, <1>2, FS_EmptySet DEF Separators, Piece

\* A line that is closed is closed at one place, before which it is not.
LEMMA ClosingIs ==
    ASSUME NEW Z, NEW s \in Seq(Z), HasClosing(s)
    PROVE  Closing(s) \in 1 .. Len(s) /\ s[Closing(s)] = "CLOSE" /\ \A j \in 1 .. Closing(s) - 1 : s[j] # "CLOSE"
<1> DEFINE T == {i \in 1 .. Len(s) : s[i] = "CLOSE"}
<1>1. T \in SUBSET Nat /\ T # {}
    BY DEF HasClosing
<1>2. PICK m \in T : \A k \in T : m <= k
    BY <1>1, LeastOf
<1>3. m \in 1 .. Len(s) /\ s[m] = "CLOSE" /\ \A j \in 1 .. m - 1 : s[j] # "CLOSE"
    BY <1>2
<1> QED
    BY <1>3 DEF Closing

\* The pieces that are over behind the first i marks, and the one that is not.
Over(s, i, sep, mark) == [k \in 1 .. Separators(s, i, sep) |-> Piece(s, i, sep, mark, k)]
Current(s, i, sep, mark) == Piece(s, i, sep, mark, Separators(s, i, sep) + 1)

LEMMA NoneBehind ==
    ASSUME NEW s, NEW sep, NEW mark, NEW n \in Nat
    PROVE  \A k \in Nat : k > Separators(s, n, sep) + 1 => Piece(s, n, sep, mark, k) = 0
<1> DEFINE D(i) == Separators(s, i, sep)
           Q(i, k) == Piece(s, i, sep, mark, k)
           T == {i \in 0 .. n : \A k \in Nat : k > D(i) + 1 => Q(i, k) = 0}
<1>1. \A k : Q(0, k) = 0
    BY NoPieces
<1>2. \A i \in 1 .. n : D(i) \in Nat /\ D(i - 1) \in Nat /\ D(i - 1) <= D(i)
    BY SeparatorsNext
<1>3. \A i \in 1 .. n : \A k : Q(i, k) = Q(i - 1, k) + (IF s[i] = mark /\ D(i) = k - 1 THEN 1 ELSE 0)
    BY PieceNext
<1> HIDE DEF D, Q
<1>4. 0 \in T
    BY <1>1
<1>5. \A i \in 1 .. n : i - 1 \in T => i \in T
    <2> SUFFICES ASSUME NEW i \in 1 .. n, i - 1 \in T, NEW k \in Nat, k > D(i) + 1 PROVE Q(i, k) = 0
        OBVIOUS
    <2>1. k > D(i - 1) + 1 /\ D(i) # k - 1
        BY <1>2
    <2>2. Q(i - 1, k) = 0
        BY <2>1
    <2> QED
        BY <1>3, <2>1, <2>2
<1> HIDE DEF T
<1>6. 0 .. n \subseteq T
    BY <1>4, <1>5, UintSteps!FromZero
<1> QED
    BY <1>6 DEF T, D, Q

\* One sequence is another with an element behind it.
LEMMA AppendMade ==
    ASSUME NEW d \in Nat, NEW f \in [1 .. d -> Nat], NEW x \in Nat
    PROVE  /\ f \in Seq(Nat) /\ Len(f) = d
           /\ Append(f, x) \in Seq(Nat) /\ Len(Append(f, x)) = d + 1 /\ Append(f, x)[d + 1] = x
           /\ \A k \in 1 .. d : Append(f, x)[k] = f[k]
           /\ Append(f, x) = [k \in 1 .. d + 1 |-> IF k = d + 1 THEN x ELSE f[k]]
<1> DEFINE A == Nat
<1>1. f \in Seq(A) /\ Len(f) = d /\ x \in A
    OBVIOUS
<1> HIDE DEF A
<1>2. /\ Append(f, x) \in Seq(A) /\ Len(Append(f, x)) = d + 1 /\ Append(f, x)[d + 1] = x
      /\ \A k \in 1 .. d : Append(f, x)[k] = f[k]
    BY <1>1, AppendProperties
<1>3. Append(f, x) \in [1 .. d + 1 -> A]
    BY <1>2, LenProperties
<1>4. \A k \in 1 .. d + 1 : k # d + 1 => k \in 1 .. d
    OBVIOUS
<1>5. Append(f, x) = [k \in 1 .. d + 1 |-> IF k = d + 1 THEN x ELSE f[k]]
    BY <1>2, <1>3, <1>4
<1> QED
    BY <1>1, <1>2, <1>5 DEF A

LEMMA OverTyped ==
    ASSUME NEW s, NEW sep, NEW mark, NEW i \in Nat
    PROVE  /\ Over(s, i, sep, mark) \in Seq(Nat) /\ Len(Over(s, i, sep, mark)) = Separators(s, i, sep)
           /\ Over(s, i, sep, mark) \in [1 .. Separators(s, i, sep) -> Nat]
           /\ Separators(s, i, sep) \in Nat /\ Current(s, i, sep, mark) \in Nat
<1>1. Separators(s, i, sep) \in Nat
    <2>1. i + 1 \in Nat /\ i + 1 # 0 /\ (i + 1) - 1 = i
        OBVIOUS
    <2> QED
        BY <2>1, SeparatorsNext
<1>2. \A k : Piece(s, i, sep, mark, k) \in Nat
    <2>1. i + 1 \in Nat /\ i + 1 # 0 /\ (i + 1) - 1 = i
        OBVIOUS
    <2> QED
        BY <2>1, PieceNext
<1>3. Over(s, i, sep, mark) \in [1 .. Separators(s, i, sep) -> Nat]
    BY <1>2 DEF Over
<1> QED
    BY <1>1, <1>2, <1>3, AppendMade DEF Current

LEMMA NothingOver ==
    ASSUME NEW s, NEW sep, NEW mark
    PROVE  Over(s, 0, sep, mark) = <<>> /\ Current(s, 0, sep, mark) = 0
<1>1. Separators(s, 0, sep) = 0 /\ \A k : Piece(s, 0, sep, mark, k) = 0
    BY NoPieces
<1>2. Over(s, 0, sep, mark) \in Seq(Nat) /\ Len(Over(s, 0, sep, mark)) = 0
    BY <1>1, OverTyped
<1>3. Over(s, 0, sep, mark) = <<>>
    BY <1>2, EmptySeq
<1> QED
    BY <1>1, <1>3 DEF Current

\* What one mark more does to them.
LEMMA SeparatorNext ==
    ASSUME NEW s, NEW sep, NEW mark, sep # mark, NEW i \in Nat, i # 0, s[i] = sep
    PROVE  /\ Over(s, i, sep, mark) = Append(Over(s, i - 1, sep, mark), Current(s, i - 1, sep, mark))
           /\ Current(s, i, sep, mark) = 0
<1> DEFINE D(j) == Separators(s, j, sep)
           Q(j, k) == Piece(s, j, sep, mark, k)
<1>1. D(i) = D(i - 1) + 1 /\ D(i - 1) \in Nat
    BY SeparatorsNext
<1>2. \A k : Q(i, k) = Q(i - 1, k) /\ Q(i - 1, k) \in Nat
    BY PieceNext
<1>3. Q(i - 1, D(i) + 1) = 0
    <2>1. i - 1 \in Nat
        OBVIOUS
    <2>2. D(i) + 1 \in Nat /\ D(i) + 1 > D(i - 1) + 1
        BY <1>1
    <2> QED
        BY <2>1, <2>2, NoneBehind
<1>4. Over(s, i, sep, mark) = [k \in 1 .. D(i) |-> Q(i, k)]
    BY DEF Over
<1>5. Over(s, i - 1, sep, mark) = [k \in 1 .. D(i - 1) |-> Q(i - 1, k)]
    BY DEF Over
<1>6. Current(s, i, sep, mark) = Q(i, D(i) + 1) /\ Current(s, i - 1, sep, mark) = Q(i - 1, D(i - 1) + 1)
    BY DEF Current
<1> HIDE DEF D, Q
<1> PICK f, x, d : f = Over(s, i - 1, sep, mark) /\ x = Current(s, i - 1, sep, mark) /\ d = D(i - 1)
    OBVIOUS
<1>7. d \in Nat /\ f \in [1 .. d -> Nat] /\ x \in Nat
    BY <1>1, <1>2, <1>5, <1>6
<1>8. Append(f, x) = [k \in 1 .. d + 1 |-> IF k = d + 1 THEN x ELSE f[k]]
    BY <1>7, AppendMade
<1>9. \A k \in 1 .. d + 1 : Q(i, k) = IF k = d + 1 THEN x ELSE f[k]
    <2>1. \A k \in 1 .. d + 1 : k # d + 1 => k \in 1 .. d
        BY <1>7
    <2> QED
        BY <1>2, <1>5, <1>6, <1>7, <2>1
<1>10. Over(s, i, sep, mark) = [k \in 1 .. d + 1 |-> IF k = d + 1 THEN x ELSE f[k]]
    BY <1>1, <1>4, <1>9
<1> QED
    BY <1>2, <1>3, <1>6, <1>8, <1>10

LEMMA MarkNext ==
    ASSUME NEW s, NEW sep, NEW mark, NEW i \in Nat, i # 0, s[i] # sep
    PROVE  /\ Over(s, i, sep, mark) = Over(s, i - 1, sep, mark)
           /\ Current(s, i, sep, mark) = Current(s, i - 1, sep, mark) + (IF s[i] = mark THEN 1 ELSE 0)
<1> DEFINE D(j) == Separators(s, j, sep)
           Q(j, k) == Piece(s, j, sep, mark, k)
<1>1. D(i) = D(i - 1) /\ D(i - 1) \in Nat
    BY SeparatorsNext
<1>2. \A k : Q(i, k) = Q(i - 1, k) + (IF s[i] = mark /\ D(i) = k - 1 THEN 1 ELSE 0) /\ Q(i - 1, k) \in Nat
    BY PieceNext
<1>3. Over(s, i, sep, mark) = [k \in 1 .. D(i) |-> Q(i, k)]
    BY DEF Over
<1>4. Over(s, i - 1, sep, mark) = [k \in 1 .. D(i - 1) |-> Q(i - 1, k)]
    BY DEF Over
<1>5. Current(s, i, sep, mark) = Q(i, D(i) + 1) /\ Current(s, i - 1, sep, mark) = Q(i - 1, D(i - 1) + 1)
    BY DEF Current
<1> HIDE DEF D, Q
<1> PICK d : d = D(i)
    OBVIOUS
<1>6. \A k \in 1 .. d : Q(i, k) = Q(i - 1, k)
    <2>1. \A k \in 1 .. d : d # k - 1
        BY <1>1
    <2> QED
        BY <1>2, <2>1
<1>7. Q(i, d + 1) = Q(i - 1, d + 1) + (IF s[i] = mark THEN 1 ELSE 0)
    <2>1. d = (d + 1) - 1
        BY <1>1
    <2> QED
        BY <1>2, <2>1
<1> QED
    BY <1>1, <1>3, <1>4, <1>5, <1>6, <1>7

LEMMA LengthsAre ==
    ASSUME NEW Z, NEW s \in Seq(Z), NEW sep, NEW mark, HasClosing(s)
    PROVE  Lengths(s, sep, mark) = Append(Over(s, Closing(s) - 1, sep, mark), Current(s, Closing(s) - 1, sep, mark))
<1> PICK i : i = Closing(s) - 1
    OBVIOUS
<1>1. i \in Nat
    BY ClosingIs
<1> PICK d, f, x : d = Separators(s, i, sep) /\ f = Over(s, i, sep, mark) /\ x = Current(s, i, sep, mark)
    OBVIOUS
<1>2. d \in Nat /\ f \in [1 .. d -> Nat] /\ x \in Nat
    BY <1>1, OverTyped
<1>3. Append(f, x) = [k \in 1 .. d + 1 |-> IF k = d + 1 THEN x ELSE f[k]]
    BY <1>2, AppendMade
<1>4. \A k \in 1 .. d + 1 : Piece(s, i, sep, mark, k) = IF k = d + 1 THEN x ELSE f[k]
    <2>1. \A k \in 1 .. d + 1 : k # d + 1 => k \in 1 .. d
        BY <1>2
    <2> QED
        BY <2>1 DEF Over, Current
<1>5. Lengths(s, sep, mark) = [k \in 1 .. d + 1 |-> Piece(s, i, sep, mark, k)]
    BY DEF Lengths
<1> QED
    BY <1>3, <1>4, <1>5

\* No piece is empty.
AllMarked(q) == \A k \in 1 .. Len(q) : q[k] > 0
LEMMA AllMarkedAppend ==
    ASSUME NEW q \in Seq(Nat), NEW x \in Nat
    PROVE  AllMarked(Append(q, x)) <=> AllMarked(q) /\ x > 0
<1> PICK d, a : d = Len(q) /\ a = Append(q, x)
    OBVIOUS
<1>1. d \in Nat /\ Len(a) = d + 1 /\ a[d + 1] = x /\ \A k \in 1 .. d : a[k] = q[k]
    BY LenProperties, AppendProperties
<1>2. (\A k \in 1 .. d + 1 : k = d + 1 \/ k \in 1 .. d) /\ d + 1 \in 1 .. d + 1 /\ 1 .. d \subseteq 1 .. d + 1
    BY <1>1
<1> QED
    BY <1>1, <1>2 DEF AllMarked

--------------------------------------------------------------------------------
(* Headers of groups                                                        *)

HeaderModes == {"lead", "name", "blank", "dot", "afterDot", "closed", "comment", "refused"}
BeforeClosing == {"lead", "name", "blank", "dot", "afterDot", "refused"}
ReadingHeader(M, s) == M[0] = "lead" /\ \A i \in 1 .. Len(s) : M[i] = NextMode(M[i - 1], s[i])

LEMMA ModeTyped == \A mode \in HeaderModes : \A m : NextMode(mode, m) \in HeaderModes
BY DEF NextMode, HeaderModes

LEMMA HeaderFold ==
    ASSUME NEW s \in Seq(HeaderMarks)
    PROVE  \E M \in [0 .. Len(s) -> HeaderModes] : ReadingHeader(M, s) /\ HeaderMode(s) = M[Len(s)]
<1>1. ModeSteps!Keeps(NULL, HeaderModes, HeaderMarks)
    BY ModeTyped DEF ModeSteps!Keeps, ModeTo
<1>2. HeaderMode(s) = ModeSteps!Fold(NULL, "lead", s)
    BY DEF HeaderMode, ModeSteps!Fold, ModeSteps!FoldLeft, ModeSteps!MapThenFoldSet, ModeTo,
           ModeSteps!Max, FoldLeft, MapThenFoldSet, Max
<1>3. "lead" \in HeaderModes
    BY DEF HeaderModes
<1>4. PICK M \in [0 .. Len(s) -> HeaderModes] :
        ModeSteps!Steps(M, NULL, "lead", s) /\ ModeSteps!Fold(NULL, "lead", s) = M[Len(s)]
    BY <1>1, <1>3, ModeSteps!Partial
<1> QED
    BY <1>2, <1>4 DEF ModeSteps!Steps, ReadingHeader, ModeTo

\* No comment and no dot that does not follow a name, among the first i marks.
Fine(s, i) == \A j \in 1 .. i : s[j] # "HASH" /\ (s[j] = "DOT" => j > 1 /\ s[j - 1] = "CHAR")
NameBehind(s, i) == \E j \in 1 .. i : j < i /\ s[j] = "CHAR" /\ OnlyBlanks(s, j + 1, i)

\* What the mode says of the marks so far, as long as none of them is a ']'.
ModeInv(s, i, mode) ==
    /\ mode \in BeforeClosing
    /\ mode # "refused" <=> Fine(s, i)
    /\ mode # "refused" => /\ mode = "name" <=> i > 0 /\ s[i] = "CHAR"
                           /\ mode = "blank" => NameBehind(s, i)
                           /\ mode \in {"name", "blank"} <=> Current(s, i, "DOT", "CHAR") > 0
                           /\ AllMarked(Over(s, i, "DOT", "CHAR"))

LEMMA FineNext ==
    ASSUME NEW s, NEW i \in Nat, i # 0
    PROVE  Fine(s, i) <=> Fine(s, i - 1) /\ s[i] # "HASH" /\ (s[i] = "DOT" => i > 1 /\ s[i - 1] = "CHAR")
<1>1. (\A j \in 1 .. i : j = i \/ j \in 1 .. i - 1) /\ i \in 1 .. i /\ 1 .. i - 1 \subseteq 1 .. i
    OBVIOUS
<1> QED
    BY <1>1 DEF Fine

LEMMA NameBehindNext ==
    ASSUME NEW s, NEW i \in Nat, i # 0, s[i] = "BLANK", (i - 1 > 0 /\ s[i - 1] = "CHAR") \/ NameBehind(s, i - 1)
    PROVE  NameBehind(s, i)
<1>1. CASE i - 1 > 0 /\ s[i - 1] = "CHAR"
    <2> PICK j : j = i - 1
        OBVIOUS
    <2>1. j \in 1 .. i /\ j < i /\ s[j] = "CHAR" /\ j + 1 = i
        BY <1>1
    <2>2. \A k \in i .. i : k = i
        OBVIOUS
    <2>3. OnlyBlanks(s, j + 1, i)
        BY <2>1, <2>2 DEF OnlyBlanks
    <2> QED
        BY <2>1, <2>3 DEF NameBehind
<1>2. CASE NameBehind(s, i - 1)
    <2>1. PICK j \in 1 .. i - 1 : s[j] = "CHAR" /\ OnlyBlanks(s, j + 1, i - 1)
        BY <1>2 DEF NameBehind
    <2>2. j \in 1 .. i /\ j < i
        OBVIOUS
    <2>3. \A k \in j + 1 .. i : k = i \/ k \in j + 1 .. i - 1
        BY <2>2
    <2>4. OnlyBlanks(s, j + 1, i)
        BY <2>1, <2>3 DEF OnlyBlanks
    <2> QED
        BY <2>1, <2>2, <2>4 DEF NameBehind
<1> QED
    BY <1>1, <1>2

\* Behind blanks behind a name no name goes on, where there is no gap.
LEMMA NoneGoesOn ==
    ASSUME NEW s \in Seq(HeaderMarks), ~Gap(s), NEW i \in 1 .. Len(s), \A k \in 1 .. i : s[k] # "CLOSE",
           NameBehind(s, i - 1)
    PROVE  s[i] \notin {"CHAR", "HASH"}
<1>1. PICK j \in 1 .. i - 1 : j < i - 1 /\ s[j] = "CHAR" /\ OnlyBlanks(s, j + 1, i - 1)
    BY DEF NameBehind
<1>2. j \in 1 .. Len(s) /\ j + 1 < i
    BY <1>1
<1> QED
    BY <1>1, <1>2 DEF Gap

LEMMA ModeInit == ASSUME NEW s PROVE ModeInv(s, 0, "lead")
<1>1. Over(s, 0, "DOT", "CHAR") = <<>> /\ Current(s, 0, "DOT", "CHAR") = 0
    BY NothingOver
<1>2. AllMarked(<<>>) /\ Fine(s, 0)
    BY DEF AllMarked, Fine
<1> QED
    BY <1>1, <1>2 DEF ModeInv, BeforeClosing

LEMMA ModeNext ==
    ASSUME NEW s \in Seq(HeaderMarks), ~Gap(s), NEW i \in 1 .. Len(s), \A k \in 1 .. i : s[k] # "CLOSE",
           NEW mode, ModeInv(s, i - 1, mode)
    PROVE  ModeInv(s, i, NextMode(mode, s[i]))
<1> PICK m, next : m = s[i] /\ next = NextMode(mode, m)
    OBVIOUS
<1>1. i \in Nat /\ i # 0 /\ i - 1 \in Nat /\ m \in {"CHAR", "DOT", "BLANK", "HASH"}
    <2>1. s[i] \in HeaderMarks /\ Len(s) \in Nat
        BY ElementOfSeq, LenProperties
    <2>2. i \in Nat /\ i # 0 /\ i - 1 \in Nat /\ i \in 1 .. i
        BY <2>1
    <2>3. s[i] # "CLOSE"
        BY <2>2
    <2> QED
        BY <2>1, <2>2, <2>3 DEF HeaderMarks
<1>2. mode \in BeforeClosing
    BY DEF ModeInv
<1>3. Fine(s, i) <=> Fine(s, i - 1) /\ m # "HASH" /\ (m = "DOT" => i > 1 /\ s[i - 1] = "CHAR")
    BY <1>1, FineNext
<1>4. mode # "refused" <=> Fine(s, i - 1)
    BY DEF ModeInv
<1>5. CASE mode = "refused"
    <2>1. next = "refused"
        BY <1>1, <1>5 DEF NextMode
    <2> QED
        BY <1>3, <1>4, <1>5, <2>1 DEF ModeInv, BeforeClosing
<1>6. CASE mode # "refused"
    <2> PICK over, current : over = Over(s, i - 1, "DOT", "CHAR") /\ current = Current(s, i - 1, "DOT", "CHAR")
        OBVIOUS
    <2>1. /\ mode = "name" <=> i - 1 > 0 /\ s[i - 1] = "CHAR"
          /\ mode = "blank" => NameBehind(s, i - 1)
          /\ mode \in {"name", "blank"} <=> current > 0
          /\ AllMarked(over)
        BY <1>6 DEF ModeInv
    <2>2. over \in Seq(Nat) /\ current \in Nat
        BY <1>1, OverTyped
    <2>3. mode = "name" <=> i > 1 /\ s[i - 1] = "CHAR"
        <3>1. i - 1 > 0 <=> i > 1
            BY <1>1
        <3> QED
            BY <2>1, <3>1
    <2>4. mode = "blank" => m \notin {"CHAR", "HASH"}
        BY <2>1, NoneGoesOn
    <2>5. next # "refused" <=> Fine(s, i)
        BY <1>1, <1>2, <1>3, <1>4, <1>6, <2>3, <2>4 DEF NextMode, BeforeClosing
    <2>6. next \in BeforeClosing
        BY <1>1, <1>2 DEF NextMode, BeforeClosing
    <2> SUFFICES ASSUME next # "refused"
                 PROVE  /\ next = "name" <=> i > 0 /\ s[i] = "CHAR"
                        /\ next = "blank" => NameBehind(s, i)
                        /\ next \in {"name", "blank"} <=> Current(s, i, "DOT", "CHAR") > 0
                        /\ AllMarked(Over(s, i, "DOT", "CHAR"))
        BY <2>5, <2>6 DEF ModeInv
    <2>7. next = "name" <=> i > 0 /\ s[i] = "CHAR"
        <3>1. next = "name" <=> m = "CHAR"
            BY <1>1, <1>2, <2>4 DEF NextMode, BeforeClosing
        <3>2. i > 0
            BY <1>1
        <3> QED
            BY <3>1, <3>2
    <2>8. next = "blank" => m = "BLANK" /\ mode \in {"name", "blank"}
        BY <1>1, <1>2 DEF NextMode, BeforeClosing
    <2>9. next = "blank" => NameBehind(s, i)
        BY <1>1, <2>1, <2>8, NameBehindNext
    <2>10. CASE m = "DOT"
        <3>1. Over(s, i, "DOT", "CHAR") = Append(over, current) /\ Current(s, i, "DOT", "CHAR") = 0
            BY <1>1, <2>10, SeparatorNext
        <3>2. mode = "name" /\ next = "dot"
            BY <1>2, <2>10 DEF NextMode, BeforeClosing
        <3>3. AllMarked(Append(over, current))
            BY <2>1, <2>2, <3>2, AllMarkedAppend
        <3>4. ~(0 > 0)
            OBVIOUS
        <3>5. next \in {"name", "blank"} <=> Current(s, i, "DOT", "CHAR") > 0
            BY <3>1, <3>2, <3>4
        <3> QED
            BY <2>7, <2>9, <3>1, <3>3, <3>5
    <2>11. CASE m # "DOT"
        <3>1. Over(s, i, "DOT", "CHAR") = over /\ Current(s, i, "DOT", "CHAR") = current + (IF m = "CHAR" THEN 1 ELSE 0)
            <4>1. s[i] # "DOT"
                BY <2>11
            <4>2. /\ Over(s, i, "DOT", "CHAR") = Over(s, i - 1, "DOT", "CHAR")
                  /\ Current(s, i, "DOT", "CHAR") = Current(s, i - 1, "DOT", "CHAR") + (IF s[i] = "CHAR" THEN 1 ELSE 0)
                BY <1>1, <4>1, MarkNext
            <4> QED
                BY <4>2
        <3>2. next \in {"name", "blank"} <=> m = "CHAR" \/ mode \in {"name", "blank"}
            BY <1>1, <1>2, <2>4, <2>11 DEF NextMode, BeforeClosing
        <3>3. Current(s, i, "DOT", "CHAR") > 0 <=> m = "CHAR" \/ current > 0
            BY <2>2, <3>1
        <3>4. next \in {"name", "blank"} <=> Current(s, i, "DOT", "CHAR") > 0
            BY <2>1, <3>2, <3>3
        <3> QED
            BY <2>1, <2>7, <2>9, <3>1, <3>4
    <2> QED
        BY <1>1, <2>10, <2>11
<1> QED
    BY <1>5, <1>6

LEMMA ModesTo ==
    ASSUME NEW s \in Seq(HeaderMarks), ~Gap(s), NEW M, ReadingHeader(M, s),
           NEW n \in 0 .. Len(s), \A k \in 1 .. n : s[k] # "CLOSE"
    PROVE  \A i \in 0 .. n : ModeInv(s, i, M[i])
<1> DEFINE T == {i \in 0 .. n : ModeInv(s, i, M[i])}
<1>1. n \in Nat /\ \A i \in 1 .. n : i \in 1 .. Len(s) /\ 1 .. i \subseteq 1 .. n /\ i \in 0 .. n
    BY LenProperties
<1>2. 0 \in T
    BY <1>1, ModeInit DEF ReadingHeader
<1>3. \A i \in 1 .. n : i - 1 \in T => i \in T
    <2> SUFFICES ASSUME NEW i \in 1 .. n, ModeInv(s, i - 1, M[i - 1]) PROVE ModeInv(s, i, M[i])
        BY <1>1
    <2>1. i \in 1 .. Len(s) /\ \A k \in 1 .. i : s[k] # "CLOSE"
        BY <1>1
    <2>2. M[i] = NextMode(M[i - 1], s[i])
        BY <2>1 DEF ReadingHeader
    <2> QED
        BY <2>1, <2>2, ModeNext
<1> HIDE DEF T
<1>4. 0 .. n \subseteq T
    BY <1>1, <1>2, <1>3, UintSteps!FromZero
<1> QED
    BY <1>4 DEF T

\* The names that are taken out of a header follow the mode.
NameMode(mode) == IF mode \in {"dot", "afterDot"} THEN "lead" ELSE mode
NameOf(s, i, mode) ==
    [mode |-> NameMode(mode), length |-> Current(s, i, "DOT", "CHAR"), path |-> Over(s, i, "DOT", "CHAR")]
NameRecords == [mode : {"lead", "name", "blank"}, length : Nat, path : Seq(Nat)]

LEMMA NameTyped == \A r \in NameRecords, m \in HeaderMarks : NextName(r, m) \in NameRecords
<1> SUFFICES ASSUME NEW r \in NameRecords, NEW m \in HeaderMarks PROVE NextName(r, m) \in NameRecords
    OBVIOUS
<1> DEFINE A == Seq(Nat)
<1>1. /\ r.path \in A /\ r.length \in Nat /\ r.mode \in {"lead", "name", "blank"}
      /\ r \in [mode : {"lead", "name", "blank"}, length : Nat, path : A]
    BY DEF NameRecords
<1>2. Append(r.path, r.length) \in A
    <2> DEFINE Z == Nat
    <2>1. r.path \in Seq(Z) /\ r.length \in Z
        BY <1>1
    <2> HIDE DEF Z
    <2>2. Append(r.path, r.length) \in Seq(Z)
        BY <2>1, AppendProperties
    <2> QED
        BY <2>2 DEF Z
<1> HIDE DEF A
<1>3. r.length + 1 \in Nat /\ 0 \in Nat
    BY <1>1
<1> PICK next : next = NextName(r, m)
    OBVIOUS
<1>4. \/ next = r
      \/ next = [r EXCEPT !.mode = "name", !.length = r.length + 1]
      \/ next = [r EXCEPT !.mode = "blank"]
      \/ next = [mode |-> "lead", length |-> 0, path |-> Append(r.path, r.length)]
    BY DEF NextName
<1> DEFINE R == [mode : {"lead", "name", "blank"}, length : Nat, path : A]
<1>5. [r EXCEPT !.mode = "name", !.length = r.length + 1] \in R
    BY <1>1, <1>3
<1>6. [r EXCEPT !.mode = "blank"] \in R
    BY <1>1
<1>7. [mode |-> "lead", length |-> 0, path |-> Append(r.path, r.length)] \in R
    BY <1>2, <1>3
<1>8. next \in R
    BY <1>1, <1>4, <1>5, <1>6, <1>7
<1> QED
    BY <1>8 DEF NameRecords, A

LEMMA NameNext ==
    ASSUME NEW s \in Seq(HeaderMarks), ~Gap(s), NEW i \in 1 .. Len(s), \A k \in 1 .. i : s[k] # "CLOSE",
           NEW mode, ModeInv(s, i - 1, mode), NextMode(mode, s[i]) # "refused"
    PROVE  NextName(NameOf(s, i - 1, mode), s[i]) = NameOf(s, i, NextMode(mode, s[i]))
<1> PICK m, next, r : m = s[i] /\ next = NextMode(mode, m) /\ r = NameOf(s, i - 1, mode)
    OBVIOUS
<1>1. i \in Nat /\ i # 0 /\ i - 1 \in Nat /\ m \in {"CHAR", "DOT", "BLANK", "HASH"}
    <2>1. s[i] \in HeaderMarks /\ Len(s) \in Nat
        BY ElementOfSeq, LenProperties
    <2>2. i \in Nat /\ i # 0 /\ i - 1 \in Nat /\ i \in 1 .. i
        BY <2>1
    <2> QED
        BY <2>1, <2>2 DEF HeaderMarks
<1> PICK over, current : over = Over(s, i - 1, "DOT", "CHAR") /\ current = Current(s, i - 1, "DOT", "CHAR")
    OBVIOUS
<1>2. over \in Seq(Nat) /\ current \in Nat /\ current + 0 = current
    BY <1>1, OverTyped
<1>3. r = [mode |-> NameMode(mode), length |-> current, path |-> over]
    BY DEF NameOf
<1>4. mode \in BeforeClosing /\ mode # "refused"
    BY <1>1 DEF ModeInv, NextMode, BeforeClosing
<1>5. mode = "blank" => m \notin {"CHAR", "HASH"}
    BY <1>4, NoneGoesOn DEF ModeInv
<1>6. m # "HASH"
    BY <1>4, <1>5 DEF NextMode, BeforeClosing
<1>7. CASE m = "DOT"
    <2>1. mode = "name" /\ next = "dot"
        BY <1>4, <1>7 DEF NextMode, BeforeClosing
    <2>2. Over(s, i, "DOT", "CHAR") = Append(over, current) /\ Current(s, i, "DOT", "CHAR") = 0
        BY <1>1, <1>7, SeparatorNext
    <2>3. NameOf(s, i, next) = [mode |-> "lead", length |-> 0, path |-> Append(over, current)]
        BY <2>1, <2>2 DEF NameOf, NameMode
    <2>4. r.mode = "name" /\ r.length = current /\ r.path = over
        BY <1>3, <2>1 DEF NameMode
    <2> QED
        BY <1>7, <2>3, <2>4 DEF NextName
<1>8. CASE m # "DOT"
    <2>1. Over(s, i, "DOT", "CHAR") = over /\ Current(s, i, "DOT", "CHAR") = current + (IF m = "CHAR" THEN 1 ELSE 0)
        <3>1. s[i] # "DOT"
            BY <1>8
        <3>2. /\ Over(s, i, "DOT", "CHAR") = Over(s, i - 1, "DOT", "CHAR")
              /\ Current(s, i, "DOT", "CHAR") = Current(s, i - 1, "DOT", "CHAR") + (IF s[i] = "CHAR" THEN 1 ELSE 0)
            BY <1>1, <3>1, MarkNext
        <3> QED
            BY <3>2
    <2>2. r.mode = NameMode(mode) /\ r.length = current /\ r.path = over
        BY <1>3
    <2>3. CASE m = "CHAR"
        <3>1. next = "name" /\ NameMode(mode) \in {"lead", "name"}
            BY <1>4, <1>5, <2>3 DEF NextMode, BeforeClosing, NameMode
        <3>2. NameOf(s, i, next) = [mode |-> "name", length |-> current + 1, path |-> over]
            BY <2>1, <2>3, <3>1 DEF NameOf, NameMode
        <3>3. NextName(r, m) = [r EXCEPT !.mode = "name", !.length = r.length + 1]
            BY <2>2, <2>3, <3>1 DEF NextName
        <3> QED
            BY <1>3, <2>2, <3>2, <3>3
    <2>4. CASE m = "BLANK"
        <3>1. NameOf(s, i, next) = [mode |-> NameMode(next), length |-> current, path |-> over]
            BY <1>2, <2>1, <2>4 DEF NameOf
        <3>2. CASE mode \in {"lead", "dot", "afterDot"}
            <4>1. NameMode(mode) = "lead" /\ NameMode(next) = "lead"
                BY <2>4, <3>2 DEF NextMode, NameMode
            <4>2. NextName(r, m) = r
                BY <2>2, <2>4, <4>1 DEF NextName
            <4> QED
                BY <1>3, <3>1, <4>1, <4>2
        <3>3. CASE mode = "name"
            <4>1. NameMode(mode) = "name" /\ NameMode(next) = "blank"
                BY <2>4, <3>3 DEF NextMode, NameMode
            <4>2. NextName(r, m) = [r EXCEPT !.mode = "blank"]
                BY <2>2, <2>4, <4>1 DEF NextName
            <4> QED
                BY <1>3, <3>1, <4>1, <4>2
        <3>4. CASE mode = "blank"
            <4>1. NameMode(mode) = "blank" /\ NameMode(next) = "blank"
                BY <2>4, <3>4 DEF NextMode, NameMode
            <4>2. NextName(r, m) = r
                BY <2>2, <2>4, <4>1 DEF NextName
            <4> QED
                BY <1>3, <3>1, <4>1, <4>2
        <3> QED
            BY <1>4, <3>2, <3>3, <3>4 DEF BeforeClosing
    <2> QED
        BY <1>1, <1>6, <1>8, <2>3, <2>4
<1> QED
    BY <1>7, <1>8

NoName == [mode |-> "lead", length |-> 0, path |-> <<>>]

LEMMA NamesFold ==
    ASSUME NEW q \in Seq(HeaderMarks)
    PROVE  \E R \in [0 .. Len(q) -> NameRecords] :
              /\ R[0] = NoName /\ \A i \in 1 .. Len(q) : R[i] = NextName(R[i - 1], q[i])
              /\ FoldLeft(LAMBDA p, m : NextName(p, m), NoName, q) = R[Len(q)]
<1>1. NameSteps!Keeps(NULL, NameRecords, HeaderMarks)
    BY NameTyped DEF NameSteps!Keeps, NameTo
<1>2. FoldLeft(LAMBDA p, m : NextName(p, m), NoName, q) = NameSteps!Fold(NULL, NoName, q)
    BY DEF NameSteps!Fold, NameSteps!FoldLeft, NameSteps!MapThenFoldSet, NameTo,
           NameSteps!Max, FoldLeft, MapThenFoldSet, Max
<1>3. NoName \in NameRecords
    <2>1. <<>> \in Seq(Nat) /\ 0 \in Nat
        OBVIOUS
    <2> QED
        BY <2>1 DEF NoName, NameRecords
<1>4. PICK R \in [0 .. Len(q) -> NameRecords] :
        NameSteps!Steps(R, NULL, NoName, q) /\ NameSteps!Fold(NULL, NoName, q) = R[Len(q)]
    BY <1>1, <1>3, NameSteps!Partial
<1> QED
    BY <1>2, <1>4 DEF NameSteps!Steps, NameTo

\* What stands before the ']'.
LEMMA BeforeClosingIs ==
    ASSUME NEW s \in Seq(HeaderMarks), HasClosing(s)
    PROVE  LET q == SubSeq(s, 1, Closing(s) - 1) IN
           q \in Seq(HeaderMarks) /\ Len(q) = Closing(s) - 1 /\ \A i \in 1 .. Len(q) : q[i] = s[i]
<1> PICK n, q : n = Closing(s) - 1 /\ q = SubSeq(s, 1, n)
    OBVIOUS
<1>1. n \in 0 .. Len(s) /\ Len(s) \in Nat
    BY ClosingIs, LenProperties
<1>2. \A i \in 1 .. n : s[i] \in HeaderMarks
    BY <1>1, ElementOfSeq
<1>3. q \in Seq(HeaderMarks) /\ Len(q) = n /\ \A i \in 1 .. n : q[i] = s[i]
    BY <1>1, <1>2, SubSeqProperties
<1> QED
    BY <1>3

LEMMA PathIs ==
    ASSUME NEW s \in Seq(HeaderMarks), ~Gap(s), HasClosing(s), NEW M, ReadingHeader(M, s),
           M[Closing(s) - 1] \in {"name", "blank"}
    PROVE  HeaderPath(s) = Lengths(s, "DOT", "CHAR")
<1> PICK n, q, base : n = Closing(s) - 1 /\ q = SubSeq(s, 1, n) /\ base = NoName
    OBVIOUS
<1>1. n \in Nat /\ n \in 0 .. Len(s) /\ \A k \in 1 .. n : s[k] # "CLOSE"
    BY ClosingIs, LenProperties
<1>2. q \in Seq(HeaderMarks) /\ Len(q) = n /\ \A i \in 1 .. n : q[i] = s[i]
    BY BeforeClosingIs
<1>3. \A i \in 0 .. n : ModeInv(s, i, M[i])
    BY <1>1, ModesTo
<1>4. \A i \in 0 .. n : M[i] # "refused"
    <2>1. M[n] # "refused" /\ n \in 0 .. n
        BY <1>1
    <2>2. Fine(s, n)
        BY <1>3, <2>1 DEF ModeInv
    <2> SUFFICES ASSUME NEW i \in 0 .. n PROVE M[i] # "refused"
        OBVIOUS
    <2>3. 1 .. i \subseteq 1 .. n
        BY <1>1
    <2>4. Fine(s, i)
        BY <2>2, <2>3 DEF Fine
    <2> QED
        BY <1>3, <2>4 DEF ModeInv
<1>5. PICK R \in [0 .. n -> NameRecords] :
        /\ R[0] = base /\ \A i \in 1 .. n : R[i] = NextName(R[i - 1], q[i])
        /\ FoldLeft(LAMBDA p, m : NextName(p, m), base, q) = R[n]
    BY <1>2, NamesFold
<1>6. \A i \in 0 .. n : R[i] = NameOf(s, i, M[i])
    <2> DEFINE T == {i \in 0 .. n : R[i] = NameOf(s, i, M[i])}
    <2>1. 0 \in T
        <3>1. Over(s, 0, "DOT", "CHAR") = <<>> /\ Current(s, 0, "DOT", "CHAR") = 0
            BY NothingOver
        <3>2. M[0] = "lead"
            BY DEF ReadingHeader
        <3>3. NameOf(s, 0, M[0]) = NoName
            BY <3>1, <3>2 DEF NameOf, NameMode, NoName
        <3>4. R[0] = NoName
            BY <1>5
        <3>5. 0 \in 0 .. n
            BY <1>1
        <3> QED
            BY <3>3, <3>4, <3>5
    <2>2. \A i \in 1 .. n : i - 1 \in T => i \in T
        <3> SUFFICES ASSUME NEW i \in 1 .. n, R[i - 1] = NameOf(s, i - 1, M[i - 1])
                     PROVE  R[i] = NameOf(s, i, M[i])
            BY <1>1
        <3>1. i \in 1 .. Len(s) /\ i \in 0 .. n /\ i - 1 \in 0 .. n /\ 1 .. i \subseteq 1 .. n
            BY <1>1
        <3>2. M[i] = NextMode(M[i - 1], s[i])
            BY <3>1 DEF ReadingHeader
        <3>3. \A k \in 1 .. i : s[k] # "CLOSE"
            BY <1>1, <3>1
        <3>4. ModeInv(s, i - 1, M[i - 1]) /\ NextMode(M[i - 1], s[i]) # "refused"
            BY <1>3, <1>4, <3>1, <3>2
        <3>5. NextName(NameOf(s, i - 1, M[i - 1]), s[i]) = NameOf(s, i, M[i])
            BY <3>1, <3>2, <3>3, <3>4, NameNext
        <3> QED
            BY <1>2, <1>5, <3>5
    <2> HIDE DEF T
    <2>3. 0 .. n \subseteq T
        BY <1>1, <2>1, <2>2, UintSteps!FromZero
    <2> QED
        BY <2>3 DEF T
<1> PICK over, current, r : /\ over = Over(s, n, "DOT", "CHAR") /\ current = Current(s, n, "DOT", "CHAR")
                            /\ r = R[n]
    OBVIOUS
<1>7. r.length = current /\ r.path = over
    BY <1>1, <1>6 DEF NameOf
<1>8. current > 0
    BY <1>1, <1>3, <1>4 DEF ModeInv
<1>9. HeaderPath(s) = IF r.length > 0 THEN Append(r.path, r.length) ELSE r.path
    BY <1>5 DEF HeaderPath, NoName
<1> QED
    BY <1>7, <1>8, <1>9, LengthsAre

--------------------------------------------------------------------------------
\* What the mode says of the marks behind the ']' at c.
Commented(s, c, i) == \E j \in c .. i - 1 : OnlyBlanks(s, c + 1, j) /\ s[j + 1] = "HASH"
TailInv(s, c, i, mode) ==
    /\ mode \in {"closed", "comment", "refused"}
    /\ mode = "closed" <=> OnlyBlanks(s, c + 1, i)
    /\ mode = "comment" <=> Commented(s, c, i)

LEMMA TailNext ==
    ASSUME NEW s, NEW c \in Nat, NEW i \in Nat, c < i, NEW mode, TailInv(s, c, i - 1, mode)
    PROVE  TailInv(s, c, i, NextMode(mode, s[i]))
<1> PICK next : next = NextMode(mode, s[i])
    OBVIOUS
<1>1. OnlyBlanks(s, c + 1, i) <=> OnlyBlanks(s, c + 1, i - 1) /\ s[i] = "BLANK"
    <2>1. /\ \A k \in c + 1 .. i : k = i \/ k \in c + 1 .. i - 1
          /\ i \in c + 1 .. i /\ c + 1 .. i - 1 \subseteq c + 1 .. i
        OBVIOUS
    <2> QED
        BY <2>1 DEF OnlyBlanks
<1>2. Commented(s, c, i) <=> Commented(s, c, i - 1) \/ (OnlyBlanks(s, c + 1, i - 1) /\ s[i] = "HASH")
    <2>1. /\ \A j \in c .. i - 1 : j = i - 1 \/ j \in c .. (i - 1) - 1
          /\ i - 1 \in c .. i - 1 /\ (i - 1) + 1 = i
          /\ c .. (i - 1) - 1 \subseteq c .. i - 1
        OBVIOUS
    <2> QED
        BY <2>1 DEF Commented
<1>3. /\ next \in {"closed", "comment", "refused"}
      /\ next = "closed" <=> mode = "closed" /\ s[i] = "BLANK"
      /\ next = "comment" <=> mode = "comment" \/ (mode = "closed" /\ s[i] = "HASH")
    BY DEF NextMode, TailInv
<1> QED
    BY <1>1, <1>2, <1>3 DEF TailInv

LEMMA TailIs ==
    ASSUME NEW s \in Seq(HeaderMarks), NEW M, ReadingHeader(M, s),
           NEW c \in 1 .. Len(s), M[c] = "closed"
    PROVE  TailInv(s, c, Len(s), M[Len(s)])
<1> DEFINE n == Len(s) - c
           T == {k \in 0 .. n : TailInv(s, c, c + k, M[c + k])}
<1>1. Len(s) \in Nat /\ c \in Nat /\ n \in Nat
    BY LenProperties
<1>2. TailInv(s, c, c, M[c])
    BY <1>1 DEF TailInv, OnlyBlanks, Commented
<1>3. 0 \in T
    BY <1>1, <1>2
<1>4. \A k \in 1 .. n : k - 1 \in T => k \in T
    <2> SUFFICES ASSUME NEW k \in 1 .. n, TailInv(s, c, c + (k - 1), M[c + (k - 1)])
                 PROVE  TailInv(s, c, c + k, M[c + k])
        BY <1>1
    <2> PICK i : i = c + k
        OBVIOUS
    <2>1. i \in 1 .. Len(s) /\ i \in Nat /\ c < i /\ c + (k - 1) = i - 1
        BY <1>1
    <2>2. M[i] = NextMode(M[i - 1], s[i])
        BY <2>1 DEF ReadingHeader
    <2>3. TailInv(s, c, i - 1, M[i - 1])
        BY <2>1
    <2> QED
        BY <1>1, <2>1, <2>2, <2>3, TailNext
<1> HIDE DEF T, n
<1>5. 0 .. n \subseteq T
    BY <1>1, <1>3, <1>4, UintSteps!FromZero
<1>6. n \in 0 .. n /\ c + n = Len(s)
    BY <1>1 DEF n
<1> QED
    BY <1>5, <1>6 DEF T

LEMMA RefusedStays ==
    ASSUME NEW s \in Seq(HeaderMarks), NEW M, ReadingHeader(M, s),
           NEW c \in 1 .. Len(s), M[c] = "refused"
    PROVE  M[Len(s)] = "refused"
<1> DEFINE n == Len(s) - c
           T == {k \in 0 .. n : M[c + k] = "refused"}
<1>1. Len(s) \in Nat /\ c \in Nat /\ n \in Nat
    BY LenProperties
<1>2. 0 \in T
    BY <1>1
<1>3. \A k \in 1 .. n : k - 1 \in T => k \in T
    <2> SUFFICES ASSUME NEW k \in 1 .. n, M[c + (k - 1)] = "refused" PROVE M[c + k] = "refused"
        BY <1>1
    <2> PICK i : i = c + k
        OBVIOUS
    <2>1. i \in 1 .. Len(s) /\ c + (k - 1) = i - 1
        BY <1>1
    <2>2. M[i] = NextMode(M[i - 1], s[i])
        BY <2>1 DEF ReadingHeader
    <2> QED
        BY <2>1, <2>2 DEF NextMode
<1> HIDE DEF T, n
<1>4. 0 .. n \subseteq T
    BY <1>1, <1>2, <1>3, UintSteps!FromZero
<1>5. n \in 0 .. n /\ c + n = Len(s)
    BY <1>1 DEF n
<1> QED
    BY <1>4, <1>5 DEF T

\* A header is taken iff it is proper, and gives its names.
LEMMA HeaderRead ==
    ASSUME NEW s \in Seq(HeaderMarks), ~Gap(s)
    PROVE  /\ ValidHeader(s) <=> ProperHeader(s)
           /\ ValidHeader(s) => HeaderPath(s) = Lengths(s, "DOT", "CHAR")
<1>1. PICK M \in [0 .. Len(s) -> HeaderModes] : ReadingHeader(M, s) /\ HeaderMode(s) = M[Len(s)]
    BY HeaderFold
<1>2. ValidHeader(s) <=> M[Len(s)] \in {"closed", "comment"}
    BY <1>1 DEF ValidHeader
<1>3. CASE ~HasClosing(s)
    <2>1. Len(s) \in 0 .. Len(s) /\ \A k \in 1 .. Len(s) : s[k] # "CLOSE"
        BY <1>3, LenProperties DEF HasClosing
    <2>2. ModeInv(s, Len(s), M[Len(s)])
        BY <1>1, <2>1, ModesTo
    <2> QED
        BY <1>2, <1>3, <2>2 DEF ModeInv, BeforeClosing, ProperHeader
<1>4. CASE HasClosing(s)
    <2> PICK c, n : c = Closing(s) /\ n = c - 1
        OBVIOUS
    <2>1. c \in 1 .. Len(s) /\ s[c] = "CLOSE" /\ n \in 0 .. Len(s) /\ \A k \in 1 .. n : s[k] # "CLOSE"
        BY <1>4, ClosingIs, LenProperties
    <2>2. ModeInv(s, n, M[n]) /\ n \in Nat
        <3>1. n \in 0 .. n /\ n \in Nat
            BY <2>1
        <3> QED
            BY <1>1, <2>1, <3>1, ModesTo
    <2>3. M[c] = NextMode(M[n], "CLOSE")
        BY <1>1, <2>1 DEF ReadingHeader
    <2>4. M[c] = IF M[n] \in {"name", "blank"} THEN "closed" ELSE "refused"
        BY <2>2, <2>3 DEF NextMode, ModeInv, BeforeClosing
    <2> PICK over, current : over = Over(s, n, "DOT", "CHAR") /\ current = Current(s, n, "DOT", "CHAR")
        OBVIOUS
    <2>5. over \in Seq(Nat) /\ current \in Nat
        BY <2>2, OverTyped
    <2>6. M[n] \in {"name", "blank"} <=> Fine(s, n) /\ AllMarked(Append(over, current))
        <3>1. AllMarked(Append(over, current)) <=> AllMarked(over) /\ current > 0
            BY <2>5, AllMarkedAppend
        <3> QED
            BY <2>2, <3>1 DEF ModeInv
    <2>7. Lengths(s, "DOT", "CHAR") = Append(over, current)
        BY <1>4, LengthsAre
    <2>8. DOMAIN Lengths(s, "DOT", "CHAR") = 1 .. Len(Append(over, current))
        <3> DEFINE Z == Nat
        <3>1. over \in Seq(Z) /\ current \in Z
            BY <2>5
        <3> HIDE DEF Z
        <3>2. Append(over, current) \in Seq(Z)
            BY <3>1, AppendProperties
        <3>3. DOMAIN Append(over, current) = 1 .. Len(Append(over, current))
            BY <3>2, LenProperties
        <3> QED
            BY <2>7, <3>3
    <2> DEFINE Ended == \E j \in c .. Len(s) : OnlyBlanks(s, c + 1, j) /\ (j = Len(s) \/ s[j + 1] = "HASH")
    <2>9. ProperHeader(s) <=> M[n] \in {"name", "blank"} /\ Ended
        BY <1>4, <2>6, <2>7, <2>8 DEF ProperHeader, Fine, AllMarked
    <2>10. M[c] = "closed" => (M[Len(s)] \in {"closed", "comment"} <=> Ended)
        <3> SUFFICES ASSUME M[c] = "closed" PROVE M[Len(s)] \in {"closed", "comment"} <=> Ended
            OBVIOUS
        <3>1. TailInv(s, c, Len(s), M[Len(s)])
            BY <1>1, <2>1, TailIs
        <3>2. /\ \A j \in c .. Len(s) : j = Len(s) \/ j \in c .. Len(s) - 1
              /\ Len(s) \in c .. Len(s) /\ c .. Len(s) - 1 \subseteq c .. Len(s)
            BY <2>1, LenProperties
        <3>3. Ended <=> OnlyBlanks(s, c + 1, Len(s)) \/ Commented(s, c, Len(s))
            BY <3>2 DEF Commented
        <3> QED
            BY <3>1, <3>3 DEF TailInv
    <2>11. M[c] = "refused" => M[Len(s)] = "refused"
        BY <1>1, <2>1, RefusedStays
    <2>12. M[n] \in {"name", "blank"} => HeaderPath(s) = Lengths(s, "DOT", "CHAR")
        BY <1>1, <1>4, PathIs
    <2> HIDE DEF Ended
    <2> QED
        BY <1>2, <2>4, <2>9, <2>10, <2>11, <2>12
<1> QED
    BY <1>3, <1>4

--------------------------------------------------------------------------------
(* Arrays                                                                   *)

NoItem == [mode |-> "open", items |-> <<>>]
ItemModes == {"open", "number", "gap", "comma", "done", "refused"}
BeforeArrayCloses == {"open", "number", "gap", "comma", "refused"}
ItemRecords == [mode : ItemModes, items : Seq(Nat)]
ReadingArray(R, s) == R[0] = NoItem /\ \A i \in 1 .. Len(s) : R[i] = NextItem(R[i - 1], s[i])

\* Counting one more mark of the last item.
Longer(items) == [items EXCEPT ![Len(items)] = @ + 1]

LEMMA LongerTyped == \A items \in Seq(Nat) : Longer(items) \in Seq(Nat)
<1> SUFFICES ASSUME NEW items \in Seq(Nat) PROVE Longer(items) \in Seq(Nat)
    OBVIOUS
<1> PICK n : n = Len(items)
    OBVIOUS
<1>1. n \in Nat /\ items \in [1 .. n -> Nat]
    BY LenProperties
<1>2. \A k \in 1 .. n : items[k] \in Nat /\ items[k] + 1 \in Nat
    BY <1>1
<1>3. Longer(items) \in [1 .. n -> Nat]
    <2>1. Longer(items) = [k \in 1 .. n |-> IF k = n THEN items[k] + 1 ELSE items[k]]
        BY <1>1 DEF Longer
    <2> QED
        BY <1>2, <2>1
<1> QED
    BY <1>1, <1>3, AppendMade

LEMMA LongerIs ==
    ASSUME NEW q \in Seq(Nat), NEW x \in Nat
    PROVE  Longer(Append(q, x)) = Append(q, x + 1)
<1> PICK d, a : d = Len(q) /\ a = Append(q, x)
    OBVIOUS
<1>1. d \in Nat /\ q \in [1 .. d -> Nat] /\ x + 1 \in Nat
    BY LenProperties
<1>2. Len(a) = d + 1 /\ a = [k \in 1 .. d + 1 |-> IF k = d + 1 THEN x ELSE q[k]]
    BY <1>1, AppendMade
<1>3. Append(q, x + 1) = [k \in 1 .. d + 1 |-> IF k = d + 1 THEN x + 1 ELSE q[k]]
    BY <1>1, AppendMade
<1>4. Longer(a) = [k \in 1 .. d + 1 |-> IF k = d + 1 THEN a[k] + 1 ELSE a[k]]
    BY <1>1, <1>2 DEF Longer
<1>5. \A k \in 1 .. d + 1 : (IF k = d + 1 THEN a[k] + 1 ELSE a[k]) = IF k = d + 1 THEN x + 1 ELSE q[k]
    BY <1>2
<1> QED
    BY <1>3, <1>4, <1>5

\* What has been appended can be taken off again.
LEMMA TakenOff ==
    ASSUME NEW q \in Seq(Nat), NEW x \in Nat
    PROVE  Last(Append(q, x)) = x /\ Front(Append(q, x)) = q
<1> PICK d, a : d = Len(q) /\ a = Append(q, x)
    OBVIOUS
<1>1. d \in Nat /\ q \in [1 .. d -> Nat]
    BY LenProperties
<1>2. a \in Seq(Nat) /\ Len(a) = d + 1 /\ a[d + 1] = x /\ \A k \in 1 .. d : a[k] = q[k]
    BY <1>1, AppendMade
<1>3. Last(a) = x
    BY <1>2 DEF Last
<1>4. Front(a) = SubSeq(a, 1, d)
    BY <1>1, <1>2 DEF Front
<1> PICK f : f = SubSeq(a, 1, d)
    OBVIOUS
<1>5. f \in Seq(Nat) /\ Len(f) = d /\ \A k \in 1 .. d : f[k] = a[k]
    <2> DEFINE A == Nat
    <2>1. 1 \in Int /\ d \in Int /\ \A k \in 1 .. d : a[k] \in A
        BY <1>1, <1>2
    <2> HIDE DEF A
    <2>2. /\ f \in Seq(A) /\ Len(f) = IF 1 <= d THEN d - 1 + 1 ELSE 0
          /\ \A k \in 1 .. d - 1 + 1 : f[k] = a[1 + k - 1]
        BY <2>1, SubSeqProperties
    <2>3. (IF 1 <= d THEN d - 1 + 1 ELSE 0) = d /\ d - 1 + 1 = d /\ \A k \in 1 .. d : 1 + k - 1 = k
        BY <1>1
    <2> QED
        BY <2>2, <2>3 DEF A
<1>6. f \in [1 .. d -> Nat]
    BY <1>5, LenProperties
<1>7. f = q
    BY <1>1, <1>2, <1>5, <1>6
<1> QED
    BY <1>3, <1>4, <1>7

LEMMA ItemTyped == \A r \in ItemRecords, m \in ArrayMarks : NextItem(r, m) \in ItemRecords
<1> SUFFICES ASSUME NEW r \in ItemRecords, NEW m \in ArrayMarks PROVE NextItem(r, m) \in ItemRecords
    OBVIOUS
<1> DEFINE A == Seq(Nat)
           R == [mode : ItemModes, items : A]
<1> PICK longer : longer = Longer(r.items)
    OBVIOUS
<1>1. r \in R /\ r.items \in A /\ longer \in A
    BY LongerTyped DEF ItemRecords
<1>2. Append(r.items, 1) \in A
    <2> DEFINE Z == Nat
    <2>1. r.items \in Seq(Z) /\ 1 \in Z
        BY <1>1
    <2> HIDE DEF Z
    <2>2. Append(r.items, 1) \in Seq(Z)
        BY <2>1, AppendProperties
    <2> QED
        BY <2>2 DEF Z
<1> HIDE DEF A
<1> PICK next : next = NextItem(r, m)
    OBVIOUS
<1>3. [r EXCEPT !.items[Len(r.items)] = @ + 1] = [r EXCEPT !.items = longer]
    BY <1>1 DEF Longer
<1>4. \/ next = r
      \/ \E mode \in ItemModes : next = [r EXCEPT !.mode = mode]
      \/ next = [mode |-> "number", items |-> Append(r.items, 1)]
      \/ next = [r EXCEPT !.items = longer]
    <2>1. {"open", "number", "gap", "comma", "done", "refused"} \subseteq ItemModes /\ r.mode \in ItemModes
        BY <1>1 DEF ItemModes
    <2> QED
        BY <1>3, <2>1 DEF NextItem
<1>5. \A mode \in ItemModes : [r EXCEPT !.mode = mode] \in R
    BY <1>1
<1>6. [mode |-> "number", items |-> Append(r.items, 1)] \in R
    BY <1>2 DEF ItemModes
<1>7. [r EXCEPT !.items = longer] \in R
    BY <1>1
<1>8. next \in R
    BY <1>1, <1>4, <1>5, <1>6, <1>7
<1> QED
    BY <1>8 DEF ItemRecords, A

LEMMA ArrayFold ==
    ASSUME NEW s \in Seq(ArrayMarks)
    PROVE  \E R \in [0 .. Len(s) -> ItemRecords] : ReadingArray(R, s) /\ ParseArray(s) = R[Len(s)]
<1>1. ItemSteps!Keeps(NULL, ItemRecords, ArrayMarks)
    BY ItemTyped DEF ItemSteps!Keeps, ItemTo
<1>2. ParseArray(s) = ItemSteps!Fold(NULL, NoItem, s)
    BY DEF ParseArray, NoItem, ItemSteps!Fold, ItemSteps!FoldLeft, ItemSteps!MapThenFoldSet, ItemTo,
           ItemSteps!Max, FoldLeft, MapThenFoldSet, Max
<1>3. NoItem \in ItemRecords
    <2>1. <<>> \in Seq(Nat)
        OBVIOUS
    <2> QED
        BY <2>1 DEF NoItem, ItemRecords, ItemModes
<1>4. PICK R \in [0 .. Len(s) -> ItemRecords] :
        ItemSteps!Steps(R, NULL, NoItem, s) /\ ItemSteps!Fold(NULL, NoItem, s) = R[Len(s)]
    BY <1>1, <1>3, ItemSteps!Partial
<1> QED
    BY <1>2, <1>4 DEF ItemSteps!Steps, ReadingArray, ItemTo

\* No number is parted by blanks, among the first i marks.
Whole(s, i) == ~\E j, k \in 1 .. i : j + 1 < k /\ s[j] = "ONE" /\ s[k] = "ONE" /\ OnlyBlanks(s, j + 1, k - 1)
OneBehind(s, i) == \E j \in 1 .. i : j < i /\ s[j] = "ONE" /\ OnlyBlanks(s, j + 1, i)

LEMMA WholeNext ==
    ASSUME NEW s, NEW i \in Nat, i # 0
    PROVE  Whole(s, i) <=> Whole(s, i - 1) /\ ~(s[i] = "ONE" /\ OneBehind(s, i - 1))
<1>1. /\ \A j \in 1 .. i : j = i \/ j \in 1 .. i - 1
      /\ i \in 1 .. i /\ 1 .. i - 1 \subseteq 1 .. i
      /\ \A j \in 1 .. i : j + 1 < i <=> j \in 1 .. i - 1 /\ j < i - 1
      /\ \A k \in 1 .. i : ~(i + 1 < k)
    OBVIOUS
<1>2. OneBehind(s, i - 1) <=> \E j \in 1 .. i : j + 1 < i /\ s[j] = "ONE" /\ OnlyBlanks(s, j + 1, i - 1)
    BY <1>1 DEF OneBehind
<1>3. Whole(s, i) <=> /\ Whole(s, i - 1)
                      /\ ~(s[i] = "ONE" /\ \E j \in 1 .. i : j + 1 < i /\ s[j] = "ONE" /\ OnlyBlanks(s, j + 1, i - 1))
    BY <1>1 DEF Whole
<1> QED
    BY <1>2, <1>3

LEMMA OneBehindNext ==
    ASSUME NEW s, NEW i \in Nat, i # 0
    PROVE  OneBehind(s, i) <=> s[i] = "BLANK" /\ ((i - 1 > 0 /\ s[i - 1] = "ONE") \/ OneBehind(s, i - 1))
<1>1. ASSUME OneBehind(s, i)
      PROVE  s[i] = "BLANK" /\ ((i - 1 > 0 /\ s[i - 1] = "ONE") \/ OneBehind(s, i - 1))
    <2>1. PICK j \in 1 .. i : j < i /\ s[j] = "ONE" /\ OnlyBlanks(s, j + 1, i)
        BY <1>1 DEF OneBehind
    <2>2. i \in j + 1 .. i /\ j + 1 .. i - 1 \subseteq j + 1 .. i
        BY <2>1
    <2>3. s[i] = "BLANK" /\ OnlyBlanks(s, j + 1, i - 1)
        BY <2>1, <2>2 DEF OnlyBlanks
    <2>4. (j = i - 1 /\ i - 1 > 0) \/ (j \in 1 .. i - 1 /\ j < i - 1)
        BY <2>1
    <2> QED
        BY <2>1, <2>3, <2>4 DEF OneBehind
<1>2. ASSUME s[i] = "BLANK", i - 1 > 0, s[i - 1] = "ONE" PROVE OneBehind(s, i)
    <2> PICK j : j = i - 1
        OBVIOUS
    <2>1. j \in 1 .. i /\ j < i /\ s[j] = "ONE" /\ j + 1 = i
        BY <1>2
    <2>2. \A k \in i .. i : k = i
        OBVIOUS
    <2>3. OnlyBlanks(s, j + 1, i)
        BY <1>2, <2>1, <2>2 DEF OnlyBlanks
    <2> QED
        BY <2>1, <2>3 DEF OneBehind
<1>3. ASSUME s[i] = "BLANK", OneBehind(s, i - 1) PROVE OneBehind(s, i)
    <2>1. PICK j \in 1 .. i - 1 : s[j] = "ONE" /\ OnlyBlanks(s, j + 1, i - 1)
        BY <1>3 DEF OneBehind
    <2>2. j \in 1 .. i /\ j < i
        OBVIOUS
    <2>3. \A k \in j + 1 .. i : k = i \/ k \in j + 1 .. i - 1
        BY <2>2
    <2>4. OnlyBlanks(s, j + 1, i)
        BY <1>3, <2>1, <2>3 DEF OnlyBlanks
    <2> QED
        BY <2>1, <2>2, <2>4 DEF OneBehind
<1> QED
    BY <1>1, <1>2, <1>3

\* What has been read of the marks so far, as long as none of them is a ']'.
ItemInv(s, i, r) ==
    /\ r \in ItemRecords /\ r.mode \in BeforeArrayCloses
    /\ r.mode # "refused" <=> Whole(s, i) /\ AllMarked(Over(s, i, "COMMA", "ONE"))
    /\ r.mode # "refused" =>
         /\ r.mode = "comma" <=> i > 0 /\ s[i] = "COMMA"
         /\ r.mode = "number" <=> i > 0 /\ s[i] = "ONE"
         /\ r.mode = "gap" <=> OneBehind(s, i)
         /\ r.mode \in {"number", "gap"} <=> Current(s, i, "COMMA", "ONE") > 0
         /\ r.items = IF r.mode \in {"number", "gap"}
                      THEN Append(Over(s, i, "COMMA", "ONE"), Current(s, i, "COMMA", "ONE"))
                      ELSE Over(s, i, "COMMA", "ONE")

LEMMA ItemInit == ASSUME NEW s PROVE ItemInv(s, 0, NoItem)
<1>1. Over(s, 0, "COMMA", "ONE") = <<>> /\ Current(s, 0, "COMMA", "ONE") = 0
    BY NothingOver
<1>2. AllMarked(<<>>) /\ Whole(s, 0) /\ ~OneBehind(s, 0)
    BY DEF AllMarked, Whole, OneBehind
<1>3. NoItem \in ItemRecords
    <2>1. <<>> \in Seq(Nat)
        OBVIOUS
    <2> QED
        BY <2>1 DEF NoItem, ItemRecords, ItemModes
<1> QED
    BY <1>1, <1>2, <1>3 DEF ItemInv, NoItem, BeforeArrayCloses

LEMMA ItemNext ==
    ASSUME NEW s \in Seq(ArrayMarks), SpacedCommas(s), NEW i \in 1 .. Len(s), s[i] # "CLOSE",
           NEW r, ItemInv(s, i - 1, r)
    PROVE  ItemInv(s, i, NextItem(r, s[i]))
<1> PICK m, next : m = s[i] /\ next = NextItem(r, m)
    OBVIOUS
<1>1. i \in Nat /\ i # 0 /\ i > 0 /\ i - 1 \in Nat /\ m \in {"ONE", "COMMA", "BLANK"} /\ m \in ArrayMarks
    <2>1. s[i] \in ArrayMarks /\ Len(s) \in Nat
        BY ElementOfSeq, LenProperties
    <2> QED
        BY <2>1 DEF ArrayMarks
<1>2. r \in ItemRecords /\ r.mode \in BeforeArrayCloses /\ r.items \in Seq(Nat) /\ next \in ItemRecords
    BY <1>1, ItemTyped DEF ItemInv, ItemRecords
<1> PICK over, current : over = Over(s, i - 1, "COMMA", "ONE") /\ current = Current(s, i - 1, "COMMA", "ONE")
    OBVIOUS
<1> PICK over2, current2 : over2 = Over(s, i, "COMMA", "ONE") /\ current2 = Current(s, i, "COMMA", "ONE")
    OBVIOUS
<1>3. over \in Seq(Nat) /\ current \in Nat /\ over2 \in Seq(Nat) /\ current2 \in Nat
    BY <1>1, OverTyped
<1>4. m = "COMMA" => over2 = Append(over, current) /\ current2 = 0
    BY <1>1, SeparatorNext
<1>5. m # "COMMA" => over2 = over /\ current2 = current + (IF m = "ONE" THEN 1 ELSE 0)
    <2> SUFFICES ASSUME s[i] # "COMMA" PROVE over2 = over /\ current2 = current + (IF s[i] = "ONE" THEN 1 ELSE 0)
        OBVIOUS
    <2> QED
        BY <1>1, MarkNext
<1>6. AllMarked(over2) <=> AllMarked(over) /\ (m = "COMMA" => current > 0)
    <2>1. CASE m = "COMMA"
        <3>1. AllMarked(Append(over, current)) <=> AllMarked(over) /\ current > 0
            BY <1>3, AllMarkedAppend
        <3> QED
            BY <1>4, <2>1, <3>1
    <2>2. CASE m # "COMMA"
        BY <1>5, <2>2
    <2> QED
        BY <2>1, <2>2
<1>7. Whole(s, i) <=> Whole(s, i - 1) /\ ~(m = "ONE" /\ OneBehind(s, i - 1))
    BY <1>1, WholeNext
<1>8. OneBehind(s, i) <=> m = "BLANK" /\ ((i - 1 > 0 /\ s[i - 1] = "ONE") \/ OneBehind(s, i - 1))
    BY <1>1, OneBehindNext
<1>9. r.mode # "refused" <=> Whole(s, i - 1) /\ AllMarked(over)
    BY DEF ItemInv
<1>10. CASE r.mode = "refused"
    <2>1. next = r
        BY <1>10 DEF NextItem
    <2> QED
        BY <1>2, <1>6, <1>7, <1>9, <1>10, <2>1 DEF ItemInv
<1>11. CASE r.mode # "refused"
    <2>1. /\ r.mode = "comma" <=> i - 1 > 0 /\ s[i - 1] = "COMMA"
          /\ r.mode = "number" <=> i - 1 > 0 /\ s[i - 1] = "ONE"
          /\ r.mode = "gap" <=> OneBehind(s, i - 1)
          /\ r.mode \in {"number", "gap"} <=> current > 0
          /\ r.items = IF r.mode \in {"number", "gap"} THEN Append(over, current) ELSE over
        BY <1>11 DEF ItemInv
    <2>2. r.mode = "comma" => m = "BLANK"
        <3>1. i - 1 > 0 => i - 1 \in 1 .. Len(s) /\ (i - 1) + 1 = i
            BY <1>1, LenProperties
        <3> QED
            BY <2>1, <3>1 DEF SpacedCommas
    <2>3. Whole(s, i) /\ AllMarked(over2) <=>
             ~(m = "ONE" /\ r.mode = "gap") /\ ~(m = "COMMA" /\ r.mode \notin {"number", "gap"})
        BY <1>6, <1>7, <1>9, <1>11, <2>1
    <2>4. OneBehind(s, i) <=> m = "BLANK" /\ r.mode \in {"number", "gap"}
        BY <1>8, <2>1
    <2> SUFFICES /\ next.mode \in BeforeArrayCloses
                 /\ next.mode # "refused" <=>
                      ~(m = "ONE" /\ r.mode = "gap") /\ ~(m = "COMMA" /\ r.mode \notin {"number", "gap"})
                 /\ next.mode # "refused" =>
                      /\ next.mode = "comma" <=> m = "COMMA"
                      /\ next.mode = "number" <=> m = "ONE"
                      /\ next.mode = "gap" <=> m = "BLANK" /\ r.mode \in {"number", "gap"}
                      /\ next.mode \in {"number", "gap"} <=> current2 > 0
                      /\ next.items = IF next.mode \in {"number", "gap"} THEN Append(over2, current2) ELSE over2
        BY <1>1, <1>2, <2>3, <2>4 DEF ItemInv
    <2>5. r.mode \in {"open", "number", "gap", "comma"}
        BY <1>2, <1>11 DEF BeforeArrayCloses
    <2>6. CASE m = "BLANK"
        <3>1. over2 = over /\ current2 = current
            BY <1>3, <1>5, <2>6
        <3>2. next = [r EXCEPT !.mode = IF r.mode \in {"number", "gap"} THEN "gap" ELSE "open"]
            <4>1. CASE r.mode = "comma"
                BY <2>6, <4>1 DEF NextItem
            <4>2. CASE r.mode # "comma"
                BY <2>5, <2>6, <4>2 DEF NextItem
            <4> QED
                BY <4>1, <4>2
        <3>3. next.mode = (IF r.mode \in {"number", "gap"} THEN "gap" ELSE "open") /\ next.items = r.items
            BY <1>2, <3>2 DEF ItemRecords
        <3> QED
            BY <2>1, <2>6, <3>1, <3>3 DEF BeforeArrayCloses
    <2>7. CASE m = "COMMA"
        <3>1. over2 = Append(over, current) /\ ~(current2 > 0)
            BY <1>4, <2>7
        <3>2. next = [r EXCEPT !.mode = IF r.mode \in {"number", "gap"} THEN "comma" ELSE "refused"]
            <4>1. r.mode \in {"open", "number", "gap"}
                BY <2>2, <2>5, <2>7
            <4> QED
                BY <2>7, <4>1 DEF NextItem
        <3>3. next.mode = (IF r.mode \in {"number", "gap"} THEN "comma" ELSE "refused") /\ next.items = r.items
            BY <1>2, <3>2 DEF ItemRecords
        <3> QED
            BY <2>1, <2>7, <3>1, <3>3 DEF BeforeArrayCloses
    <2>8. CASE m = "ONE" /\ r.mode = "gap"
        <3>1. next = [r EXCEPT !.mode = "refused"]
            BY <2>8 DEF NextItem
        <3>2. next.mode = "refused"
            BY <1>2, <3>1 DEF ItemRecords
        <3> QED
            BY <2>8, <3>2 DEF BeforeArrayCloses
    <2>9. CASE m = "ONE" /\ r.mode # "gap"
        <3>1. over2 = over /\ current2 = current + 1 /\ current2 > 0
            BY <1>3, <1>5, <2>9
        <3>2. r.mode \in {"open", "number"}
            BY <2>2, <2>5, <2>9
        <3>3. next.mode = "number" /\ next.items = Append(over2, current2)
            <4>1. CASE r.mode = "open"
                <5>1. next = [mode |-> "number", items |-> Append(r.items, 1)]
                    BY <2>9, <4>1 DEF NextItem
                <5>2. current = 0
                    BY <1>3, <2>1, <4>1
                <5>3. current2 = 1 /\ r.items = over
                    BY <2>1, <3>1, <4>1, <5>2
                <5> QED
                    BY <3>1, <5>1, <5>3
            <4>2. CASE r.mode = "number"
                <5>1. next = [r EXCEPT !.items[Len(r.items)] = @ + 1]
                    BY <2>9, <4>2 DEF NextItem
                <5>2. [r EXCEPT !.items[Len(r.items)] = @ + 1] = [r EXCEPT !.items = Longer(r.items)]
                    BY <1>2 DEF Longer
                <5>3. next.mode = "number" /\ next.items = Longer(r.items)
                    BY <1>2, <4>2, <5>1, <5>2 DEF ItemRecords
                <5>4. r.items = Append(over, current)
                    BY <2>1, <4>2
                <5> QED
                    BY <1>3, <3>1, <5>3, <5>4, LongerIs
            <4> QED
                BY <3>2, <4>1, <4>2
        <3> QED
            BY <2>9, <3>1, <3>3 DEF BeforeArrayCloses
    <2> QED
        BY <1>1, <2>6, <2>7, <2>8, <2>9
<1> QED
    BY <1>10, <1>11

LEMMA ItemsTo ==
    ASSUME NEW s \in Seq(ArrayMarks), SpacedCommas(s), NEW R, ReadingArray(R, s),
           NEW n \in 0 .. Len(s), \A k \in 1 .. n : s[k] # "CLOSE"
    PROVE  ItemInv(s, n, R[n])
<1> DEFINE T == {i \in 0 .. n : ItemInv(s, i, R[i])}
<1>1. n \in Nat /\ \A i \in 1 .. n : i \in 1 .. Len(s) /\ i \in 0 .. n
    BY LenProperties
<1>2. 0 \in T
    BY <1>1, ItemInit DEF ReadingArray
<1>3. \A i \in 1 .. n : i - 1 \in T => i \in T
    <2> SUFFICES ASSUME NEW i \in 1 .. n, ItemInv(s, i - 1, R[i - 1]) PROVE ItemInv(s, i, R[i])
        BY <1>1
    <2>1. i \in 1 .. Len(s) /\ s[i] # "CLOSE"
        BY <1>1
    <2>2. R[i] = NextItem(R[i - 1], s[i])
        BY <2>1 DEF ReadingArray
    <2> QED
        BY <2>1, <2>2, ItemNext
<1> HIDE DEF T
<1>4. 0 .. n \subseteq T
    BY <1>1, <1>2, <1>3, UintSteps!FromZero
<1>5. n \in 0 .. n
    BY <1>1
<1> QED
    BY <1>4, <1>5 DEF T

\* What is done or refused is read no further.
LEMMA ArrayStays ==
    ASSUME NEW s \in Seq(ArrayMarks), NEW R, ReadingArray(R, s),
           NEW c \in 1 .. Len(s), R[c].mode \in {"done", "refused"}
    PROVE  R[Len(s)] = R[c]
<1> DEFINE n == Len(s) - c
           T == {k \in 0 .. n : R[c + k] = R[c]}
<1>1. Len(s) \in Nat /\ c \in Nat /\ n \in Nat
    BY LenProperties
<1>2. 0 \in T
    BY <1>1
<1>3. \A k \in 1 .. n : k - 1 \in T => k \in T
    <2> SUFFICES ASSUME NEW k \in 1 .. n, R[c + (k - 1)] = R[c] PROVE R[c + k] = R[c]
        BY <1>1
    <2> PICK i : i = c + k
        OBVIOUS
    <2>1. i \in 1 .. Len(s) /\ c + (k - 1) = i - 1
        BY <1>1
    <2>2. R[i] = NextItem(R[i - 1], s[i])
        BY <2>1 DEF ReadingArray
    <2>3. R[i - 1] = R[c]
        BY <2>1
    <2>4. R[i] = R[c]
        BY <2>2, <2>3 DEF NextItem
    <2> QED
        BY <2>4
<1> HIDE DEF T, n
<1>4. 0 .. n \subseteq T
    BY <1>1, <1>2, <1>3, UintSteps!FromZero
<1>5. n \in 0 .. n /\ c + n = Len(s)
    BY <1>1 DEF n
<1> QED
    BY <1>4, <1>5 DEF T

\* An array is taken iff it is proper, and gives its numbers.
LEMMA ArrayRead ==
    ASSUME NEW s \in Seq(ArrayMarks), SpacedCommas(s)
    PROVE  /\ ParseArray(s).mode = "done" <=> ProperArray(s)
           /\ ParseArray(s).mode = "done" => ParseArray(s).items = ArrayItems(s)
<1>1. PICK R \in [0 .. Len(s) -> ItemRecords] : ReadingArray(R, s) /\ ParseArray(s) = R[Len(s)]
    BY ArrayFold
<1>2. CASE ~HasClosing(s)
    <2>1. Len(s) \in 0 .. Len(s) /\ \A k \in 1 .. Len(s) : s[k] # "CLOSE"
        BY <1>2, LenProperties DEF HasClosing
    <2>2. ItemInv(s, Len(s), R[Len(s)])
        BY <1>1, <2>1, ItemsTo
    <2> QED
        BY <1>1, <1>2, <2>2 DEF ItemInv, BeforeArrayCloses, ProperArray
<1>3. CASE HasClosing(s)
    <2> PICK c, n : c = Closing(s) /\ n = c - 1
        OBVIOUS
    <2>1. c \in 1 .. Len(s) /\ s[c] = "CLOSE" /\ n \in 0 .. Len(s) /\ n \in Nat /\ \A k \in 1 .. n : s[k] # "CLOSE"
        BY <1>3, ClosingIs, LenProperties
    <2> PICK r, over, current : /\ r = R[n] /\ over = Over(s, n, "COMMA", "ONE")
                                /\ current = Current(s, n, "COMMA", "ONE")
        OBVIOUS
    <2>2. ItemInv(s, n, r)
        BY <1>1, <2>1, ItemsTo
    <2>3. over \in Seq(Nat) /\ current \in Nat
        BY <2>1, OverTyped
    <2>4. Lengths(s, "COMMA", "ONE") = Append(over, current)
        BY <1>3, LengthsAre
    <2>5. ProperArray(s) <=> Whole(s, n) /\ AllMarked(over)
        <3> PICK a, d : a = Append(over, current) /\ d = Len(over)
            OBVIOUS
        <3>1. d \in Nat /\ over \in [1 .. d -> Nat]
            BY <2>3, LenProperties
        <3>2. Len(a) - 1 = d /\ \A k \in 1 .. d : a[k] = over[k]
            BY <2>3, <3>1, AppendMade
        <3>3. (\A k \in 1 .. Len(a) - 1 : a[k] > 0) <=> AllMarked(over)
            BY <3>2 DEF AllMarked
        <3> QED
            BY <1>3, <2>4, <3>3 DEF ProperArray, Whole
    <2>6. ArrayItems(s) = IF current = 0 THEN over ELSE Append(over, current)
        <3>1. Last(Append(over, current)) = current /\ Front(Append(over, current)) = over
            BY <2>3, TakenOff
        <3> QED
            BY <2>4, <3>1 DEF ArrayItems
    <2>7. R[c] = NextItem(r, "CLOSE")
        BY <1>1, <2>1 DEF ReadingArray
    <2>8. CASE r.mode = "refused"
        <3>1. R[c] = r
            BY <2>7, <2>8 DEF NextItem
        <3>2. R[Len(s)] = r
            BY <1>1, <2>1, <2>8, <3>1, ArrayStays
        <3> QED
            BY <1>1, <2>2, <2>5, <2>8, <3>2 DEF ItemInv
    <2>9. CASE r.mode # "refused"
        <3>1. r.mode # "comma"
            <4>1. n > 0 => n \in 1 .. Len(s) /\ n + 1 = c
                BY <2>1
            <4> QED
                BY <2>1, <2>2, <2>9, <4>1 DEF ItemInv, SpacedCommas
        <3>2. r.mode \in {"open", "number", "gap"} /\ r \in ItemRecords
            BY <2>2, <2>9, <3>1 DEF ItemInv, BeforeArrayCloses
        <3>3. R[c] = [r EXCEPT !.mode = "done"]
            BY <2>7, <3>2 DEF NextItem
        <3>4. R[c].mode = "done" /\ R[c].items = r.items
            BY <3>2, <3>3 DEF ItemRecords
        <3>5. R[Len(s)] = R[c]
            BY <1>1, <2>1, <3>4, ArrayStays
        <3>6. r.items = IF r.mode \in {"number", "gap"} THEN Append(over, current) ELSE over
            BY <2>2, <2>9 DEF ItemInv
        <3>7. r.mode \in {"number", "gap"} <=> current # 0
            <4>1. r.mode \in {"number", "gap"} <=> current > 0
                BY <2>2, <2>9 DEF ItemInv
            <4> QED
                BY <2>3, <4>1
        <3>8. ProperArray(s)
            BY <2>2, <2>5, <2>9 DEF ItemInv
        <3> QED
            BY <1>1, <2>6, <3>4, <3>5, <3>6, <3>7, <3>8
    <2> QED
        BY <2>8, <2>9
<1> QED
    BY <1>2, <1>3

\* The lines of a configuration: whatever the header, the array or the number,
\* clog_config.c takes it iff it is one (a header with blanks in it apart), and
\* what it takes is what was written, of a signed number the bits.
THEOREM LinesAreRead ==
    ASSUME textCall \in   [header : Seq(HeaderMarks)] \cup [array : Seq(ArrayMarks)]
                     \cup [sign : {"none", "+", "-"}, radix : Radices, digits : Seq(Nat)] \cup {NULL}
    PROVE  LineRead
<1> SUFFICES ASSUME textCall # NULL PROVE LineRead
    BY DEF LineRead
<1>1. CASE textCall \in [header : Seq(HeaderMarks)]
    <2> PICK s \in Seq(HeaderMarks) : s = textCall.header
        BY <1>1
    <2>1. "header" \in DOMAIN textCall
        BY <1>1
    <2>2. ~Gap(s) => /\ ValidHeader(s) <=> ProperHeader(s)
                     /\ ValidHeader(s) => HeaderPath(s) = Lengths(s, "DOT", "CHAR")
        BY HeaderRead
    <2>3. DOMAIN textCall = {"header"}
        BY <1>1
    <2>4. Gap(s) => Blanked(s)
        <3> SUFFICES ASSUME Gap(s) PROVE Blanked(s)
            OBVIOUS
        <3>1. PICK i, j \in 1 .. Len(s) :
                /\ i + 1 < j /\ OnlyBlanks(s, i + 1, j - 1)
                /\ \A k \in 1 .. j : s[k] # "CLOSE"
            BY DEF Gap
        <3> PICK k : k = i + 1
            OBVIOUS
        <3>2. k \in 1 .. Len(s) /\ k \in i + 1 .. j - 1 /\ \A l \in 1 .. k : l \in 1 .. j
            BY <3>1, LenProperties
        <3> QED
            BY <3>1, <3>2 DEF Blanked, OnlyBlanks
    <2> QED
        BY <2>1, <2>2, <2>3, <2>4 DEF LineRead
<1>2. CASE textCall \in [array : Seq(ArrayMarks)]
    <2> PICK s \in Seq(ArrayMarks) : s = textCall.array
        BY <1>2
    <2>1. DOMAIN textCall = {"array"}
        BY <1>2
    <2>2. SpacedCommas(s) => /\ ParseArray(s).mode = "done" <=> ProperArray(s)
                             /\ ParseArray(s).mode = "done" => ParseArray(s).items = ArrayItems(s)
        BY ArrayRead
    <2> QED
        BY <2>1, <2>2 DEF LineRead
<1>3. CASE textCall \in [sign : {"none", "+", "-"}, radix : Radices, digits : Seq(Nat)]
    <2> PICK sign \in {"none", "+", "-"}, radix \in Radices, digits \in Seq(Nat) :
              sign = textCall.sign /\ radix = textCall.radix /\ digits = textCall.digits
        BY <1>3
    <2>1. DOMAIN textCall = {"sign", "radix", "digits"}
        BY <1>3
    <2>2. NumberStored(sign, radix, digits)
        BY NumberRead
    <2>3. LineRead <=> NumberStored(sign, radix, digits)
        BY <2>1 DEF LineRead
    <2> QED
        BY <2>2, <2>3
<1> QED
    BY <1>1, <1>2, <1>3

================================================================================
