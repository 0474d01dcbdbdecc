----------------------------- MODULE SequenceFolds -----------------------------
(***************************************************************************)
(* What FoldLeft computes, for any operation: the operation is a constant, *)
(* so that an instance of this module says it of the operation it is       *)
(* given.  The first argument of the operation is whatever else it looks   *)
(* at, which a fold does not change.                                       *)
(***************************************************************************)
EXTENDS Integers, Sequences, SequencesExt, SequenceTheorems, WellFoundedInduction, TLAPS

CONSTANT Op(_, _, _)

Fold(c, base, s) == FoldLeft(LAMBDA a, z : Op(c, a, z), base, s)

\* The operation stays in A as long as it is given what is in Z.
Keeps(c, A, Z) == \A a \in A, z \in Z : Op(c, a, z) \in A

\* P has what the fold has come to behind each element of s.
Steps(P, c, base, s) == P[0] = base /\ \A i \in 1 .. Len(s) : P[i] = Op(c, P[i - 1], s[i])

\* A function that folds the first n elements of s, set by set of places.
FoldsTo(H, c, base, s, n) ==
    \A r \in SUBSET (1 .. n) :
        /\ r # {} => Max(r) \in r
        /\ H[r] = IF r = {} THEN base ELSE Op(c, H[r \ {Max(r)}], s[Max(r)])

LEMMA MaxOf == ASSUME NEW n \in Nat, NEW r \in SUBSET (1 .. n), n \in r PROVE Max(r) = n
<1>1. n \in r /\ \A y \in r : n >= y
    OBVIOUS
<1>2. \A x \in r : (\A y \in r : x >= y) => x = n
    OBVIOUS
<1> QED
    BY <1>1, <1>2 DEF Max

\* What holds of 0, and of a number when it holds of the one before, holds of all.
LEMMA FromZero ==
    ASSUME NEW n \in Nat, NEW T, 0 \in T, \A i \in 1 .. n : i - 1 \in T => i \in T
    PROVE  0 .. n \subseteq T
<1> DEFINE Less == {pair \in Nat \X Nat : pair[1] < pair[2]}
           Out == (0 .. n) \ T
<1> SUFFICES ASSUME Out # {} PROVE FALSE
    OBVIOUS
<1>1. IsWellFoundedOn(Less, Nat)
    <2>1. Less = OpToRel(<, Nat)
        BY DEF OpToRel
    <2> QED
        BY <2>1, NatLessThanWellFounded
<1>2. \A k, m \in Nat : k < m => <<k, m>> \in Less
    OBVIOUS
<1>3. Out \in SUBSET Nat
    OBVIOUS
<1> HIDE DEF Less, Out
<1>4. PICK m \in Out : \A k \in Out : ~ (<<k, m>> \in Less)
    BY <1>1, <1>3, WFMin
<1>5. m \in 1 .. n /\ m - 1 \in 0 .. n /\ m - 1 < m
    BY DEF Out
<1>6. m - 1 \notin Out
    <2>1. <<m - 1, m>> \in Less
        BY <1>2, <1>5
    <2> QED
        BY <1>4, <2>1
<1> QED
    BY <1>5, <1>6 DEF Out

LEMMA OneMore ==
    ASSUME NEW c, NEW A, NEW Z, Keeps(c, A, Z), NEW base \in A, NEW m \in Nat, m # 0,
           NEW s, s[m] \in Z,
           NEW F \in [SUBSET (1 .. m - 1) -> A], FoldsTo(F, c, base, s, m - 1)
    PROVE  \E H \in [SUBSET (1 .. m) -> A] : FoldsTo(H, c, base, s, m)
<1> DEFINE H == [r \in SUBSET (1 .. m) |-> IF m \in r THEN Op(c, F[r \ {m}], s[m]) ELSE F[r]]
<1>1. \A r \in SUBSET (1 .. m) :
        r \ {m} \in SUBSET (1 .. m - 1) /\ (m \notin r => r \in SUBSET (1 .. m - 1))
    <2>1. \A i \in 1 .. m : i # m => i \in 1 .. m - 1
        OBVIOUS
    <2> QED
        BY <2>1
<1>2. \A r \in SUBSET (1 .. m) : H[r] = IF m \in r THEN Op(c, F[r \ {m}], s[m]) ELSE F[r]
    OBVIOUS
<1>3. H \in [SUBSET (1 .. m) -> A]
    <2>1. ASSUME NEW r \in SUBSET (1 .. m)
          PROVE  (IF m \in r THEN Op(c, F[r \ {m}], s[m]) ELSE F[r]) \in A
        BY <1>1 DEF Keeps
    <2> QED
        BY <2>1
<1> HIDE DEF H
<1>4. H[{}] = base
    <2>1. {} \in SUBSET (1 .. m - 1) /\ {} \in SUBSET (1 .. m)
        OBVIOUS
    <2> QED
        BY <1>2, <2>1 DEF FoldsTo
<1>5. ASSUME NEW r \in SUBSET (1 .. m), r # {}
      PROVE  Max(r) \in r /\ H[r] = Op(c, H[r \ {Max(r)}], s[Max(r)])
    <2>1. CASE m \in r
        <3>1. Max(r) = m
            BY <2>1, MaxOf
        <3>2. H[r \ {m}] = F[r \ {m}]
            BY <1>2
        <3> QED
            BY <1>2, <2>1, <3>1, <3>2
    <2>2. CASE m \notin r
        <3>1. r \in SUBSET (1 .. m - 1)
            BY <1>1, <2>2
        <3>2. Max(r) \in r /\ F[r] = Op(c, F[r \ {Max(r)}], s[Max(r)])
            BY <1>5, <3>1 DEF FoldsTo
        <3>3. H[r] = F[r] /\ H[r \ {Max(r)}] = F[r \ {Max(r)}]
            BY <1>2, <2>2
        <3> QED
            BY <3>2, <3>3
    <2> QED
        BY <2>1, <2>2
<1> QED
    BY <1>3, <1>4, <1>5 DEF FoldsTo

LEMMA FoldExists ==
    ASSUME NEW c, NEW A, NEW Z, Keeps(c, A, Z), NEW base \in A, NEW s \in Seq(Z)
    PROVE  \E H \in [SUBSET (1 .. Len(s)) -> A] : FoldsTo(H, c, base, s, Len(s))
<1> DEFINE Good == {m \in 0 .. Len(s) : \E H \in [SUBSET (1 .. m) -> A] : FoldsTo(H, c, base, s, m)}
<1>1. 0 \in Good
    <2> DEFINE H == [r \in SUBSET (1 .. 0) |-> base]
    <2>1. H \in [SUBSET (1 .. 0) -> A] /\ 0 \in 0 .. Len(s)
        OBVIOUS
    <2>2. \A r \in SUBSET (1 .. 0) : r = {} /\ H[r] = base
        OBVIOUS
    <2> HIDE DEF H
    <2>3. FoldsTo(H, c, base, s, 0)
        BY <2>2 DEF FoldsTo
    <2> QED
        BY <2>1, <2>3
<1>2. ASSUME NEW m \in 1 .. Len(s), m - 1 \in Good PROVE m \in Good
    <2>1. m \in Nat /\ m # 0 /\ m \in 0 .. Len(s) /\ s[m] \in Z
        OBVIOUS
    <2>2. PICK F \in [SUBSET (1 .. m - 1) -> A] : FoldsTo(F, c, base, s, m - 1)
        BY <1>2
    <2>3. \E H \in [SUBSET (1 .. m) -> A] : FoldsTo(H, c, base, s, m)
        BY <2>1, <2>2, OneMore
    <2> QED
        BY <2>1, <2>3
<1> HIDE DEF Good
<1>3. Len(s) \in Nat
    OBVIOUS
<1>4. Len(s) \in Good
    <2>1. 0 .. Len(s) \subseteq Good
        BY <1>1, <1>2, <1>3, FromZero
    <2> QED
        BY <1>3, <2>1
<1> QED
    BY <1>4 DEF Good

\* The fold of s is where the steps along s end.
LEMMA Partial ==
    \A c, A, Z : Keeps(c, A, Z) => \A base \in A, s \in Seq(Z) :
        \E P \in [0 .. Len(s) -> A] : Steps(P, c, base, s) /\ Fold(c, base, s) = P[Len(s)]
<1> SUFFICES ASSUME NEW c, NEW A, NEW Z, Keeps(c, A, Z), NEW base \in A, NEW s \in Seq(Z)
             PROVE  \E P \in [0 .. Len(s) -> A] :
                        Steps(P, c, base, s) /\ Fold(c, base, s) = P[Len(s)]
    OBVIOUS
<1> DEFINE D == 1 .. Len(s)
           Step(G) == [r \in SUBSET D |-> IF r = {} THEN base ELSE Op(c, G[r \ {Max(r)}], s[Max(r)])]
           I == CHOOSE G : G = Step(G)
<1>1. \E H : H \in [SUBSET D -> A] /\ H = Step(H)
    <2>1. PICK H \in [SUBSET D -> A] : FoldsTo(H, c, base, s, Len(s))
        BY FoldExists
    <2>2. \A r \in SUBSET D : H[r] = IF r = {} THEN base ELSE Op(c, H[r \ {Max(r)}], s[Max(r)])
        BY <2>1 DEF FoldsTo
    <2> QED
        BY <2>2
<1>2. I = Step(I)
    <2>1. \E G : G = Step(G)
        BY <1>1
    <2> HIDE DEF Step
    <2> QED
        BY <2>1
<1>3. Fold(c, base, s) = I[D]
    <2>1. DOMAIN s = D
        OBVIOUS
    <2> QED
        BY <2>1 DEF Fold, FoldLeft, MapThenFoldSet
<1>4. I = Step(I)
    BY <1>2
<1> HIDE DEF I
<1>5. \A r \in SUBSET D : I[r] = IF r = {} THEN base ELSE Op(c, I[r \ {Max(r)}], s[Max(r)])
    BY <1>4
<1> DEFINE P == [i \in 0 .. Len(s) |-> I[1 .. i]]
<1>6. P[0] = base /\ P[Len(s)] = I[D]
    <2>1. Len(s) \in Nat /\ 1 .. 0 = {} /\ {} \in SUBSET D
        OBVIOUS
    <2>2. I[{}] = base
        BY <1>5, <2>1
    <2> QED
        BY <2>1, <2>2
<1>7. ASSUME NEW i \in 1 .. Len(s) PROVE P[i] = Op(c, P[i - 1], s[i])
    <2>1. i \in Nat /\ 1 .. i \in SUBSET D /\ i \in 1 .. i /\ (1 .. i) \ {i} = 1 .. i - 1
        OBVIOUS
    <2>2. Max(1 .. i) = i
        BY <2>1, MaxOf
    <2>3. I[1 .. i] = Op(c, I[1 .. i - 1], s[i])
        BY <1>5, <2>1, <2>2
    <2>4. P[i] = I[1 .. i] /\ P[i - 1] = I[1 .. i - 1]
        OBVIOUS
    <2> QED
        BY <2>3, <2>4
<1>8. P \in [0 .. Len(s) -> A]
    <2> DEFINE Typed == {i \in 0 .. Len(s) : P[i] \in A}
    <2> HIDE DEF P
    <2>1. 0 \in Typed
        BY <1>6
    <2>2. \A i \in 1 .. Len(s) : i - 1 \in Typed => i \in Typed
        BY <1>7, ElementOfSeq DEF Keeps
    <2> HIDE DEF Typed
    <2>3. 0 .. Len(s) \subseteq Typed
        BY <2>1, <2>2, FromZero, LenProperties
    <2> QED
        BY <2>3 DEF P, Typed
<1> QED
    BY <1>3, <1>6, <1>7, <1>8 DEF Steps

================================================================================
