----------------------------- MODULE Library_proofs -----------------------------
(***************************************************************************)
(* Proofs about parts of the library that need no other part: the file     *)
(* recorder, for any number of files, items and crashes; the queue of one  *)
(* thread and the direct dispatcher over it, for any items, recorders,     *)
(* routes and calls; and the hash map, for any keys, values, hash and      *)
(* number of buckets.                                                      *)
(***************************************************************************)
EXTENDS FileRecorder, DirectDispatcher, HashMap,
        FiniteSetTheorems, SequenceTheorems, WellFoundedInduction, TLAPS

--------------------------------------------------------------------------------
(* Sequences of sequences, one after the other                              *)

\* A set of naturals that is not empty has a least one.
LEMMA LeastOf ==
    ASSUME NEW T \in SUBSET Nat, T # {}
    PROVE  \E m \in T : \A k \in T : m <= k
<1> DEFINE Less == {pair \in Nat \X Nat : pair[1] < pair[2]}
<1>1. Less = OpToRel(<, Nat)
    BY DEF OpToRel
<1>2. IsWellFoundedOn(Less, Nat)
    BY <1>1, NatLessThanWellFounded
<1>3. \A k, m \in Nat : k < m => <<k, m>> \in Less
    OBVIOUS
<1> HIDE DEF Less
<1>4. PICK m \in T : \A k \in T : ~ (<<k, m>> \in Less)
    BY <1>2, WFMin
<1>5. \A k \in T : ~ (k < m)
    BY <1>3, <1>4
<1> QED
    BY <1>5

\* What holds of 1, and of a number when it holds of the one before, holds of all.
LEMMA UpTo ==
    ASSUME NEW n \in Nat, NEW T, 1 \in T, \A i \in 2 .. n : i - 1 \in T => i \in T
    PROVE  1 .. n \subseteq T
<1> DEFINE Out == (1 .. n) \ T
<1> SUFFICES ASSUME Out # {} PROVE FALSE
    OBVIOUS
<1>1. Out \in SUBSET Nat
    OBVIOUS
<1>2. PICK m \in Out : \A k \in Out : m <= k
    BY <1>1, LeastOf
<1>3. m \in 2 .. n /\ m - 1 \in 1 .. n /\ m - 1 < m
    BY <1>2
<1>4. m - 1 \notin Out
    BY <1>2, <1>3
<1> QED
    BY <1>3, <1>4

\* What FlattenSeq has gathered after each of the sequences.
Gathers(s, n, F) == F = [i \in 1 .. n |-> IF i = 1 THEN s[i] ELSE F[i - 1] \o s[i]]

Flattens(s, n, F) ==
    /\ FlattenSeq(s) = F[n] /\ F[1] = s[1]
    /\ \A i \in 2 .. n : F[i] = F[i - 1] \o s[i]

\* Such a function exists, and it is the one FlattenSeq takes.
LEMMA Gathered ==
    ASSUME NEW S, NEW n \in Nat, n # 0, NEW s \in [1 .. n -> Seq(S)]
    PROVE  \E F \in [1 .. n -> Seq(S)] : Flattens(s, n, F)
<1> DEFINE Good == {m \in 1 .. n : \E F \in [1 .. m -> Seq(S)] : Gathers(s, m, F)}
<1>1. /\ n \in 1 .. n /\ 1 \in 1 .. n /\ Len(s) = n
      /\ \A i \in 2 .. n : i \in 1 .. n /\ i - 1 \in 1 .. n /\ i # 1
    OBVIOUS
<1>2. 1 \in Good
    <2> DEFINE H == [i \in 1 .. 1 |-> s[1]]
    <2>1. H \in [1 .. 1 -> Seq(S)] /\ Gathers(s, 1, H)
        BY <1>1 DEF Gathers
    <2> QED
        BY <1>1, <2>1
<1>3. ASSUME NEW m \in 2 .. n, m - 1 \in Good PROVE m \in Good
    <2>1. m \in 1 .. n /\ m \in 1 .. m /\ m - 1 \in 1 .. m - 1 /\ m - 1 \in 1 .. n
        OBVIOUS
    <2>2. PICK F \in [1 .. m - 1 -> Seq(S)] : Gathers(s, m - 1, F)
        BY <1>3
    <2> DEFINE H == [i \in 1 .. m |-> IF i = m THEN F[m - 1] \o s[m] ELSE F[i]]
    <2>3. F[m - 1] \o s[m] \in Seq(S)
        BY <2>1, ConcatProperties
    <2>4. H \in [1 .. m -> Seq(S)]
        BY <2>1, <2>3
    <2>5. \A i \in 1 .. m - 1 : i \in 1 .. m /\ i # m
        BY <2>1
    <2>6. H[m] = F[m - 1] \o s[m] /\ \A i \in 1 .. m - 1 : H[i] = F[i]
        BY <2>1, <2>5
    <2> HIDE DEF H
    <2>7. \A i \in 1 .. m : H[i] = IF i = 1 THEN s[i] ELSE H[i - 1] \o s[i]
        <3> SUFFICES ASSUME NEW i \in 1 .. m
                     PROVE  H[i] = IF i = 1 THEN s[i] ELSE H[i - 1] \o s[i]
            OBVIOUS
        <3>1. CASE i = m
            <4>1. H[m] = H[m - 1] \o s[m]
                BY <2>1, <2>6
            <4> QED
                BY <3>1, <4>1
        <3>2. CASE i # m
            <4>1. i \in 1 .. m - 1 /\ (i # 1 => i - 1 \in 1 .. m - 1)
                BY <3>2
            <4>2. F[i] = IF i = 1 THEN s[i] ELSE F[i - 1] \o s[i]
                BY <2>2, <4>1 DEF Gathers
            <4> QED
                BY <2>6, <4>1, <4>2
        <3> QED
            BY <3>1, <3>2
    <2>8. Gathers(s, m, H)
        BY <2>4, <2>7 DEF Gathers
    <2> QED
        BY <2>1, <2>4, <2>8
<1>4. PICK F \in [1 .. n -> Seq(S)] : Gathers(s, n, F)
    <2> HIDE DEF Good
    <2>1. n \in Good
        BY <1>1, <1>2, <1>3, UpTo
    <2> QED
        BY <2>1 DEF Good
<1> DEFINE flat == CHOOSE G : G = [i \in 1 .. Len(s) |-> IF i = 1 THEN s[i] ELSE G[i - 1] \o s[i]]
<1>5. FlattenSeq(s) = flat[n]
    BY <1>1 DEF FlattenSeq
<1>6. Gathers(s, n, flat)
    BY <1>1, <1>4 DEF Gathers
<1> HIDE DEF flat
<1>7. F[1] = s[1] /\ \A i \in 2 .. n : i - 1 \in 1 .. n /\ F[i] = F[i - 1] \o s[i]
    <2>1. \A i \in 1 .. n : F[i] = IF i = 1 THEN s[i] ELSE F[i - 1] \o s[i]
        BY <1>4 DEF Gathers
    <2> QED
        BY <1>1, <2>1
<1>8. flat[1] = s[1] /\ \A i \in 2 .. n : flat[i] = flat[i - 1] \o s[i]
    <2>1. \A i \in 1 .. n : flat[i] = IF i = 1 THEN s[i] ELSE flat[i - 1] \o s[i]
        BY <1>6 DEF Gathers
    <2> QED
        BY <1>1, <2>1
<1>9. flat[n] = F[n]
    <2> DEFINE Same == {i \in 1 .. n : flat[i] = F[i]}
    <2>1. 1 \in Same /\ \A i \in 2 .. n : i - 1 \in Same => i \in Same
        BY <1>1, <1>7, <1>8
    <2> HIDE DEF Same
    <2>2. n \in Same
        BY <1>1, <2>1, UpTo
    <2> QED
        BY <2>2 DEF Same
<1> QED
    BY <1>5, <1>7, <1>9 DEF Flattens

\* Empty sequences make an empty one.
LEMMA FlattenEmpty ==
    ASSUME NEW S, NEW n \in Nat, n # 0, NEW s \in [1 .. n -> Seq(S)], \A i \in 1 .. n : s[i] = <<>>
    PROVE  FlattenSeq(s) = <<>>
<1>0. /\ n \in 1 .. n /\ 1 \in 1 .. n
      /\ \A i \in 2 .. n : i \in 1 .. n /\ i - 1 \in 1 .. n
    OBVIOUS
<1>1. PICK F \in [1 .. n -> Seq(S)] : Flattens(s, n, F)
    BY Gathered
<1> DEFINE Bare == {i \in 1 .. n : F[i] = <<>>}
<1>2. 1 \in Bare /\ \A i \in 2 .. n : i - 1 \in Bare => i \in Bare
    BY ZenonT(60), <1>0, <1>1, ConcatEmptySeq DEF Flattens
<1> HIDE DEF Bare
<1>3. n \in Bare
    BY <1>0, <1>2, UpTo
<1> QED
    BY <1>1, <1>3 DEF Bare, Flattens

\* An empty sequence at the end adds nothing to the whole.
NoMore(r, s, n) == r[n + 1] = <<>> /\ \A i \in 1 .. n : r[i] = s[i]

LEMMA FlattenNoMore ==
    ASSUME NEW S, NEW n \in Nat, NEW s \in [1 .. n -> Seq(S)], NEW r \in [1 .. n + 1 -> Seq(S)],
           NoMore(r, s, n)
    PROVE  FlattenSeq(r) = FlattenSeq(s)
<1> USE DEF NoMore
<1>1. CASE n = 0
    <2>1. n + 1 \in Nat /\ n + 1 # 0 /\ \A i \in 1 .. n + 1 : r[i] = <<>>
        BY <1>1
    <2>2. FlattenSeq(r) = <<>>
        BY <2>1, FlattenEmpty
    <2>3. Len(s) = 0 /\ s = <<>>
        BY <1>1
    <2>4. FlattenSeq(s) = <<>>
        BY <2>3 DEF FlattenSeq
    <2> QED
        BY <2>2, <2>4
<1>2. CASE n # 0
    <2>1. PICK F \in [1 .. n -> Seq(S)] : Flattens(s, n, F)
        BY <1>2, Gathered
    <2>2. PICK k \in Nat : k = n + 1
        OBVIOUS
    <2>3. k # 0 /\ r \in [1 .. k -> Seq(S)] /\ 1 \in 1 .. n /\ n \in 1 .. n
        BY <1>2, <2>2
    <2>4. PICK G \in [1 .. k -> Seq(S)] : Flattens(r, k, G)
        BY <2>3, Gathered
    <2> DEFINE Same == {i \in 1 .. n : G[i] = F[i]}
    <2>5. 1 \in Same
        BY <2>1, <2>3, <2>4 DEF Flattens
    <2>6. ASSUME NEW i \in 2 .. n, i - 1 \in Same PROVE i \in Same
        <3>1. i \in 1 .. n /\ i \in 2 .. k
            BY <2>2
        <3>2. G[i] = G[i - 1] \o r[i] /\ F[i] = F[i - 1] \o s[i]
            BY <2>1, <2>4, <3>1 DEF Flattens
        <3> QED
            BY <2>6, <3>1, <3>2
    <2> HIDE DEF Same
    <2>7. n \in Same
        BY <2>3, <2>5, <2>6, UpTo
    <2>8. G[k] = G[n] \o <<>> /\ G[n] \in Seq(S)
        <3>1. k \in 2 .. k /\ k - 1 = n /\ r[k] = <<>> /\ n \in 1 .. k
            BY <1>2, <2>2
        <3>2. G[k] = G[k - 1] \o r[k]
            BY <2>4, <3>1 DEF Flattens
        <3> QED
            BY <3>1, <3>2
    <2>9. G[k] = F[n]
        BY <2>7, <2>8, ConcatEmptySeq DEF Same
    <2> QED
        BY <2>1, <2>4, <2>9 DEF Flattens
<1> QED
    BY <1>1, <1>2

\* Appending to the second of two sequences appends to both.
LEMMA ConcatAppend ==
    ASSUME NEW S, NEW s \in Seq(S), NEW r \in Seq(S), NEW x \in S
    PROVE  s \o Append(r, x) = Append(s \o r, x)
<1>1. Append(r, x) = r \o <<x>> /\ <<x>> \in Seq(S) /\ s \o r \in Seq(S)
    BY AppendIsConcat, ConcatProperties
<1>2. Append(s \o r, x) = (s \o r) \o <<x>>
    BY <1>1, AppendIsConcat
<1>3. (s \o r) \o <<x>> = s \o (r \o <<x>>)
    BY <1>1, ConcatAssociative
<1> QED
    BY <1>1, <1>2, <1>3

\* One element more at the end of the last sequence that has any.
LastOf(s, n, k) == \A i \in k + 1 .. n : s[i] = <<>>
OneMore(r, s, k, x) == r = [s EXCEPT ![k] = Append(s[k], x)]

\* ... appends it to the whole.
LEMMA FlattenAppend ==
    ASSUME NEW S, NEW n \in Nat, NEW s \in [1 .. n -> Seq(S)], NEW k \in 1 .. n, NEW x \in S,
           LastOf(s, n, k), NEW r, OneMore(r, s, k, x)
    PROVE  FlattenSeq(r) = Append(FlattenSeq(s), x)
<1> USE DEF LastOf, OneMore
<1>1. /\ n # 0 /\ n \in 1 .. n /\ 1 \in 1 .. n /\ k \in 1 .. n
      /\ \A i \in 2 .. n : i \in 1 .. n /\ i - 1 \in 1 .. n /\ i # 1
    OBVIOUS
<1>2. r \in [1 .. n -> Seq(S)]
    BY AppendProperties
<1>3. PICK F \in [1 .. n -> Seq(S)] : Flattens(s, n, F)
    BY <1>1, Gathered
<1>4. PICK G \in [1 .. n -> Seq(S)] : Flattens(r, n, G)
    BY <1>1, <1>2, Gathered
<1>5. r[k] = Append(s[k], x) /\ \A i \in 1 .. n : i # k => r[i] = s[i]
    OBVIOUS
<1> DEFINE Ahead == {i \in 1 .. n : G[i] = IF i < k THEN F[i] ELSE Append(F[i], x)}
<1>6. 1 \in Ahead
    BY <1>1, <1>3, <1>4, <1>5 DEF Flattens
<1>7. ASSUME NEW i \in 2 .. n, i - 1 \in Ahead PROVE i \in Ahead
    <2>1. i \in 1 .. n /\ i - 1 \in 1 .. n /\ i \in Nat /\ k \in Nat
        OBVIOUS
    <2>2. PICK f, g, e : f = F[i - 1] /\ g = G[i - 1] /\ e = s[i]
        OBVIOUS
    <2>3. f \in Seq(S) /\ g \in Seq(S) /\ e \in Seq(S)
        BY <2>1, <2>2
    <2>4. F[i] = f \o e /\ G[i] = g \o r[i]
        BY <1>3, <1>4, <2>2 DEF Flattens
    <2>5. g = IF i - 1 < k THEN f ELSE Append(f, x)
        BY <1>7, <2>2
    <2>6. G[i] = IF i < k THEN F[i] ELSE Append(F[i], x)
        <3>1. CASE i < k
            <4>1. i - 1 < k /\ r[i] = e
                BY <1>5, <2>1, <2>2, <3>1
            <4> QED
                BY <2>4, <2>5, <3>1, <4>1
        <3>2. CASE i = k
            <4>1. i - 1 < k /\ ~ (i < k) /\ r[i] = Append(e, x)
                BY <1>5, <2>1, <2>2, <3>2
            <4>2. f \o Append(e, x) = Append(f \o e, x)
                <5>1. x \in S
                    OBVIOUS
                <5> HIDE <1>7
                <5> QED
                    BY ONLY <2>3, <5>1, ConcatAppend
            <4> QED
                BY <2>4, <2>5, <4>1, <4>2
        <3>3. CASE i > k
            <4>1. ~ (i - 1 < k) /\ ~ (i < k) /\ i # k /\ i \in k + 1 .. n
                BY <2>1, <3>3
            <4>2. r[i] = <<>> /\ e = <<>>
                BY <1>5, <2>1, <2>2, <4>1
            <4>3. g \o <<>> = g /\ f \o <<>> = f
                BY <2>3, ConcatEmptySeq
            <4> QED
                BY <2>4, <2>5, <4>1, <4>2, <4>3
        <3>4. i < k \/ i = k \/ i > k
            BY <2>1
        <3> QED
            BY <3>1, <3>2, <3>3, <3>4
    <2> QED
        BY <2>1, <2>6
<1> HIDE DEF Ahead
<1>8. n \in Ahead
    BY <1>1, <1>6, <1>7, UpTo
<1>9. G[n] = Append(F[n], x)
    BY <1>8 DEF Ahead
<1> QED
    BY <1>3, <1>4, <1>9 DEF Flattens

--------------------------------------------------------------------------------
(* The file recorder                                                        *)

FrTypeOK ==
    /\ meta \in {NULL, TORN} \cup MetaInfos
    /\ logs = [f \in DOMAIN logs |-> logs[f]]
    /\ DOMAIN logs \subseteq 0 .. MaxFiles - 1
    /\ \A f \in DOMAIN logs : logs[f] \in Seq(Nat)
    /\ param \in {NULL} \cup Params
    /\ frpc \in {"out", "createMeta", "createWrite", "createOpen",
                 "flushMeta", "flushWrite", "flushOpen"}
    /\ written \in Seq(Nat) /\ nextItem \in Nat

\* The index is that of the next file, and no log file is newer than the file.
AtEnd(r) == r.index = r.file + 1 /\ r.index <= MaxFiles /\ \A f \in DOMAIN logs : f <= r.file

MetaAtEnd ==
    /\ meta \notin {NULL, TORN} => AtEnd(meta)
    /\ meta = NULL => DOMAIN logs = {}

ParamAtEnd ==
    param # NULL =>
        /\ AtEnd(param)
        /\ meta \notin {NULL, TORN} => meta.file <= param.file
        /\ param.log # NULL => param.log \in DOMAIN logs /\ \A f \in DOMAIN logs : f <= param.log

\* A log file is opened when the metainfo file tells of it.
MetaBeforeLog ==
    /\ frpc # "out" => param # NULL
    /\ frpc \in {"createOpen", "flushOpen"} => meta = [index |-> param.index, file |-> param.file]

FrInv == FrTypeOK /\ MetaAtEnd /\ ParamAtEnd /\ MetaBeforeLog

LEMMA MetaFacts ==
    /\ \A p \in Params : p # NULL
    /\ \A m \in MetaInfos : m # NULL /\ m # TORN
    /\ NULL # TORN /\ NULL \notin Nat /\ MaxFiles \in Nat /\ MaxFiles # 0
BY FileRecorderAssumption

\* A log file is opened as it is, the metainfo file is emptied.
LEMMA OpenFacts ==
    /\ \A content : Opened(LogFlags, content) = content
    /\ \A content : Opened(MetaFlags, content) = <<>>
<1>1. "O_TRUNC" \notin OpenFlags(LogFlags)
    BY DEF OpenFlags, LogFlags, Empties
<1>2. "O_TRUNC" \in OpenFlags(MetaFlags)
    BY DEF OpenFlags, MetaFlags, Empties
<1> QED
    BY <1>1, <1>2 DEF Opened

\* The files with their contents, in the order of their indices.
Contents == [i \in 1 .. MaxFiles |-> IF Exists(i - 1) THEN logs[i - 1] ELSE <<>>]

\* What the files hold.
LEMMA ContentsType == ASSUME FrInv PROVE Contents \in [1 .. MaxFiles -> Seq(Nat)]
BY MetaFacts DEF FrInv, FrTypeOK, Contents, Exists

\* No log file changes, and the metainfo file is not written.
LEMMA SameFiles ==
    ASSUME FrInv, UNCHANGED <<meta, logs>>,
           written' = written, nextItem' \in Nat, param' \in {NULL} \cup Params,
           frpc' \in {"out", "createMeta", "createWrite", "createOpen",
                      "flushMeta", "flushWrite", "flushOpen"},
           ParamAtEnd', MetaBeforeLog'
    PROVE  FrInv' /\ InOrder' = InOrder
<1>1. FrInv'
    BY DEF FrInv, FrTypeOK, MetaAtEnd, AtEnd
<1> QED
    BY <1>1 DEF InOrder, Exists

\* clog_file_recorder_open without a metainfo file, step by step.
LEMMA CreateKeeps ==
    ASSUME FrInv, CreateBegin
    PROVE  FrInv' /\ InOrder' = InOrder
<1> USE DEF FrInv
<1>1. UNCHANGED <<meta, logs, written, nextItem>>
    BY DEF CreateBegin
<1>2. CASE meta = NULL
    <2>1. /\ param' = [index |-> 1, file |-> 0, log |-> NULL, type |-> "NONE", current |-> 0]
          /\ frpc' = "createMeta"
        BY <1>2 DEF CreateBegin, Name, SplitTypeLeft
    <2>2. param' \in Params /\ param' # NULL
        BY <2>1, MetaFacts DEF Params, SplitTypes
    <2>3. ParamAtEnd'
        BY <1>1, <1>2, <2>1, MetaFacts DEF ParamAtEnd, AtEnd, MetaAtEnd
    <2>4. MetaBeforeLog'
        BY <2>1, <2>2 DEF MetaBeforeLog
    <2> QED
        BY <1>1, <2>1, <2>2, <2>3, <2>4, SameFiles DEF FrTypeOK
<1>3. CASE meta \notin {NULL, TORN}
    <2>1. /\ param' = [index |-> meta.index, file |-> meta.file, log |-> NULL,
                       type |-> "NONE", current |-> 0]
          /\ frpc' = "createOpen"
        BY <1>3 DEF CreateBegin, SplitTypeLeft
    <2>2. meta \in MetaInfos /\ meta.index \in Nat /\ meta.file \in Nat
          /\ meta = [index |-> meta.index, file |-> meta.file]
        BY <1>3 DEF FrTypeOK, MetaInfos
    <2>3. param' \in Params /\ param' # NULL
        BY <2>1, <2>2, MetaFacts DEF Params, SplitTypes
    <2>4. param'.index = meta.index /\ param'.file = meta.file /\ param'.log = NULL
        BY <2>1
    <2>5. ParamAtEnd'
        BY <1>1, <1>3, <2>2, <2>4 DEF ParamAtEnd, AtEnd, MetaAtEnd
    <2>6. MetaBeforeLog'
        BY <1>1, <2>1, <2>2, <2>3, <2>4 DEF MetaBeforeLog
    <2> QED
        BY <1>1, <2>1, <2>3, <2>5, <2>6, SameFiles DEF FrTypeOK
<1> QED
    BY <1>2, <1>3 DEF CreateBegin

\* The metainfo file is emptied, and written later.
LEMMA TruncateKeeps ==
    ASSUME FrInv, CreateTruncate \/ FlushTruncate
    PROVE  FrInv' /\ InOrder' = InOrder
<1> USE DEF FrInv
<1>1. /\ frpc # "out" /\ meta' = TORN /\ frpc' \in {"createWrite", "flushWrite"}
      /\ UNCHANGED <<logs, param, written, nextItem>>
    BY OpenFacts DEF CreateTruncate, FlushTruncate, TruncateMeta
<1>2. FrTypeOK'
    BY <1>1 DEF FrTypeOK
<1>3. MetaAtEnd' /\ ParamAtEnd' /\ MetaBeforeLog'
    BY <1>1, MetaFacts DEF MetaAtEnd, ParamAtEnd, MetaBeforeLog, AtEnd
<1> QED
    BY <1>1, <1>2, <1>3 DEF InOrder, Exists

\* ... and the metainfo written again.
LEMMA WriteMetaKeeps ==
    ASSUME FrInv, CreateWrite \/ FlushWrite
    PROVE  FrInv' /\ InOrder' = InOrder
<1> USE DEF FrInv
<1>1. /\ frpc # "out" /\ frpc' \in {"createOpen", "flushOpen"}
      /\ meta' = [index |-> param.index, file |-> param.file]
      /\ UNCHANGED <<logs, param, written, nextItem>>
    BY DEF CreateWrite, FlushWrite, WriteMeta, MetaInfo
<1>2. param # NULL /\ param.index \in Nat /\ param.file \in Nat
    BY <1>1 DEF MetaBeforeLog, FrTypeOK, Params
<1>3. /\ meta' \in MetaInfos /\ meta' # NULL
      /\ meta'.index = param.index /\ meta'.file = param.file
    BY <1>1, <1>2, MetaFacts DEF MetaInfos
<1>4. FrTypeOK'
    BY <1>1, <1>3 DEF FrTypeOK
<1>5. MetaAtEnd' /\ ParamAtEnd' /\ MetaBeforeLog'
    BY <1>1, <1>2, <1>3 DEF MetaAtEnd, ParamAtEnd, MetaBeforeLog, AtEnd
<1> QED
    BY <1>1, <1>4, <1>5 DEF InOrder, Exists

\* A log file is opened for what comes behind what is in it; it is the last.
LEMMA OpenKeeps ==
    ASSUME FrInv, CreateOpen \/ FlushOpen
    PROVE  FrInv' /\ InOrder' = InOrder
<1> USE DEF FrInv
<1>0. PICK n, c : n = param.file /\ c = Counted(param.type, param.file)
    OBVIOUS
<1>1. /\ frpc \in {"createOpen", "flushOpen"} /\ frpc' = "out"
      /\ logs' = Touched(n) /\ param' = [param EXCEPT !.log = n, !.current = c]
      /\ UNCHANGED <<meta, written, nextItem>>
    BY <1>0 DEF CreateOpen, FlushOpen, OpenLog
<1>2. /\ param # NULL /\ param \in Params /\ n \in Nat /\ param.index = n + 1 /\ n \in 0 .. MaxFiles - 1
      /\ meta.file = n /\ meta.index = n + 1 /\ \A f \in DOMAIN logs : f <= n
    BY <1>0, <1>1, MetaFacts DEF MetaBeforeLog, FrTypeOK, ParamAtEnd, AtEnd, Params
<1>3. c \in Nat
    BY <1>0, LenProperties DEF Counted, Exists, FrTypeOK
<1>4. /\ param' \in Params /\ param' # NULL
      /\ param'.index = param.index /\ param'.file = n /\ param'.log = n
    BY <1>0, <1>1, <1>2, <1>3, MetaFacts DEF Params
<1>5. /\ DOMAIN logs' = DOMAIN logs \cup {n}
      /\ logs' = [f \in DOMAIN logs' |-> logs'[f]]
      /\ \A f \in DOMAIN logs : logs'[f] = logs[f]
      /\ n \notin DOMAIN logs => logs'[n] = <<>>
    BY <1>1, OpenFacts DEF Touched, Exists
<1>6. FrTypeOK'
    <2>1. \A f \in DOMAIN logs' : logs'[f] \in Seq(Nat)
        <3>1. <<>> \in Seq(Nat)
            OBVIOUS
        <3>2. \A f \in DOMAIN logs : logs'[f] \in Seq(Nat)
            BY <1>5 DEF FrTypeOK
        <3>3. logs'[n] \in Seq(Nat)
            BY <1>5, <3>1, <3>2
        <3> QED
            BY <1>5, <3>2, <3>3
    <2>2. DOMAIN logs' \subseteq 0 .. MaxFiles - 1
        BY <1>2, <1>5 DEF FrTypeOK
    <2> QED
        BY <1>1, <1>4, <1>5, <2>1, <2>2 DEF FrTypeOK
<1>7. MetaAtEnd' /\ ParamAtEnd' /\ MetaBeforeLog'
    <2>1. meta # NULL
        BY <1>0, <1>1, <1>2, MetaFacts DEF MetaBeforeLog, Params, MetaInfos
    <2> QED
        BY <1>1, <1>2, <1>4, <1>5, <2>1 DEF MetaAtEnd, ParamAtEnd, MetaBeforeLog, AtEnd
<1>8. InOrder' = InOrder
    <2>1. \A i \in 1 .. MaxFiles :
            (IF Exists(i - 1) THEN logs[i - 1] ELSE <<>>)'
                = IF Exists(i - 1) THEN logs[i - 1] ELSE <<>>
        BY <1>5 DEF Exists
    <2> QED
        BY <2>1 DEF InOrder
<1> QED
    BY <1>6, <1>7, <1>8

\* An item goes behind everything that was written.
LEMMA WriteKeeps ==
    ASSUME FrInv, WriteItem
    PROVE  FrInv' /\ (InOrder = written => InOrder' = written')
<1> USE DEF FrInv
<1>1. /\ frpc = "out" /\ param # NULL /\ param \in Params /\ nextItem' = nextItem + 1
      /\ UNCHANGED <<meta, frpc>> /\ nextItem' \in Nat
    BY DEF WriteItem, FrTypeOK
<1>2. CASE UNCHANGED <<logs, written, param>>
    <2>1. ParamAtEnd' /\ MetaBeforeLog'
        BY <1>1, <1>2 DEF ParamAtEnd, AtEnd, MetaBeforeLog
    <2>2. FrInv' /\ InOrder' = InOrder
        BY <1>1, <1>2, <2>1, SameFiles DEF FrTypeOK
    <2> QED
        BY <1>2, <2>2
<1>3. CASE ~ UNCHANGED <<logs, written, param>>
    <2>0. PICK l, x, n : l = param.log /\ x = nextItem /\ n = IF param.type \in {"SIZE", "NUMBER"} THEN param.current + 1 ELSE 0
        OBVIOUS
    <2>1. /\ param.log # NULL /\ logs' = [logs EXCEPT ![l] = Append(logs[l], x)]
          /\ written' = Append(written, x)
          /\ param' = [param EXCEPT !.current = n]
        BY <1>3, <2>0 DEF WriteItem
    <2>2. l \in DOMAIN logs /\ (\A f \in DOMAIN logs : f <= l) /\ l \in 0 .. MaxFiles - 1
        BY <1>1, <2>0, <2>1 DEF ParamAtEnd, FrTypeOK
    <2>3. n \in Nat /\ x \in Nat
        BY <1>1, <2>0 DEF Params, FrTypeOK
    <2>4. /\ param' \in Params /\ param' # NULL
          /\ param'.index = param.index /\ param'.file = param.file /\ param'.log = l
        BY <1>1, <2>0, <2>1, <2>3, MetaFacts DEF Params
    <2>5. /\ DOMAIN logs' = DOMAIN logs /\ logs' = [f \in DOMAIN logs' |-> logs'[f]]
          /\ \A f \in DOMAIN logs : logs'[f] = IF f = l THEN Append(logs[f], x) ELSE logs[f]
        BY <2>1 DEF FrTypeOK
    <2>6. FrTypeOK'
        <3>1. \A f \in DOMAIN logs : logs'[f] \in Seq(Nat)
            <4>1. Append(logs[l], x) \in Seq(Nat)
                BY <2>2, <2>3, AppendProperties DEF FrTypeOK
            <4> QED
                BY <2>5, <4>1 DEF FrTypeOK
        <3>2. written' \in Seq(Nat)
            BY <2>1, <2>3, AppendProperties DEF FrTypeOK
        <3> QED
            BY <1>1, <2>4, <2>5, <3>1, <3>2 DEF FrTypeOK
    <2>7. MetaAtEnd' /\ ParamAtEnd' /\ MetaBeforeLog'
        BY <1>1, <2>0, <2>4, <2>5 DEF MetaAtEnd, ParamAtEnd, MetaBeforeLog, AtEnd
    <2>8. InOrder' = Append(InOrder, x)
        <3>0. PICK s, k : s = Contents /\ k = l + 1
            OBVIOUS
        <3>1. s \in [1 .. MaxFiles -> Seq(Nat)] /\ k \in 1 .. MaxFiles /\ MaxFiles \in Nat
            BY <2>2, <3>0, ContentsType, MetaFacts
        <3>2. LastOf(s, MaxFiles, k)
            BY <2>2, <3>0, MetaFacts DEF LastOf, Contents, Exists, FrTypeOK
        <3>3. PICK r : OneMore(r, s, k, x)
            BY DEF OneMore
        <3>4. FlattenSeq(r) = Append(FlattenSeq(s), x)
            BY <2>3, <3>1, <3>2, <3>3, FlattenAppend
        <3>5. Contents' = r
            <4>1. \A i \in 1 .. MaxFiles : i - 1 = l <=> i = k
                BY <2>2, <3>0
            <4> QED
                BY <2>2, <2>5, <3>0, <3>3, <4>1 DEF Contents, Exists, OneMore
        <3> QED
            BY <3>0, <3>4, <3>5 DEF InOrder, Contents
    <2> QED
        BY <2>1, <2>6, <2>7, <2>8
<1> QED
    BY <1>2, <1>3

\* flush names the next file.
LEMMA FlushKeeps ==
    ASSUME FrInv, FlushBegin
    PROVE  FrInv' /\ InOrder' = InOrder
<1> USE DEF FrInv
<1>0. PICK i : i = param.index
    OBVIOUS
<1>1. /\ param # NULL /\ param \in Params /\ i < MaxFiles /\ frpc' = "flushMeta"
      /\ param' = [param EXCEPT !.file = i, !.index = i + 1]
      /\ UNCHANGED <<meta, logs, written, nextItem>>
    BY <1>0 DEF FlushBegin, Name, FrTypeOK, Params
<1>2. i \in Nat /\ param.file \in Nat /\ i = param.file + 1
    BY <1>0, <1>1 DEF Params, ParamAtEnd, AtEnd
<1>3. /\ param' \in Params /\ param' # NULL
      /\ param'.index = i + 1 /\ param'.file = i /\ param'.log = param.log
    <2>1. i + 1 \in Nat
        BY <1>2
    <2>2. param' \in Params
        BY <1>1, <1>2, <2>1 DEF Params
    <2>3. param'.index = i + 1 /\ param'.file = i /\ param'.log = param.log
        BY <1>1 DEF Params
    <2> QED
        BY <2>2, <2>3, MetaFacts
<1>4. ParamAtEnd'
    <2>1. AtEnd(param)'
        BY <1>0, <1>1, <1>2, <1>3, MetaFacts DEF ParamAtEnd, AtEnd, FrTypeOK
    <2>2. meta \notin {NULL, TORN} => meta.file <= i
        BY <1>0, <1>1, <1>2 DEF ParamAtEnd, FrTypeOK, MetaInfos
    <2> QED
        BY <1>1, <1>3, <2>1, <2>2 DEF ParamAtEnd
<1>5. MetaBeforeLog'
    BY <1>1, <1>3 DEF MetaBeforeLog
<1> QED
    BY <1>1, <1>3, <1>4, <1>5, SameFiles DEF FrTypeOK

\* A step of flush that fails leaves the log file that was open, or none.
LEMMA FlushFailureKeeps ==
    ASSUME FrInv, FlushFails \/ FlushLosesLog
    PROVE  FrInv' /\ InOrder' = InOrder
<1> USE DEF FrInv
<1>1. /\ frpc' = "out" /\ UNCHANGED <<meta, logs, written, nextItem>>
      /\ param # NULL /\ param \in Params
    BY DEF FlushFails, FlushLosesLog, MetaBeforeLog, FrTypeOK
<1>2. /\ param' \in Params /\ param' # NULL
      /\ param'.index = param.index /\ param'.file = param.file /\ param'.log \in {param.log, NULL}
    BY <1>1, MetaFacts DEF FlushFails, FlushLosesLog, Params
<1>3. ParamAtEnd' /\ MetaBeforeLog'
    BY <1>1, <1>2 DEF ParamAtEnd, AtEnd, MetaBeforeLog
<1> QED
    BY <1>1, <1>2, <1>3, SameFiles DEF FrTypeOK

\* The recorder is gone: create has failed, it is closed, or the process stops.
LEMMA GoneKeeps ==
    ASSUME FrInv, CreateFails \/ CloseRecorder \/ Crash
    PROVE  FrInv' /\ InOrder' = InOrder
<1> USE DEF FrInv
<1>1. /\ frpc' = "out" /\ param' = NULL /\ UNCHANGED <<meta, logs, written, nextItem>>
    BY DEF CreateFails, CloseRecorder, Crash
<1>2. ParamAtEnd' /\ MetaBeforeLog'
    BY <1>1 DEF ParamAtEnd, MetaBeforeLog
<1> QED
    BY <1>1, <1>2, SameFiles DEF FrTypeOK

\* No files, nothing open.
LEMMA FrInitInv == FrInit => FrInv /\ LogsInOrder
<1> SUFFICES ASSUME FrInit PROVE FrInv /\ LogsInOrder
    OBVIOUS
<1>1. DOMAIN logs = {} /\ logs = [f \in DOMAIN logs |-> logs[f]]
    BY DEF FrInit
<1>2. FrInv
    BY <1>1 DEF FrInit, FrInv, FrTypeOK, MetaAtEnd, ParamAtEnd, MetaBeforeLog
<1>3. PICK s : s = Contents
    OBVIOUS
<1>4. \A i \in 1 .. MaxFiles : s[i] = <<>>
    BY <1>1, <1>3 DEF Contents, Exists
<1>5. FlattenSeq(s) = <<>>
    BY <1>2, <1>3, <1>4, ContentsType, MetaFacts, FlattenEmpty
<1> QED
    BY <1>2, <1>3, <1>5 DEF FrInit, LogsInOrder, InOrder, Contents

\* Each action of the recorder.
LEMMA FrKeepsInv ==
    FrInv /\ LogsInOrder /\ [FrNext]_frVars => FrInv' /\ LogsInOrder'
<1> SUFFICES ASSUME FrInv, LogsInOrder, [FrNext]_frVars PROVE FrInv' /\ LogsInOrder'
    OBVIOUS
<1>1. CASE WriteItem
    BY <1>1, WriteKeeps DEF LogsInOrder
<1>2. CASE UNCHANGED frVars
    <2>1. ParamAtEnd' /\ MetaBeforeLog'
        BY <1>2 DEF frVars, FrInv, ParamAtEnd, AtEnd, MetaBeforeLog
    <2> QED
        BY <1>2, <2>1, SameFiles DEF frVars, LogsInOrder, FrInv, FrTypeOK
<1>3. ASSUME ~ WriteItem, ~ UNCHANGED frVars PROVE FrInv' /\ InOrder' = InOrder /\ written' = written
    <2>1. FrInv' /\ InOrder' = InOrder
        BY <1>3, CreateKeeps, TruncateKeeps, WriteMetaKeeps, OpenKeeps, FlushKeeps,
            FlushFailureKeeps, GoneKeeps DEF FrNext
    <2>2. written' = written
        BY <1>3 DEF FrNext, CreateBegin, CreateTruncate, FlushTruncate, TruncateMeta, CreateWrite,
            FlushWrite, WriteMeta, CreateOpen, FlushOpen, OpenLog, CreateFails, FlushBegin,
            FlushFails, FlushLosesLog, CloseRecorder, Crash
    <2> QED
        BY <2>1, <2>2
<1> QED
    BY <1>1, <1>2, <1>3 DEF LogsInOrder

\* Whatever fails, and whenever the process stops, the log files hold what was
\* written, once and in order (write, flush, create and close of the recorder).
THEOREM LogsStayInOrder == FrSpec => []LogsInOrder
    BY FrInitInv, FrKeepsInv, PTL DEF FrSpec

\* Whoever starts next goes on behind the newest log file: the metainfo file is
\* written before the log file it tells of is made.
THEOREM RestartGoesOn == FrSpec => []RestartContinues
<1>1. FrInv => RestartContinues
    <2> SUFFICES ASSUME FrInv PROVE RestartContinues
        OBVIOUS
    <2>1. meta \notin {NULL, TORN} => meta.file \in Nat /\ meta.index \in Nat
        BY DEF FrInv, FrTypeOK, MetaInfos
    <2>2. meta \notin {NULL, TORN} => \A f \in DOMAIN logs : f <= meta.file /\ f < meta.index
        BY <2>1 DEF FrInv, FrTypeOK, MetaAtEnd, AtEnd
    <2>3. meta \notin {NULL, TORN} /\ param # NULL =>
            meta.file <= param.file /\ meta.index <= param.index
        <3>1. param # NULL => param.file \in Nat /\ param.index \in Nat
            BY DEF FrInv, FrTypeOK, Params
        <3> QED
            BY <2>1, <3>1 DEF FrInv, MetaAtEnd, ParamAtEnd, AtEnd
    <2> QED
        BY <2>2, <2>3 DEF RestartContinues
<1>2. FrSpec => []FrInv
    BY FrInitInv, FrKeepsInv, PTL DEF FrSpec
<1> QED
    BY <1>1, <1>2, PTL

--------------------------------------------------------------------------------
(* The queue of one thread                                                  *)

\* The nodes s are those of the list, in its order; each holds what was queued
\* in its turn.
Walk(s) ==
    /\ s \in Seq(Nodes) /\ Len(s) = Len(queued) /\ qsize = Len(s)
    /\ \A i, j \in 1 .. Len(s) : s[i] = s[j] => i = j
    /\ DOMAIN heap = {s[i] : i \in 1 .. Len(s)}
    /\ heap = [n \in DOMAIN heap |-> heap[n]]
    /\ \A i \in 1 .. Len(s) :
        heap[s[i]] = [data |-> queued[i], next |-> IF i = Len(s) THEN NULL ELSE s[i + 1]]
    /\ head = IF Len(s) = 0 THEN NULL ELSE s[1]
    /\ tail = IF Len(s) = 0 THEN NULL ELSE s[Len(s)]

QueueInv ==
    /\ queued \in Seq(Items) /\ qopen \in BOOLEAN
    /\ \E s : Walk(s) /\ (~ qopen => Len(s) = 0)

\* What the walk s says of each node.
WalkNodes(s) ==
    /\ s \in Seq(Nodes) /\ Len(s) \in Nat /\ NULL \notin Nodes
    /\ \A i \in 1 .. Len(s) : s[i] \in Nodes
    /\ \A i, j \in 1 .. Len(s) : s[i] = s[j] => i = j
    /\ DOMAIN heap = {s[i] : i \in 1 .. Len(s)}
    /\ \A i \in 1 .. Len(s) : heap[s[i]].data = queued[i]
    /\ \A i \in 1 .. Len(s) : heap[s[i]].next = IF i = Len(s) THEN NULL ELSE s[i + 1]

LEMMA WalkFacts == ASSUME NEW s, Walk(s) PROVE WalkNodes(s)
<1>1. s \in Seq(Nodes) /\ Len(s) \in Nat /\ NULL \notin Nodes
    BY UnsafeQueueAssumption, LenProperties DEF Walk
<1>2. \A i \in 1 .. Len(s) : s[i] \in Nodes
    BY <1>1, ElementOfSeq
<1>3. ASSUME NEW i \in 1 .. Len(s)
      PROVE  heap[s[i]].data = queued[i] /\ heap[s[i]].next = IF i = Len(s) THEN NULL ELSE s[i + 1]
    <2>1. heap[s[i]] = [data |-> queued[i], next |-> IF i = Len(s) THEN NULL ELSE s[i + 1]]
        BY DEF Walk
    <2> QED
        BY <2>1
<1> QED
    BY <1>1, <1>2, <1>3 DEF Walk, WalkNodes

\* What is left of a sequence from a place on.
LEMMA RestFrom ==
    ASSUME NEW S, NEW s \in Seq(S), NEW i \in 1 .. Len(s)
    PROVE  SubSeq(s, i, Len(s)) = <<s[i]>> \o SubSeq(s, i + 1, Len(s))
OBVIOUS

\* The walk from a node on finds the rest of the list.
LEMMA ChainFromNode ==
    ASSUME NEW s, Walk(s)
    PROVE  /\ \A i \in 1 .. Len(s) : Chain[s[i]] = SubSeq(s, i, Len(s))
           /\ Chain[NULL] = <<>>
<1> DEFINE D == Nodes \cup {NULL}
           L == DOMAIN heap
           Step(f) == [n \in D |-> IF n \notin L THEN <<>> ELSE <<n>> \o f[heap[n].next]]
           Place(n) == CHOOSE i \in 1 .. Len(s) : s[i] = n
           W == [n \in D |-> IF n \notin L THEN <<>> ELSE SubSeq(s, Place(n), Len(s))]
<1>1. /\ s \in Seq(Nodes) /\ Len(s) \in Nat /\ NULL \notin Nodes
      /\ \A i \in 1 .. Len(s) : s[i] \in Nodes
      /\ \A i, j \in 1 .. Len(s) : s[i] = s[j] => i = j
      /\ L = {s[i] : i \in 1 .. Len(s)}
      /\ \A i \in 1 .. Len(s) : heap[s[i]].next = IF i = Len(s) THEN NULL ELSE s[i + 1]
    <2>1. WalkNodes(s)
        BY WalkFacts
    <2> QED
        BY <2>1 DEF WalkNodes
<1>2. ASSUME NEW i \in 1 .. Len(s) PROVE Place(s[i]) = i
    <2>1. \E j \in 1 .. Len(s) : s[j] = s[i]
        OBVIOUS
    <2>2. Place(s[i]) \in 1 .. Len(s) /\ s[Place(s[i])] = s[i]
        BY <2>1
    <2> HIDE DEF Place
    <2> QED
        BY <1>1, <2>2
<1> HIDE DEF Place
<1>3. W[NULL] = <<>> /\ \A i \in 1 .. Len(s) : W[s[i]] = SubSeq(s, i, Len(s))
    <2>1. NULL \in D /\ NULL \notin L
        BY <1>1
    <2>2. \A i \in 1 .. Len(s) : s[i] \in D /\ s[i] \in L
        BY <1>1
    <2> QED
        BY <1>2, <2>1, <2>2
<1> HIDE DEF W
<1>4. ASSUME NEW i \in 1 .. Len(s) PROVE W[s[i]] = <<s[i]>> \o W[heap[s[i]].next]
    <2>1. CASE i = Len(s)
        <3>1. SubSeq(s, i + 1, Len(s)) = <<>>
            BY <1>1, <2>1
        <3>2. heap[s[i]].next = NULL
            BY <1>1, <2>1
        <3>3. SubSeq(s, i, Len(s)) = <<s[i]>> \o SubSeq(s, i + 1, Len(s))
            BY <1>1, RestFrom
        <3> QED
            BY <1>3, <3>1, <3>2, <3>3
    <2>2. CASE i # Len(s)
        <3>1. i + 1 \in 1 .. Len(s)
            BY <1>1, <2>2
        <3>2. W[s[i + 1]] = SubSeq(s, i + 1, Len(s))
            BY <1>3, <3>1
        <3>3. SubSeq(s, i, Len(s)) = <<s[i]>> \o SubSeq(s, i + 1, Len(s))
            BY <1>1, RestFrom
        <3>4. heap[s[i]].next = s[i + 1]
            BY <1>1, <2>2
        <3> QED
            BY <1>3, <3>2, <3>3, <3>4
    <2> QED
        BY <2>1, <2>2
<1>5. \A n \in D : W[n] = IF n \notin L THEN <<>> ELSE <<n>> \o W[heap[n].next]
    <2> SUFFICES ASSUME NEW n \in D
                 PROVE  W[n] = IF n \notin L THEN <<>> ELSE <<n>> \o W[heap[n].next]
        OBVIOUS
    <2>1. CASE n \in L
        <3>1. PICK i \in 1 .. Len(s) : n = s[i]
            BY <1>1, <2>1
        <3> QED
            BY <1>4, <2>1, <3>1
    <2>2. CASE n \notin L
        BY <2>2 DEF W
    <2> QED
        BY <2>1, <2>2
<1>6. W = Step(W)
    <2>1. W = [n \in D |-> W[n]]
        BY DEF W
    <2> QED
        BY <1>5, <2>1
<1>7. Chain = Step(Chain)
    <2>1. \E f : f = Step(f)
        BY <1>6
    <2> QED
        BY <2>1 DEF Chain
<1>8. \A n \in D : Chain[n] = IF n \notin L THEN <<>> ELSE <<n>> \o Chain[heap[n].next]
    BY <1>7
<1> HIDE DEF D, L
<1>9. Chain[NULL] = <<>>
    BY <1>1, <1>8 DEF D, L
<1>10. ASSUME NEW i \in 1 .. Len(s) PROVE Chain[s[i]] = <<s[i]>> \o Chain[heap[s[i]].next]
    BY <1>1, <1>8 DEF D, L
<1> DEFINE Same == {k \in 1 .. Len(s) : Chain[s[Len(s) + 1 - k]] = W[s[Len(s) + 1 - k]]}
<1>11. CASE Len(s) # 0
    <2>1. 1 \in Same
        <3>1. Len(s) \in 1 .. Len(s) /\ Len(s) + 1 - 1 = Len(s) /\ 1 \in 1 .. Len(s)
            BY <1>1, <1>11
        <3>2. heap[s[Len(s)]].next = NULL
            BY <1>1, <3>1
        <3>3. Chain[s[Len(s)]] = W[s[Len(s)]]
            <4>1. W[s[Len(s)]] = <<s[Len(s)]>> \o W[heap[s[Len(s)]].next]
                BY <1>4, <3>1
            <4>2. Chain[s[Len(s)]] = <<s[Len(s)]>> \o Chain[heap[s[Len(s)]].next]
                BY <1>10, <3>1
            <4> QED
                BY <1>3, <1>9, <3>2, <4>1, <4>2
        <3> QED
            BY <3>1, <3>3
    <2>2. ASSUME NEW k \in 2 .. Len(s), k - 1 \in Same PROVE k \in Same
        <3>1. PICK i \in 1 .. Len(s) : i = Len(s) + 1 - k
            <4>1. Len(s) \in Nat
                BY <1>1
            <4>2. Len(s) + 1 - k \in 1 .. Len(s)
                BY <4>1
            <4> QED
                BY <4>2
        <3>2. i # Len(s) /\ i + 1 \in 1 .. Len(s) /\ Len(s) + 1 - (k - 1) = i + 1 /\ k \in 1 .. Len(s)
            BY <1>1, <3>1
        <3>3. Chain[s[i + 1]] = W[s[i + 1]]
            BY <2>2, <3>2
        <3>4. heap[s[i]].next = s[i + 1]
            BY <1>1, <3>2
        <3>5. Chain[s[i]] = W[s[i]]
            <4>1. W[s[i]] = <<s[i]>> \o W[heap[s[i]].next]
                BY <1>4
            <4>2. Chain[s[i]] = <<s[i]>> \o Chain[heap[s[i]].next]
                BY <1>10
            <4> QED
                BY <3>3, <3>4, <4>1, <4>2
        <3> QED
            BY <3>1, <3>2, <3>5
    <2> HIDE DEF Same
    <2>3. 1 .. Len(s) \subseteq Same
        BY <1>1, <2>1, <2>2, UpTo
    <2>4. ASSUME NEW i \in 1 .. Len(s) PROVE Chain[s[i]] = SubSeq(s, i, Len(s))
        <3>1. PICK k \in 1 .. Len(s) : Len(s) + 1 - k = i
            <4>1. Len(s) + 1 - i \in 1 .. Len(s) /\ Len(s) + 1 - (Len(s) + 1 - i) = i
                BY <1>1
            <4> QED
                BY <4>1
        <3>2. Chain[s[i]] = W[s[i]]
            BY <2>3, <3>1 DEF Same
        <3> QED
            BY <1>3, <3>2
    <2> QED
        BY <1>9, <2>4
<1>12. CASE Len(s) = 0
    BY <1>9, <1>12
<1> QED
    BY <1>11, <1>12

\* The walk from the head finds the whole list.
LEMMA ChainIsWalk == ASSUME NEW s, Walk(s) PROVE Chain[head] = s
<1>1. s \in Seq(Nodes) /\ Len(s) \in Nat
    BY LenProperties DEF Walk
<1>2. CASE Len(s) = 0
    <2>1. s = <<>> /\ head = NULL
        BY <1>1, <1>2 DEF Walk
    <2> QED
        BY <2>1, ChainFromNode
<1>3. CASE Len(s) # 0
    <2>1. head = s[1] /\ 1 \in 1 .. Len(s)
        BY <1>1, <1>3 DEF Walk
    <2>2. SubSeq(s, 1, Len(s)) = s
        BY <1>1
    <2> QED
        BY <2>1, <2>2, ChainFromNode
<1> QED
    BY <1>2, <1>3

\* What a walk finds is what was queued and has not been taken, and nothing else
\* is allocated.
LEMMA QueueInvWhole == QueueInv => QueueWhole
<1> SUFFICES ASSUME QueueInv PROVE QueueWhole
    OBVIOUS
<1>1. PICK s : Walk(s) /\ (~ qopen => Len(s) = 0)
    BY DEF QueueInv
<1>2. Chain[head] = s
    BY <1>1, ChainIsWalk
<1>3. /\ s \in Seq(Nodes) /\ Len(s) \in Nat /\ NULL \notin Nodes
      /\ queued \in Seq(Items) /\ Len(queued) = Len(s) /\ qsize = Len(s)
      /\ DOMAIN heap = {s[i] : i \in 1 .. Len(s)}
      /\ \A i \in 1 .. Len(s) : heap[s[i]].data = queued[i]
      /\ head = IF Len(s) = 0 THEN NULL ELSE s[1]
      /\ tail = IF Len(s) = 0 THEN NULL ELSE s[Len(s)]
    BY <1>1, WalkFacts DEF Walk, WalkNodes, QueueInv
<1>4. Content = queued
    <2>1. Content = [i \in 1 .. Len(s) |-> queued[i]]
        BY <1>2, <1>3 DEF Content
    <2>2. queued = [i \in 1 .. Len(queued) |-> queued[i]]
        BY <1>3
    <2> QED
        BY <1>3, <2>1, <2>2
<1>5. IsEmpty <=> Len(s) = 0
    <2>1. Len(s) # 0 => s[1] \in Nodes
        BY <1>3
    <2> QED
        BY <1>3, <2>1 DEF IsEmpty
<1> QED
    BY <1>1, <1>2, <1>3, <1>4, <1>5 DEF QueueWhole

\* A write appends a node to the list and an item to what is queued.
LEMMA EnqueueKeeps ==
    ASSUME QueueInv, qopen, NEW n \in Spare, NEW x \in Items, Enqueue(n, x)
    PROVE  QueueInv' /\ queued' = Append(queued, x) /\ qopen'
<1>1. PICK s : Walk(s)
    BY DEF QueueInv
<1>2. WalkNodes(s)
    BY <1>1, WalkFacts
<1> DEFINE r == Append(s, n)
           node == [data |-> x, next |-> NULL]
<1>3. n \in Nodes /\ n \notin DOMAIN heap
    BY DEF Spare
<1>4. /\ r \in Seq(Nodes) /\ Len(r) = Len(s) + 1 /\ r[Len(s) + 1] = n
      /\ \A i \in 1 .. Len(s) : r[i] = s[i] /\ r[i] # n
    BY <1>2, <1>3 DEF WalkNodes
<1>5. /\ queued' = Append(queued, x) /\ queued' \in Seq(Items) /\ Len(queued') = Len(s) + 1
      /\ queued'[Len(s) + 1] = x /\ \A i \in 1 .. Len(s) : queued'[i] = queued[i]
      /\ qsize' = Len(s) + 1 /\ qopen' = qopen /\ tail' = n
      /\ head' = IF tail = NULL THEN n ELSE head
    BY <1>1, <1>2 DEF Enqueue, QueueInv, Walk, WalkNodes
<1> HIDE DEF r
<1>6. tail = NULL <=> Len(s) = 0
    <2>1. Len(s) # 0 => Len(s) \in 1 .. Len(s)
        BY <1>2 DEF WalkNodes
    <2> QED
        BY <1>1, <1>2, <2>1 DEF Walk, WalkNodes
<1> DEFINE grown == [m \in DOMAIN heap \cup {n} |-> IF m = n THEN node ELSE heap[m]]
<1>7. heap' = IF Len(s) = 0 THEN grown ELSE [grown EXCEPT ![s[Len(s)]].next = n]
    <2>2. Len(s) # 0 => tail = s[Len(s)]
        BY <1>1 DEF Walk
    <2> QED
        BY <1>6, <2>2 DEF Enqueue
<1>8. /\ DOMAIN heap' = DOMAIN heap \cup {n} /\ heap' = [m \in DOMAIN heap' |-> heap'[m]]
      /\ heap'[n] = node
      /\ \A i \in 1 .. Len(s) :
            heap'[s[i]] = [data |-> queued[i], next |-> IF i = Len(s) THEN n ELSE s[i + 1]]
    <2>1. \A i \in 1 .. Len(s) : s[i] \in DOMAIN heap /\ s[i] # n
        BY <1>2, <1>3 DEF WalkNodes
    <2>2. CASE Len(s) = 0
        BY <1>2, <1>7, <2>2 DEF WalkNodes
    <2>3. CASE Len(s) # 0
        <3>1. Len(s) \in 1 .. Len(s)
            BY <1>2, <2>3 DEF WalkNodes
        <3>2. PICK l : l = s[Len(s)]
            OBVIOUS
        <3>3. l \in DOMAIN heap /\ l # n
            BY <2>1, <3>1, <3>2
        <3>4. heap' = [m \in DOMAIN heap \cup {n} |->
                          IF m = l THEN [heap[l] EXCEPT !.next = n] ELSE grown[m]]
            BY <1>7, <2>3, <3>2, <3>3
        <3>5. heap'[n] = node
            BY <3>3, <3>4
        <3>6. ASSUME NEW i \in 1 .. Len(s)
              PROVE  heap'[s[i]] = [data |-> queued[i], next |-> IF i = Len(s) THEN n ELSE s[i + 1]]
            <4>1. heap[s[i]] = [data |-> queued[i], next |-> IF i = Len(s) THEN NULL ELSE s[i + 1]]
                BY <1>1 DEF Walk
            <4>2. s[i] = l <=> i = Len(s)
                BY <1>2, <3>1, <3>2 DEF WalkNodes
            <4>3. CASE i = Len(s)
                BY <2>1, <3>2, <3>4, <4>1, <4>3
            <4>4. CASE i # Len(s)
                <5>1. heap'[s[i]] = heap[s[i]]
                    BY <2>1, <3>4, <4>2, <4>4
                <5> QED
                    BY <4>1, <4>4, <5>1
            <4> QED
                BY <4>3, <4>4
        <3> QED
            BY <3>4, <3>5, <3>6
    <2> QED
        BY <2>2, <2>3
<1>9. Walk(r)'
    <2>1. \A i, j \in 1 .. Len(r) : r[i] = r[j] => i = j
        BY <1>2, <1>4 DEF WalkNodes
    <2>2. DOMAIN heap' = {r[i] : i \in 1 .. Len(r)}
        <3>1. {r[i] : i \in 1 .. Len(r)} = {s[i] : i \in 1 .. Len(s)} \cup {n}
            BY <1>2, <1>4 DEF WalkNodes
        <3> QED
            BY <1>2, <1>8, <3>1 DEF WalkNodes
    <2>3. ASSUME NEW i \in 1 .. Len(r)
          PROVE  heap'[r[i]] = [data |-> queued'[i], next |-> IF i = Len(r) THEN NULL ELSE r[i + 1]]
        <3>1. CASE i = Len(r)
            BY <1>4, <1>5, <1>8, <3>1
        <3>2. CASE i # Len(r)
            <4>1. i \in 1 .. Len(s) /\ r[i] = s[i] /\ queued'[i] = queued[i]
                BY <1>2, <1>4, <1>5, <3>2 DEF WalkNodes
            <4>2. r[i + 1] = IF i = Len(s) THEN n ELSE s[i + 1]
                BY <1>2, <1>4, <4>1 DEF WalkNodes
            <4> QED
                BY <1>8, <3>2, <4>1, <4>2
        <3> QED
            BY <3>1, <3>2
    <2>4. head' = IF Len(r) = 0 THEN NULL ELSE r[1]
        <3>1. head = IF Len(s) = 0 THEN NULL ELSE s[1]
            BY <1>1 DEF Walk
        <3> QED
            BY <1>2, <1>4, <1>5, <1>6, <3>1 DEF WalkNodes
    <2>5. tail' = IF Len(r) = 0 THEN NULL ELSE r[Len(r)]
        BY <1>2, <1>4, <1>5 DEF WalkNodes
    <2> QED
        BY <1>4, <1>5, <1>8, <2>1, <2>2, <2>3, <2>4, <2>5 DEF Walk
<1> QED
    BY <1>5, <1>9 DEF QueueInv

\* A read takes the first node, and the first item of what is queued.
LEMMA DequeueKeeps ==
    ASSUME QueueInv, qopen, Dequeue
    PROVE  /\ QueueInv' /\ queued # <<>> /\ Peek = Head(queued) /\ queued' = Tail(queued)
           /\ qopen'
<1>1. PICK s : Walk(s)
    BY DEF QueueInv
<1>2. WalkNodes(s)
    BY <1>1, WalkFacts
<1>3. /\ Len(s) # 0 /\ head = s[1] /\ 1 \in 1 .. Len(s) /\ heap[s[1]].data = queued[1]
      /\ Len(queued) = Len(s) /\ queued \in Seq(Items)
    <2>1. Len(s) # 0 /\ Len(queued) = Len(s) /\ queued \in Seq(Items)
        BY <1>1 DEF Dequeue, IsEmpty, Walk, QueueInv
    <2> QED
        BY <1>1, <1>2, <2>1 DEF Walk, WalkNodes
<1> DEFINE r == Tail(s)
<1>4. r \in Seq(Nodes) /\ Len(r) = Len(s) - 1 /\ \A i \in 1 .. Len(r) : r[i] = s[i + 1]
    BY <1>2, <1>3 DEF WalkNodes
<1>5. /\ queued' = Tail(queued) /\ queued' \in Seq(Items) /\ Len(queued') = Len(r)
      /\ \A i \in 1 .. Len(r) : queued'[i] = queued[i + 1]
      /\ qsize' = Len(r) /\ qopen' = qopen
    BY <1>1, <1>2, <1>3, <1>4 DEF Dequeue, Walk, WalkNodes
<1> HIDE DEF r
<1>6. heap[head].next = IF Len(s) = 1 THEN NULL ELSE s[2]
    BY <1>2, <1>3 DEF WalkNodes
<1>7. head' = IF Len(r) = 0 THEN NULL ELSE r[1]
    BY <1>2, <1>3, <1>4, <1>6 DEF Dequeue, WalkNodes
<1>8. tail' = IF Len(r) = 0 THEN NULL ELSE r[Len(r)]
    <2>1. tail = s[Len(s)]
        BY <1>1, <1>3 DEF Walk
    <2>2. Len(s) # 1 => 2 \in 1 .. Len(s)
        BY <1>2, <1>3 DEF WalkNodes
    <2>3. tail' = IF Len(s) = 1 THEN NULL ELSE tail
        BY <1>2, <1>6, <2>2 DEF Dequeue, TailAfter, WalkNodes
    <2> QED
        <3>1. CASE Len(s) = 1
            BY <1>4, <2>3, <3>1
        <3>2. CASE Len(s) # 1
            <4>1. Len(r) \in 1 .. Len(r) /\ Len(r) + 1 = Len(s)
                BY <1>2, <1>3, <1>4, <3>2 DEF WalkNodes
            <4> QED
                BY <1>4, <2>1, <2>3, <3>2, <4>1
        <3> QED
            BY <3>1, <3>2
<1>9. /\ DOMAIN heap' = DOMAIN heap \ {s[1]} /\ heap' = [m \in DOMAIN heap' |-> heap'[m]]
      /\ \A m \in DOMAIN heap' : heap'[m] = heap[m]
    BY <1>3 DEF Dequeue, Without
<1>10. \A i, j \in 1 .. Len(r) : r[i] = r[j] => i = j
    BY <1>2, <1>4 DEF WalkNodes
<1>11. DOMAIN heap' = {r[i] : i \in 1 .. Len(r)}
    <2>1. ASSUME NEW i \in 1 .. Len(r) PROVE r[i] \in DOMAIN heap'
        <3>1. i + 1 \in 1 .. Len(s) /\ i + 1 # 1
            BY <1>2, <1>4 DEF WalkNodes
        <3> QED
            BY <1>2, <1>3, <1>4, <1>9, <3>1 DEF WalkNodes
    <2>2. ASSUME NEW m \in DOMAIN heap' PROVE \E i \in 1 .. Len(r) : m = r[i]
        <3>1. PICK j \in 1 .. Len(s) : m = s[j]
            BY <1>2, <1>9 DEF WalkNodes
        <3>2. j # 1
            BY <1>9, <3>1
        <3>3. j - 1 \in 1 .. Len(r) /\ (j - 1) + 1 = j
            BY <1>2, <1>4, <3>2 DEF WalkNodes
        <3> QED
            BY <1>4, <3>1, <3>3
    <2> QED
        BY <2>1, <2>2
<1>12. ASSUME NEW i \in 1 .. Len(r)
       PROVE  heap'[r[i]] = [data |-> queued'[i], next |-> IF i = Len(r) THEN NULL ELSE r[i + 1]]
    <2>1. i + 1 \in 1 .. Len(s) /\ (i = Len(r) <=> i + 1 = Len(s))
        BY <1>2, <1>4 DEF WalkNodes
    <2>2. PICK j \in 1 .. Len(s) : j = i + 1
        BY <2>1
    <2>3. heap[s[j]] = [data |-> queued[j], next |-> IF j = Len(s) THEN NULL ELSE s[j + 1]]
        BY <1>1 DEF Walk
    <2>4. heap'[r[i]] = heap[s[j]]
        BY <1>4, <1>9, <1>11, <2>2
    <2>5. i # Len(r) => r[i + 1] = s[j + 1]
        <3>1. i # Len(r) => i + 1 \in 1 .. Len(r)
            BY <1>2, <1>4 DEF WalkNodes
        <3> QED
            BY <1>4, <2>2, <3>1
    <2> QED
        BY <1>5, <2>1, <2>2, <2>3, <2>4, <2>5
<1>13. Walk(r)'
    BY <1>4, <1>5, <1>7, <1>8, <1>9, <1>10, <1>11, <1>12 DEF Walk
<1> QED
    BY <1>3, <1>5, <1>13 DEF QueueInv, Peek

\* A queue is opened empty,
LEMMA OpenQueue ==
    ASSUME QueueInv, ~ qopen, OpenChannel
    PROVE  QueueInv' /\ queued' = <<>> /\ qopen'
<1>1. PICK s : Walk(s) /\ Len(s) = 0
    BY DEF QueueInv
<1>2. /\ queued' = <<>> /\ qsize' = 0 /\ head' = NULL /\ tail' = NULL /\ heap' = heap
      /\ qopen' = TRUE
    BY DEF OpenChannel
<1>3. Walk(s)'
    BY <1>1, <1>2 DEF Walk
<1> QED
    BY <1>1, <1>2, <1>3 DEF QueueInv

\* and closing it frees every node.
LEMMA CloseQueue ==
    ASSUME QueueInv, CloseChannel
    PROVE  QueueInv' /\ queued' = <<>> /\ ~ qopen'
<1>1. PICK s : Walk(s)
    BY DEF QueueInv
<1>2. Chain[head] = s /\ WalkNodes(s)
    BY <1>1, ChainIsWalk, WalkFacts
<1>3. /\ queued' = <<>> /\ qsize' = 0 /\ head' = NULL /\ tail' = NULL /\ qopen' = FALSE
      /\ heap' = [n \in {} |-> heap[n]]
    BY <1>2 DEF CloseChannel, WalkNodes
<1>4. PICK e : e = <<>>
    OBVIOUS
<1>5. Walk(e)' /\ Len(e) = 0
    BY <1>3, <1>4 DEF Walk
<1>6. \E e1 : Walk(e1)' /\ (~ qopen' => Len(e1) = 0)
    BY <1>5
<1>7. <<>> \in Seq(Items)
    OBVIOUS
<1> QED
    BY <1>3, <1>6, <1>7 DEF QueueInv

\* No queue, no node.
LEMMA QueueInitInv == QueueInit => QueueInv
<1> SUFFICES ASSUME QueueInit PROVE QueueInv
    OBVIOUS
<1>1. PICK e : e = <<>>
    OBVIOUS
<1>2. Walk(e) /\ Len(e) = 0
    BY <1>1 DEF QueueInit, Walk
<1>3. <<>> \in Seq(Items)
    OBVIOUS
<1> QED
    BY <1>2, <1>3 DEF QueueInit, QueueInv

\* Nothing happens to the queue.
LEMMA QueueStutters == QueueInv /\ UNCHANGED queueVars => QueueInv' /\ queued' = queued /\ qopen' = qopen
<1> SUFFICES ASSUME QueueInv, UNCHANGED queueVars PROVE QueueInv' /\ queued' = queued /\ qopen' = qopen
    OBVIOUS
<1>1. PICK s : Walk(s) /\ (~ qopen => Len(s) = 0)
    BY DEF QueueInv
<1>2. /\ queued' = queued /\ qsize' = qsize /\ head' = head /\ tail' = tail /\ heap' = heap
      /\ qopen' = qopen
    BY DEF queueVars
<1>3. Walk(s)'
    BY <1>1, <1>2 DEF Walk
<1> QED
    BY <1>1, <1>2, <1>3 DEF QueueInv

\* The walk from the head finds what was written and not read, however the calls
\* follow each other, and no node is lost.
THEOREM QueueStaysWhole == QueueSpec => []QueueWhole
<1>1. QueueInv /\ [QueueNext]_queueVars => QueueInv'
    BY EnqueueKeeps, DequeueKeeps, OpenQueue, CloseQueue, QueueStutters DEF QueueNext
<1> QED
    BY <1>1, QueueInitInv, QueueInvWhole, PTL DEF QueueSpec

--------------------------------------------------------------------------------
(* The direct dispatcher                                                    *)

\* The item i is for the call that was accepted last.
Carried(i) == Len(accepted) # 0 /\ carries[i] = accepted[Len(accepted)]

\* Where the items are: between calls in the pool, and in a call its item is in
\* the call's hand or alone in the channel.
ItemPlaces ==
    /\ qopen <=> pc \notin {"new", "destroyed"}
    /\ pc \in {"new", "idle", "destroyed"} => item = NULL /\ queued = <<>> /\ free = Items
    /\ pc = "write" =>
        /\ item \in Items /\ queued = <<>> /\ free = Items \ {item}
        /\ carries[item] \in 1 .. Len(calls)
    /\ pc = "read" =>
        /\ item = NULL
        /\ \/ queued = <<>> /\ free = Items
           \/ \E i \in Items : queued = <<i>> /\ free = Items \ {i} /\ Carried(i)
    /\ pc \in {"record", "flush"} =>
        /\ item \in Items /\ queued = <<>> /\ free = Items \ {item}
        /\ Carried(item) /\ slot \in 1 .. Len(Route) + 1
    /\ pc = "flush" => slot # Len(Route) + 1

DirectTyped ==
    /\ calls \in Seq(Routes)
    /\ accepted \in Seq(Nat) /\ \A a \in 1 .. Len(accepted) : accepted[a] \in 1 .. Len(calls)
    /\ carries \in [Items -> Nat]
    /\ given = [r \in Recorders |-> given[r]]
    /\ pc \in {"new", "idle", "write", "read", "record", "flush", "destroyed"}

\* The call accepted last is not through with its recorders,
Pending == pc \in {"record", "flush"} \/ (pc = "read" /\ queued # <<>>)

\* and has served so many of its route; those before it all of theirs.
Reached(a) ==
    IF a # Len(accepted) \/ ~ Pending THEN Len(calls[accepted[a]])
    ELSE IF pc = "read" THEN 0 ELSE IF pc = "record" THEN slot - 1 ELSE slot

Turns(r, a) == {m \in 1 .. Reached(a) : calls[accepted[a]][m] = r}
Part(r, a) == [m \in 1 .. Cardinality(Turns(r, a)) |-> accepted[a]]
Parts(r) == [a \in 1 .. Len(accepted) |-> Part(r, a)]

\* Each recorder was given what has been served.
GivenSoFar == \A r \in Recorders : given[r] = FlattenSeq(Parts(r))

DirectInv == QueueInv /\ DirectTyped /\ ItemPlaces /\ GivenSoFar

\* The queue is empty when nothing is queued.
LEMMA EmptyQueue == QueueInv => (IsEmpty <=> queued = <<>>)
<1> SUFFICES ASSUME QueueInv PROVE IsEmpty <=> queued = <<>>
    OBVIOUS
<1>1. PICK s : Walk(s)
    BY DEF QueueInv
<1>2. WalkNodes(s)
    BY <1>1, WalkFacts
<1>3. queued \in Seq(Items) /\ Len(queued) = Len(s) /\ head = IF Len(s) = 0 THEN NULL ELSE s[1]
    BY <1>1 DEF Walk, QueueInv
<1>4. Len(s) # 0 => s[1] # NULL
    BY <1>2 DEF WalkNodes
<1> QED
    BY <1>3, <1>4 DEF IsEmpty

\* A route is a sequence of ids.
LEMMA RouteFacts ==
    ASSUME DirectTyped, NEW a \in 1 .. Len(accepted)
    PROVE  /\ Len(calls[accepted[a]]) \in Nat
           /\ DOMAIN calls[accepted[a]] = 1 .. Len(calls[accepted[a]])
<1>1. calls[accepted[a]] \in Routes
    BY ElementOfSeq DEF DirectTyped
<1>2. PICK route : route = calls[accepted[a]]
    OBVIOUS
<1>3. route \in Seq(Range(route))
    BY <1>1, <1>2, DirectAssumption
<1> QED
    BY <1>2, <1>3

\* Every part is a sequence of calls.
PartsTyped ==
    \A r : /\ \A a \in 1 .. Len(accepted) : Cardinality(Turns(r, a)) \in Nat
          /\ Parts(r) \in [1 .. Len(accepted) -> Seq(Nat)]

LEMMA PartTypes == DirectTyped /\ ItemPlaces => PartsTyped
<1> SUFFICES ASSUME DirectTyped, ItemPlaces PROVE PartsTyped
    OBVIOUS
<1>1. ASSUME NEW a \in 1 .. Len(accepted)
      PROVE  Reached(a) \in 0 .. Len(calls[accepted[a]]) /\ accepted[a] \in Nat
    <2>1. accepted[a] \in Nat
        BY DEF DirectTyped
    <2>2. Len(calls[accepted[a]]) \in Nat
        BY RouteFacts
    <2>3. CASE a # Len(accepted) \/ ~ Pending
        BY <2>1, <2>2, <2>3 DEF Reached
    <2>4. CASE a = Len(accepted) /\ Pending
        <3>1. CASE pc = "read"
            BY <2>1, <2>2, <2>4, <3>1 DEF Reached
        <3>2. CASE pc \in {"record", "flush"}
            <4>1. slot \in 1 .. Len(calls[accepted[a]]) + 1
                  /\ (pc = "flush" => slot # Len(calls[accepted[a]]) + 1)
                BY <2>4, <3>2 DEF ItemPlaces, Carried, Route
            <4> QED
                BY <2>1, <2>2, <2>4, <3>2, <4>1 DEF Reached
        <3> QED
            BY <2>4, <3>1, <3>2 DEF Pending
    <2> QED
        BY <2>3, <2>4
<1>2. ASSUME NEW r, NEW a \in 1 .. Len(accepted)
      PROVE  Cardinality(Turns(r, a)) \in Nat /\ Part(r, a) \in Seq(Nat)
    <2>1. Reached(a) \in Nat /\ accepted[a] \in Nat
        <3>1. Len(calls[accepted[a]]) \in Nat
            BY RouteFacts
        <3> QED
            BY <1>1, <3>1
    <2>2. IsFiniteSet(1 .. Reached(a))
        BY <2>1, FS_Interval
    <2>3. Cardinality(Turns(r, a)) \in Nat
        <3>1. Turns(r, a) \subseteq 1 .. Reached(a)
            BY DEF Turns
        <3> QED
            BY <2>2, <3>1, FS_Subset, FS_CardinalityType
    <2> QED
        BY <2>1, <2>3 DEF Part
<1> QED
    BY <1>2 DEF Parts, PartsTyped

\* No call gets further with its recorders, and none is accepted.
LEMMA SameParts ==
    ASSUME GivenSoFar, given' = given, accepted' = accepted,
           \A a \in 1 .. Len(accepted) :
                calls[accepted[a]]' = calls[accepted[a]] /\ Reached(a)' = Reached(a)
    PROVE  GivenSoFar'
<1>1. ASSUME NEW r \in Recorders PROVE Parts(r)' = Parts(r)
    <2>1. \A a \in 1 .. Len(accepted) : Turns(r, a)' = Turns(r, a)
        BY DEF Turns
    <2> QED
        BY <2>1 DEF Parts, Part
<1> QED
    BY <1>1 DEF GivenSoFar

\* A call that is accepted has served nobody yet.
LEMMA WriteKeepsDirect ==
    ASSUME DirectInv, NEW n \in Nodes, WriteChannel(n)
    PROVE  DirectInv'
<1> PICK N, i : N = Len(accepted) /\ i = item
    OBVIOUS
<1>1. /\ item \in Items /\ queued = <<>> /\ free = Items \ {item} /\ carries[item] \in 1 .. Len(calls)
      /\ pc = "write" /\ qopen
      /\ pc' = "read" /\ item' = NULL /\ accepted' = Append(accepted, carries[item])
      /\ UNCHANGED <<free, carries, slot, calls, given>>
    BY DEF WriteChannel, DirectInv, ItemPlaces
<1>0. N \in Nat
    BY LenProperties DEF DirectInv, DirectTyped
<1>2. QueueInv' /\ queued' = Append(<<>>, item) /\ qopen'
    BY <1>1, EnqueueKeeps DEF WriteChannel, DirectInv
<1>3. queued' = <<item>> /\ queued' # <<>>
    BY <1>2
<1>4. /\ accepted \in Seq(Nat) /\ N \in Nat /\ accepted' \in Seq(Nat) /\ Len(accepted') = N + 1
      /\ accepted'[N + 1] = carries[item] /\ \A a \in 1 .. N : accepted'[a] = accepted[a]
    BY <1>1 DEF DirectInv, DirectTyped
<1>5. DirectTyped'
    <2>1. \A a \in 1 .. N + 1 : accepted'[a] \in 1 .. Len(calls)
        BY <1>1, <1>4 DEF DirectInv, DirectTyped
    <2> QED
        BY <1>1, <1>4, <2>1 DEF DirectInv, DirectTyped
<1>6. ItemPlaces'
    <2>1. Carried(i)'
        BY <1>1, <1>4 DEF Carried
    <2>2. i \in Items /\ queued' = <<i>> /\ free' = Items \ {i}
        BY <1>1, <1>3
    <2> QED
        BY <1>1, <1>2, <2>1, <2>2 DEF ItemPlaces
<1>7. Pending' /\ ~ Pending
    BY <1>1, <1>3 DEF Pending
<1>8. Reached(N + 1)' = 0 /\ \A a \in 1 .. N : Reached(a)' = Reached(a)
    BY <1>1, <1>4, <1>7 DEF Reached
<1>9. ASSUME NEW r \in Recorders PROVE given'[r] = FlattenSeq(Parts(r)')
    <2>0. PICK s, t : s = Parts(r) /\ t = Parts(r)'
        OBVIOUS
    <2> USE <2>0
    <2>1. s \in [1 .. N -> Seq(Nat)] /\ t \in [1 .. N + 1 -> Seq(Nat)]
        <3>1. s \in [1 .. N -> Seq(Nat)]
            BY PartTypes DEF DirectInv, PartsTyped
        <3>2. PartsTyped'
            BY <1>5, <1>6, PartTypes, PTL
        <3> QED
            BY <1>4, <3>1, <3>2 DEF PartsTyped
    <2>2. ASSUME NEW a \in 1 .. N PROVE t[a] = s[a]
        <3>1. Turns(r, a)' = Turns(r, a)
            BY <1>1, <1>4, <1>8 DEF Turns
        <3>2. a \in 1 .. N + 1
            BY <1>4
        <3> QED
            BY <1>4, <3>1, <3>2 DEF Parts, Part
    <2>3. t[N + 1] = <<>>
        <3>1. Turns(r, N + 1)' = {}
            BY <1>8 DEF Turns
        <3>2. N + 1 \in 1 .. N + 1
            BY <1>4
        <3>3. Cardinality({}) = 0
            BY FS_EmptySet
        <3> QED
            <4>1. Part(r, N + 1)' = [m \in 1 .. 0 |-> accepted'[N + 1]]
                BY <3>1, <3>3 DEF Part
            <4>2. t[N + 1] = Part(r, N + 1)'
                BY <1>4, <3>2 DEF Parts
            <4> QED
                BY <4>1, <4>2
    <2>4. FlattenSeq(t) = FlattenSeq(s)
        <3>1. NoMore(t, s, N)
            BY <2>2, <2>3 DEF NoMore
        <3> QED
            BY ONLY <1>0, <2>1, <3>1, FlattenNoMore
    <2> QED
        BY <1>1, <2>4 DEF DirectInv, GivenSoFar
<1> QED
    BY <1>2, <1>5, <1>6, <1>9 DEF DirectInv, GivenSoFar

\* A recorder of the route is given the item in its turn.
LEMMA RecordKeepsDirect ==
    ASSUME DirectInv, Record
    PROVE  DirectInv'
<1> PICK N, call : N = Len(accepted) /\ call = carries[item]
    OBVIOUS
<1>1. /\ pc = "record" /\ item \in Items /\ queued = <<>> /\ Carried(item)
      /\ slot \in 1 .. Len(Route) /\ qopen
      /\ UNCHANGED <<queueVars, free, carries, item, calls, accepted>>
      /\ \/ slot' = slot + 1 /\ pc' = "record"
         \/ slot' = slot /\ pc' = "flush"
      /\ given' = IF Route[slot] \in Recorders
                    THEN [given EXCEPT ![Route[slot]] = Append(given[Route[slot]], call)] ELSE given
    <2>1. slot \in 1 .. Len(Route) + 1 /\ Len(Route) \in Nat
        <3>1. N \in 1 .. N /\ Route = calls[accepted[N]]
            BY LenProperties DEF Record, DirectInv, ItemPlaces, DirectTyped, Carried, Route
        <3> QED
            BY <3>1, RouteFacts DEF Record, DirectInv, ItemPlaces
    <2> QED
        BY <2>1 DEF Record, DirectInv, ItemPlaces
<1>0. N \in Nat
    BY LenProperties DEF DirectInv, DirectTyped
<1>2. QueueInv' /\ queued' = queued /\ qopen' = qopen
    BY <1>1, QueueStutters DEF DirectInv
<1>3. /\ N \in 1 .. N /\ call = accepted[N] /\ Route = calls[accepted[N]]
      /\ call \in Nat /\ Route' = Route /\ Len(Route) \in Nat /\ DOMAIN Route = 1 .. Len(Route)
    <2>1. N \in 1 .. N /\ call = accepted[N] /\ Route = calls[accepted[N]]
        BY <1>1, LenProperties DEF DirectInv, DirectTyped, Carried, Route
    <2> QED
        BY <1>1, <2>1, RouteFacts DEF DirectInv, DirectTyped, Route
<1>4. DirectTyped'
    BY <1>1 DEF DirectInv, DirectTyped
<1>5. ItemPlaces'
    <2>1. Carried(item)' /\ slot' \in 1 .. Len(Route') + 1 /\ (pc' = "flush" => slot' # Len(Route') + 1)
        BY <1>1, <1>3 DEF Carried
    <2> QED
        BY <1>1, <1>2, <2>1 DEF DirectInv, ItemPlaces
<1>6. /\ Pending /\ Pending'
      /\ Reached(N) = slot - 1 /\ Reached(N)' = slot
      /\ \A a \in 1 .. N : a # N => Reached(a)' = Reached(a)
    BY <1>1, <1>3 DEF Pending, Reached
<1>7. ASSUME NEW r \in Recorders PROVE given'[r] = FlattenSeq(Parts(r)')
    <2>0. PICK s, t : s = Parts(r) /\ t = Parts(r)'
        OBVIOUS
    <2> USE <2>0
    <2>1. s \in [1 .. N -> Seq(Nat)] /\ t \in [1 .. N -> Seq(Nat)]
        <3>1. s \in [1 .. N -> Seq(Nat)]
            BY PartTypes DEF DirectInv, PartsTyped
        <3>2. PartsTyped'
            BY <1>4, <1>5, PartTypes, PTL
        <3> QED
            BY <1>1, <3>1, <3>2 DEF PartsTyped
    <2>2. ASSUME NEW a \in 1 .. N, a # N PROVE t[a] = s[a]
        <3>1. Turns(r, a)' = Turns(r, a)
            BY <1>1, <1>6, <2>2 DEF Turns
        <3> QED
            BY <1>1, <3>1 DEF Parts, Part
    <2>3. Turns(r, N)' = Turns(r, N) \cup (IF Route[slot] = r THEN {slot} ELSE {})
        <3>1. 1 .. slot = (1 .. slot - 1) \cup {slot}
            BY <1>1, <1>3
        <3> QED
            BY <1>1, <1>3, <1>6, <3>1 DEF Turns
    <2>4. given[r] = FlattenSeq(s)
        BY DEF DirectInv, GivenSoFar
    <2>5. CASE Route[slot] # r
        <3>1. t[N] = s[N]
            BY <1>1, <1>3, <2>3, <2>5 DEF Parts, Part
        <3>2. t = s
            BY <2>1, <2>2, <3>1
        <3>3. given'[r] = given[r]
            BY <1>1, <2>5 DEF DirectInv, DirectTyped
        <3> QED
            BY <2>4, <3>2, <3>3
    <2>6. CASE Route[slot] = r
        <3> PICK c : c = Cardinality(Turns(r, N))
            OBVIOUS
        <3>1. c \in Nat
            BY <1>3, PartTypes DEF DirectInv, PartsTyped
        <3>2. Cardinality(Turns(r, N)') = c + 1
            <4>1. IsFiniteSet(Turns(r, N))
                <5>1. slot - 1 \in Nat
                    BY <1>1, <1>3
                <5>2. IsFiniteSet(1 .. slot - 1)
                    BY <5>1, FS_Interval
                <5>3. Turns(r, N) \subseteq 1 .. slot - 1
                    BY <1>6 DEF Turns
                <5> QED
                    BY <5>2, <5>3, FS_Subset
            <4>2. slot \notin Turns(r, N)
                BY <1>1, <1>3, <1>6 DEF Turns
            <4> QED
                BY <2>3, <2>6, <4>1, <4>2, FS_AddElement
        <3>3. s[N] = [m \in 1 .. c |-> call] /\ t[N] = [m \in 1 .. c + 1 |-> call]
            BY <1>1, <1>3, <3>2 DEF Parts, Part
        <3>4. t[N] = Append(s[N], call)
            BY <1>3, <3>1, <3>3
        <3>5. OneMore(t, s, N, call)
            BY <1>3, <2>1, <2>2, <3>4 DEF OneMore
        <3>6. LastOf(s, N, N)
            BY <1>3 DEF LastOf
        <3>7. FlattenSeq(t) = Append(FlattenSeq(s), call)
            <4>1. N \in 1 .. N /\ call \in Nat
                BY <1>3
            <4> QED
                BY ONLY <1>0, <2>1, <3>5, <3>6, <4>1, FlattenAppend
        <3>8. given'[r] = Append(given[r], call)
            BY <1>1, <2>6 DEF DirectInv, DirectTyped
        <3> QED
            BY <2>4, <3>7, <3>8
    <2> QED
        BY <2>5, <2>6
<1> QED
    BY <1>2, <1>4, <1>5, <1>7 DEF DirectInv, GivenSoFar

\* A call begins with an item from the pool, or fails and gives it back.
LEMMA CallKeepsDirect ==
    ASSUME DirectInv,
           LogFails \/ \E i \in Items, route \in Routes : Acquire(i, route)
    PROVE  DirectInv'
<1>1. /\ UNCHANGED queueVars /\ accepted' = accepted /\ given' = given
      /\ pc \in {"idle", "write"} /\ pc' \in {"idle", "write"}
    BY DEF LogFails, Acquire
<1>2. QueueInv' /\ queued' = queued /\ qopen' = qopen
    BY <1>1, QueueStutters DEF DirectInv
<1>3. DirectTyped' /\ \A a \in 1 .. Len(accepted) : calls[accepted[a]]' = calls[accepted[a]]
    <2>1. CASE LogFails
        BY <2>1 DEF LogFails, DirectInv, DirectTyped
    <2>2. ASSUME NEW i \in Items, NEW route \in Routes, Acquire(i, route)
          PROVE  DirectTyped' /\ \A a \in 1 .. Len(accepted) : calls[accepted[a]]' = calls[accepted[a]]
        <3>1. /\ calls \in Seq(Routes) /\ calls' = Append(calls, route)
              /\ \A a \in 1 .. Len(accepted) : accepted[a] \in 1 .. Len(calls)
              /\ carries' = [carries EXCEPT ![i] = Len(calls')]
              /\ pc' = "write"
            BY <2>2 DEF Acquire, DirectInv, DirectTyped
        <3>2. /\ calls' \in Seq(Routes) /\ Len(calls') = Len(calls) + 1 /\ Len(calls) \in Nat
              /\ \A c \in 1 .. Len(calls) : calls'[c] = calls[c]
            BY <3>1
        <3>3. \A a \in 1 .. Len(accepted') : accepted'[a] \in 1 .. Len(calls')
            BY <1>1, <3>1, <3>2
        <3>4. carries' \in [Items -> Nat]
            BY <3>1, <3>2 DEF DirectInv, DirectTyped
        <3>5. DirectTyped'
            BY <1>1, <3>1, <3>2, <3>3, <3>4 DEF DirectInv, DirectTyped
        <3> QED
            BY <1>1, <3>1, <3>2, <3>5
    <2> QED
        BY <2>1, <2>2
<1>4. ItemPlaces'
    <2>1. CASE LogFails
        BY <1>1, <1>2, <2>1 DEF LogFails, Dropped, DirectInv, ItemPlaces
    <2>2. ASSUME NEW i \in Items, NEW route \in Routes, Acquire(i, route) PROVE ItemPlaces'
        <3>1. /\ pc = "idle" /\ pc' = "write" /\ item' = i /\ free' = free \ {i}
              /\ calls' = Append(calls, route) /\ carries'[i] = Len(calls')
            BY <2>2 DEF Acquire, DirectInv, DirectTyped
        <3>2. Len(calls') \in 1 .. Len(calls')
            BY <3>1 DEF DirectInv, DirectTyped
        <3> QED
            BY <1>2, <3>1, <3>2 DEF DirectInv, ItemPlaces
    <2> QED
        BY <2>1, <2>2
<1>5. \A a \in 1 .. Len(accepted) : Reached(a)' = Reached(a)
    BY <1>1, <1>3 DEF Reached, Pending
<1>6. GivenSoFar'
    BY <1>1, <1>3, <1>5, SameParts DEF DirectInv
<1> QED
    BY <1>2, <1>3, <1>4, <1>6 DEF DirectInv

\* The dispatcher takes the item out of the channel, or finds it empty.
LEMMA ReadKeepsDirect ==
    ASSUME DirectInv, Read
    PROVE  DirectInv'
<1>1. /\ pc = "read" /\ item = NULL /\ qopen
      /\ UNCHANGED <<free, carries, calls, accepted, given>>
    BY DEF Read, DirectInv, ItemPlaces
<1>2. IsEmpty <=> queued = <<>>
    BY EmptyQueue DEF DirectInv
<1>3. CASE queued = <<>>
    <2>1. pc' = "idle" /\ UNCHANGED queueVars /\ item' = item /\ slot' = slot
        BY <1>2, <1>3 DEF Read
    <2>2. QueueInv' /\ queued' = queued /\ qopen' = qopen
        BY <2>1, QueueStutters DEF DirectInv
    <2>3. DirectTyped'
        BY <1>1, <2>1 DEF DirectInv, DirectTyped
    <2>4. free = Items
        <3>1. \A i : queued # <<i>>
            BY <1>3
        <3> QED
            BY <1>1, <3>1 DEF DirectInv, ItemPlaces
    <2>5. ItemPlaces'
        BY <1>1, <1>3, <2>1, <2>2, <2>4 DEF ItemPlaces
    <2>6. \A a \in 1 .. Len(accepted) : Reached(a)' = Reached(a)
        BY <1>1, <1>3, <2>1, <2>2 DEF Reached, Pending
    <2>7. GivenSoFar'
        BY <1>1, <2>6, SameParts DEF DirectInv
    <2> QED
        BY <2>2, <2>3, <2>5, <2>7 DEF DirectInv
<1>4. CASE queued # <<>>
    <2>1. Dequeue /\ item' = Peek /\ slot' = 1 /\ pc' = "record"
        BY <1>2, <1>4 DEF Read
    <2>2. PICK i \in Items : queued = <<i>> /\ free = Items \ {i} /\ Carried(i)
        BY <1>1, <1>4 DEF DirectInv, ItemPlaces
    <2>3. QueueInv' /\ item' = Head(queued) /\ queued' = Tail(queued) /\ qopen'
        BY <1>1, <2>1, DequeueKeeps DEF DirectInv
    <2>4. item' = i /\ queued' = <<>>
        BY <2>2, <2>3
    <2>5. DirectTyped'
        BY <1>1, <2>1 DEF DirectInv, DirectTyped
    <2>6. Carried(item)' /\ Route' = calls[accepted[Len(accepted)]] /\ slot' \in 1 .. Len(Route') + 1
        <3>1. Len(accepted) # 0 /\ carries[i] = accepted[Len(accepted)]
            BY <2>2 DEF Carried
        <3>2. Carried(item)' /\ Route' = calls[accepted[Len(accepted)]]
            BY <1>1, <2>4, <3>1 DEF Carried, Route
        <3>3. Len(accepted) \in 1 .. Len(accepted)
            BY <3>1, LenProperties DEF DirectInv, DirectTyped
        <3>4. Len(calls[accepted[Len(accepted)]]) \in Nat
            BY <3>3, RouteFacts DEF DirectInv
        <3> QED
            BY <2>1, <3>2, <3>4
    <2>7. ItemPlaces'
        BY <1>1, <2>1, <2>2, <2>3, <2>4, <2>6 DEF ItemPlaces
    <2>8. \A a \in 1 .. Len(accepted) : Reached(a)' = Reached(a)
        BY <1>1, <1>4, <2>1 DEF Reached, Pending
    <2>9. GivenSoFar'
        BY <1>1, <2>8, SameParts DEF DirectInv
    <2> QED
        BY <2>3, <2>5, <2>7, <2>9 DEF DirectInv
<1> QED
    BY <1>3, <1>4

\* After a flush the next recorder of the route follows, after the last one the
\* item is released.
LEMMA GoOnKeepsDirect ==
    ASSUME DirectInv, Flush \/ Release
    PROVE  DirectInv'
<1>1. /\ UNCHANGED queueVars /\ UNCHANGED <<carries, calls, accepted, given>>
      /\ pc \in {"record", "flush"} /\ item \in Items /\ queued = <<>> /\ free = Items \ {item}
      /\ Carried(item) /\ slot \in 1 .. Len(Route) + 1 /\ qopen
      /\ pc = "flush" => slot # Len(Route) + 1
    BY DEF Flush, Release, DirectInv, ItemPlaces
<1>2. QueueInv' /\ queued' = queued /\ qopen' = qopen
    BY <1>1, QueueStutters DEF DirectInv
<1>3. DirectTyped'
    BY <1>1 DEF Flush, Release, DirectInv, DirectTyped
<1>4. PICK N : N = Len(accepted)
    OBVIOUS
<1>5. N \in 1 .. N /\ Route = calls[accepted[N]] /\ Len(Route) \in Nat
    <2>1. N \in 1 .. N /\ Route = calls[accepted[N]]
        BY <1>1, <1>4, LenProperties DEF DirectInv, DirectTyped, Carried, Route
    <2> QED
        BY <1>4, <2>1, RouteFacts DEF DirectInv
<1>6. CASE Flush
    <2>1. pc = "flush" /\ slot' = slot + 1 /\ pc' = "record" /\ item' = item /\ free' = free
        BY <1>6 DEF Flush, AfterFlush
    <2>2. Carried(item)' /\ Route' = Route /\ slot' \in 1 .. Len(Route') + 1
        BY <1>1, <1>5, <2>1 DEF Carried, Route
    <2>3. ItemPlaces'
        BY <1>1, <1>2, <2>1, <2>2 DEF ItemPlaces
    <2>4. \A a \in 1 .. Len(accepted) : Reached(a)' = Reached(a)
        BY <1>1, <1>5, <2>1 DEF Reached, Pending
    <2>5. GivenSoFar'
        BY <1>1, <2>4, SameParts DEF DirectInv
    <2> QED
        BY <1>2, <1>3, <2>3, <2>5 DEF DirectInv
<1>7. CASE Release
    <2>1. pc = "record" /\ slot > Len(Route) /\ slot' = slot /\ pc' = "read" /\ item' = NULL /\ free' = Items
        BY <1>1, <1>7 DEF Release
    <2>2. ItemPlaces'
        BY <1>1, <1>2, <2>1 DEF ItemPlaces
    <2>3. \A a \in 1 .. Len(accepted) : Reached(a)' = Reached(a)
        <3>1. slot - 1 = Len(calls[accepted[N]])
            BY <1>1, <1>5, <2>1
        <3> QED
            BY <1>1, <1>2, <1>4, <2>1, <3>1 DEF Reached, Pending
    <2>4. GivenSoFar'
        BY <1>1, <2>3, SameParts DEF DirectInv
    <2> QED
        BY <1>2, <1>3, <2>2, <2>4 DEF DirectInv
<1> QED
    BY <1>6, <1>7

\* The channel is opened before the first call and closed after the last.
LEMMA LifeKeepsDirect ==
    ASSUME DirectInv, Setup \/ DestroyContext
    PROVE  DirectInv'
<1>1. /\ pc \in {"new", "idle"} /\ pc' \in {"new", "idle", "destroyed"}
      /\ UNCHANGED <<carries, item, slot, calls, accepted, given>>
      /\ item = NULL /\ queued = <<>> /\ free = Items
    BY DEF Setup, DestroyContext, DirectInv, ItemPlaces
<1>2. QueueInv' /\ queued' = <<>> /\ (qopen' <=> pc' \notin {"new", "destroyed"})
    <2>1. CASE DestroyContext
        BY <2>1, CloseQueue DEF DestroyContext, DirectInv
    <2>2. CASE Setup
        <3>1. ~ qopen /\ pc = "new"
            BY <2>2 DEF Setup, DirectInv, ItemPlaces
        <3>2. CASE OpenChannel /\ pc' = "idle"
            BY <3>1, <3>2, OpenQueue DEF DirectInv
        <3>3. CASE UNCHANGED <<queueVars, pc>>
            BY <1>1, <3>1, <3>3, QueueStutters DEF DirectInv
        <3> QED
            BY <2>2, <3>2, <3>3 DEF Setup
    <2> QED
        BY <2>1, <2>2
<1>3. free' = Items
    <2>1. CASE DestroyContext
        <3>1. Content = queued
            BY QueueInvWhole DEF DirectInv, QueueWhole
        <3> QED
            BY <1>1, <2>1, <3>1 DEF DestroyContext
    <2>2. CASE Setup
        BY <1>1, <2>2 DEF Setup
    <2> QED
        BY <2>1, <2>2
<1>4. DirectTyped'
    BY <1>1 DEF DirectInv, DirectTyped
<1>5. ItemPlaces'
    BY <1>1, <1>2, <1>3 DEF ItemPlaces
<1>6. \A a \in 1 .. Len(accepted) : Reached(a)' = Reached(a)
    BY <1>1 DEF Reached, Pending
<1>7. GivenSoFar'
    BY <1>1, <1>6, SameParts DEF DirectInv
<1> QED
    BY <1>2, <1>4, <1>5, <1>7 DEF DirectInv

\* Before setup nothing is queued, carried or given.
LEMMA DirectInitInv == DirectInit => DirectInv
<1> SUFFICES ASSUME DirectInit PROVE DirectInv
    OBVIOUS
<1>1. QueueInv
    BY QueueInitInv DEF DirectInit
<1>2. DirectTyped
    BY DEF DirectInit, DirectTyped
<1>3. ItemPlaces
    BY DEF DirectInit, ItemPlaces, QueueInit
<1>4. GivenSoFar
    <2>1. \A r : Parts(r) = <<>>
        BY DEF DirectInit, Parts
    <2>2. FlattenSeq(<<>>) = <<>>
        BY DEF FlattenSeq
    <2> QED
        BY <2>1, <2>2 DEF DirectInit, GivenSoFar
<1> QED
    BY <1>1, <1>2, <1>3, <1>4 DEF DirectInv

\* Between the calls all is recorded, and no item is in two places or lost.
LEMMA DirectInvDispatches == DirectInv => DirectDispatches
<1> SUFFICES ASSUME DirectInv PROVE DirectDispatches
    OBVIOUS
<1>1. QueueWhole
    BY QueueInvWhole DEF DirectInv
<1>2. ItemsHaveOnePlace
    <2>1. NULL \notin Items
        BY UnsafeQueueAssumption
    <2>2. CASE queued = <<>>
        <3>1. Queued = {} /\ Len(queued) = 0 /\ Cardinality(Queued) = 0
            BY <2>2, FS_EmptySet DEF Queued
        <3>2. pc = "read" => free = Items
            BY <2>2 DEF DirectInv, ItemPlaces
        <3> QED
            BY <2>1, <3>1, <3>2 DEF DirectInv, DirectTyped, ItemPlaces, ItemsHaveOnePlace
    <2>3. CASE queued # <<>>
        <3>1. pc = "read" /\ item = NULL
            BY <2>3 DEF DirectInv, DirectTyped, ItemPlaces
        <3>2. PICK i \in Items : queued = <<i>> /\ free = Items \ {i}
            BY <2>3, <3>1 DEF DirectInv, ItemPlaces
        <3>3. Queued = {i} /\ Len(queued) = 1
            BY <3>2 DEF Queued
        <3>4. Cardinality(Queued) = 1
            BY <3>3, FS_Singleton
        <3> QED
            BY <2>1, <3>1, <3>2, <3>3, <3>4 DEF ItemsHaveOnePlace
    <2> QED
        BY <2>2, <2>3
<1>3. RecordedWhenReturned
    <2> SUFFICES ASSUME pc \in {"idle", "destroyed"}, NEW r \in Recorders PROVE given[r] = Expected(r)
        BY DEF RecordedWhenReturned
    <2>1. ASSUME NEW a \in 1 .. Len(accepted)
          PROVE  Part(r, a) = [m \in 1 .. Times(r, accepted[a]) |-> accepted[a]]
        <3>1. Reached(a) = Len(calls[accepted[a]])
            BY DEF Reached, Pending
        <3>2. Turns(r, a) = {m \in DOMAIN calls[accepted[a]] : calls[accepted[a]][m] = r}
            BY <3>1, RouteFacts DEF Turns, DirectInv
        <3> QED
            BY <3>2 DEF Part, Times
    <2>2. Parts(r) = [a \in 1 .. Len(accepted) |-> [m \in 1 .. Times(r, accepted[a]) |-> accepted[a]]]
        BY <2>1 DEF Parts
    <2> QED
        BY <2>2 DEF DirectInv, GivenSoFar, Expected
<1> QED
    BY <1>1, <1>2, <1>3 DEF DirectDispatches

\* A log call that returns success has been recorded, by each recorder of its
\* route as often as the route names it and in the order of the calls; every item
\* is in one place; the queue is whole.
THEOREM DirectlyRecorded == DirectSpec => []DirectDispatches
<1>1. DirectInv /\ [DirectNext]_<<queueVars, directVars>> => DirectInv'
    <2> SUFFICES ASSUME DirectInv, [DirectNext]_<<queueVars, directVars>> PROVE DirectInv'
        OBVIOUS
    <2>1. CASE UNCHANGED <<queueVars, directVars>>
        <3>1. UNCHANGED <<pc, item, free, slot, carries, calls, accepted, given>>
            BY <2>1 DEF directVars
        <3>2. QueueInv' /\ queued' = queued /\ qopen' = qopen
            BY <2>1, QueueStutters DEF DirectInv
        <3>3. DirectTyped' /\ ItemPlaces'
            BY <3>1, <3>2 DEF DirectInv, DirectTyped, ItemPlaces, Carried, Route
        <3>4. \A a \in 1 .. Len(accepted) : Reached(a)' = Reached(a)
            BY <3>1, <3>2 DEF Reached, Pending
        <3> QED
            BY <3>1, <3>2, <3>3, <3>4, SameParts DEF DirectInv
    <2>2. CASE DirectNext
        BY <2>2, CallKeepsDirect, WriteKeepsDirect, ReadKeepsDirect, RecordKeepsDirect,
           GoOnKeepsDirect, LifeKeepsDirect DEF DirectNext
    <2> QED
        BY <2>1, <2>2
<1> QED
    BY <1>1, DirectInitInv, DirectInvDispatches, PTL DEF DirectSpec

--------------------------------------------------------------------------------
(* The hash map                                                             *)

\* What is in the buckets.
Elements(s) == {s[i] : i \in 1 .. Len(s)}
Held(bs) == UNION {Elements(bs[b]) : b \in DOMAIN bs}

\* No key is twice in a bucket.
OncePerKey(s) == \A i, j \in 1 .. Len(s) : s[i].key = s[j].key => i = j

\* A chain of bucket b of n.
ChainOf(s, b, n) ==
    /\ s \in Seq(Entries) /\ OncePerKey(s)
    /\ \A e \in Elements(s) : Hash[e.key] % n = b

InBuckets(bs, n) ==
    /\ n \in Nat \ {0} /\ bs = [b \in 0 .. n - 1 |-> bs[b]]
    /\ \A b \in 0 .. n - 1 : ChainOf(bs[b], b, n)

\* A chain of these entries.
Chains(r, es) == r \in Seq(Entries) /\ OncePerKey(r) /\ Elements(r) = es

\* A chain without the entry at place i.
LEMMA WithoutOne ==
    ASSUME NEW s \in Seq(Entries), OncePerKey(s), NEW i \in 1 .. Len(s)
    PROVE  /\ Chains(RemoveAt(s, i), Elements(s) \ {s[i]})
           /\ s[i] \in Elements(s) /\ \A e \in Elements(s) : e.key = s[i].key => e = s[i]
<1> DEFINE r == RemoveAt(s, i)
<1>1. /\ Len(s) \in Nat /\ r \in Seq(Entries) /\ Len(r) = Len(s) - 1
      /\ \A j \in 1 .. Len(r) : r[j] = IF j < i THEN s[j] ELSE s[j + 1]
    <2>1. PICK a, c : a = SubSeq(s, 1, i - 1) /\ c = SubSeq(s, i + 1, Len(s))
        OBVIOUS
    <2>2. /\ a \in Seq(Entries) /\ Len(a) = i - 1 /\ \A j \in 1 .. i - 1 : a[j] = s[j]
          /\ c \in Seq(Entries) /\ Len(c) = Len(s) - i
          /\ \A j \in 1 .. Len(s) - i : c[j] = s[j + i]
        BY <2>1
    <2>3. /\ a \o c \in Seq(Entries) /\ Len(a \o c) = Len(s) - 1 /\ Len(s) \in Nat
          /\ \A j \in 1 .. Len(s) - 1 : (a \o c)[j] = IF j < i THEN a[j] ELSE c[j - (i - 1)]
        <3>1. /\ a \o c \in Seq(Entries) /\ Len(a \o c) = Len(a) + Len(c)
              /\ \A j \in 1 .. Len(a) + Len(c) :
                    (a \o c)[j] = IF j <= Len(a) THEN a[j] ELSE c[j - Len(a)]
            BY <2>2, ConcatProperties
        <3>2. /\ Len(s) \in Nat /\ Len(a) + Len(c) = Len(s) - 1
              /\ \A j \in 1 .. Len(s) - 1 : j < i <=> j <= Len(a)
            BY <2>2
        <3> QED
            BY <2>2, <3>1, <3>2
    <2>4. ASSUME NEW j \in 1 .. Len(s) - 1 PROVE (a \o c)[j] = IF j < i THEN s[j] ELSE s[j + 1]
        <3>1. CASE j < i
            BY <2>2, <2>3, <3>1
        <3>2. CASE ~ (j < i)
            <4>1. j - (i - 1) \in 1 .. Len(s) - i /\ (j - (i - 1)) + i = j + 1
                BY <2>3, <3>2
            <4>2. c[j - (i - 1)] = s[j + 1]
                BY <2>2, <4>1
            <4> QED
                BY <2>3, <3>2, <4>2
        <3> QED
            BY <3>1, <3>2
    <2> QED
        BY <2>1, <2>3, <2>4 DEF RemoveAt
<1> HIDE DEF r
<1>2. OncePerKey(r)
    <2> SUFFICES ASSUME NEW j \in 1 .. Len(r), NEW l \in 1 .. Len(r), r[j].key = r[l].key
                 PROVE  j = l
        BY DEF OncePerKey
    <2> DEFINE Old(k) == IF k < i THEN k ELSE k + 1
    <2>1. \A k \in 1 .. Len(r) : Old(k) \in 1 .. Len(s) /\ r[k] = s[Old(k)]
        BY <1>1
    <2>2. PICK x \in 1 .. Len(s), y \in 1 .. Len(s) :
              x = Old(j) /\ y = Old(l) /\ r[j] = s[x] /\ r[l] = s[y]
        BY <2>1
    <2>3. x = y
        BY <2>2 DEF OncePerKey
    <2> QED
        BY <1>1, <2>2, <2>3
<1>3. Elements(r) \subseteq Elements(s) \ {s[i]}
    <2> SUFFICES ASSUME NEW j \in 1 .. Len(r) PROVE r[j] \in Elements(s) \ {s[i]}
        BY DEF Elements
    <2>1. PICK l \in 1 .. Len(s) : l # i /\ r[j] = s[l]
        <3>1. j \in 1 .. Len(s) /\ j + 1 \in 1 .. Len(s) /\ (~ (j < i) => j + 1 # i)
            BY <1>1
        <3> QED
            BY <1>1, <3>1
    <2> QED
        BY <2>1 DEF OncePerKey, Elements
<1>4. ASSUME NEW j \in 1 .. Len(s), s[j] # s[i] PROVE s[j] \in Elements(r)
    <2>1. j < i \/ j > i
        BY <1>4
    <2>2. CASE j < i
        BY <1>1, <2>2 DEF Elements
    <2>3. CASE j > i
        <3>1. j - 1 \in 1 .. Len(r) /\ ~ (j - 1 < i) /\ (j - 1) + 1 = j
            BY <1>1, <2>3
        <3>2. r[j - 1] = s[j]
            BY <1>1, <3>1
        <3> QED
            BY <3>1, <3>2 DEF Elements
    <2> QED
        BY <2>1, <2>2, <2>3
<1>5. Elements(r) = Elements(s) \ {s[i]}
    BY <1>3, <1>4 DEF Elements
<1>6. s[i] \in Elements(s) /\ \A e \in Elements(s) : e.key = s[i].key => e = s[i]
    BY DEF OncePerKey, Elements
<1> QED
    BY <1>1, <1>2, <1>5, <1>6 DEF r, Chains

\* A chain with another entry at its front.
LEMMA AtFront ==
    ASSUME NEW s \in Seq(Entries), OncePerKey(s), NEW e \in Entries,
           \A f \in Elements(s) : f.key # e.key
    PROVE  Chains(<<e>> \o s, Elements(s) \cup {e})
<1> DEFINE r == <<e>> \o s
<1>1. /\ Len(s) \in Nat /\ r \in Seq(Entries) /\ Len(r) = Len(s) + 1 /\ r[1] = e
      /\ \A j \in 2 .. Len(r) : r[j] = s[j - 1] /\ j - 1 \in 1 .. Len(s)
      /\ \A j \in 1 .. Len(s) : r[j + 1] = s[j] /\ j + 1 \in 1 .. Len(r)
    OBVIOUS
<1> HIDE DEF r
<1>2. OncePerKey(r)
    <2> SUFFICES ASSUME NEW i \in 1 .. Len(r), NEW j \in 1 .. Len(r), r[i].key = r[j].key
                 PROVE  i = j
        BY DEF OncePerKey
    <2>0. \A l \in 2 .. Len(r) : r[l] \in Elements(s)
        BY <1>1 DEF Elements
    <2>1. CASE i = 1 \/ j = 1
        <3>1. (i = 1 \/ i \in 2 .. Len(r)) /\ (j = 1 \/ j \in 2 .. Len(r))
            BY <1>1
        <3> QED
            BY <1>1, <2>0, <2>1, <3>1
    <2>2. CASE i # 1 /\ j # 1
        <3>1. i \in 2 .. Len(r) /\ j \in 2 .. Len(r)
            BY <1>1, <2>2
        <3>2. PICK l, m : l = i - 1 /\ m = j - 1
            OBVIOUS
        <3>3. l \in 1 .. Len(s) /\ m \in 1 .. Len(s) /\ s[l].key = s[m].key
            BY <1>1, <3>1, <3>2
        <3>4. l = m
            BY <3>3 DEF OncePerKey
        <3> QED
            BY <3>1, <3>2, <3>4
    <2> QED
        BY <2>1, <2>2
<1>3. Elements(r) = Elements(s) \cup {e}
    <2>1. \A i \in 1 .. Len(r) : i = 1 \/ i \in 2 .. Len(r)
        BY <1>1
    <2>2. 1 \in 1 .. Len(r)
        BY <1>1
    <2>3. Elements(r) \subseteq Elements(s) \cup {e}
        <3>1. \A j \in 2 .. Len(r) : r[j] \in Elements(s)
            BY <1>1 DEF Elements
        <3>2. \A j \in 1 .. Len(r) : r[j] \in Elements(s) \cup {e}
            BY <1>1, <2>1, <3>1
        <3> QED
            BY <3>2 DEF Elements
    <2>4. \A j \in 1 .. Len(s) : s[j] \in Elements(r)
        <3> SUFFICES ASSUME NEW j \in 1 .. Len(s) PROVE s[j] \in Elements(r)
            OBVIOUS
        <3>1. PICK l \in 1 .. Len(r) : r[l] = s[j]
            BY <1>1
        <3> QED
            BY <3>1 DEF Elements
    <2>5. e \in Elements(r)
        BY <1>1, <2>2 DEF Elements
    <2> QED
        BY <2>3, <2>4, <2>5 DEF Elements
<1> QED
    BY <1>1, <1>2, <1>3 DEF r, Chains

\* A chain with another value for a key that it has.
LEMMA InPlace ==
    ASSUME NEW s \in Seq(Entries), OncePerKey(s), NEW i \in 1 .. Len(s),
           NEW e \in Entries, s[i].key = e.key
    PROVE  Chains([s EXCEPT ![i] = e], (Elements(s) \ {s[i]}) \cup {e})
<1> DEFINE r == [s EXCEPT ![i] = e]
<1>1. /\ Len(s) \in Nat /\ r \in Seq(Entries) /\ Len(r) = Len(s) /\ r[i] = e
      /\ \A j \in 1 .. Len(s) : j # i => r[j] = s[j]
    OBVIOUS
<1> HIDE DEF r
<1>2. \A j \in 1 .. Len(s) : r[j].key = s[j].key
    BY <1>1
<1>3. OncePerKey(r)
    BY <1>1, <1>2 DEF OncePerKey
<1>4. Elements(r) = (Elements(s) \ {s[i]}) \cup {e}
    BY <1>1 DEF OncePerKey, Elements
<1> QED
    BY <1>1, <1>3, <1>4 DEF r, Chains

\* Where a key is in its bucket, if it is there.
Found(k, bs, n, b, i) ==
    /\ b = Index(k, bs) /\ b \in 0 .. n - 1 /\ b = Hash[k] % n /\ i = Position(k, bs)
    /\ i \in 0 .. Len(bs[b])
    /\ i = 0 => \A e \in Held(bs) : e.key # k
    /\ i # 0 => bs[b][i] \in Held(bs) /\ bs[b][i].key = k
    /\ i # 0 => \A e \in Held(bs) : e.key = k => e = bs[b][i]

LEMMA BucketFacts ==
    ASSUME NEW bs, NEW n, InBuckets(bs, n)
    PROVE  /\ n \in Nat \ {0} /\ DOMAIN bs = 0 .. n - 1 /\ Cardinality(DOMAIN bs) = n
           /\ Held(bs) \subseteq Entries
           /\ \A b \in 0 .. n - 1 : bs[b] \in Seq(Entries) /\ OncePerKey(bs[b])
           /\ \A b \in 0 .. n - 1 : Elements(bs[b]) = {e \in Held(bs) : Hash[e.key] % n = b}
           /\ \A e, f \in Held(bs) : e.key = f.key => e = f
<1>1. DOMAIN bs = 0 .. n - 1 /\ n \in Nat /\ n # 0
    BY DEF InBuckets
<1>2. Cardinality(DOMAIN bs) = n
    BY <1>1, FS_Interval
<1>3. \A b \in 0 .. n - 1 : bs[b] \in Seq(Entries) /\ Elements(bs[b]) \subseteq Entries
    BY DEF InBuckets, ChainOf, Elements
<1>4. \A b \in 0 .. n - 1 : Elements(bs[b]) = {e \in Held(bs) : Hash[e.key] % n = b}
    BY <1>1 DEF InBuckets, ChainOf, Held
<1>5. ASSUME NEW e \in Held(bs), NEW f \in Held(bs), e.key = f.key PROVE e = f
    <2>1. PICK b \in 0 .. n - 1 : e \in Elements(bs[b])
        BY <1>1 DEF Held
    <2>2. f \in Elements(bs[b])
        BY <1>4, <1>5, <2>1
    <2> QED
        BY <1>5, <2>1, <2>2 DEF InBuckets, ChainOf, OncePerKey, Elements
<1> QED
    BY <1>1, <1>2, <1>3, <1>4, <1>5 DEF InBuckets, ChainOf, Held

LEMMA FoundFacts ==
    ASSUME NEW bs, NEW n, InBuckets(bs, n), NEW k \in Keys
    PROVE  \E b, i : Found(k, bs, n, b, i)
<1>1. PICK b, i : b = Index(k, bs) /\ i = Position(k, bs)
    OBVIOUS
<1>2. /\ n \in Nat \ {0} /\ Cardinality(DOMAIN bs) = n /\ DOMAIN bs = 0 .. n - 1
      /\ Elements(bs[b]) = {e \in Held(bs) : Hash[e.key] % n = b}
      /\ b = Hash[k] % n /\ b \in 0 .. n - 1
      /\ bs[b] \in Seq(Entries) /\ OncePerKey(bs[b])
    <2>1. n \in Nat \ {0} /\ Cardinality(DOMAIN bs) = n
        BY BucketFacts
    <2>2. b = Hash[k] % n /\ b \in 0 .. n - 1
        BY <1>1, <2>1, HashMapAssumption DEF Index
    <2> QED
        BY <2>1, <2>2, BucketFacts
<1> DEFINE I == {j \in 1 .. Len(bs[b]) : bs[b][j].key = k}
<1>3. i = IF I # {} THEN CHOOSE x \in I : \A y \in I : x <= y ELSE 0
    BY <1>1 DEF Position, SelectInSeq, Min
<1>4. \A j, l \in I : j = l
    BY <1>2 DEF OncePerKey
<1>5. CASE I = {}
    <2>1. i = 0
        BY <1>3, <1>5
    <2>2. \A e \in Held(bs) : e.key # k
        BY <1>2, <1>5 DEF Elements
    <2> QED
        BY <1>1, <1>2, <2>1, <2>2 DEF Found
<1>6. CASE I # {}
    <2>1. PICK j \in I : TRUE
        BY <1>6
    <2>2. \A x \in I : \A y \in I : x <= y
        BY <1>4
    <2>3. i \in I
        BY <1>3, <1>6, <2>1, <2>2
    <2>4. \A e \in Held(bs) : e.key = k => e = bs[b][i]
        BY <1>2, <1>4, <2>3 DEF Elements
    <2>5. bs[b][i] \in Held(bs) /\ i \in 0 .. Len(bs[b]) /\ i # 0 /\ bs[b][i].key = k
        BY <1>2, <2>3 DEF Elements
    <2> QED
        BY <1>1, <1>2, <2>4, <2>5 DEF Found
<1> QED
    BY <1>5, <1>6

\* Buckets that hold these entries.
Holding(bs, n, es) == InBuckets(bs, n) /\ Held(bs) = es

\* A bucket with another chain.
LEMMA OneBucket ==
    ASSUME NEW bs, NEW n, InBuckets(bs, n), NEW b \in 0 .. n - 1, NEW r, ChainOf(r, b, n)
    PROVE  Holding([bs EXCEPT ![b] = r], n, (Held(bs) \ Elements(bs[b])) \cup Elements(r))
<1> DEFINE rs == [bs EXCEPT ![b] = r]
<1>1. DOMAIN bs = 0 .. n - 1 /\ n \in Nat
    BY DEF InBuckets
<1>2. /\ rs = [c \in 0 .. n - 1 |-> rs[c]] /\ rs[b] = r
      /\ \A c \in 0 .. n - 1 : c # b => rs[c] = bs[c]
    BY <1>1
<1> HIDE DEF rs
<1>3. InBuckets(rs, n)
    BY <1>2 DEF InBuckets
<1>4. Held(rs) \subseteq (Held(bs) \ Elements(bs[b])) \cup Elements(r)
    <2> SUFFICES ASSUME NEW c \in 0 .. n - 1, NEW e \in Elements(rs[c]), c # b
                 PROVE  e \in Held(bs) \ Elements(bs[b])
        BY <1>2 DEF Held
    <2>1. rs[c] = bs[c]
        BY <1>2
    <2> QED
        BY <1>1, <2>1 DEF Held, InBuckets, ChainOf
<1>5. ASSUME NEW e \in Held(bs) \ Elements(bs[b]) PROVE e \in Held(rs)
    <2>1. PICK c \in 0 .. n - 1 : e \in Elements(bs[c])
        BY <1>1 DEF Held
    <2>2. rs[c] = bs[c] /\ c \in DOMAIN rs
        BY <1>2, <1>5, <2>1
    <2> QED
        BY <2>1, <2>2 DEF Held
<1>6. Elements(r) \subseteq Held(rs)
    BY <1>2 DEF Held
<1> QED
    BY <1>3, <1>4, <1>5, <1>6 DEF rs, Holding

Replaced(es, e) == {f \in es : f.key # e.key} \cup {e}
Removed(es, k) == {f \in es : f.key # k}

LEMMA EmptyHolds == ASSUME NEW n \in Nat \ {0} PROVE Holding(Empty(n), n, {})
<1>1. /\ Empty(n) = [b \in 0 .. n - 1 |-> Empty(n)[b]] /\ DOMAIN Empty(n) = 0 .. n - 1
      /\ \A b \in 0 .. n - 1 : Empty(n)[b] = <<>>
    BY DEF Empty
<1>2. <<>> \in Seq(Entries) /\ Elements(<<>>) = {} /\ OncePerKey(<<>>)
    BY DEF Elements, OncePerKey
<1>3. \A b \in 0 .. n - 1 : ChainOf(Empty(n)[b], b, n)
    BY <1>1, <1>2 DEF ChainOf
<1> QED
    BY <1>1, <1>2, <1>3 DEF Holding, InBuckets, Held

\* Putting replaces the entry of the key, if there is one.
LEMMA PutHolds ==
    ASSUME NEW bs, NEW n, InBuckets(bs, n), NEW e \in Entries
    PROVE  Holding(PutInternal(bs, e), n, Replaced(Held(bs), e))
<1>1. e.key \in Keys
    BY DEF Entries
<1>2. PICK b, i : Found(e.key, bs, n, b, i)
    BY <1>1, FoundFacts
<1>3. /\ b \in 0 .. n - 1 /\ b = Index(e.key, bs) /\ b = Hash[e.key] % n /\ i = Position(e.key, bs)
      /\ i \in 0 .. Len(bs[b])
    BY <1>2 DEF Found
<1>4. /\ bs[b] \in Seq(Entries) /\ OncePerKey(bs[b]) /\ b \in DOMAIN bs
      /\ Elements(bs[b]) = {f \in Held(bs) : Hash[f.key] % n = b}
    BY <1>3, BucketFacts
<1> DEFINE r == IF i = 0 THEN <<e>> \o bs[b] ELSE [bs[b] EXCEPT ![i] = e]
<1>5. /\ r \in Seq(Entries) /\ OncePerKey(r)
      /\ Elements(r) = {f \in Elements(bs[b]) : f.key # e.key} \cup {e}
    <2>1. CASE i = 0
        <3>1. \A f \in Elements(bs[b]) : f.key # e.key
            BY <1>2, <1>4, <2>1 DEF Found
        <3>2. Chains(<<e>> \o bs[b], Elements(bs[b]) \cup {e})
            BY <1>4, <3>1, AtFront
        <3> QED
            BY <2>1, <3>1, <3>2 DEF Chains
    <2>2. CASE i # 0
        <3>1. i \in 1 .. Len(bs[b]) /\ bs[b][i].key = e.key
            BY <1>2, <1>3, <2>2 DEF Found
        <3>2. \A f \in Elements(bs[b]) : f.key = e.key <=> f = bs[b][i]
            BY <1>2, <1>4, <2>2 DEF Found
        <3>3. Chains([bs[b] EXCEPT ![i] = e], (Elements(bs[b]) \ {bs[b][i]}) \cup {e})
            BY <1>4, <3>1, InPlace
        <3> QED
            BY <2>2, <3>2, <3>3 DEF Chains
    <2> QED
        BY <2>1, <2>2
<1>6. PutInternal(bs, e) = [bs EXCEPT ![b] = r]
    BY <1>3, <1>4 DEF PutInternal
<1> HIDE DEF r
<1>7. ChainOf(r, b, n)
    BY <1>3, <1>4, <1>5 DEF ChainOf
<1>8. Holding([bs EXCEPT ![b] = r], n, (Held(bs) \ Elements(bs[b])) \cup Elements(r))
    BY <1>3, <1>7, OneBucket
<1>9. (Held(bs) \ Elements(bs[b])) \cup Elements(r) = Replaced(Held(bs), e)
    BY <1>3, <1>4, <1>5 DEF Replaced
<1> QED
    BY <1>6, <1>8, <1>9 DEF Holding

\* Moving an entry to the front keeps all; deleting it removes that one.
LEMMA MoveHolds ==
    ASSUME NEW bs, NEW n, InBuckets(bs, n), NEW k \in Keys, Position(k, bs) # 0
    PROVE  /\ Holding(ToFront(k, bs), n, Held(bs))
           /\ Holding(Delete(k, bs), n, Removed(Held(bs), k))
<1>1. PICK b, i : Found(k, bs, n, b, i)
    BY FoundFacts
<1>2. /\ b \in 0 .. n - 1 /\ b = Index(k, bs) /\ b = Hash[k] % n /\ i = Position(k, bs)
      /\ i \in 1 .. Len(bs[b]) /\ bs[b][i].key = k
    BY <1>1 DEF Found
<1>3. /\ bs[b] \in Seq(Entries) /\ OncePerKey(bs[b]) /\ b \in DOMAIN bs
      /\ Elements(bs[b]) = {f \in Held(bs) : Hash[f.key] % n = b}
    BY <1>2, BucketFacts
<1> DEFINE e == bs[b][i]
           r == RemoveAt(bs[b], i)
           q == <<e>> \o r
<1>4. e \in Entries
    BY <1>2, <1>3
<1>5. /\ r \in Seq(Entries) /\ OncePerKey(r) /\ Elements(r) = Elements(bs[b]) \ {e}
      /\ e \in Elements(bs[b]) /\ \A f \in Elements(bs[b]) : f.key = e.key => f = e
    <2>1. /\ Chains(RemoveAt(bs[b], i), Elements(bs[b]) \ {e}) /\ e \in Elements(bs[b])
          /\ \A f \in Elements(bs[b]) : f.key = e.key => f = e
        BY <1>2, <1>3, WithoutOne
    <2> QED
        BY <2>1 DEF Chains
<1>6. ToFront(k, bs) = [bs EXCEPT ![b] = q] /\ Delete(k, bs) = [bs EXCEPT ![b] = r]
    BY <1>2, <1>3 DEF ToFront, Delete
<1> HIDE DEF r
<1>7. q \in Seq(Entries) /\ OncePerKey(q) /\ Elements(q) = Elements(bs[b])
    <2>1. \A f \in Elements(r) : f.key # e.key
        BY <1>5
    <2>2. Chains(<<e>> \o r, Elements(r) \cup {e})
        BY <1>4, <1>5, <2>1, AtFront
    <2> QED
        BY <1>5, <2>2 DEF Chains
<1> HIDE DEF q
<1>8. ChainOf(r, b, n) /\ ChainOf(q, b, n)
    BY <1>3, <1>5, <1>7 DEF ChainOf
<1>9. /\ Holding([bs EXCEPT ![b] = r], n, (Held(bs) \ Elements(bs[b])) \cup Elements(r))
      /\ Holding([bs EXCEPT ![b] = q], n, (Held(bs) \ Elements(bs[b])) \cup Elements(q))
    BY <1>2, <1>8, OneBucket
<1>10. (Held(bs) \ Elements(bs[b])) \cup Elements(q) = Held(bs)
    BY <1>3, <1>7
<1>11. (Held(bs) \ Elements(bs[b])) \cup Elements(r) = Removed(Held(bs), k)
    <2>1. Removed(Held(bs), k) = Held(bs) \ {e}
        BY <1>1, <1>2, <1>3, <1>5 DEF Found, Removed
    <2> QED
        BY <1>3, <1>5, <2>1
<1> QED
    BY <1>6, <1>9, <1>10, <1>11 DEF Holding

\* Folding by putting: what is in the buckets after each entry of s.
PutIn(c, bs, entry) == PutInternal(bs, entry)
PutSteps == INSTANCE SequenceFolds WITH Op <- PutIn

Puts(P, bs, s) ==
    /\ P[0] = bs
    /\ \A i \in 1 .. Len(s) : P[i] = PutInternal(P[i - 1], s[i])

LEMMA FoldOfPuts ==
    ASSUME NEW n, NEW bs, InBuckets(bs, n), NEW s \in Seq(Entries)
    PROVE  \E P : Puts(P, bs, s) /\ FoldLeft(PutInternal, bs, s) = P[Len(s)]
<1> DEFINE A == {cs \in [0 .. n - 1 -> Seq(Entries)] : InBuckets(cs, n)}
<1>1. \A cs : InBuckets(cs, n) => cs \in A
    BY DEF InBuckets, ChainOf
<1>2. PutSteps!Keeps(NULL, A, Entries) /\ bs \in A
    BY <1>1, PutHolds DEF Holding, PutSteps!Keeps, PutIn
<1>3. PutSteps!Fold(NULL, bs, s) = FoldLeft(PutInternal, bs, s)
    BY DEF PutSteps!Fold, PutSteps!FoldLeft, PutSteps!MapThenFoldSet, PutSteps!Max,
           FoldLeft, MapThenFoldSet, Max, PutIn
<1> HIDE DEF A
<1>4. PICK P \in [0 .. Len(s) -> A] :
        PutSteps!Steps(P, NULL, bs, s) /\ PutSteps!Fold(NULL, bs, s) = P[Len(s)]
    BY <1>2, PutSteps!Partial
<1> QED
    BY <1>3, <1>4 DEF Puts, PutSteps!Steps, PutIn

\* What is in a sequence of sequences, one after the other.
Flattened(r, s, n, S) == r \in Seq(S) /\ Elements(r) = UNION {Elements(s[i]) : i \in 1 .. n}

LEMMA FlattenHolds ==
    ASSUME NEW S, NEW n \in Nat, n # 0, NEW s \in [1 .. n -> Seq(S)]
    PROVE  Flattened(FlattenSeq(s), s, n, S)
<1>1. PICK F \in [1 .. n -> Seq(S)] : Flattens(s, n, F)
    BY Gathered
<1> DEFINE Upto(m) == UNION {Elements(s[i]) : i \in 1 .. m}
           Same == {m \in 1 .. n : Elements(F[m]) = Upto(m)}
<1>2. 1 \in 1 .. n /\ n \in 1 .. n
    OBVIOUS
<1>3. 1 \in Same
    <2>1. F[1] = s[1] /\ 1 .. 1 = {1}
        BY <1>1 DEF Flattens
    <2> QED
        BY <1>2, <2>1
<1>4. ASSUME NEW m \in 2 .. n, m - 1 \in Same PROVE m \in Same
    <2>1. m \in 1 .. n /\ m - 1 \in 1 .. n /\ 1 .. m = (1 .. m - 1) \cup {m}
        OBVIOUS
    <2>2. PICK a, b : a = F[m - 1] /\ b = s[m]
        OBVIOUS
    <2>3. a \in Seq(S) /\ b \in Seq(S)
        BY <2>1, <2>2
    <2>4. F[m] = a \o b
        BY <1>1, <2>2 DEF Flattens
    <2>5. Elements(a \o b) = Elements(a) \cup Elements(b)
        <3>1. /\ Len(a) \in Nat /\ Len(b) \in Nat /\ Len(a \o b) = Len(a) + Len(b)
              /\ \A i \in 1 .. Len(a) + Len(b) :
                    (a \o b)[i] = IF i <= Len(a) THEN a[i] ELSE b[i - Len(a)]
            BY <2>3
        <3>2. Elements(a \o b) \subseteq Elements(a) \cup Elements(b)
            <4> SUFFICES ASSUME NEW i \in 1 .. Len(a) + Len(b)
                         PROVE  (a \o b)[i] \in Elements(a) \cup Elements(b)
                BY <3>1 DEF Elements
            <4>1. CASE i <= Len(a)
                BY <3>1, <4>1 DEF Elements
            <4>2. CASE ~ (i <= Len(a))
                <5>1. i - Len(a) \in 1 .. Len(b)
                    BY <3>1, <4>2
                <5>2. (a \o b)[i] = b[i - Len(a)]
                    BY <3>1, <4>2
                <5> QED
                    BY <5>1, <5>2 DEF Elements
            <4> QED
                BY <4>1, <4>2
        <3>3. ASSUME NEW i \in 1 .. Len(a) PROVE a[i] \in Elements(a \o b)
            <4>1. i \in 1 .. Len(a) + Len(b) /\ i <= Len(a)
                BY <3>1
            <4>2. i \in 1 .. Len(a \o b) /\ (a \o b)[i] = a[i]
                BY <3>1, <4>1
            <4> QED
                BY <4>2 DEF Elements
        <3>4. ASSUME NEW i \in 1 .. Len(b) PROVE b[i] \in Elements(a \o b)
            <4>1. i + Len(a) \in 1 .. Len(a) + Len(b) /\ ~ (i + Len(a) <= Len(a))
                  /\ (i + Len(a)) - Len(a) = i
                BY <3>1
            <4>2. PICK j \in 1 .. Len(a \o b) : (a \o b)[j] = b[i]
                <5>1. (a \o b)[i + Len(a)] = b[i]
                    BY <3>1, <4>1
                <5> QED
                    BY <3>1, <4>1, <5>1
            <4> QED
                BY <4>2 DEF Elements
        <3> QED
            BY <3>2, <3>3, <3>4 DEF Elements
    <2>6. Upto(m) = Upto(m - 1) \cup Elements(b)
        BY <2>1, <2>2
    <2>7. Elements(a) = Upto(m - 1)
        BY <1>4, <2>2
    <2> HIDE DEF Upto
    <2> QED
        BY <2>1, <2>4, <2>5, <2>6, <2>7
<1> HIDE DEF Same
<1>5. n \in Same
    BY <1>2, <1>3, <1>4, UpTo
<1> QED
    BY <1>1, <1>2, <1>5 DEF Same, Flattens, Flattened

\* A resize keeps all.
LEMMA RehashHolds ==
    ASSUME NEW bs, NEW n, InBuckets(bs, n), BucketsSize = n, NEW m \in Nat \ {0}
    PROVE  Holding(Rehash(bs, m), m, Held(bs))
<1> DEFINE cs == [i \in 1 .. BucketsSize |-> bs[i - 1]]
           s == FlattenSeq(cs)
<1>1. /\ n \in Nat /\ n # 0 /\ DOMAIN bs = 0 .. n - 1
      /\ \A b \in 0 .. n - 1 : bs[b] \in Seq(Entries)
      /\ \A e, f \in Held(bs) : e.key = f.key => e = f
    BY BucketFacts
<1>2. /\ cs \in [1 .. n -> Seq(Entries)]
      /\ \A i \in 1 .. n : cs[i] = bs[i - 1] /\ i - 1 \in 0 .. n - 1
      /\ \A b \in 0 .. n - 1 : b + 1 \in 1 .. n /\ cs[b + 1] = bs[b]
    BY <1>1
<1> HIDE DEF cs
<1>3. s \in Seq(Entries) /\ Elements(s) = UNION {Elements(cs[i]) : i \in 1 .. n}
    <2>1. Flattened(FlattenSeq(cs), cs, n, Entries)
        BY <1>1, <1>2, FlattenHolds
    <2> QED
        BY <2>1 DEF Flattened
<1>4. UNION {Elements(cs[i]) : i \in 1 .. n} = Held(bs)
    <2>1. ASSUME NEW b \in 0 .. n - 1
          PROVE  Elements(bs[b]) \subseteq UNION {Elements(cs[i]) : i \in 1 .. n}
        <3>1. PICK i \in 1 .. n : cs[i] = bs[b]
            BY <1>2
        <3> QED
            BY <3>1
    <2>2. \A i \in 1 .. n : Elements(cs[i]) \subseteq Held(bs)
        BY <1>1, <1>2 DEF Held
    <2>3. Held(bs) \subseteq UNION {Elements(cs[i]) : i \in 1 .. n}
        BY <1>1, <2>1 DEF Held
    <2> QED
        BY <2>2, <2>3
<1> HIDE DEF s
<1>5. Elements(s) = Held(bs) /\ \A i \in 1 .. Len(s) : s[i] \in Entries /\ s[i] \in Held(bs)
    <2>1. Elements(s) = Held(bs) /\ \A i \in 1 .. Len(s) : s[i] \in Elements(s)
        BY <1>3, <1>4 DEF Elements
    <2>2. \A i \in 1 .. Len(s) : s[i] \in Entries
        BY <1>3
    <2> QED
        BY <2>1, <2>2
<1>6. PICK P : Puts(P, Empty(m), s) /\ FoldLeft(PutInternal, Empty(m), s) = P[Len(s)]
    BY <1>3, EmptyHolds, FoldOfPuts DEF Holding
<1>7. Rehash(bs, m) = P[Len(s)] /\ Len(s) \in Nat
    BY <1>3, <1>6 DEF Rehash, s, cs
<1> DEFINE First(i) == {s[j] : j \in 1 .. i}
           Good == {i \in 1 .. Len(s) : Holding(P[i], m, First(i))}
<1>8. First(0) = {} /\ Holding(P[0], m, First(0))
    <2>1. First(0) = {}
        OBVIOUS
    <2> HIDE DEF First
    <2> QED
        BY <1>6, <2>1, EmptyHolds DEF Puts
<1>9. ASSUME NEW i \in 1 .. Len(s), Holding(P[i - 1], m, First(i - 1))
      PROVE  i \in Good
    <2>1. Holding(PutInternal(P[i - 1], s[i]), m, Replaced(First(i - 1), s[i]))
        BY <1>5, <1>9, PutHolds DEF Holding
    <2>2. First(i) = First(i - 1) \cup {s[i]}
        <3>1. 1 .. i = (1 .. i - 1) \cup {i}
            OBVIOUS
        <3> QED
            BY <3>1
    <2>3. ASSUME NEW f \in First(i - 1), f.key = s[i].key PROVE f = s[i]
        <3>1. PICK j \in 1 .. i - 1 : f = s[j]
            OBVIOUS
        <3>2. j \in 1 .. Len(s)
            BY <1>7
        <3> QED
            BY <1>1, <1>5, <2>3, <3>1, <3>2
    <2> HIDE DEF First
    <2>4. First(i) = Replaced(First(i - 1), s[i])
        BY <2>2, <2>3 DEF Replaced
    <2>5. P[i] = PutInternal(P[i - 1], s[i])
        BY <1>6 DEF Puts
    <2> QED
        BY <2>1, <2>4, <2>5
<1>10. Holding(P[Len(s)], m, First(Len(s)))
    <2>1. CASE Len(s) = 0
        BY <1>8, <2>1
    <2>2. CASE Len(s) # 0
        <3> HIDE DEF First
        <3>1. 1 \in 1 .. Len(s) /\ Len(s) \in 1 .. Len(s) /\ 1 - 1 = 0
            BY <1>7, <2>2
        <3>2. 1 \in Good
            BY <1>8, <1>9, <3>1
        <3>3. \A i \in 2 .. Len(s) : i - 1 \in Good => i \in Good
            <4> SUFFICES ASSUME NEW i \in 2 .. Len(s), i - 1 \in Good PROVE i \in Good
                OBVIOUS
            <4>1. i \in 1 .. Len(s)
                OBVIOUS
            <4> QED
                BY <1>9, <4>1
        <3> HIDE DEF Good
        <3>4. Len(s) \in Good
            BY <1>7, <3>1, <3>2, <3>3, UpTo
        <3> QED
            BY <3>4 DEF Good
    <2> QED
        BY <2>1, <2>2
<1>11. First(Len(s)) = Held(bs)
    BY <1>5 DEF Elements
<1> QED
    BY <1>7, <1>10, <1>11

\* Folding by counting: how many entries the first chains have.
CountIn(c, n, chain) == n + Len(chain)
CountSteps == INSTANCE SequenceFolds WITH Op <- CountIn

Counts(P, cs) == P[0] = 0 /\ \A i \in 1 .. Len(cs) : P[i] = P[i - 1] + Len(cs[i])

LEMMA FoldOfLengths ==
    ASSUME NEW cs \in Seq(Seq(Entries))
    PROVE  \E P : /\ Counts(P, cs)
                  /\ FoldLeft(LAMBDA n, chain : n + Len(chain), 0, cs) = P[Len(cs)]
<1> DEFINE A == Nat
<1>1. CountSteps!Keeps(NULL, A, Seq(Entries)) /\ 0 \in A
    BY DEF CountSteps!Keeps, CountIn
<1>2. CountSteps!Fold(NULL, 0, cs) = FoldLeft(LAMBDA n, chain : n + Len(chain), 0, cs)
    BY DEF CountSteps!Fold, CountSteps!FoldLeft, CountSteps!MapThenFoldSet, CountSteps!Max,
           FoldLeft, MapThenFoldSet, Max, CountIn
<1> HIDE DEF A
<1>3. PICK P \in [0 .. Len(cs) -> A] :
        CountSteps!Steps(P, NULL, 0, cs) /\ CountSteps!Fold(NULL, 0, cs) = P[Len(cs)]
    BY <1>1, CountSteps!Partial
<1>4. Counts(P, cs)
    BY <1>3 DEF Counts, CountSteps!Steps, CountIn
<1> QED
    BY <1>2, <1>3, <1>4

\* A chain has as many entries as places.
LEMMA ChainLength ==
    ASSUME NEW s \in Seq(Entries), OncePerKey(s)
    PROVE  IsFiniteSet(Elements(s)) /\ Cardinality(Elements(s)) = Len(s)
<1> DEFINE f == [i \in 1 .. Len(s) |-> s[i]]
<1>1. Len(s) \in Nat
    OBVIOUS
<1>2. f \in Bijection(1 .. Len(s), Elements(s))
    <2>1. f \in [1 .. Len(s) -> Elements(s)] /\ \A e \in Elements(s) : \E i \in 1 .. Len(s) : f[i] = e
        BY DEF Elements
    <2>2. \A i, j \in 1 .. Len(s) : f[i] = f[j] => i = j
        BY DEF OncePerKey
    <2> HIDE DEF f
    <2> QED
        BY <2>1, <2>2 DEF Bijection, Injection, IsInjective, Surjection
<1>3. IsFiniteSet(1 .. Len(s)) /\ Cardinality(1 .. Len(s)) = Len(s)
    BY <1>1, FS_Interval
<1> QED
    BY <1>2, <1>3, FS_Bijection DEF ExistsBijection

\* The lengths of the chains add up to what is in the buckets.
LEMMA StoredCount ==
    ASSUME NEW bs, NEW n, InBuckets(bs, n)
    PROVE  /\ IsFiniteSet(Held(bs))
           /\ FoldLeft(LAMBDA m, chain : m + Len(chain), 0, [i \in 1 .. n |-> bs[i - 1]])
                = Cardinality(Held(bs))
<1> DEFINE cs == [i \in 1 .. n |-> bs[i - 1]]
<1>1. /\ n \in Nat /\ n # 0 /\ DOMAIN bs = 0 .. n - 1
      /\ \A b \in 0 .. n - 1 : bs[b] \in Seq(Entries) /\ OncePerKey(bs[b])
      /\ \A b \in 0 .. n - 1 : Elements(bs[b]) = {e \in Held(bs) : Hash[e.key] % n = b}
    BY BucketFacts
<1>2. cs \in Seq(Seq(Entries)) /\ Len(cs) = n /\ \A i \in 1 .. n : cs[i] = bs[i - 1]
    BY <1>1
<1> HIDE DEF cs
<1>3. PICK P : /\ Counts(P, cs)
               /\ FoldLeft(LAMBDA m, chain : m + Len(chain), 0, cs) = P[Len(cs)]
    BY <1>2, FoldOfLengths
<1> DEFINE In(i) == {e \in Held(bs) : Hash[e.key] % n < i}
           Fits(i) == IsFiniteSet(In(i)) /\ P[i] = Cardinality(In(i))
           Good == {i \in 1 .. n : Fits(i)}
<1>4. \A e \in Held(bs) : Hash[e.key] % n \in 0 .. n - 1
    BY <1>1 DEF Held
<1>5. Fits(0)
    <2>1. In(0) = {}
        BY <1>4
    <2> HIDE DEF In
    <2> QED
        BY <1>3, <2>1, FS_EmptySet DEF Counts
<1>6. ASSUME NEW i \in 1 .. n, Fits(i - 1) PROVE Fits(i)
    <2>1. i - 1 \in 0 .. n - 1 /\ cs[i] = bs[i - 1]
        BY <1>1, <1>2
    <2>2. IsFiniteSet(Elements(cs[i])) /\ Cardinality(Elements(cs[i])) = Len(cs[i])
        BY <1>1, <2>1, ChainLength
    <2>3. In(i) = In(i - 1) \cup Elements(cs[i]) /\ In(i - 1) \cap Elements(cs[i]) = {}
        <3>1. \A h \in 0 .. n - 1 : (h < i <=> h < i - 1 \/ h = i - 1) /\ ~ (h < i - 1 /\ h = i - 1)
            BY <1>1
        <3>2. Elements(cs[i]) = {e \in Held(bs) : Hash[e.key] % n = i - 1}
            BY <1>1, <2>1
        <3> QED
            BY <1>4, <3>1, <3>2
    <2>4. P[i] = P[i - 1] + Len(cs[i])
        BY <1>2, <1>3 DEF Counts
    <2> HIDE DEF In
    <2>5. IsFiniteSet(In(i - 1)) /\ P[i - 1] = Cardinality(In(i - 1))
        BY <1>6
    <2>6. /\ IsFiniteSet(In(i - 1) \cup Elements(cs[i]))
          /\ Cardinality(In(i - 1) \cup Elements(cs[i]))
                = Cardinality(In(i - 1)) + Cardinality(Elements(cs[i])) - Cardinality({})
        BY <2>2, <2>3, <2>5, FS_Union
    <2>7. Cardinality(In(i - 1)) \in Nat /\ Cardinality(Elements(cs[i])) \in Nat /\ Cardinality({}) = 0
        BY <2>2, <2>5, FS_CardinalityType, FS_EmptySet
    <2> QED
        BY <2>2, <2>3, <2>4, <2>5, <2>6, <2>7
<1> HIDE DEF Fits
<1>7. n \in Good
    <2>1. 1 \in 1 .. n /\ n \in 1 .. n /\ 1 - 1 = 0
        BY <1>1
    <2>2. 1 \in Good
        BY <1>5, <1>6, <2>1
    <2>3. \A i \in 2 .. n : i - 1 \in Good => i \in Good
        BY <1>6
    <2> HIDE DEF Good
    <2> QED
        BY <1>1, <2>1, <2>2, <2>3, UpTo
<1>8. In(n) = Held(bs)
    BY <1>1, <1>4
<1> QED
    BY <1>2, <1>3, <1>7, <1>8 DEF Fits, cs

\* The value that entries give a key, and the map they make.
ValueAmong(es) == IF es = {} THEN NULL ELSE (CHOOSE e \in es : TRUE).value
ValueOf(k, es) == ValueAmong({e \in es : e.key = k})
Mapped(es) == [k \in Keys |-> ValueOf(k, es)]

\* Looking a key up in any buckets.
ValueIn(k, bs) ==
    LET i == Position(k, bs) IN IF i = 0 THEN NULL ELSE bs[Index(k, bs)][i].value

LEMMA ValueFacts ==
    ASSUME NEW bs, NEW n, InBuckets(bs, n), NEW k \in Keys
    PROVE  /\ ValueIn(k, bs) = ValueOf(k, Held(bs))
           /\ Position(k, bs) = 0 <=> ValueIn(k, bs) = NULL
           /\ Position(k, bs) = 0 <=> \A e \in Held(bs) : e.key # k
<1>1. PICK b, i : Found(k, bs, n, b, i)
    BY FoundFacts
<1>2. Held(bs) \subseteq Entries /\ \A e \in Entries : e.value # NULL
    BY BucketFacts, HashMapAssumption DEF Entries
<1>3. ValueIn(k, bs) = IF i = 0 THEN NULL ELSE bs[b][i].value
    BY <1>1 DEF ValueIn, Found
<1>4. CASE i = 0
    <2>1. {e \in Held(bs) : e.key = k} = {}
        BY <1>1, <1>4 DEF Found
    <2> QED
        BY <1>1, <1>3, <1>4, <2>1 DEF Found, ValueOf, ValueAmong
<1>5. CASE i # 0
    <2>1. {e \in Held(bs) : e.key = k} = {bs[b][i]}
        BY <1>1, <1>5 DEF Found
    <2> QED
        BY <1>1, <1>2, <1>3, <1>5, <2>1 DEF Found, ValueOf, ValueAmong
<1> QED
    BY <1>4, <1>5

\* What the changes do to the map.
LEMMA MappedFacts ==
    ASSUME NEW es \in SUBSET Entries
    PROVE  /\ \A e \in Entries : Mapped(Replaced(es, e)) = [Mapped(es) EXCEPT ![e.key] = e.value]
           /\ \A k \in Keys : Mapped(Removed(es, k)) = [Mapped(es) EXCEPT ![k] = NULL]
           /\ Mapped({}) = [k \in Keys |-> NULL]
<1>1. ASSUME NEW e \in Entries, NEW k \in Keys
      PROVE  ValueOf(k, Replaced(es, e)) = IF k = e.key THEN e.value ELSE ValueOf(k, es)
    <2>1. CASE k = e.key
        <3>1. {f \in Replaced(es, e) : f.key = k} = {e}
            BY <2>1 DEF Replaced
        <3> QED
            BY <2>1, <3>1 DEF ValueOf, ValueAmong
    <2>2. CASE k # e.key
        <3>1. {f \in Replaced(es, e) : f.key = k} = {f \in es : f.key = k}
            BY <2>2 DEF Replaced
        <3> QED
            BY <2>2, <3>1 DEF ValueOf
    <2> QED
        BY <2>1, <2>2
<1>2. ASSUME NEW j \in Keys, NEW k \in Keys
      PROVE  ValueOf(k, Removed(es, j)) = IF k = j THEN NULL ELSE ValueOf(k, es)
    <2>1. CASE k = j
        <3>1. {f \in Removed(es, j) : f.key = k} = {}
            BY <2>1 DEF Removed
        <3> QED
            BY <2>1, <3>1 DEF ValueOf, ValueAmong
    <2>2. CASE k # j
        <3>1. {f \in Removed(es, j) : f.key = k} = {f \in es : f.key = k}
            BY <2>2 DEF Removed
        <3> QED
            BY <2>2, <3>1 DEF ValueOf
    <2> QED
        BY <2>1, <2>2
<1>3. \A k \in Keys : ValueOf(k, {}) = NULL
    <2>1. \A k \in Keys : {f \in {} : f.key = k} = {}
        OBVIOUS
    <2> QED
        BY <2>1 DEF ValueOf, ValueAmong
<1>4. \A e \in Entries : e.key \in Keys
    BY DEF Entries
<1> QED
    BY <1>1, <1>2, <1>3, <1>4 DEF Mapped

\* How many entries there are after them.
LEMMA CountFacts ==
    ASSUME NEW es \in SUBSET Entries, IsFiniteSet(es), \A e, f \in es : e.key = f.key => e = f,
           NEW k \in Keys, NEW v \in Values
    PROVE  /\ Cardinality(es) \in Nat
           /\ IsFiniteSet(Replaced(es, [key |-> k, value |-> v])) /\ IsFiniteSet(Removed(es, k))
           /\ Cardinality(Replaced(es, [key |-> k, value |-> v]))
                = IF ValueOf(k, es) = NULL THEN Cardinality(es) + 1 ELSE Cardinality(es)
           /\ ValueOf(k, es) # NULL => Cardinality(Removed(es, k)) = Cardinality(es) - 1
<1> DEFINE e == [key |-> k, value |-> v]
           rs == Removed(es, k)
<1>1. \A f \in Entries : f.value # NULL
    BY HashMapAssumption DEF Entries
<1>2. e \notin rs /\ Replaced(es, e) = rs \cup {e}
    BY DEF Removed, Replaced
<1>3. Cardinality(es) \in Nat
    BY FS_CardinalityType
<1>4. CASE ValueOf(k, es) = NULL
    <2>1. rs = es
        <3>1. {f \in es : f.key = k} = {}
            <4>1. ASSUME {f \in es : f.key = k} # {} PROVE FALSE
                <5>1. (CHOOSE f \in {f \in es : f.key = k} : TRUE) \in es
                    BY <4>1
                <5> QED
                    BY <1>1, <1>4, <4>1, <5>1 DEF ValueOf, ValueAmong
            <4> QED
                BY <4>1
        <3> QED
            BY <3>1 DEF Removed
    <2> HIDE DEF rs, e
    <2>2. IsFiniteSet(rs \cup {e}) /\ Cardinality(rs \cup {e}) = Cardinality(es) + 1
        BY <1>2, <2>1, FS_AddElement
    <2> QED
        BY <1>2, <1>3, <1>4, <2>1, <2>2 DEF rs, e
<1>5. CASE ValueOf(k, es) # NULL
    <2>1. PICK f \in es : f.key = k
        <3>1. {f \in es : f.key = k} # {}
            BY <1>5 DEF ValueOf, ValueAmong
        <3> QED
            BY <3>1
    <2>2. rs = es \ {f}
        BY <2>1 DEF Removed
    <2> HIDE DEF rs, e
    <2>3. IsFiniteSet(rs) /\ Cardinality(rs) = Cardinality(es) - 1
        BY <2>1, <2>2, FS_RemoveElement
    <2>4. IsFiniteSet(rs \cup {e}) /\ Cardinality(rs \cup {e}) = (Cardinality(es) - 1) + 1
        BY <1>2, <2>3, FS_AddElement
    <2>5. Cardinality(rs \cup {e}) = Cardinality(es)
        BY <1>3, <2>4
    <2> QED
        BY <1>2, <1>3, <1>5, <2>3, <2>4, <2>5 DEF rs, e
<1> QED
    BY <1>4, <1>5

\* The invariant: the size is the number of entries, and the copies are theirs.
MapInv ==
    /\ \E n : InBuckets(buckets, n)
    /\ size = Cardinality(Held(buckets))
    /\ memory = [keys |-> size, values |-> size, entries |-> size]

\* What a caller sees of the buckets.
Present == Held(buckets)

PresentFacts ==
    /\ Present \in SUBSET Entries /\ IsFiniteSet(Present) /\ size \in Nat
    /\ \A e, f \in Present : e.key = f.key => e = f
    /\ InBuckets(buckets, BucketsSize) /\ BucketsSize \in Nat \ {0}
    /\ [k \in Keys |-> Lookup(k)] = Mapped(Present)
    /\ \A k \in Keys : Lookup(k) = ValueOf(k, Present)
    /\ \A k \in Keys : Position(k, buckets) = 0 <=> Lookup(k) = NULL
    /\ \A k \in Keys : Lookup(k) = NULL <=> \A e \in Present : e.key # k

LEMMA InvPresent == MapInv => PresentFacts
<1> SUFFICES ASSUME MapInv PROVE PresentFacts
    OBVIOUS
<1>1. PICK n : InBuckets(buckets, n)
    BY DEF MapInv
<1>2. /\ Present \in SUBSET Entries /\ BucketsSize = n /\ n \in Nat \ {0}
      /\ \A e, f \in Present : e.key = f.key => e = f
    BY <1>1, BucketFacts DEF Present, BucketsSize
<1>3. IsFiniteSet(Present) /\ size \in Nat
    BY <1>1, StoredCount, FS_CardinalityType DEF Present, MapInv
<1>4. ASSUME NEW k \in Keys
      PROVE  /\ Lookup(k) = ValueOf(k, Present)
             /\ Position(k, buckets) = 0 <=> Lookup(k) = NULL
             /\ Lookup(k) = NULL <=> \A e \in Present : e.key # k
    <2>1. Lookup(k) = ValueIn(k, buckets)
        BY DEF Lookup, ValueIn
    <2> QED
        BY <1>1, <2>1, ValueFacts DEF Present
<1>5. [k \in Keys |-> Lookup(k)] = Mapped(Present)
    BY <1>4 DEF Mapped
<1> QED
    BY <1>1, <1>2, <1>3, <1>4, <1>5 DEF PresentFacts

\* What a call makes of the content, when it counts what it adds and removes.
Becomes(es) ==
    /\ \E n : Holding(buckets', n, es)
    /\ size' = Cardinality(es)
    /\ memory' = [keys |-> size', values |-> size', entries |-> size']

LEMMA Outcome ==
    ASSUME NEW es, Becomes(es)
    PROVE  MapInv' /\ [k \in Keys |-> Lookup(k)]' = Mapped(es)
<1>1. PICK n : Holding(buckets', n, es)
    BY DEF Becomes
<1>2. MapInv'
    BY <1>1 DEF Becomes, Holding, MapInv
<1>3. Present' = es
    BY <1>1 DEF Holding, Present
<1>4. PresentFacts'
    BY <1>2, InvPresent, PTL
<1> QED
    BY <1>2, <1>3, <1>4 DEF PresentFacts

\* A step that leaves the buckets alone.
LEMMA NothingMoves ==
    ASSUME MapInv, UNCHANGED <<buckets, size, memory>>
    PROVE  MapInv' /\ UNCHANGED [k \in Keys |-> Lookup(k)]
BY DEF MapInv, Lookup

\* However far the buckets have grown before the entry is put.
LEMMA GrownHolds ==
    ASSUME PresentFacts, NEW bs \in Grown
    PROVE  \E m : Holding(bs, m, Present)
<1>1. CASE bs = buckets
    BY <1>1 DEF PresentFacts, Present, Holding
<1>2. CASE bs = Rehash(buckets, 2 * BucketsSize)
    <2>1. 2 * BucketsSize \in Nat \ {0}
        BY DEF PresentFacts
    <2> QED
        BY <1>2, <2>1, RehashHolds DEF PresentFacts, Present
<1> QED
    BY <1>1, <1>2 DEF Grown

LEMMA PutKeeps ==
    ASSUME MapInv, NEW k \in Keys, NEW v \in Values, PutReplace(k, v) \/ PutInsert(k, v)
    PROVE  MapInv' /\ Map!Put(k, v)
<1> DEFINE e == [key |-> k, value |-> v]
<1>1. PresentFacts
    BY InvPresent
<1>2. e \in Entries /\ e.key = k /\ e.value = v
    BY DEF Entries
<1>3. PICK bs \in Grown : buckets' = PutInternal(bs, e)
    BY DEF PutReplace, PutInsert
<1>4. PICK m : Holding(bs, m, Present)
    BY <1>1, <1>3, GrownHolds
<1>5. Holding(buckets', m, Replaced(Present, e))
    BY <1>2, <1>3, <1>4, PutHolds DEF Holding
<1>6. /\ Cardinality(Present) = size /\ Lookup(k) = ValueOf(k, Present)
      /\ [j \in Keys |-> Lookup(j)] = Mapped(Present)
    BY <1>1 DEF PresentFacts, MapInv, Present
<1>7. Cardinality(Replaced(Present, e)) = IF Lookup(k) = NULL THEN size + 1 ELSE size
    <2>1. Cardinality(Replaced(Present, e))
            = IF ValueOf(k, Present) = NULL THEN Cardinality(Present) + 1 ELSE Cardinality(Present)
        BY <1>1, CountFacts DEF PresentFacts
    <2> HIDE DEF e
    <2> QED
        BY <1>6, <2>1
<1> HIDE DEF e
<1>8. /\ size' = Cardinality(Replaced(Present, e))
      /\ memory' = [keys |-> size', values |-> size', entries |-> size']
    BY <1>7 DEF PutReplace, PutInsert, Allocate, MapInv
<1>9. Becomes(Replaced(Present, e))
    BY <1>5, <1>8 DEF Becomes
<1>10. MapInv' /\ [j \in Keys |-> Lookup(j)]' = Mapped(Replaced(Present, e))
    BY <1>9, Outcome
<1>11. Mapped(Replaced(Present, e)) = [Mapped(Present) EXCEPT ![k] = v]
    BY <1>1, <1>2, MappedFacts DEF PresentFacts
<1> QED
    BY <1>6, <1>10, <1>11 DEF Map!Put, PutReplace, PutInsert

LEMMA PutFailsKeeps ==
    ASSUME MapInv, PutNoCopy \/ \E k \in Keys : PutNoEntry(k)
    PROVE  MapInv' /\ Map!PutFails
<1>1. CASE PutNoCopy
    BY <1>1, NothingMoves DEF PutNoCopy, Map!PutFails
<1>2. ASSUME NEW k \in Keys, PutNoEntry(k) PROVE MapInv' /\ Map!PutFails
    <2>1. PresentFacts
        BY InvPresent
    <2>2. PICK m : Holding(buckets', m, Present)
        BY <1>2, <2>1, GrownHolds DEF PutNoEntry
    <2>3. Becomes(Present)
        BY <1>2, <2>2 DEF Becomes, PutNoEntry, MapInv, Present
    <2> QED
        BY <1>2, <2>1, <2>3, Outcome DEF PresentFacts, PutNoEntry, Map!PutFails
<1> QED
    BY <1>1, <1>2

LEMMA GetKeeps ==
    ASSUME MapInv, NEW k \in Keys, GetKey(k) \/ GetDup(k)
    PROVE  MapInv' /\ (Map!Get(k) \/ Map!GetDup(k))
<1>1. PresentFacts
    BY InvPresent
<1>2. \E m : Holding(buckets', m, Present)
    <2>1. CASE Lookup(k) = NULL
        BY <1>1, <2>1 DEF GetKey, GetDup, PresentFacts, Present, Holding
    <2>2. CASE Lookup(k) # NULL
        BY <1>1, <2>2, MoveHolds DEF GetKey, GetDup, PresentFacts, Present
    <2> QED
        BY <2>1, <2>2
<1>3. Becomes(Present)
    BY <1>2 DEF Becomes, GetKey, GetDup, MapInv, Present
<1>4. MapInv' /\ [j \in Keys |-> Lookup(j)]' = [j \in Keys |-> Lookup(j)]
    BY <1>1, <1>3, Outcome DEF PresentFacts
<1> QED
    BY <1>4 DEF GetKey, GetDup, Map!Get, Map!GetDup

LEMMA TakeKeeps ==
    ASSUME MapInv, NEW k \in Keys, Take(k) \/ RemoveKey(k)
    PROVE  MapInv' /\ (Map!Take(k) \/ Map!Remove(k))
<1>1. PresentFacts
    BY InvPresent
<1>2. MapInv' /\ [j \in Keys |-> Lookup(j)]' = [[j \in Keys |-> Lookup(j)] EXCEPT ![k] = NULL]
    <2>1. CASE Lookup(k) = NULL
        <3>1. UNCHANGED <<buckets, size, memory>>
            BY <2>1 DEF Take, RemoveKey
        <3>2. MapInv' /\ UNCHANGED [j \in Keys |-> Lookup(j)]
            BY <3>1, NothingMoves
        <3>3. [j \in Keys |-> Lookup(j)] = [[j \in Keys |-> Lookup(j)] EXCEPT ![k] = NULL]
            BY <2>1
        <3> QED
            BY <3>2, <3>3
    <2>2. CASE Lookup(k) # NULL
        <3>1. Position(k, buckets) # 0
            BY <1>1, <2>2 DEF PresentFacts
        <3>2. Holding(Delete(k, buckets), BucketsSize, Removed(Present, k))
            BY <1>1, <3>1, MoveHolds DEF PresentFacts, Present
        <3>4. Cardinality(Removed(Present, k)) = size - 1 /\ size - 1 \in Nat
            <4>1. PICK e \in Present : e.key = k
                BY <1>1, <2>2 DEF PresentFacts
            <4>2. e.value \in Values /\ Cardinality(Present) = size /\ ValueOf(k, Present) # NULL
                BY <1>1, <2>2, <4>1 DEF PresentFacts, Entries, MapInv, Present
            <4>3. Cardinality(Removed(Present, k)) = size - 1 /\ IsFiniteSet(Removed(Present, k))
                BY <1>1, <4>2, CountFacts DEF PresentFacts
            <4> QED
                BY <4>3, FS_CardinalityType
        <3>3. \E m : Holding(buckets', m, Removed(Present, k))
            <4>1. CASE buckets' = Delete(k, buckets)
                BY <3>2, <4>1
            <4>2. ASSUME NEW n \in Shrunk(size - 1), buckets' = Rehash(Delete(k, buckets), n)
                  PROVE  Holding(buckets', n, Removed(Present, k))
                <5>1. n \in Nat \ {0}
                    BY <1>1, <3>4 DEF Shrunk, PresentFacts
                <5> QED
                    BY <3>2, <4>2, <5>1, RehashHolds DEF Holding
            <4> QED
                BY <2>2, <4>1, <4>2 DEF Take, RemoveKey
        <3>5. /\ size' = size - 1
              /\ memory' = [keys |-> memory.keys + -1, values |-> memory.values + -1,
                            entries |-> memory.entries + -1]
            BY <2>2 DEF Take, RemoveKey, Allocate
        <3>6. Becomes(Removed(Present, k))
            BY <1>1, <3>3, <3>4, <3>5 DEF Becomes, MapInv, PresentFacts
        <3>7. MapInv' /\ [j \in Keys |-> Lookup(j)]' = Mapped(Removed(Present, k))
            BY <3>6, Outcome
        <3> QED
            BY <1>1, <3>7, MappedFacts DEF PresentFacts
    <2> QED
        BY <2>1, <2>2
<1> QED
    BY <1>2 DEF Take, RemoveKey, Map!Take, Map!Remove

LEMMA ClearKeepsMap ==
    ASSUME MapInv, ClearMap \/ Recreate
    PROVE  MapInv' /\ Map!Clear
<1>1. PresentFacts
    BY InvPresent
<1>2. \E m : Holding(buckets', m, {})
    BY <1>1, EmptyHolds, HashMapAssumption DEF ClearMap, Recreate, PresentFacts
<1>3. size' = 0 /\ memory' = [keys |-> 0, values |-> 0, entries |-> 0]
    <2>1. size + (- size) = 0
        BY <1>1 DEF PresentFacts
    <2> QED
        BY <2>1 DEF ClearMap, Recreate, Allocate, MapInv
<1>4. Becomes({})
    BY <1>2, <1>3, FS_EmptySet DEF Becomes
<1>5. MapInv' /\ [j \in Keys |-> Lookup(j)]' = Mapped({})
    BY <1>4, Outcome
<1> QED
    BY <1>5, MappedFacts DEF Map!Clear, ClearMap, Recreate

LEMMA RestKeeps ==
    ASSUME MapInv,
           \/ \E k \in Keys : IsExists(k)
           \/ Size \/ IteratorStart \/ IteratorNext \/ IteratorDestroy \/ UNCHANGED mapVars
    PROVE  MapInv' /\ [Map!MapNext]_(Map!mapVars)
<1>1. PresentFacts
    BY InvPresent
<1>2. UNCHANGED <<buckets, size, memory>>
    BY DEF IsExists, Size, IteratorStart, StandAt, IteratorNext, IteratorDestroy, mapVars
<1>3. MapInv' /\ UNCHANGED [k \in Keys |-> Lookup(k)]
    BY <1>2, NothingMoves
<1>4. CASE Size
    <2>1. size = Cardinality({k \in Keys : Lookup(k) # NULL})
        <3> DEFINE T == {k \in Keys : Lookup(k) # NULL}
                   f == [e \in Present |-> e.key]
        <3>1. f \in [Present -> T] /\ \A k \in T : \E e \in Present : f[e] = k
            BY <1>1 DEF PresentFacts, Entries
        <3>2. \A d, e \in Present : f[d] = f[e] => d = e
            BY <1>1 DEF PresentFacts
        <3> HIDE DEF f, T
        <3>3. f \in Bijection(Present, T)
            BY <3>1, <3>2 DEF Bijection, Injection, IsInjective, Surjection
        <3>4. Cardinality(T) = Cardinality(Present)
            BY <1>1, <3>3, FS_Bijection DEF PresentFacts, ExistsBijection
        <3> QED
            BY <3>4 DEF T, MapInv, Present
    <2>2. Map!Stored = {k \in Keys : Lookup(k) # NULL}
        BY DEF Map!Stored
    <2>3. Map!Size
        <3>1. Map!Cardinality(Map!Stored) = Cardinality(Map!Stored)
            BY DEF Cardinality, Map!Cardinality
        <3> QED
            BY <1>3, <1>4, <2>1, <2>2, <3>1 DEF Size, Map!Size
    <2> QED
        BY <1>3, <2>3 DEF Map!MapNext
<1>5. ASSUME NEW k \in Keys, IsExists(k) PROVE MapInv' /\ [Map!MapNext]_(Map!mapVars)
    <2>1. Map!IsExists(k)
        BY <1>3, <1>5 DEF IsExists, Map!IsExists
    <2> QED
        BY <1>3, <2>1 DEF Map!MapNext
<1>6. CASE IteratorStart \/ IteratorNext \/ IteratorDestroy \/ UNCHANGED mapVars
    <2>1. UNCHANGED answer
        BY <1>6 DEF IteratorStart, StandAt, IteratorNext, IteratorDestroy, mapVars
    <2> QED
        BY <1>3, <2>1 DEF Map!mapVars
<1> QED
    BY <1>4, <1>5, <1>6

LEMMA MapStepKeeps == MapInv /\ [MapNext]_mapVars => MapInv' /\ [Map!MapNext]_(Map!mapVars)
<1> SUFFICES ASSUME MapInv, [MapNext]_mapVars PROVE MapInv' /\ [Map!MapNext]_(Map!mapVars)
    OBVIOUS
<1>1. ASSUME NEW k \in Keys, NEW v \in Values, PutReplace(k, v) \/ PutInsert(k, v)
      PROVE  MapInv' /\ [Map!MapNext]_(Map!mapVars)
    BY <1>1, PutKeeps DEF Map!MapNext
<1>2. CASE PutNoCopy \/ \E k \in Keys : PutNoEntry(k)
    BY <1>2, PutFailsKeeps DEF Map!MapNext
<1>3. ASSUME NEW k \in Keys, GetKey(k) \/ GetDup(k) PROVE MapInv' /\ [Map!MapNext]_(Map!mapVars)
    BY <1>3, GetKeeps DEF Map!MapNext
<1>4. ASSUME NEW k \in Keys, Take(k) \/ RemoveKey(k) PROVE MapInv' /\ [Map!MapNext]_(Map!mapVars)
    BY <1>4, TakeKeeps DEF Map!MapNext
<1>5. CASE ClearMap \/ Recreate
    BY <1>5, ClearKeepsMap DEF Map!MapNext
<1>6. CASE \/ \E k \in Keys : IsExists(k)
           \/ Size \/ IteratorStart \/ IteratorNext \/ IteratorDestroy \/ UNCHANGED mapVars
    BY <1>6, RestKeeps
<1> QED
    BY <1>1, <1>2, <1>3, <1>4, <1>5, <1>6 DEF MapNext

LEMMA MapInitInv == MapInit => MapInv /\ Map!MapInit
<1> SUFFICES ASSUME MapInit PROVE MapInv /\ Map!MapInit
    OBVIOUS
<1>1. Holding(buckets, InitBuckets, {})
    BY EmptyHolds, HashMapAssumption DEF MapInit
<1>2. MapInv
    BY <1>1, FS_EmptySet DEF MapInit, MapInv, Holding
<1>3. [k \in Keys |-> Lookup(k)] = [k \in Keys |-> NULL]
    BY <1>1, <1>2, InvPresent, MappedFacts DEF PresentFacts, Present, Holding
<1> QED
    BY <1>2, <1>3 DEF MapInit, Map!MapInit

\* The map implements the one of its callers: however the buckets are split,
\* merged and reordered, and whatever allocation fails, each call answers as a
\* map would, and size counts the keys (clog_hashmap.c).
THEOREM MapIsMap == HashMapSpec => ImplementsMap
<1>1. MapInit => MapInv /\ Map!MapInit
    BY MapInitInv
<1>2. MapInv /\ [MapNext]_mapVars => MapInv' /\ [Map!MapNext]_(Map!mapVars)
    BY MapStepKeeps
<1> QED
    BY <1>1, <1>2, PTL DEF HashMapSpec, ImplementsMap, Map!MapSpec

LEMMA InvOwns == MapInv => OwnsItsCopies
<1> SUFFICES ASSUME MapInv PROVE OwnsItsCopies
    OBVIOUS
<1>1. InBuckets(buckets, BucketsSize)
    BY InvPresent DEF PresentFacts
<1>2. FoldLeft(LAMBDA n, chain : n + Len(chain), 0, [i \in 1 .. BucketsSize |-> buckets[i - 1]])
        = Cardinality(Held(buckets))
    BY <1>1, StoredCount
<1> QED
    BY <1>2 DEF OwnsItsCopies, MapInv

\* Entry by entry the map owns a copy of a key and of a value and nothing else.
THEOREM MapOwnsItsCopies == HashMapSpec => []OwnsItsCopies
<1>1. MapInit => MapInv
    BY MapInitInv
<1>2. MapInv /\ [MapNext]_mapVars => MapInv'
    BY MapStepKeeps
<1> QED
    BY <1>1, <1>2, InvOwns, PTL DEF HashMapSpec

\* The keys of the buckets before b, and of the first i entries of b.
Passed(bs, n, b, i) ==
    {e.key : e \in {f \in Held(bs) : Hash[f.key] % n < b}} \cup {bs[b][j].key : j \in 1 .. i}

\* The iterator it stood at the keys s, each of them once: all there are, or
\* those up to the entry at which it stands.
IterStands(it, b, j, bs, n) ==
    /\ b \in 0 .. n - 1 /\ j \in 1 .. Len(bs[b])
    /\ it = [bucket |-> b, at |-> bs[b][j].key, valid |-> it.valid]
Walked(it, bs, n, s) ==
    /\ s \in Seq(Keys) /\ IsInjective(s)
    /\ \/ it.at = NULL /\ Range(s) = {e.key : e \in Held(bs)}
       \/ \E b, j : IterStands(it, b, j, bs, n) /\ Range(s) = Passed(bs, n, b, j)

IterInv == MapInv /\ (seen # NULL => \E n : InBuckets(buckets, n) /\ Walked(iter, buckets, n, seen))

\* A key that is added to those seen.
LEMMA SeenOneMore ==
    ASSUME NEW s \in Seq(Keys), IsInjective(s), NEW k \in Keys, k \notin Range(s)
    PROVE  /\ Append(s, k) \in Seq(Keys) /\ IsInjective(Append(s, k))
           /\ Range(Append(s, k)) = Range(s) \cup {k}
<1> DEFINE r == Append(s, k)
<1>1. /\ Len(s) \in Nat /\ DOMAIN s = 1 .. Len(s) /\ r \in Seq(Keys)
      /\ DOMAIN r = 1 .. Len(s) + 1 /\ r[Len(s) + 1] = k
      /\ \A i \in 1 .. Len(s) : r[i] = s[i]
    OBVIOUS
<1> HIDE DEF r
<1>2. \A i \in DOMAIN r : i \in 1 .. Len(s) \/ i = Len(s) + 1
    BY <1>1
<1>3. IsInjective(r)
    BY <1>1, <1>2 DEF IsInjective, Range
<1>4. 1 .. Len(s) \subseteq DOMAIN r /\ Len(s) + 1 \in DOMAIN r
    BY <1>1
<1>5. Range(r) = Range(s) \cup {k}
    BY <1>1, <1>2, <1>4 DEF Range
<1> QED
    BY <1>1, <1>3, <1>5 DEF r

\* Where an entry is.
LEMMA PlaceOf ==
    ASSUME NEW bs, NEW n, InBuckets(bs, n), NEW b \in 0 .. n - 1, NEW j \in 1 .. Len(bs[b])
    PROVE  /\ bs[b][j].key \in Keys /\ bs[b][j] \in Held(bs) /\ Hash[bs[b][j].key] % n = b
           /\ Position(bs[b][j].key, bs) = j
<1> DEFINE e == bs[b][j]
<1>1. /\ n \in Nat /\ bs[b] \in Seq(Entries) /\ OncePerKey(bs[b])
      /\ Elements(bs[b]) = {f \in Held(bs) : Hash[f.key] % n = b}
    BY BucketFacts
<1>2. e \in Elements(bs[b]) /\ e \in Entries
    BY <1>1 DEF Elements
<1>3. e.key \in Keys /\ e \in Held(bs) /\ Hash[e.key] % n = b
    BY <1>1, <1>2 DEF Entries
<1>4. PICK c, i : Found(e.key, bs, n, c, i)
    BY <1>3, FoundFacts
<1>5. c = b /\ i # 0 /\ i \in 1 .. Len(bs[b]) /\ bs[b][i].key = e.key /\ i = Position(e.key, bs)
    <2>1. c = b /\ i = Position(e.key, bs) /\ i \in 0 .. Len(bs[c])
        BY <1>3, <1>4 DEF Found
    <2>2. i # 0
        BY <1>3, <1>4 DEF Found
    <2>3. bs[c][i].key = e.key
        BY <1>4, <2>2 DEF Found
    <2> QED
        BY <1>1, <2>1, <2>2, <2>3
<1>6. i = j
    BY <1>5 DEF OncePerKey, InBuckets, ChainOf
<1> QED
    BY <1>3, <1>5, <1>6

\* Where the next entry is when the first i buckets have been passed.
LEMMA FirstFacts ==
    ASSUME NEW n, InBuckets(buckets, n), NEW i \in 0 .. n
    PROVE  \/ FirstFrom(i).at = NULL /\ Passed(buckets, n, i, 0) = {e.key : e \in Held(buckets)}
           \/ \E b : /\ IterStands(FirstFrom(i), b, 1, buckets, n)
                     /\ FirstFrom(i).at \in Keys \ Passed(buckets, n, i, 0)
                     /\ Passed(buckets, n, b, 1) = Passed(buckets, n, i, 0) \cup {FirstFrom(i).at}
<1> DEFINE full == {b \in i .. BucketsSize - 1 : buckets[b] # <<>>}
<1>1. /\ n \in Nat /\ n # 0 /\ BucketsSize = n /\ DOMAIN buckets = 0 .. n - 1
      /\ \A b \in 0 .. n - 1 : buckets[b] \in Seq(Entries)
      /\ \A b \in 0 .. n - 1 : Elements(buckets[b]) = {e \in Held(buckets) : Hash[e.key] % n = b}
    BY BucketFacts DEF BucketsSize
<1>2. \A e \in Held(buckets) : /\ Hash[e.key] % n \in 0 .. n - 1
                               /\ e \in Elements(buckets[Hash[e.key] % n])
    BY <1>1 DEF Held
<1>3. \A b \in 0 .. n - 1 : buckets[b] = <<>> => Elements(buckets[b]) = {}
    BY DEF Elements
<1>4. \A e \in Held(buckets) : Hash[e.key] % n >= i => Hash[e.key] % n \in full
    BY <1>1, <1>2, <1>3
<1>5. CASE full = {}
    <2>1. FirstFrom(i).at = NULL
        BY <1>5 DEF FirstFrom
    <2>2. \A e \in Held(buckets) : Hash[e.key] % n < i
        BY <1>2, <1>4, <1>5
    <2>3. Passed(buckets, n, i, 0) = {e.key : e \in Held(buckets)}
        BY <2>2 DEF Passed
    <2> QED
        BY <2>1, <2>3
<1>6. CASE full # {}
    <2>1. full \in SUBSET Nat
        OBVIOUS
    <2>2. \E b \in full : \A l \in full : b <= l
        BY <1>6, <2>1, LeastOf
    <2> DEFINE b == CHOOSE c \in full : \A l \in full : c <= l
    <2>3. b \in full /\ \A l \in full : b <= l
        BY <2>2
    <2>4. FirstFrom(i) = [bucket |-> b, at |-> Head(buckets[b]).key, valid |-> TRUE]
        BY <1>6 DEF FirstFrom
    <2> HIDE DEF b
    <2>5. b \in 0 .. n - 1 /\ b >= i /\ buckets[b] # <<>>
        BY <1>1, <2>3
    <2>6. 1 \in 1 .. Len(buckets[b]) /\ Head(buckets[b]) = buckets[b][1]
        BY <1>1, <2>5
    <2>7. PICK k : k = buckets[b][1].key
        OBVIOUS
    <2>8. k \in Keys /\ Hash[k] % n = b
        BY <2>5, <2>6, <2>7, PlaceOf
    <2>9. FirstFrom(i).at = k /\ IterStands(FirstFrom(i), b, 1, buckets, n)
        BY <2>4, <2>5, <2>6, <2>7 DEF IterStands
    <2>10. \A e \in Held(buckets) : Hash[e.key] % n < i <=> Hash[e.key] % n < b
        <3> HIDE DEF full
        <3> QED
            BY <1>1, <1>2, <1>4, <2>3, <2>5
    <2>11. /\ Passed(buckets, n, i, 0) = {e.key : e \in {f \in Held(buckets) : Hash[f.key] % n < i}}
           /\ Passed(buckets, n, b, 1)
                = {e.key : e \in {f \in Held(buckets) : Hash[f.key] % n < b}} \cup {k}
        BY <2>7 DEF Passed
    <2>12. k \notin Passed(buckets, n, i, 0)
        <3>1. ASSUME NEW e \in Held(buckets), Hash[e.key] % n < i, e.key = k PROVE FALSE
            <4>1. b \in Nat /\ i \in Nat /\ b < i
                BY <1>1, <2>5, <2>8, <3>1
            <4> QED
                BY <2>5, <4>1
        <3> QED
            BY <2>11, <3>1
    <2>13. Passed(buckets, n, b, 1) = Passed(buckets, n, i, 0) \cup {k}
        BY <2>10, <2>11
    <2> QED
        BY <2>8, <2>9, <2>12, <2>13
<1> QED
    BY <1>5, <1>6

\* Going on from an entry: the next one of its chain, or the one after its bucket.
LEMMA PassedFacts ==
    ASSUME NEW bs, NEW n, InBuckets(bs, n), NEW b \in 0 .. n - 1, NEW j \in 1 .. Len(bs[b])
    PROVE  /\ j # Len(bs[b]) =>
                /\ bs[b][j + 1].key \in Keys \ Passed(bs, n, b, j)
                /\ Passed(bs, n, b, j + 1) = Passed(bs, n, b, j) \cup {bs[b][j + 1].key}
           /\ Passed(bs, n, b, Len(bs[b])) = Passed(bs, n, b + 1, 0)
<1>1. /\ n \in Nat /\ n # 0 /\ bs[b] \in Seq(Entries) /\ OncePerKey(bs[b])
      /\ Elements(bs[b]) = {e \in Held(bs) : Hash[e.key] % n = b}
      /\ DOMAIN bs = 0 .. n - 1
    BY BucketFacts
<1>2. \A e \in Held(bs) : Hash[e.key] % n \in 0 .. n - 1
    <2>1. \A c \in 0 .. n - 1 : Elements(bs[c]) = {e \in Held(bs) : Hash[e.key] % n = c}
        BY BucketFacts
    <2> QED
        BY <1>1, <2>1 DEF Held
<1>3. ASSUME j # Len(bs[b])
      PROVE  /\ bs[b][j + 1].key \in Keys \ Passed(bs, n, b, j)
             /\ Passed(bs, n, b, j + 1) = Passed(bs, n, b, j) \cup {bs[b][j + 1].key}
    <2>1. j + 1 \in 1 .. Len(bs[b]) /\ 1 .. j + 1 = (1 .. j) \cup {j + 1}
        BY <1>1, <1>3
    <2>2. bs[b][j + 1].key \in Keys /\ Hash[bs[b][j + 1].key] % n = b
        BY <2>1, PlaceOf
    <2>3. \A l \in 1 .. j : bs[b][l].key # bs[b][j + 1].key
        BY <1>1, <2>1 DEF OncePerKey
    <2>4. bs[b][j + 1].key \notin Passed(bs, n, b, j)
        BY <2>2, <2>3 DEF Passed
    <2>5. Passed(bs, n, b, j + 1) = Passed(bs, n, b, j) \cup {bs[b][j + 1].key}
        BY <2>1 DEF Passed
    <2> QED
        BY <2>2, <2>4, <2>5
<1>4. Passed(bs, n, b, Len(bs[b])) = Passed(bs, n, b + 1, 0)
    <2>1. \A h \in 0 .. n - 1 : h < b + 1 <=> h < b \/ h = b
        OBVIOUS
    <2>2. {bs[b][l].key : l \in 1 .. Len(bs[b])}
            = {e.key : e \in {f \in Held(bs) : Hash[f.key] % n = b}}
        BY <1>1 DEF Elements
    <2>3. /\ Passed(bs, n, b, Len(bs[b]))
                = {e.key : e \in {f \in Held(bs) : Hash[f.key] % n < b}}
                    \cup {e.key : e \in {f \in Held(bs) : Hash[f.key] % n = b}}
          /\ Passed(bs, n, b + 1, 0) = {e.key : e \in {f \in Held(bs) : Hash[f.key] % n < b + 1}}
        <3>1. 1 .. 0 = {}
            OBVIOUS
        <3>2. Passed(bs, n, b + 1, 0) = {e.key : e \in {f \in Held(bs) : Hash[f.key] % n < b + 1}}
            BY <3>1 DEF Passed
        <3>3. Passed(bs, n, b, Len(bs[b]))
                = {e.key : e \in {f \in Held(bs) : Hash[f.key] % n < b}}
                    \cup {bs[b][l].key : l \in 1 .. Len(bs[b])}
            BY DEF Passed
        <3> QED
            BY <2>2, <3>2, <3>3
    <2> QED
        BY <1>2, <2>1, <2>3
<1> QED
    BY <1>3, <1>4

\* Standing at one more key, or nowhere when there is none.
LEMMA StandKeeps ==
    ASSUME NEW n, InBuckets(buckets, n), NEW it, NEW before \in Seq(Keys), IsInjective(before),
           \/ it.at = NULL /\ Range(before) = {e.key : e \in Held(buckets)}
           \/ \E b, j : /\ IterStands(it, b, j, buckets, n)
                        /\ it.at \in Keys \ Range(before)
                        /\ Passed(buckets, n, b, j) = Range(before) \cup {it.at},
           StandAt(it, before)
    PROVE  InBuckets(buckets', n) /\ Walked(iter', buckets', n, seen')
<1>1. /\ buckets' = buckets /\ iter' = it
      /\ seen' = IF it.at = NULL THEN before ELSE Append(before, it.at)
    BY DEF StandAt
<1>2. CASE it.at = NULL /\ Range(before) = {e.key : e \in Held(buckets)}
    BY <1>1, <1>2 DEF Walked
<1>3. ASSUME NEW b, NEW j, IterStands(it, b, j, buckets, n), it.at \in Keys \ Range(before),
             Passed(buckets, n, b, j) = Range(before) \cup {it.at}
      PROVE  Walked(it, buckets, n, Append(before, it.at)) /\ it.at # NULL
    <2>1. it.at # NULL
        BY <1>3, HashMapAssumption
    <2>2. PICK k \in Keys : k = it.at
        BY <1>3
    <2>3. /\ Append(before, k) \in Seq(Keys) /\ IsInjective(Append(before, k))
          /\ Range(Append(before, k)) = Range(before) \cup {k}
        BY <1>3, <2>2, SeenOneMore
    <2> QED
        BY <1>3, <2>1, <2>2, <2>3 DEF Walked
<1> QED
    BY <1>1, <1>2, <1>3

LEMMA StartKeeps ==
    ASSUME IterInv, IteratorStart
    PROVE  \E n : InBuckets(buckets', n) /\ Walked(iter', buckets', n, seen')
<1>1. PICK n : InBuckets(buckets, n)
    BY DEF IterInv, MapInv
<1>2. n \in Nat /\ 0 \in 0 .. n
    BY <1>1 DEF InBuckets
<1>3. Passed(buckets, n, 0, 0) = {}
    <2>1. 1 .. 0 = {} /\ \A e \in Held(buckets) : ~ (Hash[e.key] % n < 0)
        <3>1. \A e \in Held(buckets) : Hash[e.key] \in Nat
            BY <1>1, BucketFacts, HashMapAssumption DEF Entries
        <3> QED
            BY <1>1, <3>1 DEF InBuckets
    <2> QED
        BY <2>1 DEF Passed
<1>4. <<>> \in Seq(Keys) /\ IsInjective(<<>>) /\ Range(<<>>) = {}
    BY DEF IsInjective, Range
<1>5. PICK it, s : it = FirstFrom(0) /\ s = <<>>
    OBVIOUS
<1>6. \/ it.at = NULL /\ Range(s) = {e.key : e \in Held(buckets)}
      \/ \E b, j : /\ IterStands(it, b, j, buckets, n)
                   /\ it.at \in Keys \ Range(s)
                   /\ Passed(buckets, n, b, j) = Range(s) \cup {it.at}
    <2>1. CASE it.at = NULL /\ Passed(buckets, n, 0, 0) = {e.key : e \in Held(buckets)}
        BY <1>3, <1>4, <1>5, <2>1
    <2>2. ASSUME NEW b, IterStands(it, b, 1, buckets, n), it.at \in Keys \ Passed(buckets, n, 0, 0),
                 Passed(buckets, n, b, 1) = Passed(buckets, n, 0, 0) \cup {it.at}
          PROVE  /\ it.at \in Keys \ Range(s)
                 /\ Passed(buckets, n, b, 1) = Range(s) \cup {it.at}
        BY <1>3, <1>4, <1>5, <2>2
    <2> QED
        BY <1>1, <1>2, <1>5, <2>1, <2>2, FirstFacts
<1>7. StandAt(it, s)
    BY <1>5 DEF IteratorStart
<1> QED
    BY <1>1, <1>4, <1>5, <1>6, <1>7, StandKeeps

LEMMA NextKeeps ==
    ASSUME IterInv, IteratorNext, seen # NULL
    PROVE  \E n : InBuckets(buckets', n) /\ Walked(iter', buckets', n, seen')
<1>1. PICK n : InBuckets(buckets, n) /\ Walked(iter, buckets, n, seen)
    BY DEF IterInv
<1>2. iter.at # NULL /\ StandAt(NextEntry, seen)
    BY DEF IteratorNext
<1>3. PICK b, j : IterStands(iter, b, j, buckets, n) /\ Range(seen) = Passed(buckets, n, b, j)
    BY <1>1, <1>2 DEF Walked
<1>4. /\ b \in 0 .. n - 1 /\ j \in 1 .. Len(buckets[b])
      /\ iter.bucket = b /\ iter.at = buckets[b][j].key
      /\ n \in Nat /\ Len(buckets[b]) \in Nat
    <2>1. n \in Nat /\ \A c \in 0 .. n - 1 : buckets[c] \in Seq(Entries)
        BY <1>1, BucketFacts
    <2> QED
        BY <1>3, <2>1 DEF IterStands
<1>5. Position(iter.at, buckets) = j
    BY <1>1, <1>4, PlaceOf
<1>6. PICK it, s : it = NextEntry /\ s = seen
    OBVIOUS
<1>7. s \in Seq(Keys) /\ IsInjective(s) /\ Range(s) = Passed(buckets, n, b, j)
    BY <1>1, <1>3, <1>6 DEF Walked
<1>8. \/ it.at = NULL /\ Range(s) = {e.key : e \in Held(buckets)}
      \/ \E c, l : /\ IterStands(it, c, l, buckets, n)
                   /\ it.at \in Keys \ Range(s)
                   /\ Passed(buckets, n, c, l) = Range(s) \cup {it.at}
    <2>1. CASE j < Len(buckets[b])
        <3>1. it = [iter EXCEPT !.at = buckets[b][j + 1].key]
            BY <1>4, <1>5, <1>6, <2>1 DEF NextEntry
        <3>2. j + 1 \in 1 .. Len(buckets[b]) /\ j # Len(buckets[b])
            BY <1>4, <2>1
        <3>3. /\ it.at = buckets[b][j + 1].key
              /\ it = [bucket |-> b, at |-> buckets[b][j + 1].key, valid |-> it.valid]
            BY <1>3, <3>1 DEF IterStands
        <3>4. /\ buckets[b][j + 1].key \in Keys \ Passed(buckets, n, b, j)
              /\ Passed(buckets, n, b, j + 1) = Passed(buckets, n, b, j) \cup {buckets[b][j + 1].key}
            BY <1>1, <1>4, <3>2, PassedFacts
        <3> QED
            BY <1>4, <1>7, <3>2, <3>3, <3>4 DEF IterStands
    <2>2. CASE ~ (j < Len(buckets[b]))
        <3>1. it = FirstFrom(b + 1) /\ b + 1 \in 0 .. n /\ j = Len(buckets[b])
            BY <1>4, <1>5, <1>6, <2>2 DEF NextEntry
        <3>2. Passed(buckets, n, b, j) = Passed(buckets, n, b + 1, 0)
            BY <1>1, <1>4, <3>1, PassedFacts
        <3> QED
            BY <1>1, <1>7, <3>1, <3>2, FirstFacts
    <2> QED
        BY <2>1, <2>2
<1>9. StandAt(it, s)
    BY <1>2, <1>6
<1> QED
    BY <1>1, <1>7, <1>8, <1>9, StandKeeps

\* Any other call: whoever changes the buckets ends the history.
LEMMA CallsKeepSeen ==
    ASSUME IterInv, [MapNext]_mapVars, ~ IteratorStart, ~ (IteratorNext /\ seen # NULL), seen' # NULL
    PROVE  UNCHANGED <<buckets, seen, iter>>
<1>1. PresentFacts
    BY InvPresent DEF IterInv
<1>0. seen' # NULL
    OBVIOUS
<1>2. CASE PutNoCopy \/ Size \/ UNCHANGED mapVars \/ \E k \in Keys : IsExists(k)
    BY <1>2 DEF PutNoCopy, Size, mapVars, IsExists
<1>3. ASSUME NEW k \in Keys, PutNoEntry(k) \/ \E v \in Values : PutReplace(k, v) \/ PutInsert(k, v)
      PROVE  UNCHANGED <<buckets, seen, iter>>
    <2>1. CASE PutNoEntry(k)
        BY <1>0, <2>1 DEF PutNoEntry, Iterator, Moved
    <2>2. ASSUME NEW v \in Values, PutReplace(k, v) \/ PutInsert(k, v)
          PROVE  UNCHANGED <<buckets, seen, iter>>
        <3>1. PICK bs : buckets' = PutInternal(bs, [key |-> k, value |-> v]) /\ Iterator(Moved(bs))
            BY <2>2 DEF PutReplace, PutInsert
        <3>2. DOMAIN buckets' = DOMAIN bs
            BY <3>1 DEF PutInternal
        <3> QED
            BY <1>0, <3>1, <3>2 DEF Iterator, Moved
    <2> QED
        BY <1>3, <2>1, <2>2
<1>4. ASSUME NEW k \in Keys, GetKey(k) \/ GetDup(k)
      PROVE  UNCHANGED <<buckets, seen, iter>>
    BY <1>4 DEF GetKey, GetDup, Iterator
<1>5. ASSUME NEW k \in Keys, Take(k) \/ RemoveKey(k)
      PROVE  UNCHANGED <<buckets, seen, iter>>
    <2>1. CASE Lookup(k) = NULL
        BY <1>5, <2>1 DEF Take, RemoveKey
    <2>2. CASE Lookup(k) # NULL
        <3>1. [j \in Keys |-> Lookup(j)]' = [[j \in Keys |-> Lookup(j)] EXCEPT ![k] = NULL]
            BY <1>5, TakeKeeps DEF IterInv, Map!Take, Map!Remove
        <3>2. ASSUME buckets' = buckets PROVE FALSE
            <4>1. [j \in Keys |-> Lookup(j)]' = [j \in Keys |-> Lookup(j)]
                BY <3>2 DEF Lookup
            <4> QED
                BY <2>2, <3>1, <4>1
        <3>3. \E freed : Iterator(freed)
            BY <1>5, <2>2 DEF Take, RemoveKey
        <3> QED
            BY <1>0, <3>2, <3>3 DEF Iterator
    <2> QED
        BY <2>1, <2>2
<1>6. CASE ClearMap \/ Recreate
    <2>1. ClearMap /\ buckets' = Empty(BucketsSize) /\ Iterator(Keys)
        BY <1>0, <1>6 DEF ClearMap, Recreate
    <2>2. buckets' = buckets /\ seen' = seen /\ seen # NULL
        BY <1>0, <2>1 DEF Iterator
    <2>3. PICK n : InBuckets(buckets, n) /\ Walked(iter, buckets, n, seen)
        BY <2>2 DEF IterInv
    <2>4. \A b \in 0 .. n - 1 : buckets[b] = <<>>
        <3>1. BucketsSize = n
            BY <2>3, BucketFacts DEF BucketsSize
        <3> QED
            BY <2>1, <2>2, <3>1 DEF Empty
    <2>5. iter.at = NULL
        BY <2>3, <2>4 DEF Walked, IterStands
    <2> QED
        BY <2>1, <2>2, <2>5, HashMapAssumption DEF Iterator
<1>7. CASE IteratorNext \/ IteratorDestroy
    BY <1>7 DEF IteratorNext, IteratorDestroy
<1> QED
    BY <1>2, <1>3, <1>4, <1>5, <1>6, <1>7 DEF MapNext

LEMMA IterKeeps == IterInv /\ [MapNext]_mapVars => IterInv'
<1> SUFFICES ASSUME IterInv, [MapNext]_mapVars PROVE IterInv'
    OBVIOUS
<1>1. MapInv'
    BY MapStepKeeps DEF IterInv
<1>2. ASSUME seen' # NULL PROVE \E n : InBuckets(buckets', n) /\ Walked(iter', buckets', n, seen')
    <2>1. CASE IteratorStart
        BY <2>1, StartKeeps
    <2>2. CASE IteratorNext /\ seen # NULL
        BY <2>2, NextKeeps
    <2>3. CASE ~ IteratorStart /\ ~ (IteratorNext /\ seen # NULL)
        <3>1. UNCHANGED <<buckets, seen, iter>>
            BY <1>2, <2>3, CallsKeepSeen
        <3> QED
            BY <1>2, <3>1 DEF IterInv
    <2> QED
        BY <2>1, <2>2, <2>3
<1> QED
    BY <1>1, <1>2 DEF IterInv

LEMMA IterComplete == IterInv => IterationComplete
<1> SUFFICES ASSUME IterInv, seen # NULL
             PROVE  /\ IsInjective(seen)
                    /\ iter.at = NULL => Range(seen) = {k \in Keys : Lookup(k) # NULL}
    BY DEF IterationComplete
<1>1. PICK n : InBuckets(buckets, n) /\ Walked(iter, buckets, n, seen)
    BY DEF IterInv
<1>2. PresentFacts
    BY InvPresent DEF IterInv
<1>3. ASSUME iter.at = NULL PROVE Range(seen) = {k \in Keys : Lookup(k) # NULL}
    <2>1. Range(seen) = {e.key : e \in Present}
        <3>1. ASSUME NEW b, NEW j, IterStands(iter, b, j, buckets, n) PROVE FALSE
            <4>1. buckets[b][j].key \in Keys
                BY <1>1, <3>1, PlaceOf DEF IterStands
            <4> QED
                BY <1>3, <3>1, <4>1, HashMapAssumption DEF IterStands
        <3> QED
            BY <1>1, <3>1 DEF Walked, Present
    <2>2. \A e \in Present : e.key \in Keys
        BY <1>2 DEF PresentFacts, Entries
    <2> QED
        BY <1>2, <2>1, <2>2 DEF PresentFacts
<1> QED
    BY <1>1, <1>3 DEF Walked

\* An iteration during which the buckets did not change stands at every key once
\* (clog_hashmap_iterator_next).
THEOREM IterationStandsAtAll == HashMapSpec => []IterationComplete
<1>1. MapInit => IterInv
    BY MapInitInv DEF MapInit, IterInv
<1>2. IterInv /\ [MapNext]_mapVars => IterInv'
    BY IterKeeps
<1> QED
    BY <1>1, <1>2, IterComplete, PTL DEF HashMapSpec

================================================================================
