-------------------------------- MODULE HashMap ---------------------------------
(***************************************************************************)
(* clog_hashmap of source/utils/clog_hashmap.c, used by one thread: buckets *)
(* of chained entries, doubled when they are full and halved when they are  *)
(* less than half full; get moves the entry it finds to the front of its    *)
(* bucket.  A call is one action; every allocation may fail.  An entry      *)
(* stands for a clog_hashmap_entry_t with the copies of its key and value.  *)
(***************************************************************************)
EXTENDS Integers, Sequences, FiniteSets, SequencesExt, Pointers

CONSTANTS
    Keys, Values,
    Hash,           \* the hash of each key
    InitBuckets     \* 16 in the code

ASSUME HashMapAssumption ==
    /\ Hash \in [Keys -> Nat]
    /\ InitBuckets \in Nat \ {0} /\ \E p \in 0 .. InitBuckets : InitBuckets = 2^p
    /\ NULL \notin Keys \cup Values

VARIABLES
    buckets,    \* map->buckets: the chain of each, first entry first
    size,       \* map->data_size
    memory,     \* copies of keys, copies of values and entries allocated by the map
    iter,       \* an iterator, or NULL
    answer,     \* what the last call returned
    seen        \* history: the keys the iterator stood at; NULL once the map changed

mapVars == <<buckets, size, memory, iter, answer, seen>>

Entries == [key : Keys, value : Values]
BucketsSize == Cardinality(DOMAIN buckets)
Empty(n) == [i \in 0 .. n - 1 |-> <<>>]

MapInit ==
    /\ buckets = Empty(InitBuckets)
    /\ size = 0
    /\ memory = [keys |-> 0, values |-> 0, entries |-> 0]
    /\ iter = NULL
    /\ answer = <<"none">>
    /\ seen = NULL

--------------------------------------------------------------------------------
\* hash & buckets_size - 1, which is a remainder as buckets_size is a power of 2.
Index(k, bs) == Hash[k] % Cardinality(DOMAIN bs)

\* The place of k in its bucket, 0 if it has none.
Position(k, bs) == SelectInSeq(bs[Index(k, bs)], LAMBDA e : e.key = k)

Lookup(k) ==
    LET i == Position(k, buckets)
    IN  IF i = 0 THEN NULL ELSE buckets[Index(k, buckets)][i].value

\* clog_hashmap_put_internal: replace the value, or a new entry at the front.
PutInternal(bs, e) ==
    LET i == Position(e.key, bs)
    IN  [bs EXCEPT ![Index(e.key, bs)] = IF i = 0 THEN <<e>> \o @ ELSE [@ EXCEPT ![i] = e]]

\* clog_hashmap_resize: every entry is put again, bucket by bucket; a failure
\* rolls back to the old buckets.
Rehash(bs, n) ==
    FoldLeft(PutInternal, Empty(n), FlattenSeq([i \in 1 .. BucketsSize |-> bs[i - 1]]))

Delete(k, bs) == [bs EXCEPT ![Index(k, bs)] = RemoveAt(@, Position(k, bs))]

\* The copies and the entry of one key more or less.
Allocate(keys, values, entries) ==
    memory' = [keys |-> memory.keys + keys, values |-> memory.values + values,
               entries |-> memory.entries + entries]

\* An iterator points at an entry: it is lost when that entry is freed.
Iterator(freed) ==
    /\ iter' = IF iter # NULL /\ iter.at \in freed THEN [iter EXCEPT !.valid = FALSE] ELSE iter
    /\ seen' = IF buckets' = buckets THEN seen ELSE NULL

--------------------------------------------------------------------------------
(* put                                                                      *)

\* No memory for the copies: nothing has changed.
PutNoCopy ==
    /\ answer' = <<"put", "NO_MEMORY">>
    /\ UNCHANGED <<buckets, size, memory, iter, seen>>

\* The buckets that put works on: doubled if they are full and memory allows.
Grown == {buckets} \cup (IF size >= BucketsSize THEN {Rehash(buckets, 2 * BucketsSize)} ELSE {})

\* All entries have been replaced by new ones.
Moved(bs) == IF DOMAIN bs = DOMAIN buckets THEN {} ELSE Keys

\* The key is there: its old value goes, and the new copy of the key.  The
\* mutant keeps that copy.
PutReplaceKeepsKey(k, v) ==
    /\ Lookup(k) # NULL
    /\ \E bs \in Grown :
        /\ buckets' = PutInternal(bs, [key |-> k, value |-> v])
        /\ Iterator(Moved(bs))
    /\ answer' = <<"put", "SUCCESS">>
    /\ Allocate(1, 0, 0)
    /\ UNCHANGED size

PutReplace(k, v) ==
    /\ Lookup(k) # NULL
    /\ \E bs \in Grown :
        /\ buckets' = PutInternal(bs, [key |-> k, value |-> v])
        /\ Iterator(Moved(bs))
    /\ answer' = <<"put", "SUCCESS">>
    /\ UNCHANGED <<size, memory>>

PutInsert(k, v) ==
    /\ Lookup(k) = NULL
    /\ \E bs \in Grown :
        /\ buckets' = PutInternal(bs, [key |-> k, value |-> v])
        /\ Iterator(Moved(bs))
    /\ size' = size + 1
    /\ answer' = <<"put", "SUCCESS">>
    /\ Allocate(1, 1, 1)

\* No memory for the entry: the copies go, but the buckets may have grown.
PutNoEntry(k) ==
    /\ Lookup(k) = NULL
    /\ buckets' \in Grown
    /\ Iterator(Moved(buckets'))
    /\ answer' = <<"put", "NO_MEMORY">>
    /\ UNCHANGED <<size, memory>>

--------------------------------------------------------------------------------
(* get, take, remove, is_exists, size, clear                                *)

\* get moves the entry to the front.  The mutant drops the entries it passed.
ToFrontDrops(k, bs) ==
    [bs EXCEPT ![Index(k, bs)] = SubSeq(@, Position(k, bs), Len(@))]

ToFront(k, bs) ==
    LET i == Position(k, bs)
    IN  [bs EXCEPT ![Index(k, bs)] = <<@[i]>> \o RemoveAt(@, i)]

GetKey(k) ==
    /\ answer' = <<"get", Lookup(k)>>
    /\ buckets' = IF Lookup(k) = NULL THEN buckets ELSE ToFront(k, buckets)
    /\ Iterator({})
    /\ UNCHANGED <<size, memory>>

\* get, and a copy of the value for the caller if memory allows.
GetDup(k) ==
    /\ answer' \in {<<"get_dup", Lookup(k)>>, <<"get_dup", NULL>>}
    /\ buckets' = IF Lookup(k) = NULL THEN buckets ELSE ToFront(k, buckets)
    /\ Iterator({})
    /\ UNCHANGED <<size, memory>>

\* The value becomes the caller's.
Take(k) ==
    /\ answer' = <<"take", Lookup(k)>>
    /\ IF Lookup(k) = NULL
       THEN UNCHANGED <<buckets, size, memory, iter, seen>>
       ELSE /\ buckets' = Delete(k, buckets)
            /\ size' = size - 1
            /\ Allocate(-1, -1, -1)
            /\ Iterator({k})

\* After a removal: halve the buckets if less than half of them is needed and
\* memory allows.
Shrunk(n) == IF n < BucketsSize \div 2 THEN {BucketsSize \div 2} ELSE {}

RemoveKey(k) ==
    /\ answer' = <<"remove", Lookup(k) # NULL>>
    /\ IF Lookup(k) = NULL
       THEN UNCHANGED <<buckets, size, memory, iter, seen>>
       ELSE /\ size' = size - 1
            /\ Allocate(-1, -1, -1)
            /\ \/ buckets' = Delete(k, buckets) /\ Iterator({k})
               \/ \E n \in Shrunk(size - 1) :
                    buckets' = Rehash(Delete(k, buckets), n) /\ Iterator(Keys)

IsExists(k) ==
    /\ answer' = <<"exists", Lookup(k) # NULL>>
    /\ UNCHANGED <<buckets, size, memory, iter, seen>>

Size ==
    /\ answer' = <<"size", size>>
    /\ UNCHANGED <<buckets, size, memory, iter, seen>>

\* The number of buckets stays.
ClearMap ==
    /\ answer' = <<"clear">>
    /\ buckets' = Empty(BucketsSize)
    /\ size' = 0
    /\ Allocate(- size, - size, - size)
    /\ Iterator(Keys)

\* clog_hashmap_destroy, and a new map in its place.
Recreate ==
    /\ answer' = <<"destroy">>
    /\ buckets' = Empty(InitBuckets)
    /\ size' = 0
    /\ Allocate(- size, - size, - size)
    /\ iter' = NULL
    /\ seen' = NULL

--------------------------------------------------------------------------------
(* Iterator                                                                 *)

\* The first entry of the first bucket that has one, from bucket i on.
FirstFrom(i) ==
    LET full == {j \in i .. BucketsSize - 1 : buckets[j] # <<>>}
        j == CHOOSE j \in full : \A l \in full : j <= l
    IN  IF full = {} THEN [bucket |-> BucketsSize, at |-> NULL, valid |-> TRUE]
        ELSE [bucket |-> j, at |-> Head(buckets[j]).key, valid |-> TRUE]

StandAt(it, before) ==
    /\ iter' = it
    /\ seen' = IF it.at = NULL THEN before ELSE Append(before, it.at)
    /\ UNCHANGED <<buckets, size, memory, answer>>

\* clog_hashmap_iterator_create, and clog_hashmap_iterator_reset
IteratorStart == StandAt(FirstFrom(0), <<>>)

\* clog_hashmap_iterator_next from an entry that still exists: the next one of
\* its chain, or the first one of a later bucket.  The mutant looks into the
\* same bucket again.
NextEntrySame ==
    LET i == Position(iter.at, buckets)
        chain == buckets[iter.bucket]
    IN  IF i < Len(chain) THEN [iter EXCEPT !.at = chain[i + 1].key]
        ELSE FirstFrom(iter.bucket)

NextEntry ==
    LET i == Position(iter.at, buckets)
        chain == buckets[iter.bucket]
    IN  IF i < Len(chain) THEN [iter EXCEPT !.at = chain[i + 1].key]
        ELSE FirstFrom(iter.bucket + 1)

IteratorNext ==
    /\ iter # NULL /\ iter.valid /\ iter.at # NULL
    /\ IF seen = NULL
       THEN iter' = NextEntry /\ UNCHANGED <<buckets, size, memory, answer, seen>>
       ELSE StandAt(NextEntry, seen)

IteratorDestroy ==
    /\ iter # NULL
    /\ iter' = NULL
    /\ seen' = NULL
    /\ UNCHANGED <<buckets, size, memory, answer>>

--------------------------------------------------------------------------------
MapNext ==
    \/ PutNoCopy
    \/ \E k \in Keys :
        \/ \E v \in Values : PutReplace(k, v) \/ PutInsert(k, v)
        \/ PutNoEntry(k)
        \/ GetKey(k) \/ GetDup(k) \/ Take(k) \/ RemoveKey(k) \/ IsExists(k)
    \/ Size
    \/ ClearMap
    \/ Recreate
    \/ IteratorStart \/ IteratorNext \/ IteratorDestroy

HashMapSpec == MapInit /\ [][MapNext]_mapVars

--------------------------------------------------------------------------------
(* Correctness                                                              *)

Map == INSTANCE KeyValueMap WITH map <- [k \in Keys |-> Lookup(k)]

\* However the buckets are split, merged and reordered, and whatever allocation
\* fails, each call answers as a map would, and size counts the keys (put, get,
\* take, remove, is_exists, size and clear of clog_hashmap.c).
ImplementsMap == Map!MapSpec

\* Entry by entry the map owns a copy of a key and of a value and nothing else:
\* no call leaks one or frees one twice, the failing ones included (put and its
\* rollback, take, remove, clear).
OwnsItsCopies ==
    LET stored == FoldLeft(LAMBDA n, chain : n + Len(chain), 0,
                           [i \in 1 .. BucketsSize |-> buckets[i - 1]])
    IN  memory = [keys |-> stored, values |-> stored, entries |-> stored]

\* An iteration during which the buckets did not change stands at every key once
\* (clog_hashmap_iterator_next).
IterationComplete ==
    seen # NULL =>
        /\ IsInjective(seen)
        /\ iter.at = NULL => Range(seen) = {k \in Keys : Lookup(k) # NULL}

================================================================================
