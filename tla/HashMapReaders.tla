----------------------------- MODULE HashMapReaders -----------------------------
(***************************************************************************)
(* clog_hashmap_get of source/utils/clog_hashmap.c called by several threads *)
(* on keys of one bucket.  clog_module_log and clog_record_log do so: they   *)
(* look their module up in context->modules under a read lock, which many    *)
(* threads hold at a time.  One action per load or store of a next pointer.  *)
(***************************************************************************)
EXTENDS Naturals, FiniteSets

CONSTANTS
    Readers,    \* logging threads
    Keys,       \* the keys of the bucket, standing for their entries
    BUCKET,     \* the bucket itself, whose next is the first entry
    NULL

VARIABLES
    next,       \* the next pointer of the bucket and of each entry
    rd          \* per reader: where it is, its key, last and entry, and what it loaded

vars == <<next, rd>>

Nexts == Keys \cup {NULL}
Locals == [pc : {"idle", "walk", "test", "load", "unlink", "first", "relink", "front"},
           key : Nexts, last : Keys \cup {BUCKET}, entry : Nexts, tmp : Nexts]
Idle == [pc |-> "idle", key |-> NULL, last |-> BUCKET, entry |-> NULL, tmp |-> NULL]

ReadersTypeOK ==
    /\ next \in [Keys \cup {BUCKET} -> Nexts]
    /\ rd \in [Readers -> Locals]

\* e is reached from the bucket, passing no entry twice.
IsChain(f, order) ==
    /\ f[BUCKET] = order[1]
    /\ \A i \in 1 .. Cardinality(Keys) :
        f[order[i]] = IF i < Cardinality(Keys) THEN order[i + 1] ELSE NULL

\* All entries are in the bucket, in some order.
Whole ==
    \E order \in [1 .. Cardinality(Keys) -> Keys] :
        (\A e \in Keys : \E i \in DOMAIN order : order[i] = e) /\ IsChain(next, order)

Init ==
    /\ next \in [Keys \cup {BUCKET} -> Nexts]
    /\ Whole
    /\ rd = [t \in Readers |-> Idle]

Go(t, from, to) == rd[t].pc = from /\ rd' = [rd EXCEPT ![t].pc = to]
Return(t) == rd' = [rd EXCEPT ![t] = Idle]

--------------------------------------------------------------------------------
\* last = bucket, entry = last->next
GetFirst(t, k) ==
    /\ rd[t].pc = "idle"
    /\ rd' = [rd EXCEPT ![t] =
                [pc |-> "walk", key |-> k, last |-> BUCKET, entry |-> next[BUCKET], tmp |-> NULL]]
    /\ UNCHANGED next

\* Not the key: last = entry, entry = entry->next
GetNext(t) ==
    /\ rd[t].pc = "walk" /\ rd[t].entry \notin {NULL, rd[t].key}
    /\ rd' = [rd EXCEPT ![t].last = rd[t].entry, ![t].entry = next[rd[t].entry]]
    /\ UNCHANGED next

\* The end of the chain: get returns NULL.
GetMissed(t) ==
    /\ rd[t].pc = "walk" /\ rd[t].entry = NULL
    /\ Return(t)
    /\ UNCHANGED next

\* The key: it is first already, ...
GetFound(t) ==
    /\ rd[t].pc = "walk" /\ rd[t].entry = rd[t].key
    /\ IF next[BUCKET] = rd[t].entry THEN Return(t) ELSE Go(t, "walk", "load")
    /\ UNCHANGED next

\* ... or last->next = entry->next,
GetLoad(t) ==
    /\ rd[t].pc = "load"
    /\ rd' = [rd EXCEPT ![t].pc = "unlink", ![t].tmp = next[rd[t].entry]]
    /\ UNCHANGED next

GetUnlink(t) ==
    /\ Go(t, "unlink", "first")
    /\ next' = [next EXCEPT ![rd[t].last] = rd[t].tmp]

\* entry->next = bucket->next,
GetLoadFirst(t) ==
    /\ rd[t].pc = "first"
    /\ rd' = [rd EXCEPT ![t].pc = "relink", ![t].tmp = next[BUCKET]]
    /\ UNCHANGED next

GetRelink(t) ==
    /\ Go(t, "relink", "front")
    /\ next' = [next EXCEPT ![rd[t].entry] = rd[t].tmp]

\* bucket->next = entry.
GetFront(t) ==
    /\ rd[t].pc = "front"
    /\ next' = [next EXCEPT ![BUCKET] = rd[t].entry]
    /\ Return(t)

Get(t) ==
    \/ \E k \in Keys : GetFirst(t, k)
    \/ GetNext(t) \/ GetMissed(t) \/ GetFound(t)
    \/ GetLoad(t) \/ GetUnlink(t) \/ GetLoadFirst(t) \/ GetRelink(t) \/ GetFront(t)

Next == \E t \in Readers : Get(t)

Spec == Init /\ [][Next]_vars

--------------------------------------------------------------------------------
\* With nobody inside get, the bucket holds every entry once, so that the next
\* log finds its module.  Violated by two readers that move entries at a time.
BucketWhole == (\A t \in Readers : rd[t].pc = "idle") => Whole

================================================================================
