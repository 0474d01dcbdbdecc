--------------------------- MODULE DirectDispatcher ---------------------------
(***************************************************************************)
(* source/dispatcher/clog_dispatcher_direct.c under a context of one       *)
(* thread (the build CASCA_LOG_LOCKLESS): the call that logs an item also  *)
(* empties the channel into the recorders, before it returns.              *)
(* Items is what the pool holds.                                          *)
(* A log call is acquire, the filters and the formatter, channel write and *)
(* notify (casca_log_core.c); each may fail, and the item must go back.    *)
(***************************************************************************)
EXTENDS UnsafeQueue, SequencesExt

CONSTANTS
    Recorders,  \* the recorders of the context
    Routes,     \* the sequences of recorder ids a module may name
    MaxLogs     \* bound: log calls made

ASSUME DirectAssumption == \A route \in Routes : route \in Seq(Range(route))

VARIABLES
    free,       \* items in the pool
    carries,    \* the number of the call each item is for
    pc, item, slot,
    calls,      \* the route of each log call so far
    accepted,   \* calls that got CLOG_SUCCESS from the channel, in order
    given       \* calls whose items each recorder's write was given, in order

directVars == <<free, carries, pc, item, slot, calls, accepted, given>>

DirectInit ==
    /\ QueueInit
    /\ free = Items
    /\ carries = [i \in Items |-> 0]
    /\ pc = "new" /\ item = NULL /\ slot = 1
    /\ calls = <<>> /\ accepted = <<>>
    /\ given = [r \in Recorders |-> <<>>]

\* clog_context_setup opens the channel and the dispatcher; no memory for
\* the queue leaves it as it was.
Setup ==
    /\ pc = "new"
    /\ \/ OpenChannel /\ pc' = "idle"
       \/ UNCHANGED <<queueVars, pc>>
    /\ UNCHANGED <<free, carries, item, slot, calls, accepted, given>>

\* clog_acquire_log_item, and the route copied into the item.
Acquire(i, route) ==
    /\ pc = "idle" /\ Len(calls) < MaxLogs
    /\ i \in free
    /\ free' = free \ {i}
    /\ calls' = Append(calls, route)
    /\ carries' = [carries EXCEPT ![i] = Len(calls')]
    /\ item' = i /\ pc' = "write"
    /\ UNCHANGED <<queueVars, slot, accepted, given>>

\* What a failed call does with its item.
Dropped == free \cup {item}

\* A filter refuses the item, it does not fit the format, or the channel has
\* no memory for a node: the caller releases it.
LogFails ==
    /\ pc = "write"
    /\ free' = Dropped
    /\ item' = NULL /\ pc' = "idle"
    /\ UNCHANGED <<queueVars, carries, slot, calls, accepted, given>>

WriteChannel(n) ==
    /\ pc = "write" /\ n \in Spare
    /\ Enqueue(n, item)
    /\ accepted' = Append(accepted, carries[item])
    /\ item' = NULL /\ pc' = "read"
    /\ UNCHANGED <<free, carries, slot, calls, given>>

\* notify(DATA): read the channel until it has nothing more.
Read ==
    /\ pc = "read"
    /\ IF IsEmpty
         THEN pc' = "idle" /\ UNCHANGED <<queueVars, item, slot>>
         ELSE Dequeue /\ item' = Peek /\ slot' = 1 /\ pc' = "record"
    /\ UNCHANGED <<free, carries, calls, accepted, given>>

Route == calls[carries[item]]

\* Where to go on after a write: to the next recorder, or to flush and then
\* to the next.
AfterFlush == slot + 1

\* One recorder of the route.  An id the context does not know is passed
\* over; the answer of write decides only whether flush is called.
Record ==
    /\ pc = "record" /\ slot <= Len(Route)
    /\ LET r == Route[slot] IN
         /\ given' = IF r \in Recorders
                       THEN [given EXCEPT ![r] = Append(@, carries[item])] ELSE given
         /\ \/ slot' = slot + 1 /\ pc' = pc
            \/ r \in Recorders /\ slot' = slot /\ pc' = "flush"
    /\ UNCHANGED <<queueVars, free, carries, item, calls, accepted>>

Flush ==
    /\ pc = "flush"
    /\ slot' = AfterFlush /\ pc' = "record"
    /\ UNCHANGED <<queueVars, free, carries, item, calls, accepted, given>>

Release ==
    /\ pc = "record" /\ slot > Len(Route)
    /\ free' = free \cup {item}
    /\ item' = NULL /\ pc' = "read"
    /\ UNCHANGED <<queueVars, carries, slot, calls, accepted, given>>

\* clog_context_destroy: notify(END) does nothing here; closing the channel
\* gives back what is still in it.
DestroyContext ==
    /\ pc = "idle"
    /\ CloseChannel
    /\ free' = free \cup {Content[i] : i \in 1 .. Len(Content)}
    /\ pc' = "destroyed"
    /\ UNCHANGED <<carries, item, slot, calls, accepted, given>>

DirectNext ==
    \/ Setup \/ LogFails \/ Read \/ Record \/ Flush \/ Release \/ DestroyContext
    \/ \E i \in Items, route \in Routes : Acquire(i, route)
    \/ \E n \in Nodes : WriteChannel(n)

DirectSpec == DirectInit /\ [][DirectNext]_<<queueVars, directVars>>

-----------------------------------------------------------------------------
Queued == {queued[i] : i \in 1 .. Len(queued)}

(* An item is in the pool, in the channel or in the hand of the call, never *)
(* in two of these, and none is lost: whichever step of the call or of the  *)
(* dispatcher fails.  Between calls all are back.                           *)
ItemsHaveOnePlace ==
    /\ Items = free \cup Queued \cup ({item} \ {NULL})
    /\ Cardinality(Queued) = Len(queued)
    /\ free \cap Queued = {} /\ item \notin free \cup Queued
    /\ pc \in {"idle", "destroyed"} => free = Items

(* A call that returned success has been recorded when it returns: each     *)
(* recorder was given the accepted calls that name it, in their order, once *)
(* for each time they name it, and no other.                                *)
Times(r, call) == Cardinality({m \in DOMAIN calls[call] : calls[call][m] = r})
Expected(r) ==
    FlattenSeq([a \in 1 .. Len(accepted) |-> [m \in 1 .. Times(r, accepted[a]) |-> accepted[a]]])
RecordedWhenReturned ==
    pc \in {"idle", "destroyed"} => \A r \in Recorders : given[r] = Expected(r)

(* The direct dispatcher of a context: its items, its recorders and the      *)
(* queue that carries them (clog_dispatcher_direct.c:17).  A queue that is   *)
(* used without it has to be whole as well.                                  *)
DirectDispatches == QueueWhole /\ (pc # "new" => ItemsHaveOnePlace /\ RecordedWhenReturned)

================================================================================
