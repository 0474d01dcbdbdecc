------------------------------ MODULE FifoChannel ------------------------------
(***************************************************************************)
(* What a casca_log channel promises: the write and read operations of     *)
(* clog_channel_t over the multi-producer single-consumer queue.           *)
(*                                                                         *)
(* A write is not one step.  It first claims a place behind everything     *)
(* claimed before (the exchange of the tail) and only later makes that     *)
(* place readable (the store of the predecessor's link).  The reader takes *)
(* places strictly in the order of the claims, so a claimed place that is  *)
(* not yet readable hides every readable place behind it.                  *)
(*                                                                         *)
(* An item is <<p, k>>: the k-th item of the thread p.                     *)
(***************************************************************************)
EXTENDS Naturals, Sequences

CONSTANTS
    Producers,  \* threads that write to the channel
    MaxItems    \* bound: items each producer offers

ASSUME MaxItemsAssumption == MaxItems \in Nat

VARIABLES
    slots,      \* claimed places, oldest first: [item, ready]
    delivered   \* items the reader has taken, in order

chVars == <<slots, delivered>>

Items == Producers \X (1 .. MaxItems)

Slot == [item : Items, ready : BOOLEAN]

ChTypeOK ==
    /\ slots \in Seq(Slot)
    /\ delivered \in Seq(Items)

ChInit ==
    /\ slots = <<>>
    /\ delivered = <<>>

Pending == {slots[i].item : i \in 1 .. Len(slots)}

Taken == {delivered[i] : i \in 1 .. Len(delivered)}

\* A producer is sequential: it has finished every earlier write, and its
\* items carry increasing numbers.
Fresh(item) ==
    /\ \A i \in 1 .. Len(slots) : slots[i].item[1] = item[1] =>
            /\ slots[i].ready
            /\ slots[i].item[2] < item[2]
    /\ \A i \in 1 .. Len(delivered) : delivered[i][1] = item[1] =>
            delivered[i][2] < item[2]

Claim(item) ==
    /\ Fresh(item)
    /\ slots' = Append(slots, [item |-> item, ready |-> FALSE])
    /\ UNCHANGED delivered

Publish(p) ==
    /\ \E i \in 1 .. Len(slots) :
            /\ slots[i].item[1] = p
            /\ ~ slots[i].ready
            /\ slots' = [slots EXCEPT ![i] = [item |-> slots[i].item, ready |-> TRUE]]
    /\ UNCHANGED delivered

\* The reader finds an item: the oldest place is readable.
CanTake == slots # <<>> /\ slots[1].ready

Take ==
    /\ CanTake
    /\ delivered' = Append(delivered, slots[1].item)
    /\ slots' = Tail(slots)

ChNext ==
    \/ \E item \in Items : Claim(item)
    \/ \E p \in Producers : Publish(p)
    \/ Take

ChSpec == ChInit /\ [][ChNext]_chVars

--------------------------------------------------------------------------------
\* The order of one thread's items survives the channel and nothing arrives
\* twice: of two items of one producer in `delivered', the earlier one has
\* the smaller number (clog_atomic_mpsc_queue_in / _out).
DeliveredInOrder ==
    \A i, j \in 1 .. Len(delivered) :
        (i < j /\ delivered[i][1] = delivered[j][1]) => delivered[i][2] < delivered[j][2]

================================================================================
