------------------------------ MODULE SharedFifo ------------------------------
(***************************************************************************)
(* What a queue with many writers and many readers promises: each call     *)
(* takes effect in one instant between its start and its answer, at the    *)
(* end of the queue or at its front; a read that finds nothing found the   *)
(* queue empty at that instant.                                            *)
(***************************************************************************)
EXTENDS Naturals, Sequences

CONSTANTS
    Users,  \* threads with a handle
    Things, \* what is queued
    EMPTY   \* the answer of a read that found nothing

VARIABLES
    fifo,   \* what is in the queue, oldest first
    call    \* what each thread is doing: idle, or a call before or after its effect

fifoVars == <<fifo, call>>

Idle == [op |-> "idle", item |-> EMPTY]
Become(u, op, item) == call' = [call EXCEPT ![u] = [op |-> op, item |-> item]]
Doing(u, op) == call[u].op = op

FifoInit == fifo = <<>> /\ call = [u \in Users |-> Idle]

BeginWrite(u) == Doing(u, "idle") /\ (\E x \in Things : Become(u, "writing", x)) /\ UNCHANGED fifo
Append1(u) ==
    /\ Doing(u, "writing")
    /\ fifo' = Append(fifo, call[u].item)
    /\ Become(u, "wrote", call[u].item)
BeginRead(u) == Doing(u, "idle") /\ Become(u, "reading", EMPTY) /\ UNCHANGED fifo
Take(u) ==
    /\ Doing(u, "reading") /\ fifo # <<>>
    /\ fifo' = Tail(fifo)
    /\ Become(u, "read", Head(fifo))
FindEmpty(u) ==
    /\ Doing(u, "reading") /\ fifo = <<>>
    /\ Become(u, "read", EMPTY)
    /\ UNCHANGED fifo
End(u) == (Doing(u, "wrote") \/ Doing(u, "read")) /\ Become(u, "idle", EMPTY) /\ UNCHANGED fifo

\* Destroying it, when no call is under way, throws away what is in it.
Discard == (\A u \in Users : Doing(u, "idle")) /\ fifo' = <<>> /\ UNCHANGED call

FifoNext == Discard \/ \E u \in Users :
    BeginWrite(u) \/ Append1(u) \/ BeginRead(u) \/ Take(u) \/ FindEmpty(u) \/ End(u)

FifoSpec == FifoInit /\ [][FifoNext]_fifoVars
================================================================================
