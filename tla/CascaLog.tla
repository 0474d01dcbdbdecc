-------------------------------- MODULE CascaLog --------------------------------
(***************************************************************************)
(* A logging context of source/casca_log_core.c at work: the owner sets it *)
(* up and destroys it, the threads of the application log into it, and its *)
(* asynchronous dispatcher records.  Built as by default: with             *)
(* CASCA_LOG_MEM_POOL and without CASCA_LOG_LOCKLESS.                      *)
(*                                                                         *)
(* The module composes AsyncDispatcher and its channel with the context's  *)
(* state, its read-write lock and the life of the log items.  A step that  *)
(* would touch the context after it is freed has no meaning in C: such a   *)
(* thread stops here, and NoCallOutlivesContext says whether one exists.   *)
(***************************************************************************)
EXTENDS AsyncDispatcher

VARIABLES
    ctx,        \* context->state
    cpc,        \* the owner: where it is in setup or destroy
    readers,    \* threads that hold context->lock for reading
    writer,     \* the owner holds it for writing
    lpc,        \* a logging thread: where it is in clog_module_log
    alive,      \* log items acquired and not yet released
    accepted    \* items whose log call returned CLOG_SUCCESS

ctxVars == <<ctx, cpc, readers, writer, lpc, alive, accepted>>
vars    == <<dispVars, ctxVars>>

CtxTypeOK ==
    /\ DispTypeOK
    /\ ctx \in {"CREATED", "RUNNING", "STOPPING", "DESTROYED"}
    /\ cpc \in {"setup", "failed", "ready", "stopping", "barrier", "end",
                "drain", "recorders", "pool", "freed"}
    /\ readers \subseteq Producers
    /\ writer \in BOOLEAN
    /\ lpc \in [Producers -> {"out", "checked", "locked", "item", "sent", "unlock"}]
    /\ alive \subseteq Items
    /\ accepted \subseteq Items

Init ==
    /\ DispInit
    /\ ctx = "CREATED"
    /\ cpc = "setup"
    /\ readers = {}
    /\ writer = FALSE
    /\ lpc = [p \in Producers |-> "out"]
    /\ alive = {}
    /\ accepted = {}

Freed == cpc = "freed"

\* The item the thread's current call is about.
CurrentTooSmall(p) == <<p, sent[p]>>    \* mutant
Current(p) == <<p, sent[p] + 1>>

\* clog_release_log_item: in no other state is anything released.
AfterRelease(items) == IF ctx \in {"RUNNING", "STOPPING"} THEN alive \ items ELSE alive

--------------------------------------------------------------------------------
(* clog_context_setup: the dispatcher is opened and told to start before    *)
(* the recorders are opened                                                 *)

SetupDispatcher ==
    /\ cpc = "setup"
    /\ OpenThread \/ OpenMemset \/ StartStore \/ StartPost
    /\ UNCHANGED ctxVars

\* Every recorder has opened: the context runs.
SetupDone ==
    /\ cpc = "setup"
    /\ opc = "running"
    /\ ctx' = "RUNNING"
    /\ cpc' = "ready"
    /\ UNCHANGED <<dispVars, readers, writer, lpc, alive, accepted>>

\* A recorder does not open: setup gives up, the dispatcher keeps running and
\* the state stays CREATED.
SetupFails ==
    /\ cpc = "setup"
    /\ opc = "running"
    /\ cpc' = "failed"
    /\ UNCHANGED <<dispVars, ctx, readers, writer, lpc, alive, accepted>>

--------------------------------------------------------------------------------
(* clog_module_log and clog_record_log                                      *)

At(p, from, to) ==
    /\ ~ Freed
    /\ lpc[p] = from
    /\ lpc' = [lpc EXCEPT ![p] = to]

\* CLOG_CONTEXT_LOG_STATE_CHECK, outside the lock.  In any other state the
\* call returns CLOG_ABNORMAL_STATE and nothing changes.
LogCheck(p) ==
    /\ At(p, "out", "checked")
    /\ ctx = "RUNNING"
    /\ sent[p] < MaxItems
    /\ UNCHANGED <<dispVars, ctx, cpc, readers, writer, alive, accepted>>

LogRdLock(p) ==
    /\ At(p, "checked", "locked")
    /\ ~ writer
    /\ readers' = readers \cup {p}
    /\ UNCHANGED <<dispVars, ctx, cpc, writer, alive, accepted>>

\* Unknown module, level or recorder not permitted, or no item to be had:
\* clog_acquire_log_item gives none unless the state is RUNNING.
LogDeniedKeepsLock(p) ==    \* mutant: returns without unlocking
    /\ At(p, "locked", "out")
    /\ UNCHANGED <<dispVars, ctx, cpc, readers, writer, alive, accepted>>

LogDenied(p) ==
    /\ At(p, "locked", "unlock")
    /\ UNCHANGED <<dispVars, ctx, cpc, readers, writer, alive, accepted>>

LogAcquire(p) ==
    /\ At(p, "locked", "item")
    /\ ctx = "RUNNING"
    /\ alive' = alive \cup {Current(p)}
    /\ UNCHANGED <<dispVars, ctx, cpc, readers, writer, accepted>>

\* A filter or the formatter refuses; the caller releases the item.
LogFiltered(p) ==
    /\ At(p, "item", "unlock")
    /\ alive' = AfterRelease({Current(p)})
    /\ UNCHANGED <<dispVars, ctx, cpc, readers, writer, accepted>>

LogWriteFails(p) ==
    /\ At(p, "item", "unlock")
    /\ WriteFails(p)
    /\ alive' = AfterRelease({Current(p)})
    /\ UNCHANGED <<ctx, cpc, readers, writer, accepted>>

LogWrite(p) ==
    /\ At(p, "item", "sent")
    /\ WriteClaim(p)
    /\ UNCHANGED <<ctx, cpc, readers, writer, alive, accepted>>

LogLink(p) ==
    /\ ~ Freed
    /\ WriteLink(p)
    /\ UNCHANGED ctxVars

\* notify(DATA); the call will return CLOG_SUCCESS.
LogNotifyReleases(p) ==     \* mutant: releases what it has handed over
    /\ At(p, "sent", "unlock")
    /\ NotifyData(p)
    /\ accepted' = accepted \cup {<<p, sent[p]>>}
    /\ alive' = AfterRelease({<<p, sent[p]>>})
    /\ UNCHANGED <<ctx, cpc, readers, writer>>

LogNotify(p) ==
    /\ At(p, "sent", "unlock")
    /\ NotifyData(p)
    /\ accepted' = accepted \cup {<<p, sent[p]>>}
    /\ UNCHANGED <<ctx, cpc, readers, writer, alive>>

LogRdUnlock(p) ==
    /\ At(p, "unlock", "out")
    /\ readers' = readers \ {p}
    /\ UNCHANGED <<dispVars, ctx, cpc, writer, alive, accepted>>

LogStep(p) ==
    \/ LogRdLock(p)
    \/ LogDenied(p)
    \/ LogAcquire(p)
    \/ LogFiltered(p)
    \/ LogWriteFails(p)
    \/ LogWrite(p)
    \/ LogLink(p)
    \/ LogNotify(p)
    \/ LogRdUnlock(p)

--------------------------------------------------------------------------------
(* The worker: its own steps, and the release of the item it has recorded   *)

WorkerStep ==
    \/ /\ WorkerWait \/ WorkerCheck \/ WorkerRead \/ WorkerEmpty \/ WorkerWrite \/ WorkerStop
       /\ UNCHANGED ctxVars
    \/ /\ WorkerRelease
       /\ alive' = AfterRelease({witem})
       /\ UNCHANGED <<ctx, cpc, readers, writer, lpc, accepted>>

--------------------------------------------------------------------------------
(* clog_context_destroy                                                     *)

DestroyNoBarrier ==         \* mutant: no lock
    /\ cpc \in {"ready", "failed"}
    /\ ctx' = "STOPPING"
    /\ cpc' = "end"
    /\ UNCHANGED <<dispVars, readers, writer, lpc, alive, accepted>>

DestroyStop ==
    /\ cpc \in {"ready", "failed"}
    /\ ctx' = "STOPPING"
    /\ cpc' = "stopping"
    /\ UNCHANGED <<dispVars, readers, writer, lpc, alive, accepted>>

\* clog_rwlock_wr_lock: "wait current log process finish".
DestroyLockFails ==         \* mutant: does not wait for the readers
    /\ cpc = "stopping"
    /\ writer' = TRUE
    /\ cpc' = "barrier"
    /\ UNCHANGED <<dispVars, ctx, readers, lpc, alive, accepted>>

DestroyWrLock ==
    /\ cpc = "stopping"
    /\ readers = {}
    /\ writer' = TRUE
    /\ cpc' = "barrier"
    /\ UNCHANGED <<dispVars, ctx, readers, lpc, alive, accepted>>

DestroyWrUnlock ==
    /\ cpc = "barrier"
    /\ writer' = FALSE
    /\ cpc' = "end"
    /\ UNCHANGED <<dispVars, ctx, readers, lpc, alive, accepted>>

\* notify(END) and close.
DestroyDispatcher ==
    /\ cpc = "end"
    /\ EndStore \/ EndPost \/ CloseCheck \/ CloseStore \/ ClosePost \/ CloseFree \/ CloseSpin
    /\ UNCHANGED ctxVars

\* close has returned; the dispatcher is freed.
DestroyFreeDispatcher ==
    /\ cpc = "end"
    /\ opc = "closed"
    /\ cpc' = "drain"
    /\ UNCHANGED <<dispVars, ctx, readers, writer, lpc, alive, accepted>>

\* What is still in the channel is released unrecorded; the channel is closed
\* and freed.
DestroyChannel ==
    /\ cpc = "drain"
    /\ slots' = <<>>
    /\ alive' = AfterRelease(Pending)
    /\ cpc' = "recorders"
    /\ UNCHANGED <<delivered, state, sem, ownerVars, producerVars, workerVars,
                   ctx, readers, writer, lpc, accepted>>

\* The recorders are closed and freed, then the state is DESTROYED.
DestroyRecorders ==
    /\ cpc = "recorders"
    /\ ctx' = "DESTROYED"
    /\ cpc' = "pool"
    /\ UNCHANGED <<dispVars, readers, writer, lpc, alive, accepted>>

\* Format, filters, modules, buffer pool, lock and the context itself.
DestroyFree ==
    /\ cpc = "pool"
    /\ cpc' = "freed"
    /\ UNCHANGED <<dispVars, ctx, readers, writer, lpc, alive, accepted>>

DestroyStep ==
    \/ DestroyWrLock
    \/ DestroyWrUnlock
    \/ DestroyDispatcher
    \/ DestroyFreeDispatcher
    \/ DestroyChannel
    \/ DestroyRecorders
    \/ DestroyFree

Finished == Freed /\ UNCHANGED vars

--------------------------------------------------------------------------------
Next ==
    \/ SetupDispatcher
    \/ SetupDone
    \/ SetupFails
    \/ \E p \in Producers : LogCheck(p) \/ LogStep(p)
    \/ WorkerStep
    \/ DestroyStop
    \/ DestroyStep
    \/ Finished

Spec == Init /\ [][Next]_vars

\* The worker runs when it can, a thread inside a log call gets through it,
\* and destroy, once called, goes on; whether it is called is the owner's.
FairSpec ==
    /\ Spec
    /\ WF_vars(WorkerStep)
    /\ \A p \in Producers : WF_vars(LogStep(p))
    /\ WF_vars(DestroyStep)

--------------------------------------------------------------------------------
(* Correctness                                                              *)

\* After the barrier of destroy no log call holds an item, is in the channel
\* or has a post to make: a call that passed the state check too early finds
\* no item any more (destroy 478-481 against 661-669 and 434-436).
BarrierHolds ==
    cpc \in {"end", "drain", "recorders", "pool", "freed"} =>
        \A p \in Producers : lpc[p] \notin {"item", "sent"}

\* A log item is allocated for as long as anybody can reach it: while it
\* is in the channel and while the worker records it (log_internal 597-601,
\* process_log 34-59).
ReachableItemsAlive ==
    /\ Pending \subseteq alive
    /\ witem # NULL => witem \in alive

\* All items are back in the buffer pool before it is finalized, so that
\* finalize can free the pool (destroy 490-499 and 517).
PoolWhole == cpc \in {"pool", "freed"} => alive = {}

\* The worker writes to recorders only after setup has opened them and before
\* destroy closes them, although START comes before they are opened
\* (setup 408-422, destroy 483-502).
RecordersOpenInUse ==
    wpc = "write" => cpc \in {"ready", "stopping", "barrier", "end"}

\* So nothing is gone that is still in use, whatever destroy takes apart first.
NothingGoneInUse == ReachableItemsAlive /\ PoolWhole /\ RecordersOpenInUse

\* The context keeps its side of the dispatcher's bargain: between START and
\* END only, and with no write under way at END (log_internal 597-601,
\* destroy 478-486).
UsesDispatcherProperly == DispSpec

\* destroy gets past its barrier: new calls are turned away by the state
\* before they can hold the lock again (destroy 478-480).
BarrierReached == (cpc = "stopping") ~> (cpc = "end")

\* No log whose call returned CLOG_SUCCESS is lost: its item is in the channel or
\* has been taken by the worker, and once destroy has closed the dispatcher every
\* registered recorder of its module has been given it (log_internal 597-601
\* against destroy 478-499, which releases what is left in the channel unrecorded).
NothingAcceptedIsLost ==
    /\ accepted \subseteq Pending \cup Taken
    /\ cpc \in {"drain", "recorders", "pool", "freed"} =>
        \A item \in accepted, r \in Recorders :
            Routed(item, r) => \E i \in 1 .. Len(written[r]) : written[r][i] = item

\* A log call that returned CLOG_SUCCESS has its item given to every registered
\* recorder of its module, destroy or no destroy: again and again a moment comes
\* when nothing that was accepted so far is still to be recorded (destroy 472-525;
\* MultiThreadLogTest counts on it).
AcceptedGetsRecorded ==
    []<>(\A item \in accepted, r \in Recorders :
            Routed(item, r) => \E i \in 1 .. Len(written[r]) : written[r][i] = item)

\* No log call is under way when the context is freed ("wait current log
\* process finish", destroy 479).
NoCallOutlivesContext == Freed => \A p \in Producers : lpc[p] = "out"

================================================================================
