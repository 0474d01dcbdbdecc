---------------------------- MODULE AsyncDispatcher ----------------------------
(***************************************************************************)
(* source/dispatcher/clog_dispatcher_async_thread.c: one detached thread   *)
(* sleeps on a semaphore, and at every wake-up empties the channel into    *)
(* the recorders.  Three kinds of threads meet here:                       *)
(*   - the owner runs open, notify(START), notify(END) and close;          *)
(*   - the producers write to the channel, then notify(DATA);              *)
(*   - the worker is the dispatcher's thread.                              *)
(* Used alone, the module assumes what clog_context promises: producers    *)
(* work only between START and END.  CascaLog replaces the assumption by   *)
(* the context's own state check and lock.                                 *)
(***************************************************************************)
EXTENDS FifoChannel, FiniteSets, Pointers

CONSTANTS
    Recorders,  \* ids of the recorders the context holds
    Route,      \* the recorder ids each producer's items carry, in order
    MaxTargets, \* CASCA_LOG_TARGET_RECORDER_MAX_NUM
    Garbage     \* memory not yet written

RouteIds == UNION {{Route[p][i] : i \in 1 .. Len(Route[p])} : p \in Producers}

\* A route fits clog_item_t.recorder; it may name a recorder twice.
ASSUME RouteAssumption ==
    /\ MaxTargets \in Nat
    /\ \A p \in Producers :
        /\ Route[p] \in Seq(RouteIds)
        /\ Len(Route[p]) <= MaxTargets
    /\ NULL \notin Recorders \cup RouteIds \cup Items
    /\ Garbage \notin Recorders \cup {NULL}

VARIABLES
    state,      \* param->state
    sem,        \* the value of param->sem
    cache,      \* param->cache
    opc,        \* the owner
    ppc, sent,  \* the producers: where they are, items offered
    wpc,        \* the worker
    wstop,      \* the worker read STOPPING
    witem, wslot,   \* the item being recorded and the position in its route
    written     \* what each recorder's write was given, in order

ownerVars    == <<opc>>
producerVars == <<ppc, sent>>
workerVars   == <<wpc, wstop, witem, wslot, cache, written>>
dispVars     == <<chVars, state, sem, ownerVars, producerVars, workerVars>>

DispTypeOK ==
    /\ ChTypeOK
    /\ state \in {"IDLE", "RUNNING", "STOPPING", "CLOSED"}
    /\ sem \in Nat
    /\ cache \in [1 .. MaxTargets -> Recorders \cup {NULL, Garbage}]
    /\ opc \in {"new", "memset", "opened", "start", "running", "end",
                "closing", "restop", "repost", "spin", "closed"}
    /\ ppc \in [Producers -> {"idle", "link", "notify"}]
    /\ sent \in [Producers -> 0 .. MaxItems]
    /\ wpc \in {"none", "wait", "check", "read", "write", "stop", "exited"}
    /\ wstop \in BOOLEAN
    /\ witem \in Items \cup {NULL}
    /\ wslot \in 1 .. MaxTargets + 1
    /\ written \in [Recorders -> Seq(Items)]

DispInit ==
    /\ ChInit
    /\ state = "IDLE"
    /\ sem = 0
    /\ cache = [i \in 1 .. MaxTargets |-> Garbage]
    /\ opc = "new"
    /\ ppc = [p \in Producers |-> "idle"]
    /\ sent = [p \in Producers |-> 0]
    /\ wpc = "none"
    /\ wstop = FALSE
    /\ witem = NULL
    /\ wslot = 1
    /\ written = [r \in Recorders |-> <<>>]

--------------------------------------------------------------------------------
(* The owner                                                                *)

\* open: the parameter block, a semaphore at 0, state IDLE, the thread.  The
\* block's cache is not cleared yet.  When a step of open fails it undoes the
\* earlier ones and the caller is where it was.
OpenThread ==
    /\ opc = "new"
    /\ opc' = "memset"
    /\ wpc' = "wait"
    /\ state' = "IDLE"
    /\ sem' = 0
    /\ cache' = [i \in 1 .. MaxTargets |-> Garbage]
    /\ UNCHANGED <<chVars, producerVars, wstop, witem, wslot, written>>

\* open, once clog_thread_create has returned: clear the cache, detach.
OpenMemset ==
    /\ opc = "memset"
    /\ opc' = "opened"
    /\ cache' = [i \in 1 .. MaxTargets |-> NULL]
    /\ UNCHANGED <<chVars, state, sem, producerVars, wpc, wstop, witem, wslot, written>>

\* The owner stores a state and moves on.
SetState(from, value, to) ==
    /\ opc = from
    /\ opc' = to
    /\ state' = value
    /\ UNCHANGED <<chVars, sem, producerVars, workerVars>>

\* The owner posts the semaphore and moves on.
Post(from, to) ==
    /\ opc = from
    /\ opc' = to
    /\ sem' = sem + 1
    /\ UNCHANGED <<chVars, state, producerVars, workerVars>>

\* notify(START)
StartStore == SetState("opened", "RUNNING", "start")
StartPost  == Post("start", "running")

\* notify(END)
EndStore == SetState("running", "STOPPING", "end")
EndPost  == Post("end", "closing")

\* close: a state other than STOPPING is taken for a dispatcher that was
\* never told to stop.
CloseCheck ==
    /\ opc = "closing"
    /\ opc' = IF state # "STOPPING" THEN "restop" ELSE "spin"
    /\ UNCHANGED <<chVars, state, sem, producerVars, workerVars>>

CloseStore == SetState("restop", "STOPPING", "repost")
ClosePost  == Post("repost", "spin")

\* The loop "wait thread process over" ends; the block is freed.
CloseFree ==
    /\ opc = "spin"
    /\ state = "CLOSED"
    /\ opc' = "closed"
    /\ state' = "IDLE"
    /\ sem' = 0
    /\ UNCHANGED <<chVars, producerVars, workerVars>>

\* The loop goes round.
CloseSpin ==
    /\ opc = "spin"
    /\ state # "CLOSED"
    /\ UNCHANGED dispVars

--------------------------------------------------------------------------------
(* The producers: channel->write, then notify(DATA) when it succeeded        *)

WriteClaim(p) ==
    /\ ppc[p] = "idle"
    /\ sent[p] < MaxItems
    /\ Claim(<<p, sent[p] + 1>>)
    /\ sent' = [sent EXCEPT ![p] = @ + 1]
    /\ ppc' = [ppc EXCEPT ![p] = "link"]
    /\ UNCHANGED <<state, sem, ownerVars, workerVars>>

\* The channel has no memory for the item: nothing to notify.
WriteFails(p) ==
    /\ ppc[p] = "idle"
    /\ sent[p] < MaxItems
    /\ sent' = [sent EXCEPT ![p] = @ + 1]
    /\ UNCHANGED <<chVars, state, sem, ownerVars, ppc, workerVars>>

WriteLink(p) ==
    /\ ppc[p] = "link"
    /\ Publish(p)
    /\ ppc' = [ppc EXCEPT ![p] = "notify"]
    /\ UNCHANGED <<state, sem, ownerVars, sent, workerVars>>

NotifyDataForgotten(p) ==   \* mutant: no post
    /\ ppc[p] = "notify"
    /\ ppc' = [ppc EXCEPT ![p] = "idle"]
    /\ UNCHANGED <<chVars, state, sem, ownerVars, sent, workerVars>>

NotifyData(p) ==
    /\ ppc[p] = "notify"
    /\ sem' = sem + 1
    /\ ppc' = [ppc EXCEPT ![p] = "idle"]
    /\ UNCHANGED <<chVars, state, ownerVars, sent, workerVars>>

--------------------------------------------------------------------------------
(* The worker: clog_async_thread_handler and                                 *)
(* clog_async_thread_dispatcher_process_log                                  *)

WorkerWait ==
    /\ wpc = "wait"
    /\ sem > 0
    /\ sem' = sem - 1
    /\ wpc' = "check"
    /\ UNCHANGED <<chVars, state, ownerVars, producerVars, wstop, witem, wslot, cache, written>>

\* Neither RUNNING nor STOPPING: the thread returns without a word.  One mutant
\* stops without a last round, one says CLOSED before it.
WorkerCheckNoRound ==
    /\ wpc = "check"
    /\ wpc' = CASE state = "RUNNING" -> "read" [] state = "STOPPING" -> "stop" [] OTHER -> "exited"
    /\ UNCHANGED <<chVars, state, sem, ownerVars, producerVars, wstop, witem, wslot, cache, written>>

WorkerCheckClosesFirst ==
    /\ wpc = "check"
    /\ wpc' = IF state \in {"RUNNING", "STOPPING"} THEN "read" ELSE "exited"
    /\ wstop' = (state = "STOPPING")
    /\ state' = IF state = "STOPPING" THEN "CLOSED" ELSE state
    /\ UNCHANGED <<chVars, sem, ownerVars, producerVars, witem, wslot, cache, written>>

WorkerCheck ==
    /\ wpc = "check"
    /\ wpc' = IF state \in {"RUNNING", "STOPPING"} THEN "read" ELSE "exited"
    /\ wstop' = (state = "STOPPING")
    /\ UNCHANGED <<chVars, state, sem, ownerVars, producerVars, witem, wslot, cache, written>>

WorkerRead ==
    /\ wpc = "read"
    /\ Take
    /\ witem' = slots[1].item
    /\ wslot' = 1
    /\ wpc' = "write"
    /\ UNCHANGED <<state, sem, ownerVars, producerVars, wstop, cache, written>>

WorkerEmpty ==
    /\ wpc = "read"
    /\ ~ CanTake
    /\ wpc' = IF wstop THEN "stop" ELSE "wait"
    /\ UNCHANGED <<chVars, state, sem, ownerVars, producerVars, wstop, witem, wslot, cache, written>>

\* The cached recorder of a position is used while its id is the wanted one.
CacheFilled(slot, id) == cache[slot] # NULL     \* mutant: whatever its id

CacheHit(slot, id) == cache[slot] = id

\* One position of item->recorder; without a hit, clog_get_recoder finds the
\* recorder or gives NULL.  What write and flush answer is only reported.
WorkerWrite ==
    LET route == Route[witem[1]]
        id    == route[wslot]
        found == IF CacheHit(wslot, id) THEN cache[wslot]
                 ELSE IF id \in Recorders THEN id ELSE NULL
    IN  /\ wpc = "write"
        /\ wslot <= Len(route)
        /\ cache' = [cache EXCEPT ![wslot] = found]
        /\ written' = [r \in Recorders |->
                        IF r = found THEN Append(written[r], witem) ELSE written[r]]
        /\ wslot' = wslot + 1
        /\ UNCHANGED <<chVars, state, sem, ownerVars, producerVars, wpc, wstop, witem>>

\* The end of the route: clog_release_log_item, and on to the next item.  The
\* mutant takes one item per wake-up.
WorkerReleaseOne ==
    /\ wpc = "write"
    /\ wslot > Len(Route[witem[1]])
    /\ witem' = NULL
    /\ wslot' = 1
    /\ wpc' = IF wstop THEN "read" ELSE "wait"
    /\ UNCHANGED <<chVars, state, sem, ownerVars, producerVars, wstop, cache, written>>

WorkerRelease ==
    /\ wpc = "write"
    /\ wslot > Len(Route[witem[1]])
    /\ witem' = NULL
    /\ wslot' = 1
    /\ wpc' = "read"
    /\ UNCHANGED <<chVars, state, sem, ownerVars, producerVars, wstop, cache, written>>

\* The last round is over: CLOSED, and the thread returns.
WorkerStopSilent ==         \* mutant: no CLOSED
    /\ wpc = "stop"
    /\ wpc' = "exited"
    /\ UNCHANGED <<chVars, state, sem, ownerVars, producerVars, wstop, witem, wslot, cache, written>>

WorkerStop ==
    /\ wpc = "stop"
    /\ state' = "CLOSED"
    /\ wpc' = "exited"
    /\ UNCHANGED <<chVars, sem, ownerVars, producerVars, wstop, witem, wslot, cache, written>>

--------------------------------------------------------------------------------
Quiet == \A p \in Producers : ppc[p] = "idle"

Owner ==
    \/ OpenThread
    \/ OpenMemset
    \/ StartStore
    \/ StartPost
    \/ Quiet /\ EndStore
    \/ EndPost
    \/ CloseCheck
    \/ CloseStore
    \/ ClosePost
    \/ CloseFree
    \/ CloseSpin

Producer(p) ==
    \/ opc = "running" /\ (WriteClaim(p) \/ WriteFails(p))
    \/ WriteLink(p)
    \/ NotifyData(p)

Worker ==
    \/ WorkerWait
    \/ WorkerCheck
    \/ WorkerRead
    \/ WorkerEmpty
    \/ WorkerWrite
    \/ WorkerRelease
    \/ WorkerStop

\* The dispatcher is closed for good.
DispFinished == opc = "closed" /\ UNCHANGED dispVars

DispNext ==
    \/ Owner
    \/ \E p \in Producers : Producer(p)
    \/ Worker
    \/ DispFinished

DispSpec == DispInit /\ [][DispNext]_dispVars

\* The worker runs whenever it can, a producer that entered write leaves it,
\* and the owner finishes what it has begun; only when it asks for the end is
\* its own choice.
Fairness ==
    /\ WF_dispVars(Worker)
    /\ \A p \in Producers : WF_dispVars(WriteLink(p) \/ NotifyData(p))
    /\ WF_dispVars(EndPost \/ CloseCheck \/ CloseStore \/ ClosePost \/ CloseFree)

FairDispSpec == DispSpec /\ Fairness

--------------------------------------------------------------------------------
(* Correctness                                                              *)

\* Once close has freed the parameter block the thread is past its last access
\* and no producer has a post to make.
NoUseAfterClose == opc = "closed" => wpc = "exited" /\ Quiet

\* The worker does not look into the cache before open has cleared it, although
\* open starts the thread first.
CacheCleared == wpc = "write" => \A i \in 1 .. MaxTargets : cache[i] # Garbage

\* The parameter block is used neither before open has cleared it nor after close
\* has freed it (open 108-118 and close 155-160 against the handler 69-94, its
\* process_log 39-42 and notify 123-143).
BlockUsedInItsLife == NoUseAfterClose /\ CacheCleared

\* The thread does not return while an item is in the channel: what was
\* written before END has been handed to the recorders (handler 82-86).
ExitsDrained == wpc = "exited" => slots = <<>>

Routed(item, r) == \E i \in 1 .. Len(Route[item[1]]) : Route[item[1]][i] = r

\* A turn of r is a position <<k, i>> that names it, in the route of the k-th item
\* taken from the channel.  These have come: all of the items before the one in
\* the worker's hand, and in its route the positions the worker is past.
Turns(r) ==
    {t \in (1 .. Len(delivered)) \X (1 .. MaxTargets) :
        /\ t[2] <= Len(Route[delivered[t[1]][1]])
        /\ Route[delivered[t[1]][1]][t[2]] = r
        /\ wpc = "write" /\ t[1] = Len(delivered) => t[2] < wslot}

UpToTurn(turns, t) == {u \in turns : u[1] < t[1] \/ (u[1] = t[1] /\ u[2] <= t[2])}

\* Every recorder is given an item for each of its turns, that of the turn, in
\* the order of the turns, and no other, whatever the cache holds (process_log
\* 30-58): as many items as there were turns, and for each turn the item stands
\* where the number of turns up to it says.
RecordedAsRouted ==
    \A r \in Recorders :
        /\ Len(written[r]) = Cardinality(Turns(r))
        /\ \A t \in Turns(r) :
                written[r][Cardinality(UpToTurn(Turns(r), t))] = delivered[t[1]]

\* Every item written to the channel reaches the worker, even if it lands
\* behind a place that is claimed and not linked yet (write, notify(DATA)).
WrittenIsTaken ==
    \A item \in Items : (item \in Pending) ~> (item \in Taken)

\* close returns if it finds the thread still on its way to CLOSED
\* (close 149-160).
CloseWaitsForWorker == (opc = "spin" /\ wpc # "exited") ~> (opc = "closed")

\* close returns ("wait thread process over", close 154).
CloseReturns == (opc = "closing") ~> (opc = "closed")

================================================================================
