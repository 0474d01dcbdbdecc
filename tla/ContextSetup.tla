----------------------------- MODULE ContextSetup ------------------------------
(***************************************************************************)
(* A context of source/casca_log_core.c before and after its work: one     *)
(* thread of the application configures it, calls clog_context_setup,      *)
(* which may fail at each of its steps, and destroys it.  Who owns which   *)
(* object, what is open and what is freed is the subject; the channel is   *)
(* the atomic queue, the dispatcher the asynchronous thread.  What happens *)
(* while the context runs is in CascaLog.                                  *)
(*                                                                         *)
(* A call of the application is one action, destroy is one per component.  *)
(* Where the code would follow NULL or a freed pointer it has no meaning:  *)
(* the model stops there, and properties say whether it comes to that.     *)
(***************************************************************************)
EXTENDS Pointers, Naturals, Sequences, FiniteSets, FiniteSetsExt, SequencesExt

CONSTANTS
    Channels, Dispatchers, Recorders, Filters,  \* objects of the application
    RecorderId,     \* the id of each recorder
    FilterType,     \* "pre" or "post"
    Priority,       \* the priority of each filter
    Modules,        \* module names
    Formats,        \* log formats
    MaxRetries      \* bound: setups after one that failed half way

Objects == Channels \cup Dispatchers \cup Recorders \cup Filters
Ids == {RecorderId[r] : r \in Recorders}
Types == {"pre", "post"}

\* The objects are finitely many, and no two of different C types are one.
ASSUME SetupAssumption ==
    /\ IsFiniteSet(Channels) /\ IsFiniteSet(Dispatchers)
    /\ Channels \cap Dispatchers = {} /\ Recorders \cap Filters = {}
    /\ (Channels \cup Dispatchers) \cap (Recorders \cup Filters) = {}
    /\ FilterType \in [Filters -> Types]
    /\ Priority \in [Filters -> Nat]
    /\ MaxRetries \in Nat
    /\ NULL \notin Objects \cup Formats
    /\ \A names \in SUBSET Modules : names # NULL
    /\ \A map \in [Ids -> Recorders \cup {NULL}] : map # NULL

VARIABLES
    state,          \* context->state, "FREED" when the context is gone
    step,           \* what destroy deals with next
    pool, modules,  \* buffer pool present; module names, or NULL for no map
    formatter,      \* placeholder map, interpolator context, interpolator
    filters,        \* the chains filters.pre.next and filters.post.next
    channel, dispatcher,
    recorders,      \* per id the recorder in the map, or NULL; NULL for no map
    heap, params,   \* objects allocated; filters whose param is
    own,            \* objects the application has to free
    chan, disp,     \* the objects' own fields, and what they have allocated
    opens,          \* per recorder: opens not undone by a close
    retries, asked, added   \* history: retries; the last format; filters in order

configVars  == <<pool, modules, formatter, filters, channel, dispatcher, recorders>>
objectVars  == <<heap, params, own, chan, disp, opens>>
historyVars == <<retries, asked, added>>
vars == <<state, step, configVars, objectVars, historyVars>>

NoRecorders == [id \in Ids |-> NULL]

SetupTypeOK ==
    /\ state \in {"CREATED", "RUNNING", "STOPPING", "DESTROYED", "FREED"}
    /\ step \in {"none", "dispatcher", "channel", "recorders", "filters", "rest"}
    /\ pool \in BOOLEAN
    /\ modules = NULL \/ modules \subseteq Modules
    /\ formatter \in [map : BOOLEAN, context : BOOLEAN, interpolator : Formats \cup {NULL}]
    /\ filters \in [Types -> Seq(Filters)]
    /\ channel \in Channels \cup {NULL}
    /\ dispatcher \in Dispatchers \cup {NULL}
    /\ recorders = NULL \/ recorders \in [Ids -> Recorders \cup {NULL}]
    /\ heap \subseteq Objects
    /\ params \subseteq Filters
    /\ own \subseteq Objects
    /\ chan \in [Channels -> [param : BOOLEAN, queues : Nat]]
    /\ disp \in [Dispatchers ->
                    [extra : BOOLEAN, threads : Nat, channel : Channels \cup {NULL}]]
    /\ opens \in [Recorders -> Nat]
    /\ retries \in 0 .. MaxRetries
    /\ asked \in Formats \cup {NULL}
    /\ added \in [Types -> Seq(Filters)]

\* clog_context_create has returned; the application has made its objects.
Init ==
    /\ state = "CREATED"
    /\ step = "none"
    /\ pool = FALSE
    /\ modules = NULL
    /\ formatter = [map |-> FALSE, context |-> FALSE, interpolator |-> NULL]
    /\ filters = [t \in Types |-> <<>>]
    /\ channel = NULL
    /\ dispatcher = NULL
    /\ recorders = NULL
    /\ heap = Objects
    /\ params = Filters
    /\ own = Objects
    /\ chan = [c \in Channels |-> [param |-> FALSE, queues |-> 0]]
    /\ disp = [d \in Dispatchers |-> [extra |-> FALSE, threads |-> 0, channel |-> NULL]]
    /\ opens = [r \in Recorders |-> 0]
    /\ retries = 0
    /\ asked = NULL
    /\ added = [t \in Types |-> <<>>]

\* CLOG_CONTEXT_SETUP_STATE_CHECK: in any other state a call changes nothing.
Configure == state = "CREATED" /\ UNCHANGED <<state, step>>

--------------------------------------------------------------------------------
(* Buffer pool, modules, log format, filters                                *)

SetBufferPool ==
    /\ Configure
    /\ ~ pool
    /\ pool' = TRUE
    /\ UNCHANGED <<modules, formatter, filters, channel, dispatcher, recorders,
                   objectVars, historyVars>>

SetModuleMap(names) ==
    /\ Configure
    /\ modules' = names
    /\ UNCHANGED <<pool, formatter, filters, channel, dispatcher, recorders,
                   objectVars, historyVars>>

ModuleMap == IF modules = NULL THEN {} ELSE modules

\* clog_set_modules: only without a map.  A configuration that breaks off half
\* way leaves the modules before the break.
SetModules == modules = NULL /\ \E names \in SUBSET Modules : SetModuleMap(names)

\* clog_add_module; the put may fail and leave the map as it is.
AddModule(m) == SetModuleMap(ModuleMap \cup {m}) \/ SetModuleMap(ModuleMap)

\* clog_add_modules for a failing put: the modules of the call that were added
\* are removed again, also those that had been there before.
AddModulesFails == \E names \in SUBSET Modules : SetModuleMap(ModuleMap \ names)

SetFormatter(f) ==
    /\ Configure
    /\ formatter' = f
    /\ UNCHANGED <<pool, modules, filters, channel, dispatcher, recorders,
                   objectVars, retries, added>>

\* clog_init_log_format_interpolator_context: done, or failed at one of its two
\* allocations.
InitInterpolator(f) ==
    IF f.context THEN {f}
    ELSE {[f EXCEPT !.map = TRUE, !.context = TRUE], [f EXCEPT !.map = TRUE], f}

RegisterPlaceholder ==
    /\ \E f \in InitInterpolator(formatter) : SetFormatter(f)
    /\ UNCHANGED asked

\* clog_set_log_format: the old interpolator goes first, whatever follows.  The
\* mutant keeps it until the new one is there.
SetLogFormatKeepsOld(format) ==
    /\ asked' = format
    /\ \E f \in InitInterpolator(formatter) :
        \/ SetFormatter(f)
        \/ f.context /\ SetFormatter([f EXCEPT !.interpolator = format])

SetLogFormat(format) ==
    /\ asked' = format
    /\ \E f \in InitInterpolator([formatter EXCEPT !.interpolator = NULL]) :
        \/ SetFormatter(f)
        \/ f.context /\ SetFormatter([f EXCEPT !.interpolator = format])

\* clog_add_filter_to_chain: before the first filter of a greater priority.
\* The mutant inserts before one of the same priority, too.
AddToChainAhead(chain, f) ==
    LET later == {i \in 1 .. Len(chain) : Priority[f] <= Priority[chain[i]]}
    IN  InsertAt(chain, IF later = {} THEN Len(chain) + 1 ELSE Min(later), f)

AddToChain(chain, f) ==
    LET later == {i \in 1 .. Len(chain) : Priority[f] < Priority[chain[i]]}
    IN  InsertAt(chain, IF later = {} THEN Len(chain) + 1 ELSE Min(later), f)

AddFilter(f) ==
    /\ Configure
    /\ f \in own \cap heap
    /\ filters' = [filters EXCEPT ![FilterType[f]] = AddToChain(@, f)]
    /\ added' = [added EXCEPT ![FilterType[f]] = Append(@, f)]
    /\ own' = own \ {f}
    /\ UNCHANGED <<pool, modules, formatter, channel, dispatcher, recorders,
                   heap, params, chan, disp, opens, retries, asked>>

--------------------------------------------------------------------------------
(* Channel, dispatcher, recorders                                           *)

\* channel->open: a queue of its own; channel->close: frees the one it knows.
OpenChannel(c) == [chan EXCEPT ![c] = [param |-> TRUE, queues |-> @.queues + 1]]
CloseChannel(c) ==
    [chan EXCEPT ![c] = IF @.param THEN [param |-> FALSE, queues |-> @.queues - 1] ELSE @]

\* dispatcher->open: a parameter block and a thread that works on it.
OpenDispatcher(d) ==
    [disp EXCEPT ![d] = [extra |-> TRUE, threads |-> @.threads + 1, channel |-> channel]]

\* dispatcher->close: stops the thread of the block it knows.  In its last round
\* that thread reads the channel it was given.
CloseDispatcher(d) ==
    IF disp[d].extra THEN [disp EXCEPT ![d].extra = FALSE, ![d].threads = @ - 1] ELSE disp

LastRoundDefined(d) == disp[d].extra => disp[d].channel \in heap

\* clog_set_channel: closes and frees the channel that is set.  The mutant
\* forgets it.
SetChannelForgets(c) ==
    /\ Configure
    /\ c \in own \cap heap
    /\ channel' = c
    /\ own' = own \ {c}
    /\ UNCHANGED <<pool, modules, formatter, filters, dispatcher, recorders,
                   heap, params, chan, disp, opens, historyVars>>

SetChannel(c) ==
    /\ Configure
    /\ c \in own \cap heap
    /\ channel' = c
    /\ own' = own \ {c}
    /\ heap' = heap \ {channel}
    /\ chan' = IF channel = NULL THEN chan ELSE CloseChannel(channel)
    /\ UNCHANGED <<pool, modules, formatter, filters, dispatcher, recorders,
                   params, disp, opens, historyVars>>

\* clog_set_dispatcher
SetDispatcher(d) ==
    /\ Configure
    /\ d \in own \cap heap
    /\ dispatcher # NULL => LastRoundDefined(dispatcher)
    /\ dispatcher' = d
    /\ own' = own \ {d}
    /\ heap' = heap \ {dispatcher}
    /\ disp' = IF dispatcher = NULL THEN disp ELSE CloseDispatcher(dispatcher)
    /\ UNCHANGED <<pool, modules, formatter, filters, channel, recorders,
                   params, chan, opens, historyVars>>

RecorderMap == IF recorders = NULL THEN NoRecorders ELSE recorders

\* clog_add_recorder: a recorder of the same id is closed and freed.  The
\* mutant leaves it alone.
AddRecorderKeepsOld(r) ==
    /\ Configure
    /\ r \in own \cap heap
    /\ recorders' = [RecorderMap EXCEPT ![RecorderId[r]] = r]
    /\ own' = own \ {r}
    /\ UNCHANGED <<pool, modules, formatter, filters, channel, dispatcher,
                   heap, params, chan, disp, opens, historyVars>>

AddRecorder(r) ==
    /\ Configure
    /\ r \in own \cap heap
    /\ LET old == RecorderMap[RecorderId[r]]
       IN  /\ recorders' = [RecorderMap EXCEPT ![RecorderId[r]] = r]
           /\ heap' = heap \ {old}
           /\ opens' = IF old = NULL THEN opens ELSE [opens EXCEPT ![old] = 0]
    /\ own' = own \ {r}
    /\ UNCHANGED <<pool, modules, formatter, filters, channel, dispatcher,
                   params, chan, disp, historyVars>>

\* ... no memory for the key: the recorder is not touched.
AddRecorderNoKey(r) ==
    /\ Configure
    /\ r \in own \cap heap
    /\ recorders' = RecorderMap
    /\ UNCHANGED <<pool, modules, formatter, filters, channel, dispatcher,
                   objectVars, historyVars>>

\* ... no memory for a new entry: clog_hashmap_put closes and frees the value it
\* was given, and the call fails.
AddRecorderNoEntry(r) ==
    /\ Configure
    /\ r \in own \cap heap
    /\ RecorderMap[RecorderId[r]] = NULL
    /\ recorders' = RecorderMap
    /\ heap' = heap \ {r}
    /\ UNCHANGED <<pool, modules, formatter, filters, channel, dispatcher,
                   params, own, chan, disp, opens, historyVars>>

--------------------------------------------------------------------------------
(* clog_context_setup                                                       *)

InMap == {RecorderMap[id] : id \in Ids} \ {NULL}

\* An earlier attempt left something open that this one would open again.
HalfOpen ==
    \/ chan[channel].param
    \/ disp[dispatcher].extra
    \/ \E r \in InMap : opens[r] > 0

\* What is set suffices; and the application calls again after a half-way
\* failure at most MaxRetries times.
MaySetup ==
    /\ state = "CREATED"
    /\ modules # NULL
    /\ formatter.interpolator # NULL
    /\ channel # NULL
    /\ dispatcher # NULL
    /\ HalfOpen => retries < MaxRetries
    /\ retries' = IF HalfOpen THEN retries + 1 ELSE retries

\* The channel opens, the dispatcher does not.  When it is its thread that
\* cannot be created, extra is NULL afterwards.
SetupDispatcherFails ==
    /\ MaySetup
    /\ chan' = OpenChannel(channel)
    /\ \E extra \in {disp[dispatcher].extra, FALSE} :
        disp' = [disp EXCEPT ![dispatcher].channel = channel, ![dispatcher].extra = extra]
    /\ UNCHANGED <<state, step, configVars, heap, params, own, opens, asked, added>>

\* Channel and dispatcher open, the dispatcher is started; then there are no
\* recorders, or no memory for the iterator, or after some of them have opened
\* one does not.
SetupRecorderFails ==
    /\ MaySetup
    /\ chan' = OpenChannel(channel)
    /\ disp' = OpenDispatcher(dispatcher)
    /\ \E some \in SUBSET InMap :
        /\ some = {} \/ some # InMap
        /\ opens' = [r \in Recorders |-> IF r \in some THEN opens[r] + 1 ELSE opens[r]]
    /\ UNCHANGED <<state, step, configVars, heap, params, own, asked, added>>

SetupSucceeds ==
    /\ MaySetup
    /\ recorders # NULL
    /\ chan' = OpenChannel(channel)
    /\ disp' = OpenDispatcher(dispatcher)
    /\ opens' = [r \in Recorders |-> IF r \in InMap THEN opens[r] + 1 ELSE opens[r]]
    /\ formatter' = [formatter EXCEPT !.map = FALSE, !.context = FALSE]
    /\ state' = "RUNNING"
    /\ UNCHANGED <<step, pool, modules, filters, channel, dispatcher, recorders,
                   heap, params, own, asked, added>>

--------------------------------------------------------------------------------
(* clog_context_destroy                                                     *)

DestroyBegin ==
    /\ state \in {"CREATED", "RUNNING"}
    /\ state' = "STOPPING"
    /\ step' = "dispatcher"
    /\ UNCHANGED <<configVars, objectVars, historyVars>>

\* notify(END), which needs the parameter block, then close and free.
NotifyDefined == disp[dispatcher].extra

DestroyDispatcher ==
    /\ step = "dispatcher"
    /\ dispatcher # NULL => NotifyDefined /\ LastRoundDefined(dispatcher)
    /\ disp' = IF dispatcher = NULL THEN disp ELSE CloseDispatcher(dispatcher)
    /\ heap' = heap \ {dispatcher}
    /\ dispatcher' = NULL
    /\ step' = "channel"
    /\ UNCHANGED <<state, pool, modules, formatter, filters, channel, recorders,
                   params, own, chan, opens, historyVars>>

\* read until it is empty, which needs a queue, then close and free.
DestroyChannel ==
    /\ step = "channel"
    /\ channel # NULL => chan[channel].param
    /\ chan' = IF channel = NULL THEN chan ELSE CloseChannel(channel)
    /\ heap' = heap \ {channel}
    /\ channel' = NULL
    /\ step' = "recorders"
    /\ UNCHANGED <<state, pool, modules, formatter, filters, dispatcher, recorders,
                   params, own, disp, opens, historyVars>>

DestroyRecorders ==
    /\ step = "recorders"
    /\ heap' = heap \ InMap
    /\ opens' = [r \in Recorders |-> IF r \in InMap THEN 0 ELSE opens[r]]
    /\ recorders' = NULL
    /\ state' = "DESTROYED"
    /\ formatter' = [map |-> FALSE, context |-> FALSE, interpolator |-> NULL]
    /\ step' = "filters"
    /\ UNCHANGED <<pool, modules, filters, channel, dispatcher,
                   params, own, chan, disp, historyVars>>

\* clog_filter_free walks the chain but asks its first filter for the param each
\* time: with a second filter that one is freed memory.
FilterFreeDefined(chain) == Len(chain) <= 1

DestroyFilters ==
    /\ step = "filters"
    /\ \A t \in Types : FilterFreeDefined(filters[t])
    /\ heap' = heap \ UNION {Range(filters[t]) : t \in Types}
    /\ params' = params \ UNION {Range(filters[t]) : t \in Types}
    /\ filters' = [t \in Types |-> <<>>]
    /\ step' = "rest"
    /\ UNCHANGED <<state, pool, modules, formatter, channel, dispatcher, recorders,
                   own, chan, disp, opens, historyVars>>

\* Modules, buffer pool, lock, the context.
DestroyRest ==
    /\ step = "rest"
    /\ modules' = NULL
    /\ pool' = FALSE
    /\ state' = "FREED"
    /\ step' = "none"
    /\ UNCHANGED <<formatter, filters, channel, dispatcher, recorders,
                   objectVars, historyVars>>

--------------------------------------------------------------------------------
Next ==
    \/ SetBufferPool
    \/ SetModules
    \/ \E m \in Modules : AddModule(m)
    \/ AddModulesFails
    \/ RegisterPlaceholder
    \/ \E format \in Formats : SetLogFormat(format)
    \/ \E f \in Filters : AddFilter(f)
    \/ \E c \in Channels : SetChannel(c)
    \/ \E d \in Dispatchers : SetDispatcher(d)
    \/ \E r \in Recorders : AddRecorder(r) \/ AddRecorderNoKey(r) \/ AddRecorderNoEntry(r)
    \/ SetupDispatcherFails
    \/ SetupRecorderFails
    \/ SetupSucceeds
    \/ DestroyBegin
    \/ DestroyDispatcher
    \/ DestroyChannel
    \/ DestroyRecorders
    \/ DestroyFilters
    \/ DestroyRest

Spec == Init /\ [][Next]_vars

--------------------------------------------------------------------------------
(* Correctness                                                              *)

\* What the context points to.
Held == ({channel, dispatcher} \cup InMap \cup UNION {Range(filters[t]) : t \in Types})
            \ {NULL}

\* However objects are handed over, replaced and refused, the context points to
\* allocated objects of the right kind only, and none of them is the application's to free; every
\* other object that is still allocated is.  (clog_set_channel,
\* clog_set_dispatcher, clog_add_recorder, clog_add_filter, destroy.)
OneOwner ==
    /\ SetupTypeOK
    /\ Held \subseteq heap
    /\ Held \cap own = {}
    /\ heap \subseteq Held \cup own

\* Filters stand by priority, and those of the same priority in the order in
\* which they were added (clog_add_filter_to_chain; clog_filter.h promises it).
FiltersInOrder ==
    \A t \in Types :
        LET chain == filters[t]
            when(f) == CHOOSE i \in 1 .. Len(added[t]) : added[t][i] = f
        IN  /\ chain # <<>> => Range(chain) = Range(added[t])
            /\ \A i, j \in 1 .. Len(chain) : i < j =>
                \/ Priority[chain[i]] < Priority[chain[j]]
                \/ /\ Priority[chain[i]] = Priority[chain[j]]
                   /\ when(chain[i]) < when(chain[j])

\* What the objects still have that a close could not reach.
Queues == MapThenSumSet(LAMBDA c : chan[c].queues, Channels)
Threads == MapThenSumSet(LAMBDA d : disp[d].threads, Dispatchers)

\* A running context is complete, whatever came before setup succeeded: modules,
\* the last format asked for, a channel with a queue, a dispatcher thread on that
\* channel, all recorders open, and nothing else is open.  Only a setup repeated
\* after one that failed half way opens a thing once more.  (clog_context_setup)
RunningIsComplete ==
    state = "RUNNING" =>
        /\ modules # NULL
        /\ formatter = [map |-> FALSE, context |-> FALSE, interpolator |-> asked]
        /\ \A c \in Channels : chan[c].param <=> c = channel
        /\ \A d \in Dispatchers : disp[d].extra <=> d = dispatcher
        /\ disp[dispatcher].channel = channel
        /\ Queues \in 1 .. 1 + retries
        /\ Threads \in 1 .. 1 + retries
        /\ \A r \in Recorders : opens[r] \in IF r \in InMap THEN 1 .. 1 + retries ELSE {0}

\* A destroyed context leaves nothing behind: no object it was given, no filter
\* parameter, no recorder open, and no queue or thread but one for each time setup
\* was repeated after it had failed half way.  (clog_context_destroy)
NothingLeftBehind ==
    state = "FREED" =>
        /\ heap \subseteq own
        /\ params \subseteq own
        /\ Queues <= retries
        /\ Threads <= retries
        /\ \A r \in Recorders : opens[r] = 0

================================================================================
