# casca_log: specifications

TLA+ models of casca_log, a logging library in C11, written from its sources
under `source/`; what TLC checks about them on small instances, and what TLAPS
proves for instances of every size.

## The system

A program creates a `clog_context_t`, configures it (modules, format, filters,
one channel, one dispatcher, recorders), calls `clog_context_setup`, logs from
any of its threads, and calls `clog_context_destroy`. A log call takes an item
from the buffer pool, filters and formats it, writes it to the channel and
notifies the dispatcher; the dispatcher reads the channel and gives the item to
the recorders it names. All components talk by direct calls through function
tables (`clog_channel_t`, `clog_dispatcher_t`, `clog_recorder_t`), on whatever
thread calls.

| Component | State | Operations | Hard about it | What makes it correct |
|---|---|---|---|---|
| logging context, `casca_log_core.c` | `state`, `lock`, `item_pool`, channel, dispatcher, recorder map, modules, filters | create, set/add/register, setup, log, destroy | log calls race with destroy; one step of setup fails; items change hands between three threads | nothing is used after destroy has freed it, every accepted log is recorded, every item returns to the pool |
| atomic-queue channel over `utils/clog_atomic_mpsc_queue.c` | linked nodes, `head`, `tail` | write from any thread, read from one, close | a write is an exchange and, later, a store | FIFO by claim, no lost or duplicated item, no access to a freed node |
| asynchronous dispatcher | `state`, semaphore, recorder cache, one thread | open, notify START / DATA / END, close | wake-ups, END against items still queued, freeing under the thread's feet | everything written before END is recorded, in order; close waits for the thread |
| buffer pool, `utils/clog_buffer_pool.c` | lock-free stack, `free_count`, `capacity`, `state` | acquire, release, finalize | ABA, counters that lag the list, finalize with buffers out | one owner per buffer, nothing freed twice, the pool goes with its last buffer |
| direct dispatcher, unsafe-queue channel over `utils/clog_queue.c` | a linked list with head, tail and size | write, read; notify consumes on the logging thread | a queue emptied and filled again; recorders that fail | each logged item is recorded before the call returns and goes back |
| hash map, `utils/clog_hashmap.c` | bucket lists | put, get, take, remove, iterate | `get` reorders a bucket; a resize runs out of memory | a map, whatever is resized |
| epoch-based reclamation, `utils/clog_ebr.c` | epoch, per-thread records, three retire lists | register, enter, exit, defer_release, poll, destroy | grace periods; lists emptied while pushed on | nothing is freed inside a critical section, everything once |
| atomic queue, `utils/clog_atomic_queue.c` | linked nodes, `head`, `tail` | attach, enqueue, dequeue, destroy | the tail lags, helpers race | a FIFO queue, linearizable |
| error ring, `utils/clog_error.c` | lines and their count | setup, put, get, clear, cleanup | claims race with clear | a line has one writer, unless a clear overtakes it |
| memory pool, `utils/clog_mem_pool.c` | free lists by size class | init, acquire, release, finalize | links of blocks that are out | a block is out once |
| file recorder over `utils/clog_file_system.c` | log file, meta file | create, write, flush, close | each call to the system fails; a crash between two | logs stay in order, a restart continues |
| paths | none | normalize, absolute, directory of, make directories | climbing, buffers that are just too small | the path meant, or an error |
| interpolator, placeholders, dates | a parsed template | parse, render | room of the buffer, escapes, widths | what the template says, or a refusal |
| configuration reader | groups and items | parse, look up, modules from it | refused sections, signs, widths of integers | found is what was written |
| stdout and syslog recorders, system wrappers, bounded strings | | | | not modelled, see below |

`PROJECT.json` lists all parts, and under `hazards` the places where a mistake
would hardly be met by a test, with the properties that would show it.

The build modelled is the default one: `CASCA_LOG_MEM_POOL` on,
`CASCA_LOG_LOCKLESS` off. `DirectDispatcher` is about the other dispatcher and a
single logging thread, the setting in which its queue may be used.

## Modules

```
FifoChannel  <==  MpscQueue                      (refinement, proved)
FifoChannel  <--  AsyncDispatcher  <--  CascaLog (EXTENDS; CascaLog => DispSpec, proved)
SharedFifo   <==  AtomicQueue                    (refinement, proved)
KeyValueMap  <==  HashMap                        (refinement, proved)
UnsafeQueue  <--  DirectDispatcher               FileSystem  <--  FileRecorder
```

The proofs about `X` are in `X_proofs`, with these exceptions: `CascaLog_proofs`
has those about `AsyncDispatcher` and `Config` too, `BufferPool_proofs` those
about `Fields` and `Interpolator`, `Lockless_proofs` those about `Ebr`,
`AtomicQueue` and `ErrorRing`, `Library_proofs` those about `FileRecorder`,
`UnsafeQueue`, `DirectDispatcher` and `HashMap`, `Setup_proofs` those about
`ContextSetup`, `Paths` and `ConfigText`. `SequenceFolds` has the lemmas about folds
that several of them instantiate. `MCX` instantiates `X` for TLC; `MCLibrary` the
small parts, and checks two of the refinements.

`FifoChannel` is abstract; `MpscQueue` implements it; `AsyncDispatcher` is built
on the abstract channel; `CascaLog` on `AsyncDispatcher`. So the lock-free
queue, the dispatcher and the context are each checked at their own grain, and
the refinement links them. `BufferPool` stands alone: `CascaLog` uses what it
promises, that an item acquired belongs to one holder until it is released.
`ContextSetup` is the part of the context's life that `CascaLog` takes for
granted. The parts that need no other part are checked together, one to a
behaviour, in `MCLibrary`.

### FifoChannel

A place is *claimed* (the exchange of the tail in `clog_atomic_mpsc_queue_in`)
and later *published* (the store of the link); the reader takes places in the
order of the claims and is stopped by one that is claimed and not published.
This is weaker than an atomic FIFO, and has to be: a write that has returned may
be invisible while another write is between its two steps.

### MpscQueue

| Model | Code |
|---|---|
| `next`, `data`, `live` | the fields of each node; the addresses malloc has handed out |
| `InAlloc`, `InNoMemory`, `InSwap`, `InLink` | `_in`: malloc and stores, its failure, `atomic_exchange`, store of `prev->next` |
| `OutLoad`, `OutRead`, `OutStore`, `OutFree` | `_out`: loads of head and link, of the data, store of head, free |
| `CloseBegin`, `CloseDrained`, `DestroyNode`, `DestroyQueue` | the channel's close: read to the end, then `_destroy` |
| `chain`, `delivered` | auxiliary: the nodes from the head on; what was read |

The two loads at the start of `_out` are one step because only this thread
writes the head. Addresses are reused freely, so an ABA on the tail would show.

### AsyncDispatcher

Owner (`opc`), producers (`ppc`), worker (`wpc`). One action per access to the
shared parameter block: `OpenThread` starts the thread, `OpenMemset` clears its
cache afterwards (as the code does), `StartStore`/`StartPost` and
`EndStore`/`EndPost` are the two halves of `notify`, `CloseCheck` to `CloseFree`
are close with its spin loop, `Worker...` the thread. The cache of recorders by
position in the item is kept, with uninitialized memory as `Garbage`. A
`sem_wait` that is interrupted is retried by the wrapper and is a stutter, as is
an `open` that fails and undoes itself. What a recorder's write answers changes
no state here.

### CascaLog

The owner (`cpc`) sets up and destroys, log calls (`lpc`) run through
`clog_module_log` or `clog_record_log`. The state check before the lock and the
lock itself are two actions, as they are two statements. `readers`/`writer` are
the rwlock; `alive` the items out of the pool; `accepted` (history) the items
whose call returned success. `DestroyStop` to `DestroyFree` follow
`clog_context_destroy` statement by statement. The dispatcher's actions are used
whole, without the assumption that its producers behave: the context has to
ensure it, and `UsesDispatcherProperly` (`DispSpec` as a property) says it does.

### BufferPool

One action per access to shared memory of acquire, release and finalize. The
record `pool` is `*pool`, `mem` the headers of the buffers, `live` and
`pool.live` what is allocated. Counters wrap at `Word`, a small stand-in for the
width of `uintptr_t`. `holders` (history) counts the callers that hold a buffer.
Callers keep out of finalize and bring the remaining buffers back one at a time
(`MayCall`), as `clog_context_destroy` makes them.

### ContextSetup

One thread of the application, one action per call of `casca_log_core.h`, and
one per component for destroy, in the order of `clog_context_destroy`.

| Model | Code |
|---|---|
| `heap`, `params` | channels, dispatchers, recorders, filters and filter parameters that are allocated |
| `own` | those that are the application's to free |
| `chan`, `disp`, `opens` | what `open` has made: the param and queues of a channel, the block and threads of a dispatcher, opens of a recorder; a `close` reaches only what the object still points to |
| `AddRecorder`, `AddRecorderNoKey`, `AddRecorderNoEntry` | `clog_add_recorder` with its replacement by id, and the two ways the hash map refuses it |
| `SetupDispatcherFails`, `SetupRecorderFails`, `SetupSucceeds` | `clog_context_setup` up to its failing step |
| `AddToChain` | `clog_add_filter_to_chain` |

Where the code would follow NULL or a freed pointer there is no next state:
notify and close of a dispatcher that was never opened (`NotifyDefined`), the
last round of a dispatcher thread on a channel that has been replaced
(`LastRoundDefined`), `clog_filter_free` at the second filter of a chain
(`FilterFreeDefined`). Such states end a behaviour, and so does a context that is
freed: deadlock is not an error here.

### HashMap, KeyValueMap, HashMapReaders

`HashMap` is one thread's view: a call is one action, the buckets are sequences
of entries, `Rehash` puts entry after entry into new buckets as
`clog_hashmap_resize` does, and every allocation may fail. The refinement mapping
is `Lookup`, the walk of a key's bucket, so a call that leaves an entry in the
wrong bucket, twice or behind another of its key shows as a wrong answer.
`memory` counts the copies and entries allocated. An iterator is a bucket number
and an entry, `valid` until that entry is freed; `seen` (history) is what it
stood at while nothing changed. `HashMapReaders` is `clog_hashmap_get` alone, one
load or store of a `next` pointer at a time, for several threads and the keys of
one bucket: the one call that log calls make at the same time.

### UnsafeQueue, DirectDispatcher

`UnsafeQueue` has the nodes with their links in `heap`, `head`, `tail` and the
size, and beside them `queued`, the sequence the channel promises.
`DirectDispatcher` is one log call after the other over it: acquire, filters and
formatter, write, notify with its loop over the channel and over the recorders
of each item, release. An item in the pool, in the call or in the channel is in
one of the three (`ItemsHaveOnePlace`), and when a call returns its item has been
given to every recorder of its route that exists (`RecordedWhenReturned`).

### Ebr, AtomicQueue, SharedFifo

`Ebr` takes the reclamation with a small client, a pointer that threads read and
replace inside critical sections, which is how `clog_atomic_queue.c` uses it.
Every load, store and compare-and-swap of register, enter, exit, defer_release
and poll is a step; destroy polls and frees what is left; one thread may
unregister after it (`Late`), as the code provides for. The owner's poll in
destroy and the threads' polls are the same steps of different actors. A retire
asks for memory once, before its loop; without it the object is freed where it
stands (`RetireAtOnce`), and such objects are kept apart in `atOnce`, since no
grace period protects them.

`AtomicQueue` is enqueue, dequeue and destroy, one shared access at a time, and
refines `SharedFifo`, in which each call takes effect in one instant between its
beginning and its answer. Nodes are numbered and not reused: the counter that
would let a thread poll never counts, so no node is freed before destroy.

### ErrorRing, MemPool

`ErrorRing` has put split into the compare-and-swap that claims a line, the store
of the text and the answer, against the clear with which each log call begins. The
clear sets the count back whoever is filling a line: `overtaken` (history) are the
lines that were being filled then, which a later put may claim as well.
`MemPool` is for one thread, with blocks, their `next` and the heaps' lists.

### FileSystem, FileRecorder

`FileSystem` says what the opening modes ask of `open()` and what a write does to
a file. `FileRecorder` makes each call to the system a step that may fail and
lets the process stop between any two: what is in the files stays, and the next
create starts from the meta file. A meta file that was truncated and not written
yet is `TORN`.

### Paths, Interpolator, Fields, Config, ConfigText

Algorithms, as functions and folds, each against a definition that says what its
result should be, for every input within the bounds; the inputs are the initial
states. `Paths`: normalize, absolute paths, the directory of a path, the
directories made for a file. `Interpolator`: templates parsed character class by
character class and rendered into a buffer, with a handler that copies and stops at
the end, one that wants room for a number's largest value, one that prints and tells
what it would have needed, and the line break, which does not look at the room left;
a template that fails before its first part is made has the answer `UNDEFINED`. `Fields`: numbers in fields, the
timestamp of a date. `Config`: sections and items, their lookup, and the modules
a context takes from them, `UNDEFINED` where a recorder is written behind the
array of its module. `ConfigText`: one line: headers, integers with the type and the
bits that are stored, arrays.

### What all of them assume

- Sequential consistency. The code uses release stores, acquire loads and
  exchanges; reorderings that these permit are not explored.
- A thread stops at an access to freed memory, since such a step has no meaning
  in C. Where this could happen, an invariant says whether a thread can stand
  before such an access; in `CascaLog` that is `NoCallOutlivesContext`, which
  does not hold.
- Allocation fails at any time where the actions say so.

## Runs

| Run | Instance | Distinct states | Shows |
|---|---|---|---|
| `mpsc_queue` | 2 producers, 3 items each, 5 interchangeable addresses | 168,177 | `NodeLifetimes` (no use after free, no double free, no leak), `CloseDropsNothing`, the inductive invariant `QueueInv`; `ImplementsChannel`: the queue refines `FifoChannel` |
| `async_dispatcher` | 2 producers, 2 items each, routes `<r1,r2,r1>` and `<r2,r3>` with `r3` unknown | 32,911 | `RecordedAsRouted`, `ExitsDrained`, `BlockUsedInItsLife` (no access to the block after it is freed, none to the cache before it is cleared); `WrittenIsTaken`: no lost wake-up; `CloseWaitsForWorker` |
| `casca_log` | 2 logging threads, 2 items each, setup to destroy | 151,644 | `BarrierHolds`, `CtxTypeOK`, `NothingGoneInUse` (items, pool, recorders), `UsesDispatcherProperly`; `BarrierReached`: destroy passes its barrier; `NothingAcceptedIsLost`: an accepted log is in the channel, with the worker or recorded, and recorded once destroy has stopped the dispatcher; `AcceptedGetsRecorded`: again and again everything accepted so far is recorded, destroy or no destroy |
| `buffer_pool` | 1 acquirer, 2 releasers, 5 addresses, initial capacity 2, threshold 70 | 229,383 | `UniqueHandout`, `MemoryAlive`, `CountersExact`, `PoolOutlivesBuffers` |
| `context_setup` | 2 channels, 2 dispatchers, 3 recorders of which two share an id, 3 filters of which two share a priority, 1 repeated setup | 654,687 | `OneOwner`, `RunningIsComplete`, `NothingLeftBehind`, `FiltersInOrder` |
| `library` | the twelve parts of `MCLibrary` | 1,882,335 | below |
| `async_dispatcher_hang` | as `async_dispatcher` | | violation: `CloseReturns` |
| `casca_log_late` | as `casca_log` | | violation: `NoCallOutlivesContext` |
| `buffer_pool_aba` | 2 threads that acquire and release | | violation: `UniqueHandout` |
| `hash_map_readers` | 2 threads, 2 keys in one bucket | | violation: `BucketWhole` |
| `mem_pool` | 1 thread | | violation: `HandsOutFreeOnly` |
| `file_split` | a file recorder told to split after 2 logs | | violation: `SplitsAtLimit` |

The parts of `library`:

| Part | Properties |
|---|---|
| `map` | `ImplementsMap`: a map under resizing and failing allocations; `OwnsItsCopies`: no entry or copy leaks; `IterationComplete` |
| `queue`, `direct` | `DirectDispatches`: the list is what was queued, every item is in one place, each call returns with its item recorded |
| `ebr` | `GracePeriod`: no poll and no destroy frees what a critical section may hold; `RetiredFreedOnce`: nothing is lost between the lists or freed twice |
| `aqueue` | `ImplementsFifo`: linearizable; `NodesRetiredOnce` |
| `errors` | `ErrorsKeptApart`: a line that no clear overtook has one writer and then its error; none beyond the last |
| `recorder` | `LogsInOrder`: the files hold what was accepted, in order, crash or no crash; `RestartContinues`: with a whole meta file the next process goes on with the current file |
| `paths` | `PathsNormalized` |
| `format` | `FormatRendered`: the text whole, or a refusal, and no byte past the buffer, if nothing follows the part that fills it |
| `fields` | `FieldsRendered` |
| `config` | `ConfigFound`: what is found, and what a module gets, is what the text says |
| `text` | `LineRead`: what is taken of a header, an array, an integer, and what is stored of it |

### The violations

- `CloseReturns`. `notify(END)` stores STOPPING and posts; the thread may finish
  and store CLOSED before close looks. close takes any state but STOPPING for a
  dispatcher that was never stopped, stores STOPPING over CLOSED and spins for a
  thread that has gone. `CloseWaitsForWorker` states what does hold.
- `NoCallOutlivesContext`. A log call checks the state, then locks. One that is
  between the two is invisible to the write lock of destroy. `BarrierHolds`
  states what does hold: such a call finds no item while the context exists.
- `UniqueHandout` with two acquirers. The head is swapped by address, so a
  successor read before the head was taken and given back is installed. With one
  acquirer it holds, whatever the number of releasers.
- `BucketWhole`. `clog_hashmap_get` moves what it finds to the front of its
  bucket, and log calls look up their module under a lock that is shared. Two
  threads whose modules share a bucket, neither of them first in it, can drop one
  of them from the map. With one reader `ImplementsMap` shows that a lookup
  changes no answer.
- `HandsOutFreeOnly`. A block released keeps the successor it had when it was
  last free; put behind the tail it makes the list run on into blocks in use.
- `SplitsAtLimit`. `clog_recorder_file_init_split` never stores the type of the
  split, so every later switch finds none.

### Met while modelling, with no run of their own

What a line does here has no outcome in C, or no document says what it should do.

- Context. destroy sends END to every dispatcher that is set, and only an opened
  one has the block it dereferences (`NotifyDefined`); the quick start of the
  repository's README gets there when a call before setup fails. A channel can be
  replaced after a failed setup although the dispatcher thread still reads it.
  `clog_filter_free` asks the first filter, freed by then, for the parameter of
  the others. A failing `clog_add_modules` removes modules of the same name that
  were there before. The check of a module's number of recorders (`casca_log_core.c:153`)
  admits one too many, which is written behind the array. A module that names no
  level has the mask of the context (`:139`), where the comment in
  `casca_log_config_template.toml:11-15` says its process' level; the message about a level
  that is too large has its two arguments swapped (`:143`).
  A level tag that cannot be copied leaks the earlier ones, a process name that is
  too long the context. A recorder that cannot be added is freed by the hash map
  or not, depending on which allocation failed. Logs are stamped with the fixed
  zone +8, and the file recorder compares that with the clock.
- Buffer pool. Counting a buffer out and asking whether it was the last are two
  accesses: without `MayCall` two calls can both see 0 and free the pool twice,
  and acquire can read a list that finalize frees. finalize sets `item_size` to 0,
  so temporary buffers after it have no room. A failing initialize leaks the pool.
- Direct dispatcher. The test `test_casca_log_core.cpp:136` puts the queue for one
  thread behind the asynchronous dispatcher: a data race.
- Reclamation and atomic queue. Two threads that unregister after destroy can both
  find themselves the last. Without memory for the retire record the object is
  freed at once although a thread inside a critical section may hold it
  (`clog_ebr.c:187`): there is no grace period on that path, and `GracePeriod` is
  about the others. The counter of releases never counts. destroy calls the
  deallocator also after a dequeue that found nothing.
- Error ring. A clear while another thread fills a line lets the next put claim
  that line too, and two threads write into it (`clog_error.c:110`).
- Memory pool. A stopping heap ends one release too late.
- File recorder. flush tests the path of the meta file, an array, in place of the
  file. When its parameters cannot be made the recorder leaks. A short write
  counts as success, the answer of `flock` is ignored, and a process that stops
  between truncating and writing the meta file leaves one no create accepts.
- Configuration. A section is looked for by the length of the name in the line: a
  name that begins another is taken for it. A blank inside a section name makes
  two names of it. Blanks before the `]` are taken in most places, as in
  `[ Process.main.test]`, where `casca_log_test.toml:24` calls them errors. A number
  with a sign is stored by `parse_uint_radix`, which makes its type unsigned: `-1`
  (an integer supported, says the same file) is 4294967295 to whoever reads it, and
  only a lone `-0` or `+0` is of the signed type. `0x` alone is 0. Behind a sign
  without digits the parser goes on at the address 1. In `[1,2]` the 2 is lost: one character
  after a comma is skipped unread. Floating-point numbers take any text.
- Formatter. A lone closing brace ends the template without an error. An empty
  template and a placeholder that stands for nothing make the log empty. A template
  that fails at its first part leaves the root's link uninitialized, and the clean-up
  follows it (`clog_interpolator.c:183`). A content or number longer than the rest of
  the buffer moves the offset past its end, where the next part is written with a room
  that has wrapped around (`:214`); the line break is written without looking at the
  room (`clog_log_format_placeholder.c:111`). Two contents in one
  template walk the arguments of a log twice. A handler that copies a string
  answers 0 when the buffer is full to the last character; the result is then -0,
  success, with the text cleared and its length not stored, which the comment at
  `clog_interpolator.h:70` promises. `clog_log_internal` goes on with length 0: a
  log too long by its last string is recorded empty, one too long elsewhere is
  refused. `FormatRendered` states what does hold where nothing follows the part that
  fills the buffer: nothing is written past it, and a text is whole or refused.

Properties are stated for inputs outside these: `ConfigFound` leaves out texts
with a name that begins another (`Clash`), and of modules that are `UNDEFINED` it
says only that a list of recorders was too long. `LineRead` promises nothing about
taking a header with blanks before its `]`, only that the names of one that is
taken are read right, if no blank parts one of them; it leaves out arrays whose
commas are followed by no blank and a sign without digits. `FormatRendered` leaves
out templates whose braces do not pair (`WellFormed`), values without text, and a
part that fills the buffer with another behind it; `GracePeriod` retires without
memory; `ErrorsKeptApart` lines overtaken by a clear; `FieldsRendered` numbers of
ten digits; `RestartContinues` meta files that are torn.

### Bounds

`MaxItems` bounds the writes of a producer. Three items by two producers let
the consumer overtake a producer between its exchange and its link, reuse the
address it freed, and close with a backlog; a third producer adds no new kind of
neighbour, as a pending link involves a node and its predecessor only, and the
theorems cover any number. Two items and overlapping routes let the worker's cache hold
each position's recorder from the other module's item; one route names a recorder
twice, which the code does not refuse. In the pool, initial
capacity 2, five addresses and a threshold of 70 per cent give room to take, grow,
shrink and have two releases race for the last slot above the floor. `Word`
exceeds every product of the rate computation, so a wrap-around is one of the
code, and none of the bound. In `context_setup` each object that can be replaced
has a second one to replace it, a third recorder lets setup fail between two
recorders, and three filters let one be put between two others; one repeated
setup (`MaxRetries`) is enough for an opening to be forgotten.

In `library`:

- `map`: three keys and two values, from one bucket (16 in the code). One bucket
  holds all three keys, two separate them into two and one, four keep them apart:
  every resize the code makes, in both directions, and chains of length three.
- `queue`, `direct`: two nodes empty and fill the list; two logs over three routes,
  one with a recorder nobody registered, one with a recorder named twice.
- `ebr`: two threads, three objects, two critical sections each, three polls: an
  object passes through all three epochs while the other thread sits in its
  section, and its list is pushed on while it is emptied.
- `aqueue`: two users, four nodes (the dummy included), two reads each: both ends
  race, the tail lags, a reader finds the queue empty.
- `errors`: two threads, two lines, four puts, two clears: both ask for the last
  line, a clear comes between a claim and its text, and the line it overtakes is
  claimed again.
- `recorder`: three logs, four file indices, one crash, each system call failing.
- `paths`: up to four segments of two names, `.`, `..` and the empty one; buffers
  that hold nothing, just enough, one too few. `format`: templates of six marks
  (two placeholders, or one and a line break), values of 1 and 3 characters, buffers
  of 2 and 4: the first value leaves room, none, or overflows, and what follows it
  would be written outside. `fields`: the numbers at
  each change of width, years on each side of the leap rules. `config`: texts of
  four lines out of thirteen, one with a recorder too many (`MaxRecorders` = 2).
  `text`: headers and arrays of six marks, numbers of none to four digits,
  `UintRange` = 16 for the 2^32 numbers of an unsigned integer, so overflow is
  reached.

### Fairness

- The worker: a thread the system schedules, `WF(Worker)`.
- A producer that has entered write or a log call finishes it, and the owner
  finishes a notify, a close or a destroy it has begun: weak fairness on the
  steps inside the call. Nobody is made to start a call.
- `LogRdLock` waits only for the owner's write lock, which is held for two steps,
  so weak fairness of the logging thread is enough; the owner's wait for
  `readers = {}` is only ever ended by the state check turning new calls away,
  which is what `BarrierReached` is about.

No liveness is claimed for the lock-free structures: a thread can lose its
compare-and-swap for ever while the others make progress.

## Proofs

Every theorem is for any set of threads, any number of items, any addresses and
routes that satisfy the assumptions its module states:

| Assumption | Says | Why the code gives it |
|---|---|---|
| `MaxItemsAssumption`, `QueueAssumption` | the number of items is a number; null is no address and no item | malloc answers NULL or an address; the channel is given no NULL item |
| `RouteAssumption` | a route fits an item; null is no recorder and no item | `clog_log_internal` fills no more positions than an item has |
| `PoolAssumption` | finitely many buffers, a threshold of 1 to 99 per cent, a word that holds every product of the rate | the arguments `clog_buffer_pool_initialize` accepts; 64 bits |
| `EbrAssumption` | one thread at most unregisters after destroy; null is no object and no thread | two that do is listed above as a defect |
| `AqAssumption` | the number of nodes is a number | a bound of the model |
| `SetupAssumption` | finitely many channels and dispatchers; objects of different kinds differ, and null is none of them | they are C objects of different types that the application made |
| `UnsafeQueueAssumption`, `DirectAssumption` | null is no node and no item; a route is a sequence | as above |
| `HashMapAssumption` | each key has a hash; the number of buckets is a power of two; null is no key and no value | `clog_hashmap_create` starts with 16 buckets; a put of NULL is refused |
| `PathsAssumption` | a name has a length and is neither `.`, `..` nor empty; the working directory is names; a buffer has room for two characters | what stands between slashes; `getcwd`; the callers' buffers are of `CASCA_LOG_FILEPATH_MAX_SIZE` |
| `InterpolatorAssumption` | lengths are natural; a buffer has room for two characters | `clog_interpolator_interpolate` refuses a size below two |
| `ConfigAssumption` | lines say what a line of text can; names are strings, the number of recorders is a number | the lines are what `ConfigText` reads: a value has the type that `clog_config_parse_value` gives it |
| `ConfigTextAssumption` | an unsigned integer has an even number of values; radices are 2, 8, 10 and 16 | 2^32; `0b`, `0o`, `0x` and none |
| `FieldsAssumption` | numbers are natural, years begin with 1970; there is a greatest thread id | the fields are unsigned; the years are the clock's, and the loop of `clog_timestamp_of_datetime` begins with 1970 |
| `FileRecorderAssumption` | at least one file; null and a torn meta file are none that can be read | read back, a torn file is refused |

| Theorem | Module | States |
|---|---|---|
| `QueueInvariance`, `TypeCorrectness` | `MpscQueue_proofs` | `Spec => []QueueInv`, `[]TypeOK` |
| `MemorySafety`, `NoDoubleFree`, `NoLeak`, `Lifetimes` | | `Spec => []NodeLifetimes` and its parts; `[]CloseDropsNothing` |
| `NumberInvariance`, `QueueIsChannel` | | `Spec => ImplementsChannel`: the lock-free queue is the abstract channel |
| `QueueKeepsOrder` | | `Spec => []Channel!DeliveredInOrder`, from the refinement and the order of the channel |
| `ChannelInvariance`, `ChannelKeepsOrder` | `FifoChannel_proofs` | `ChSpec => []DeliveredInOrder` |
| `DispInvariance`, `BlockOutlivesItsUse`, `WorkerDrains` | `CascaLog_proofs` | `DispSpec => []BlockUsedInItsLife`, `[]ExitsDrained` |
| `RecordersGetTheirs`, `DispTypes` | | `DispSpec => []RecordedAsRouted`, `[]DispTypeOK` |
| `CtxInvariance`, `BarrierAlwaysHolds` | | `Spec => []BarrierHolds` |
| `ContextImplementsDispatcher` | | `Spec => UsesDispatcherProperly` |
| `ItemInvariance`, `NothingGoesInUse` | | `Spec => []NothingGoneInUse` |
| `ContextRecords`, `AcceptedIsKept`, `CtxTypes` | | `Spec => []RecordedAsRouted`, `[]NothingAcceptedIsLost`, `[]CtxTypeOK` |
| `ConfigIsFound` | | `ConfigFound`, of a text of any number of lines, sections of any depth |
| `PoolInvariance`, `HandoutIsUnique`, `MemoryStaysAlive`, `CountersAreExact`, `PoolIsFreedLast` | `BufferPool_proofs` | for one acquirer: `Spec => []UniqueHandout`, `[]MemoryAlive`, `[]CountersExact`, `[]PoolOutlivesBuffers` |
| `FieldsAreRendered` | | `FieldsRendered`, of any number and any date |
| `FormatsAreRendered` | | `FormatRendered`, of any template, value and buffer size |
| `EbrInvariance`, `ReadersAreSafe` | `Lockless_proofs` | `EbrSpec => []GracePeriod`, of retires that get memory |
| `RetiredOnce` | | `EbrSpec => []RetiredFreedOnce` |
| `ListInvariance`, `EachNodeRetiredOnce` | | `AqSpec => []AqInv`, `[]NodesRetiredOnce` |
| `QueueIsLinearizable` | | `AqSpec => ImplementsFifo`: the atomic queue is the abstract `SharedFifo` |
| `ErrorsApart` | | `ErrSpec => []ErrorsKeptApart` |
| `LogsStayInOrder`, `RestartGoesOn` | `Library_proofs` | `FrSpec => []LogsInOrder`, `[]RestartContinues` |
| `QueueStaysWhole` | | `QueueSpec => []QueueWhole` |
| `DirectlyRecorded` | | `DirectSpec => []DirectDispatches` |
| `MapIsMap` | | `HashMapSpec => ImplementsMap`: the hash map is the abstract `KeyValueMap` |
| `MapOwnsItsCopies`, `IterationStandsAtAll` | | `HashMapSpec => []OwnsItsCopies`, `[]IterationComplete` |
| `SetupInvariance` | `Setup_proofs` | `Spec => []SetupInv` |
| `OneOwnerAlways`, `FiltersStayInOrder` | | `Spec => []OneOwner`, `[]FiltersInOrder` |
| `SetupCompletes`, `DestroyLeavesNothing` | | `Spec => []RunningIsComplete`, `[]NothingLeftBehind` |
| `PathsAreNormalized` | | `PathsNormalized`, of any path, directories and buffer |
| `LinesAreRead` | | `LineRead`, of headers, arrays and integers of any length |

**The queue.** None of the safety properties is inductive: that the consumer
never frees the node a producer still writes to depends on the link of that node
being unset, and so on what every producer in flight remembers. `QueueInv` says it:

- `ChainNodes`, `ChainEnds`: the nodes from head to tail are distinct,
  allocated, and the last one ends the list;
- `ChainLinks`, `PendingLinks`: each node links to its successor, or its link is
  null and one producer, past its exchange, will write it. This is the heart:
  out passes a node only when its link is set, so never one with a pending store;
- `PrivateNodes`: a node before its exchange is in nobody else's hands;
- `ConsumerLocals`: what the consumer read of head and link stays true;
- `ClosingQuiet`: after close begins no producer is inside;
- `NothingLeaks`: `live` is the chain, the private nodes and the one being freed.

One lemma per action, each by the conjuncts it can disturb.

**The refinement.** `Slots` maps the nodes behind the head to places; a place is
ready when the link before it is set. That the exchange is a `Claim` needs its
item to be new and every earlier place of its producer to be ready, which
`NumberInv` adds: the items of a producer carry numbers it has used, the node in
its hands the current one. Then `SwapClaims`, `LinkPublishes`, `StoreTakes`, and
two lemmas for the steps that change nodes without changing places. The order of
the items is proved once, of the abstract channel, and carried over.

**The dispatcher.** `DispInv` ties the worker's place to the owner's: asleep
before START, in a state it will stop at once END is stored, and out only with an
empty channel. The last rests on `UnreadyAreLinked` (a place that cannot be read
belongs to a producer between its two steps) and on the producers being quiet at
END. `RecordInv` adds what the worker has in its hand, the item delivered last.
`RecordedAsRouted` is about *turns*: a recorder has a turn for each position of a
route that names it (a route may name it twice), and was given, in the order of
its turns, the item of each. Taking an item brings no turn, serving a position
one, which comes after all others (`GivenMore`). Whatever the cache holds is
compared by id before it is used, and so it makes no difference.

**The context.** `CtxInv` says that threads with an item hold the lock and that
there are none after the barrier, so `DispInv` holds in the composition and each
step of the context is one of the dispatcher's or none. `ItemInv` says that
`alive` is exactly what the channel, the worker or a call before its write has.
That a release hits nobody else's item needs that no item is in the channel twice
or again, which is the order of the abstract channel (`ChInv`): `Spec` implies
`DispSpec`, which implies `ChSpec`. `AcceptedInv` says that a call past its write
has its item in the channel or beyond, and so when it answers success; with
`ExitsDrained` and `RecordedAsRouted` (carried over by the refinement) an
accepted log is recorded once the dispatcher is closed.

**The buffer pool.** The theorems have the hypothesis `OneAcquirer`: no two
threads acquire. It is not a convenience: with two the pool hands out a buffer
twice, which is the run `buffer_pool_aba`. Any number of threads release. In
`PoolInv`:

- `PhaseInv`: while finalize is at work nobody is in a call; afterwards one call
  at a time gives something back;
- `PlaceInv`: a buffer is in the list, with a caller, or owned by one thread that
  takes or gives it, and in one of these only; the list has no cycle (`Straight`);
- `ReadInv`: what the acquirer has read still holds. The buffer it saw at the head
  is still in the list and its successor is still its successor, since releases
  only put buffers in front. This is where the second acquirer would come in;
- `CapacityInv`, `FreeInv`: what the counters lag by is the number of threads
  between their two steps, in words that wrap around.

The list is the least set that holds the head and is closed under `next`, so the
lemmas about it (`ChainPop`, `ChainPush`, `ChainFrame`) need no induction.

**Reclamation.** `EbrInv` holds what makes a grace period work although the epoch
moves on behind a poll: a thread that the poll has *passed* holds nothing that is
in the list to be freed next, and pushes on no list but the current one
(`HeldSafe`, `PusherList`). A poller frees all of the list of two epochs ago
(`PollerList`); whom it passes is outside a critical section then, and what that
thread may read later is in no list (`RootApart`). `RetireInv` is
about once: lists do not share an object or repeat one (`ListsApart`), what is
freed is in no list but the one a poll is about to clear (`FreedApart`,
`PollerFrees`), what was freed at once is nowhere else (`AtOnceApart`), an object with a retiring thread is in no list and with no other
thread (`RetireesApart`), nothing falls between (`NoneLost`), and the last to go
frees the rest (`LastOneFrees`).

**The atomic queue.** `AqInv` says that there are a list `s` of the nodes linked
so far and the place `r` of each node in it, such that

- `Listed`: a node leads to the next in the list, the last one and those outside
  nowhere; head and tail are in it. How far the tail lags does not matter;
- `OwnNodes`: a node outside is in the hands of one writer, which alone can link it;
- `Loaded`: what a thread has loaded is in the list, the head it loaded not ahead of
  the head, and the next it goes on with is the successor of that head for good;
- `Filled`: a node the head has not reached has its data, and the one it reached last
  until the winner of the swap takes it, which comes after the swap;
- `Retiring`: the nodes before the head are retired, or one thread is about to.

The list only grows at its end (`LinkKeeps`): a link replaces a null link, and only
the last node of the list has one. What is behind the head is the rest of the list
from its place on (`BehindListed`: `Behind` is a recursive function, of which two
solutions are compared at the last place where they differ). So a link appends to the
abstract queue, a won swap takes its front, and the load that finds no next of the
dummy finds the queue empty, as the dummy is then still the head
(`LoadHeadNextFinds`); every other step is hidden (`HiddenSteps`).

**The error ring.** `ErrInv`: whoever fills a line that no clear overtook claimed
it, alone (`OwnLine`), and such a line, once claimed, is filled or somebody is about
to fill it (`LinesFilled`). After a clear every line somebody is filling is overtaken,
so the lines claimed from then on are nobody else's.

**The file recorder.** In `FrInv` the meta file never names a later file than the
recorder's memory does, nor this one an earlier than the newest log
(`MetaAtEnd`, `ParamAtEnd`); so the next process goes on at the end. That the logs
one after the other are what was written is about the fold that flattens a
sequence of sequences. It has no induction theorem that the provers can use; the
lemmas `Gathered`, `FlattenAppend` take its partial results as a function and
compare two such functions up to each place (`UpTo`, by the least number for
which they differ).

**The direct dispatcher.** `QueueInv` says that there is a sequence of the
allocated nodes in which each holds the item queued in its turn and leads to the
next. `Chain`, a recursive function over a heap that has no cycle only because of
this, finds that sequence (`ChainFromNode`, from the last node backwards); so
`QueueWhole`. In `DirectInv` the item of a call is in its hand, or alone in the
channel (`ItemPlaces`), and each recorder was given one entry for each position of
a route that names it and has been *reached* (`GivenSoFar`): all positions for
calls that are through, those before the slot for the one at work. Accepting a call
adds an empty part (`FlattenNoMore`), serving a recorder one entry to the last
(`FlattenAppend`).

**The hash map.** `MapInv` says that each entry is in the bucket its key belongs to,
no key twice (`InBuckets`), that size counts the entries and that the memory is
theirs. Then all a caller sees is the *set* of entries (`Held`): a key has the value of
its one entry (`ValueFacts`), whatever the order in the bucket. A put replaces the
entry of its key in this set (`PutHolds`), a take removes it, a get that moves it to
the front and a resize leave the set alone (`MoveHolds`, `RehashHolds`); so each call
is one of the abstract map (`MapStepKeeps`). A resize and the number of entries are
folds over all entries and all buckets; `FoldOfPuts` and `FoldOfLengths` say what
they are for each prefix. `Walked`: the keys an iterator stood at are those it has *passed*, the ones in
buckets and places up to its own, and all of them once it is at the end.

**The context's setup.** `OneOwner` is nearly inductive: a filter in a chain must
also own its param (`ParamsOwned`) and a recorder stand in the map under its id
(`ById`), or replacing one would free another. What is open is what the context
points to (`OpenIsHeld`), and queues and threads that no close can reach are at
most one for each repeated setup (`LostAreRetries`). `SetupDone` says what a
successful setup has left, `TakenDown` how far destroy has come; together they give
`RunningIsComplete` and `NothingLeftBehind`. `AddedOnce`, a filter is given over
once, makes the order in which filters were added a relation of filters, so that an
insertion keeps `FiltersInOrder` (`ChainPlace`, `InsertFacts`, `InsertInOrder`).

Queues and threads are sums over objects, which are folds. `SumsExist` gives the
sums over all subsets as one function, `SumsDiffer` compares two of them at a least
set where they differ (`LeastSet`), and `QueuesChange`, `ThreadsChange` say what a
change at one object does to the sum.

**Folds.** A loop over a sequence is a fold, and what it computes for every input is
an induction over that input, for which the library has no theorem the provers can
use. `SequenceFolds` has it for an operator that is a constant of the module:
`Partial` gives the results of all prefixes as one function `P` with
`P[i] = Op(c, P[i - 1], s[i])`, and `FromZero` says that a set of numbers that holds 0
and with each number the next one holds all. A proof about a loop is then an instance of
`SequenceFolds` for its step, an invariant of that step, and the set of the prefixes for
which it holds.

**Paths.** `clog_normalize` keeps a stack, the property speaks of the names that no
later `..` undoes. The two are linked by *where* the names on the stack come from:
`Stacked` says that there are places, increasing, whose names are the stack, at each of
which the depth is the height of the stack there and after which it never falls below
that. So the places on the stack are those not undone, and `Ascending` of their set gives
them in order (`AscendingIs`). The buffer is `JoinInv`: the offset is the length of what
is joined, and the first name that does not fit shows that the whole does not.

**Fields.** Digits are split off from the right for padded fields (`PaddedIs`) and from the
left for others (`PlainIs`); `Value` folds them back, and `ValueBefore`, `ValueAppend`
say what a digit more at either end adds. The largest power not above the number is
found within the table (`FirstIndexIs`), which is where 10^9 is the limit. For a date,
`LeapsStep` and `YearDays` compare the loop over the years with the count of the leap
years in closed form, `MonthDays` the one over the months (`DatesCounted`).

**Templates.** What a template stands for is given mark by mark (`Stands`), the parser
goes piece by piece. `Piece` says where a piece can begin: no placeholder reaches there
and the mark before is no backslash. From there a text ends at the next brace with a
meaning, which cannot be a '}' if the braces pair up (`TextEndsOpen`), a placeholder at
its '}', and the next piece begins behind (`TextPiece`, `PlaceholderPiece`); what a piece
puts in the list is what its marks stand for (`TextRendered`, `PlaceholderRendered`).
So the nodes spell the prefix parsed so far (`Parsed`, `Spelt`). For the buffer,
`Whole` says that what is spelt so far is in the buffer, nothing outside it, or a number
was refused. A node keeps that while what is spelt has room; the one with which it has
none leaves a failure or an offset at or past the end, and nothing outside (`Full`,
`NodeWritten`). That is all that can be said of the last node, and the reason why nothing
may follow it.

**Configurations.** The parser keeps a tree of groups, the property speaks of the paths in
the section headers. `NamedBy` links them: a function `P` gives each group the path of its
parent with its name behind it, no two groups have the same path, and the paths are
exactly a set `S`. One name of a header either descends to the group with that path or
creates it (`DescendNames`); here it matters that no name in `S` begins another. So a whole
header adds itself and the paths above it (`GroupCreated`, over the fold of its names), and
`ParsedTo` is what the lines read so far have left: the groups are the headers so far and
all above them, the current group is the section the next line stands in, and the items
are the item lines one for one, no key twice in a section (`GroupParsed`, `ItemParsed`,
`LinesParsed`). A look-up goes down the same paths (`FindGroupIs`), the one item it can
find is the one line that says it (`FindItemIs`, `SaidIs`). The modules are a fold over the
groups, of which the children of the process's group count (`ModulePathIs`); after each
prefix the map holds those of them that are not switched off, with what their section
says, or one of them was in error (`Holds`, `ChildrenHeld`, `ModulesAre`).

The proof corrected the property: it had looked for names that begin one another
in the first three names of a header only, and had not asked that a list of recorders
fits.

**Lines.** The parsers of a header and of an array go mark by mark and remember a mode;
the properties speak of pieces between separators. `Over` has the lengths of the pieces
that are over at a place, `Current` that of the piece it is in (`SeparatorNext`,
`MarkNext`). `ModeInv` and `ItemInv` say, for each prefix, in which mode the parser is by
what stands before, and for an array which items it has; `NameNext` does the same for the
names taken out of a header, and `LengthsAre` gives all pieces at the first `]`. For
integers, no accumulated value is greater than the last, so what fits in the accumulator
did at each digit (`NothingWraps`), and the bits follow by cases (`NumberRead`).

Model-checked only: liveness and everything under fairness, which is out of the proof
system's reach (`WrittenIsTaken`, `CloseWaitsForWorker`, `BarrierReached`,
`AcceptedGetsRecorded`).

## Not modelled

- stdout and syslog recorders: output only. Their answers are abstracted in the
  dispatchers.
- Threads, semaphore, mutex, read-write lock, hooks, bounded string functions:
  thin wrappers; what they do is built into the actions that use them.
- Of the context: level and mask tags, which only text depends on. Of the buffer
  pool: failing allocations of initialize. Of the configuration: strings,
  floating-point numbers, the writer. Of the formatter: the arguments of a log,
  which count as the length they render to. Of filters: the search for keywords,
  which is the C library's. Of the file recorder: splitting by time, which the
  code cannot reach as its type is never set.

## Plan

1. `BufferPool` with the failing allocations of initialize.
2. `ConfigText` with strings and floating-point numbers.
3. `Ebr` and `AtomicQueue` composed once the code counts its releases, so that
   nodes come back.
