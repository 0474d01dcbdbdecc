---------------------------------- MODULE Ebr ----------------------------------
(***************************************************************************)
(* source/utils/clog_ebr.c: epoch-based reclamation.  A thread that reads  *)
(* shared objects does so between enter and exit; an object taken out of   *)
(* the shared structure is retired into the list of the current epoch; a   *)
(* poll frees the list of two epochs ago, and moves the epoch on when it   *)
(* finds no thread between enter and exit.                                 *)
(* The client is what clog_atomic_queue.c does with it, cut down to one    *)
(* shared pointer: enter, load the pointer, replace the object and retire  *)
(* the old one, exit; poll only from outside a critical section.  Every    *)
(* shared access is a step; a compare-and-swap that fails starts its loop  *)
(* again.                                                                  *)
(***************************************************************************)
EXTENDS Naturals, Sequences, FiniteSets, Pointers

CONSTANTS
    EbrThreads,
    Late,       \* the thread, if any, that may unregister after destroy has returned
    MaxObjects, \* bound: objects allocated; they are numbered as they are
    Rounds,     \* bound: critical sections per thread
    Polls       \* bound: polls


VARIABLES
    gstate,     \* global->state; "freed" once the global is gone
    epoch,      \* global->epoch
    threads,    \* global->threads, newest first
    mutex,      \* its holder
    lists,     \* the retired list of each epoch: what its entries hold, newest first
    lstate,     \* local->state
    root,       \* the client's shared pointer
    used,       \* the number of objects allocated so far
    freed,      \* what poll and destroy handed to global->free, in order
    atOnce,     \* what a retire that got no memory handed to it, in order
    at,         \* where each thread is, and the owner, who destroys
    holds,      \* the object a thread read in its critical section
    idx, old,   \* retire and poll: the list, and the head of it that was read
    scan,       \* poll: how many of threads are left to look at
    rounds, polls

ebrVars == <<gstate, epoch, threads, mutex, lists, lstate, root, used, freed,
             atOnce, at, holds, idx, old, scan, rounds, polls>>

OWNER == "owner"
Actors == EbrThreads \cup {OWNER}

ASSUME EbrAssumption ==
    /\ Late \subseteq EbrThreads /\ Cardinality(Late) <= 1
    /\ OWNER \notin EbrThreads
    /\ NULL \notin Nat \cup Actors

Epochs == 0 .. 2
\* The client starts nothing new once it is being destroyed.
Usable == gstate \in {"NORMAL", "GC"} /\ at[OWNER] = "running"

EbrInit ==
    /\ gstate = "NORMAL" /\ epoch = 0 /\ threads = <<>> /\ mutex = NULL
    /\ lists = [e \in Epochs |-> <<>>]
    /\ lstate = [t \in EbrThreads |-> "INACTIVE"]
    /\ root = 1 /\ used = 1
    /\ freed = <<>> /\ atOnce = <<>>
    /\ at = [a \in Actors |-> IF a = OWNER THEN "running" ELSE "new"]
    /\ holds = [t \in EbrThreads |-> NULL]
    /\ idx = [a \in Actors |-> 0] /\ old = [a \in Actors |-> <<>>]
    /\ scan = [a \in Actors |-> 0]
    /\ rounds = [t \in EbrThreads |-> 0] /\ polls = 0

Go(t, from, to) == at[t] = from /\ at' = [at EXCEPT ![t] = to]
pollVars == <<idx, old, scan, polls>>
globalVars == <<gstate, epoch, threads, mutex, lists, freed, atOnce>>
clientVars == <<root, used, holds, rounds>>

\* clog_ebr_register, all of it under the mutex.
Register(t) ==
    /\ Go(t, "new", "out") /\ mutex = NULL /\ Usable
    /\ threads' = <<t>> \o threads
    /\ UNCHANGED <<gstate, epoch, mutex, lists, lstate, freed, atOnce, clientVars, pollVars>>

\* enter looks at the global state, then swaps its own.
EnterCheck(t) ==
    /\ Go(t, "out", "enter") /\ Usable /\ rounds[t] < Rounds
    /\ rounds' = [rounds EXCEPT ![t] = @ + 1]
    /\ UNCHANGED <<globalVars, lstate, root, used, holds, pollVars>>

EnterState(t) == [lstate EXCEPT ![t] = "ACTIVE"]

EnterSwap(t) ==
    /\ Go(t, "enter", "in")
    /\ lstate' = EnterState(t)
    /\ UNCHANGED <<globalVars, clientVars, pollVars>>

Load(t) ==
    /\ Go(t, "in", "holding")
    /\ holds' = [holds EXCEPT ![t] = root]
    /\ UNCHANGED <<globalVars, lstate, root, used, rounds, pollVars>>

\* Whoever swaps the pointer retires what was there; who finds it changed
\* has to load it again.
Replace(t) ==
    /\ at[t] = "holding" /\ used < MaxObjects
    /\ IF root = holds[t]
         THEN root' = used + 1 /\ used' = used + 1 /\ at' = [at EXCEPT ![t] = "replaced"]
         ELSE at' = [at EXCEPT ![t] = "in"] /\ UNCHANGED <<root, used>>
    /\ UNCHANGED <<globalVars, lstate, holds, rounds, pollVars>>

\* clog_ebr_defer_release allocates its entry once, before the loop that
\* pushes it.  A retire that gets none frees the object where it stands.
RetireAtOnce(t) ==
    /\ Go(t, "replaced", "retired")
    /\ atOnce' = Append(atOnce, holds[t])
    /\ UNCHANGED <<gstate, epoch, threads, mutex, lists, freed, lstate, clientVars, pollVars>>

RetireLoad(t) ==
    /\ at[t] \in {"replaced", "retire"} /\ at' = [at EXCEPT ![t] = "push"]
    /\ idx' = [idx EXCEPT ![t] = epoch]
    /\ old' = [old EXCEPT ![t] = lists[epoch]]
    /\ UNCHANGED <<globalVars, lstate, clientVars, scan, polls>>

\* The push succeeds on the head that was read; the mutant does not compare.
PushBlindly(t) == TRUE
MayPush(t) == lists[idx[t]] = old[t]

RetirePush(t) ==
    /\ at[t] = "push"
    /\ IF MayPush(t)
         THEN /\ lists' = [lists EXCEPT ![idx[t]] = <<holds[t]>> \o old[t]]
              /\ at' = [at EXCEPT ![t] = "retired"]
         ELSE at' = [at EXCEPT ![t] = "retire"] /\ UNCHANGED lists
    /\ UNCHANGED <<gstate, epoch, threads, mutex, freed, atOnce, lstate, clientVars, pollVars>>

Exit(t) ==
    /\ at[t] \in {"holding", "retired"}
    /\ at' = [at EXCEPT ![t] = "out"]
    /\ lstate' = [lstate EXCEPT ![t] = "INACTIVE"]
    /\ holds' = [holds EXCEPT ![t] = NULL]
    /\ UNCHANGED <<globalVars, root, used, rounds, pollVars>>

\* One poll at a time: the others leave at once.
MayPoll(t) == IF t = OWNER THEN at[t] = "retired" ELSE at[t] = "out" /\ polls < Polls /\ Usable

PollBegin(t) ==
    /\ MayPoll(t)
    /\ polls' = IF t = OWNER THEN polls ELSE polls + 1
    /\ IF gstate = "NORMAL"
         THEN gstate' = "GC" /\ at' = [at EXCEPT ![t] = "gc"]
         ELSE at' = [at EXCEPT ![t] = "out"] /\ UNCHANGED gstate
    /\ UNCHANGED <<epoch, threads, mutex, lists, freed, atOnce, lstate, clientVars, idx, old, scan>>

\* The list of two epochs ago.  The mutant takes that of the last one.
LastList(e) == (e + 2) % 3
OldList(e) == (e + 1) % 3

PollHead(t) ==
    /\ Go(t, "gc", "free")
    /\ idx' = [idx EXCEPT ![t] = OldList(epoch)]
    /\ old' = [old EXCEPT ![t] = lists[OldList(epoch)]]
    /\ UNCHANGED <<globalVars, lstate, clientVars, scan, polls>>

PollFree(t) ==
    /\ Go(t, "free", "clear")
    /\ freed' = freed \o old[t]
    /\ UNCHANGED <<gstate, epoch, threads, mutex, lists, atOnce, lstate, clientVars, pollVars>>

PollClear(t) ==
    /\ Go(t, "clear", "lock")
    /\ lists' = [lists EXCEPT ![idx[t]] = <<>>]
    /\ UNCHANGED <<gstate, epoch, threads, mutex, freed, atOnce, lstate, clientVars, pollVars>>

PollLock(t) ==
    /\ Go(t, "lock", "scan") /\ mutex = NULL
    /\ mutex' = t
    /\ scan' = [scan EXCEPT ![t] = Len(threads)]
    /\ UNCHANGED <<gstate, epoch, threads, lists, freed, atOnce, lstate, clientVars, idx, old, polls>>

\* One thread of the list: the first active one ends the poll.
PollScan(t) ==
    /\ at[t] = "scan"
    /\ LET n == scan[t]
           blocked == n > 0 /\ lstate[threads[Len(threads) - n + 1]] = "ACTIVE"
       IN  IF n > 0 /\ ~blocked
             THEN scan' = [scan EXCEPT ![t] = n - 1] /\ UNCHANGED <<gstate, epoch, mutex, at>>
             ELSE /\ epoch' = IF blocked THEN epoch ELSE (epoch + 1) % 3
                  /\ gstate' = "NORMAL" /\ mutex' = NULL
                  /\ at' = [at EXCEPT ![t] = "out"]
                  /\ UNCHANGED scan
    /\ UNCHANGED <<threads, lists, freed, atOnce, lstate, clientVars, idx, old, polls>>

\* clog_ebr_try_destroy frees the lists, the locals and the global, unless
\* a thread has not unregistered.
Finished == gstate = "INACTIVE" /\ \A t \in EbrThreads : lstate[t] = "RELEASED" \/ at[t] = "new"
TryDestroy ==
    IF Finished
      THEN /\ freed' = freed \o lists[0] \o lists[1] \o lists[2]
           /\ lists' = [e \in Epochs |-> <<>>]
           /\ threads' = <<>> /\ gstate' = "freed"
      ELSE UNCHANGED <<freed, lists, threads, gstate>>

Unregister(t) ==
    /\ Go(t, "out", "unregister")
    /\ t \in Late => at[OWNER] \in {"running", "done"}
    /\ lstate' = [lstate EXCEPT ![t] = "RELEASED"]
    /\ UNCHANGED <<globalVars, clientVars, pollVars>>

UnregisterDestroy(t) ==
    /\ Go(t, "unregister", "done") /\ mutex = NULL
    /\ TryDestroy
    /\ UNCHANGED <<epoch, mutex, atOnce, lstate, clientVars, pollVars>>

\* clog_atomic_queue_destroy retires the last object outside any critical
\* section, polls once, then destroys the reclamation.  It is called when
\* every thread has unregistered, or is one that has yet to begin.
MayDestroy == \A t \in EbrThreads : at[t] = "done" \/ (t \in Late /\ at[t] = "out")

DestroyRetire ==
    /\ Go(OWNER, "running", "retired") /\ MayDestroy
    /\ \/ lists' = [lists EXCEPT ![epoch] = <<root>> \o @] /\ UNCHANGED atOnce
       \/ atOnce' = Append(atOnce, root) /\ UNCHANGED lists
    /\ root' = NULL
    /\ UNCHANGED <<gstate, epoch, threads, mutex, freed, lstate, used, holds, rounds, pollVars>>

DestroyInactive ==
    /\ Go(OWNER, "out", "try") /\ gstate = "NORMAL"
    /\ gstate' = "INACTIVE"
    /\ UNCHANGED <<epoch, threads, mutex, lists, freed, atOnce, lstate, clientVars, pollVars>>

EbrDestroy ==
    /\ Go(OWNER, "try", "done") /\ mutex = NULL
    /\ TryDestroy
    /\ UNCHANGED <<epoch, mutex, atOnce, lstate, clientVars, pollVars>>

EbrStep(t) ==
    \/ Register(t) \/ EnterCheck(t) \/ EnterSwap(t) \/ Load(t) \/ Replace(t) \/ RetireAtOnce(t)
    \/ RetireLoad(t) \/ RetirePush(t) \/ Exit(t) \/ Unregister(t) \/ UnregisterDestroy(t)

PollStep(a) ==
    PollBegin(a) \/ PollHead(a) \/ PollFree(a) \/ PollClear(a) \/ PollLock(a) \/ PollScan(a)

EbrNext ==
    \/ \E t \in EbrThreads : EbrStep(t)
    \/ \E a \in Actors : PollStep(a)
    \/ DestroyRetire \/ DestroyInactive \/ EbrDestroy

EbrSpec == EbrInit /\ [][EbrNext]_ebrVars

-----------------------------------------------------------------------------
Freed == {freed[i] : i \in 1 .. Len(freed)}
FreedAtOnce == {atOnce[i] : i \in 1 .. Len(atOnce)}

(* The grace period: what a thread read in its critical section is not      *)
(* freed by a poll or by destroy before the thread leaves it, and what the  *)
(* pointer leads to is not freed at all, although poll never looks at the   *)
(* epochs the threads entered in (clog_ebr.c:207) and a thread it has       *)
(* passed may enter behind its back.  This is said of retires that get      *)
(* their entry: one whose malloc fails frees the object at once, whoever    *)
(* holds it (clog_ebr.c:187), and the code has no grace period there.       *)
GracePeriod ==
    /\ root \notin Freed \cup FreedAtOnce
    /\ \A t \in EbrThreads : holds[t] \notin Freed

(* What was retired is freed once, after its grace period or at once: it    *)
(* stays in one list until then, so no retire is lost to the poll that      *)
(* empties its list without a swap (clog_ebr.c:227), and when destroy and   *)
(* the last unregister are through, whichever comes last, everything is     *)
(* freed and the global with it.                                            *)
RetiredFreedOnce ==
    /\ Len(freed) = Cardinality(Freed) /\ Len(atOnce) = Cardinality(FreedAtOnce)
    /\ Freed \cap FreedAtOnce = {}
    /\ \A o \in 1 .. used : o = root \/ o \in Freed \cup FreedAtOnce
           \/ (\E e \in Epochs : \E i \in 1 .. Len(lists[e]) : lists[e][i] = o)
           \/ (\E t \in EbrThreads : at[t] \in {"replaced", "retire", "push"} /\ holds[t] = o)
    /\ (\A a \in Actors : at[a] = "done") =>
           gstate = "freed" /\ Freed \cup FreedAtOnce = 1 .. used

================================================================================
