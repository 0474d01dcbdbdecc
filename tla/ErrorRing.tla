------------------------------ MODULE ErrorRing ------------------------------
(***************************************************************************)
(* source/utils/clog_error.c: the lines in which the library keeps the     *)
(* reasons of its last errors, shared by every thread.  A put claims the   *)
(* next line with a compare-and-swap and then fills it; the start of each  *)
(* log call clears the count.  setup and cleanup are called while nobody   *)
(* else is in the library.                                                 *)
(***************************************************************************)
EXTENDS Naturals, Sequences, FiniteSets

CONSTANTS
    ErrThreads,
    MaxErrors,   \* bound: the largest num given to setup
    MaxPuts,     \* bound: errors reported
    MaxClears    \* bound: log calls begun

VARIABLES
    errLines,   \* g_err_msg: the allocated lines and what each holds, the number of a put
    errNum,     \* g_err_num
    errCount,   \* g_err_count
    epc, eold,  \* where each thread is, and the count it read
    mine,       \* the number of its put
    claimed,    \* since the last clear: the puts that have a line, in order of their claims
    overtaken,  \* the lines that were being filled when the last clear set the count back
    puts, clears, told  \* told: the num each thread was last given by get

errVars == <<errLines, errNum, errCount, epc, eold, mine, claimed, overtaken, puts, clears, told>>

ErrInit ==
    /\ errLines = <<>> /\ errNum = 0 /\ errCount = 0
    /\ claimed = <<>> /\ overtaken = {}
    /\ puts = 0 /\ clears = 0
    /\ epc = [t \in ErrThreads |-> "out"]
    /\ eold = [t \in ErrThreads |-> 0] /\ mine = [t \in ErrThreads |-> 0]
    /\ told = [t \in ErrThreads |-> 0]

ErrAt(t, pc) == epc[t] = pc
ErrGo(t, pc) == epc' = [epc EXCEPT ![t] = pc]
Alone == \A t \in ErrThreads : ErrAt(t, "out")

\* What setup leaves of the first k lines when the next cannot be allocated:
\* nothing.
LinesAfterFailure(k) == <<>>

ErrSetup(num) ==
    /\ Alone /\ errNum = 0 /\ errLines = <<>>
    /\ \/ errLines' = [i \in 1 .. num |-> 0] /\ errNum' = num /\ errCount' = 0
       \/ \E k \in 0 .. num - 1 : errLines' = LinesAfterFailure(k) /\ UNCHANGED <<errNum, errCount>>
    /\ told' = [t \in ErrThreads |-> 0]
    /\ UNCHANGED <<epc, eold, mine, claimed, overtaken, puts, clears>>

\* put leaves at once when there are no lines.
PutBegin(t) ==
    /\ ErrAt(t, "out") /\ puts < MaxPuts /\ errNum > 0
    /\ puts' = puts + 1 /\ mine' = [mine EXCEPT ![t] = puts']
    /\ ErrGo(t, "load")
    /\ UNCHANGED <<errLines, errNum, errCount, eold, claimed, overtaken, clears, told>>

PutLoad(t) ==
    /\ ErrAt(t, "load")
    /\ eold' = [eold EXCEPT ![t] = errCount]
    /\ ErrGo(t, IF errCount >= errNum THEN "out" ELSE "swap")
    /\ UNCHANGED <<errLines, errNum, errCount, mine, claimed, overtaken, puts, clears, told>>

\* The claim succeeds when the count is what was read; the mutant adds one
\* without comparing.
ClaimAnyway(t) == TRUE
MayClaim(t) == errCount = eold[t]

PutSwap(t) ==
    /\ ErrAt(t, "swap")
    /\ IF MayClaim(t)
         THEN /\ errCount' = eold[t] + 1
              /\ claimed' = Append(claimed, mine[t])
              /\ ErrGo(t, "fill")
         ELSE ErrGo(t, "load") /\ UNCHANGED <<errCount, claimed>>
    /\ UNCHANGED <<errLines, errNum, eold, mine, overtaken, puts, clears, told>>

PutFill(t) ==
    /\ ErrAt(t, "fill")
    /\ errLines' = [errLines EXCEPT ![eold[t] + 1] = mine[t]]
    /\ ErrGo(t, "out")
    /\ UNCHANGED <<errNum, errCount, eold, mine, claimed, overtaken, puts, clears, told>>

\* get, with which print begins.
ErrGet(t) ==
    /\ ErrAt(t, "out")
    /\ told' = [told EXCEPT ![t] = IF errNum = 0 THEN 0 ELSE errCount]
    /\ UNCHANGED <<errLines, errNum, errCount, epc, eold, mine, claimed, overtaken, puts, clears>>

\* The start of a log call, while other threads may be anywhere in a put.
ErrClear(t) ==
    /\ ErrAt(t, "out") /\ clears < MaxClears
    /\ clears' = clears + 1
    /\ errCount' = 0 /\ claimed' = <<>>
    /\ overtaken' = {eold[u] + 1 : u \in {w \in ErrThreads : ErrAt(w, "fill")}}
    /\ UNCHANGED <<errLines, errNum, epc, eold, mine, puts, told>>

Cleanup ==
    /\ Alone /\ errNum > 0
    /\ errLines' = <<>> /\ errNum' = 0 /\ errCount' = 0 /\ claimed' = <<>> /\ overtaken' = {}
    /\ told' = [t \in ErrThreads |-> 0]
    /\ UNCHANGED <<epc, eold, mine, puts, clears>>

ErrNext ==
    \/ Cleanup \/ \E num \in 1 .. MaxErrors : ErrSetup(num)
    \/ \E t \in ErrThreads :
         PutBegin(t) \/ PutLoad(t) \/ PutSwap(t) \/ PutFill(t) \/ ErrGet(t) \/ ErrClear(t)

ErrSpec == ErrInit /\ [][ErrNext]_errVars

-----------------------------------------------------------------------------
Writers(i) == {t \in ErrThreads : ErrAt(t, "fill") /\ eold[t] + 1 = i}

(* The count grows by one for each put that has a line, never past the      *)
(* lines there are, so nobody writes or is told to read outside the array.  *)
(* A line that was not being filled at the last clear has one writer, the   *)
(* put that claimed it, and holds that put's error when the writer is gone. *)
(* A clear takes no notice of the puts under way (clog_error.c:110): the    *)
(* lines it overtakes may be claimed again while they are still written,    *)
(* and then two writers are in one line; of those lines nothing is said.    *)
(* A setup that fails half way has no lines (clog_error.c:26).              *)
ErrorsKeptApart ==
    /\ errCount = Len(claimed) /\ errCount <= errNum
    /\ Len(errLines) = errNum
    /\ \A t \in ErrThreads : told[t] <= errNum /\ (ErrAt(t, "fill") => eold[t] < errNum)
    /\ \A i \in (1 .. errNum) \ overtaken :
        /\ \A t \in Writers(i) : Writers(i) = {t} /\ i <= errCount /\ mine[t] = claimed[i]
        /\ i <= errCount /\ Writers(i) = {} => errLines[i] = claimed[i]

================================================================================
