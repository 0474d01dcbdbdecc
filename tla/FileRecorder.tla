------------------------------ MODULE FileRecorder ------------------------------
(***************************************************************************)
(* source/recorder/clog_recorder_file.c over the files of                  *)
(* source/utils/clog_file_system.c: log files named by an index, and a     *)
(* metainfo file that tells the next process which file is current.        *)
(* Each call to the operating system is a step; the process may stop       *)
(* between any two, and what it wrote stays.                               *)
(* The log file's name is taken to contain the placeholder _log_index, as  *)
(* in test_casca_log_core.cpp:89, and one process at a time to use it.     *)
(* A dispatcher calls flush when write asks for it; the interface          *)
(* (clog_recorder.h:44) lets the holder of a recorder call it at any time. *)
(***************************************************************************)
EXTENDS Naturals, Sequences, SequencesExt, FileSystem, Pointers

CONSTANTS
    SplitType,   \* attr->split.type: "NONE", "SIZE", "TIME" or "NUMBER"
    SplitLimit,  \* attr->split.limit, in items of one byte for SIZE
    MaxItems,    \* bound: items written
    MaxFiles,    \* bound: indices used
    MaxCrashes,  \* bound
    TORN         \* a metainfo file that was emptied and not written again

\* What the metainfo file tells, and what a recorder has in memory.
SplitTypes == {"NONE", "SIZE", "TIME", "NUMBER"}
MetaInfos == [index : Nat, file : Nat]
Params == [index : Nat, file : Nat, log : Nat \cup {NULL}, type : SplitTypes, current : Nat]

ASSUME FileRecorderAssumption ==
    /\ SplitLimit \in Nat /\ MaxFiles \in Nat \ {0}
    /\ NULL \notin Nat \cup Params /\ NULL # TORN
    /\ NULL \notin MetaInfos /\ TORN \notin MetaInfos

VARIABLES
    meta,       \* the metainfo file: NULL, TORN, or [index, file]
    logs,       \* the log files: a sequence of items each
    param,      \* the recorder's memory: NULL or [index, file, log, type, current]
    leaked,     \* handles of the process that nobody will close
    frpc,       \* where the call is; "out" between calls
    oldLog,     \* flush: the file that was open
    frAnswer,     \* what the last write returned
    written,    \* items whose write did not fail, in order
    crashes, nextItem

frVars == <<meta, logs, param, leaked, frpc, oldLog, frAnswer, written, crashes, nextItem>>

FrInit ==
    /\ meta = NULL /\ logs = [f \in {} |-> <<>>] /\ param = NULL /\ leaked = {}
    /\ frpc = "out" /\ oldLog = NULL /\ frAnswer = NULL
    /\ written = <<>> /\ crashes = 0 /\ nextItem = 1

Exists(f) == f \in DOMAIN logs
LogFlags == {"READ", "WRITE", "CREATE", "EXIST", "SHARED"}
MetaFlags == {"WRITE", "CREATE", "TRUNCATE"}

Touched(f) == [g \in DOMAIN logs \cup {f} |->
    IF g # f THEN logs[g] ELSE Opened(LogFlags, IF Exists(f) THEN logs[f] ELSE <<>>)]
Name(index) == index  \* the file name that the interpolators make of an index

\* init_split stores the limit and not the type: param->split_type is what
\* memset left, CLOG_RECORDER_FILE_SPLIT_NONE.
SplitTypeLeft == "NONE"

\* create, up to the metainfo file.  A torn file reads as 0 bytes and success:
\* version, index and name stay zero, an empty name has no directory, and no
\* recorder is created from then on; nor is one when there is no memory.
CreateBegin ==
    /\ frpc = "out" /\ param = NULL
    /\ frAnswer' = NULL
    /\ \/ /\ meta = NULL
          /\ param' = [index |-> 1, file |-> Name(0), log |-> NULL, type |-> SplitTypeLeft, current |-> 0]
          /\ frpc' = "createMeta"
       \/ /\ meta \notin {NULL, TORN}
          /\ param' = [index |-> meta.index, file |-> meta.file, log |-> NULL,
                       type |-> SplitTypeLeft, current |-> 0]
          /\ frpc' = "createOpen"
    /\ UNCHANGED <<meta, logs, leaked, oldLog, written, crashes, nextItem>>

\* Opening the metainfo file empties it; the write comes later.
TruncateMeta(from, to) ==
    /\ frpc = from
    /\ meta' = IF Opened(MetaFlags, <<meta>>) = <<>> THEN TORN ELSE meta
    /\ frpc' = to
    /\ UNCHANGED <<logs, param, leaked, oldLog, frAnswer, written, crashes, nextItem>>

\* The mutant stores the index that the current file has.
MetaBehind == [index |-> param.file, file |-> param.file]
MetaInfo == [index |-> param.index, file |-> param.file]

WriteMeta(from, to) ==
    /\ frpc = from
    /\ meta' = MetaInfo /\ frpc' = to
    /\ UNCHANGED <<logs, param, leaked, oldLog, frAnswer, written, crashes, nextItem>>

\* The items there are, counted anew for SPLIT_SIZE and SPLIT_NUMBER.
Counted(type, f) == IF type \in {"SIZE", "NUMBER"} /\ Exists(f) THEN Len(logs[f]) ELSE 0

\* open_file: create what is not there, and write behind what is.
OpenLog(from) ==
    /\ frpc = from
    /\ logs' = Touched(param.file)
    /\ param' = [param EXCEPT !.log = param.file, !.current = Counted(param.type, param.file)]
    /\ frpc' = "out" /\ oldLog' = NULL
    /\ UNCHANGED <<meta, leaked, frAnswer, written, crashes, nextItem>>

CreateTruncate == TruncateMeta("createMeta", "createWrite")
CreateWrite == WriteMeta("createWrite", "createOpen")
CreateOpen == OpenLog("createOpen")

\* A step of create that fails clears the parameter; the recorder itself is
\* lost (clog_recorder_file.c:337).
CreateFails ==
    /\ frpc \in {"createMeta", "createWrite", "createOpen"}
    /\ param' = NULL /\ frpc' = "out"
    /\ UNCHANGED <<meta, logs, leaked, oldLog, frAnswer, written, crashes, nextItem>>

Full(type, current) == type \in {"SIZE", "NUMBER"} /\ current >= SplitLimit

\* write, then check_flush.  With no log file it fails.
WriteItem ==
    /\ frpc = "out" /\ param # NULL /\ nextItem <= MaxItems
    /\ nextItem' = nextItem + 1
    /\ \/ /\ param.log # NULL /\ FileTakes(LogFlags, 1)
          /\ logs' = [logs EXCEPT ![param.log] = Append(@, nextItem)]
          /\ written' = Append(written, nextItem)
          /\ LET n == IF param.type \in {"SIZE", "NUMBER"} THEN param.current + 1 ELSE 0 IN
               /\ param' = [param EXCEPT !.current = n]
               /\ frAnswer' = IF Full(param.type, n) THEN "REQUEST_FLUSH" ELSE "SUCCESS"
       \/ frAnswer' = "FAIL" /\ UNCHANGED <<logs, written, param>>
    /\ UNCHANGED <<meta, leaked, frpc, oldLog, crashes>>

\* flush: the new name and index first, in memory.
FlushBegin ==
    /\ frpc = "out" /\ param # NULL /\ param.index < MaxFiles
    /\ oldLog' = param.log
    /\ param' = [param EXCEPT !.file = Name(param.index), !.index = @ + 1]
    /\ frpc' = "flushMeta" /\ frAnswer' = NULL
    /\ UNCHANGED <<meta, logs, leaked, written, crashes, nextItem>>

FlushTruncate == TruncateMeta("flushMeta", "flushWrite")
FlushWrite == WriteMeta("flushWrite", "flushOpen")
FlushOpen == OpenLog("flushOpen")

\* The metainfo file does not open or takes no write, or no directory can be
\* made: the old log file stays the one that is written.
FlushFails ==
    /\ frpc \in {"flushMeta", "flushWrite", "flushOpen"}
    /\ frpc' = "out" /\ oldLog' = NULL
    /\ UNCHANGED <<meta, logs, param, leaked, frAnswer, written, crashes, nextItem>>

\* The new log file does not open: param->log is NULL from here on and
\* nobody has the old one.
FlushLosesLog ==
    /\ frpc = "flushOpen"
    /\ param' = [param EXCEPT !.log = NULL]
    /\ leaked' = leaked \cup ({oldLog} \ {NULL})
    /\ frpc' = "out" /\ oldLog' = NULL
    /\ UNCHANGED <<meta, logs, frAnswer, written, crashes, nextItem>>

CloseRecorder ==
    /\ frpc = "out" /\ param # NULL
    /\ param' = NULL /\ frAnswer' = NULL
    /\ UNCHANGED <<meta, logs, leaked, frpc, oldLog, written, crashes, nextItem>>

\* The process stops; another may start.
Crash ==
    /\ param # NULL /\ crashes < MaxCrashes
    /\ crashes' = crashes + 1
    /\ param' = NULL /\ frpc' = "out" /\ oldLog' = NULL /\ leaked' = {} /\ frAnswer' = NULL
    /\ UNCHANGED <<meta, logs, written, nextItem>>

FrNext ==
    \/ CreateBegin \/ CreateTruncate \/ CreateWrite \/ CreateOpen \/ CreateFails
    \/ WriteItem \/ FlushBegin \/ FlushTruncate \/ FlushWrite \/ FlushOpen \/ FlushFails
    \/ FlushLosesLog \/ CloseRecorder \/ Crash

FrSpec == FrInit /\ [][FrNext]_frVars

-----------------------------------------------------------------------------
InOrder == FlattenSeq([i \in 1 .. MaxFiles |-> IF Exists(i - 1) THEN logs[i - 1] ELSE <<>>])

(* The log files, read in the order of their indices, hold every item whose *)
(* write did not fail, once and in the order of writing: over flushes that  *)
(* fail at any step, close, crashes and restarts (clog_recorder_file.c:208).*)
LogsInOrder == InOrder = written

(* The metainfo file, unless a crash has torn it, names a file that no log  *)
(* file is newer than, with an index that no log file has: whoever starts   *)
(* next goes on at the end.  What is in memory is never behind it.          *)
RestartContinues ==
    /\ meta \notin {NULL, TORN} =>
         \A f \in DOMAIN logs : f <= meta.file /\ f < meta.index
    /\ meta \notin {NULL, TORN} /\ param # NULL =>
         meta.file <= param.file /\ meta.index <= param.index

(* The sizes and numbers of clog_recorder_file.h:17 and :19: a write that   *)
(* fills a log file up to the limit asks for the next file.  The code       *)
(* breaks it for every type: it splits by a field that nothing assigns.     *)
SplitsAtLimit ==
    (SplitType \in {"SIZE", "NUMBER"} /\ frAnswer = "SUCCESS") => Len(logs[param.log]) < SplitLimit

================================================================================
