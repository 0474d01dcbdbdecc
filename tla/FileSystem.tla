------------------------------- MODULE FileSystem -------------------------------
(***************************************************************************)
(* source/utils/clog_file_system.c on a POSIX system: files that are opened*)
(* and written.  What a file holds is a sequence.                          *)
(***************************************************************************)
EXTENDS Naturals, Sequences

\* What clog_file_open asks of open().  The
\* mutant empties every file that it may create.
EmptiesCreated(flags) == "CREATE" \in flags
Empties(flags) == "TRUNCATE" \in flags \/ ("CREATE" \in flags /\ "EXIST" \notin flags)

OpenFlags(flags) ==
    (CASE {"READ", "WRITE"} \subseteq flags -> {"O_RDWR"}
       [] "WRITE" \in flags /\ "READ" \notin flags -> {"O_WRONLY"}
       [] "WRITE" \notin flags -> {"O_RDONLY"})
    \cup (IF "CREATE" \in flags THEN {"O_CREAT"} ELSE {})
    \cup (IF Empties(flags) THEN {"O_TRUNC"} ELSE {})
    \cup (IF "TRUNCATE" \in flags THEN {} ELSE {"O_APPEND"})

Opened(flags, content) == IF "O_TRUNC" \in OpenFlags(flags) THEN <<>> ELSE content

\* clog_file_write: a short write counts as success, nothing to write does not.
FileTakes(flags, length) == "WRITE" \in flags /\ length > 0

================================================================================
