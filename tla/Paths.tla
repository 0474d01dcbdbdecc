--------------------------------- MODULE Paths ---------------------------------
(***************************************************************************)
(* source/utils/clog_file_system.c on a POSIX system: how a path is made   *)
(* absolute and normalized into a buffer and how the directories of a file *)
(* are made.                                                               *)
(*                                                                         *)
(* A path is the sequence of what stands between its slashes: "/a//b/" is  *)
(* <<"a", "/", "b", "/">> and absolute; "/" stands for what is empty.      *)
(* Of a name only the length counts.                                       *)
(***************************************************************************)
EXTENDS Integers, Sequences, FiniteSets, SequencesExt, Pointers

CONSTANTS
    NameLength,   \* the length of each name
    Cwd,          \* the working directory, between its slashes
    MaxSegments,  \* bound: segments of a path
    Sizes         \* the sizes of the buffers

Names == DOMAIN NameLength

ASSUME PathsAssumption ==
    /\ NameLength \in [Names -> Nat \ {0}] /\ Names \cap {"/", ".", ".."} = {}
    /\ Cwd \in Seq(Names)
    /\ Sizes \subseteq Nat \ {0, 1}

VARIABLE pathCall  \* a call's [absolute, segments, size, dirs, next], or NULL

Numbered(s) == [i \in 1 .. Len(s) |-> i]

\* /./ and // add nothing, /../ takes the last name off or finds none.
\* The mutant takes none off.
ClimbNowhere(r) == r
Climb(r) == IF r.names = <<>> THEN [r EXCEPT !.ok = FALSE] ELSE [r EXCEPT !.names = Front(@)]

CreatePathNode(r, segment) ==
    CASE ~r.ok -> r
      [] r.ok /\ segment \in {"/", "."} -> r
      [] r.ok /\ segment = ".." -> Climb(r)
      [] r.ok /\ segment \in Names -> [r EXCEPT !.names = Append(@, segment)]

\* An empty path cannot be copied behind the working directory.
Readable(path) == path.absolute \/ path.segments # <<"/">>
UnnormalizedAbs(path) == IF path.absolute THEN path.segments ELSE Cwd \o path.segments

\* clog_strcpy: an empty string only goes into an empty buffer.
StrCopies(length, size) == IF size = 0 THEN length = 0 ELSE length > 0 /\ length < size

JoinName(names, size, r, i) ==
    LET end == r.offset + NameLength[names[i]] IN
    IF ~r.ok \/ ~StrCopies(NameLength[names[i]], size - 1 - r.offset) \/ (i < Len(names) /\ end + 2 >= size)
    THEN [r EXCEPT !.ok = FALSE]
    ELSE [r EXCEPT !.offset = IF i < Len(names) THEN end + 1 ELSE end]

Joined(names, size) ==
    FoldLeft(LAMBDA r, i : JoinName(names, size, r, i), [ok |-> TRUE, offset |-> 1], Numbered(names))

\* clog_normalize: the names it writes and where it ends the string.
Normalize(path, size) ==
    LET r == FoldLeft(CreatePathNode, [ok |-> TRUE, names |-> <<>>], UnnormalizedAbs(path))
        j == Joined(r.names, size)
    IN [ok |-> Readable(path) /\ r.ok /\ j.ok, names |-> r.names, end |-> j.offset]

\* The step of clog_dir_create for one directory: it may be there, come to be
\* there between stat and mkdir, or be a file.
MakeDir(there) ==
    CASE there = "none" -> "SUCCESS"
      [] there \in {"dir", "raced"} -> "ALREADY_EXISTED"
      [] there = "file" -> "BUSY"
      [] there = "denied" -> "FAIL"

There(call, depth) ==
    IF depth <= call.dirs THEN "dir" ELSE IF depth = call.dirs + 1 THEN call.next ELSE "none"

DirCreate(call, names) ==
    FoldLeft(LAMBDA res, i : IF res \in {"BUSY", "FAIL"} THEN res ELSE MakeDir(There(call, i)),
             "ALREADY_EXISTED", Numbered(names))

\* The length of names, each with a slash behind it.
AddName(n, name) == n + NameLength[name] + 1
TextLength(names) == FoldLeft(AddName, 0, names)

\* clog_file_get_dir: where the terminator goes, behind the last slash.
GetDirEnd(names) == 1 + TextLength(Front(names))

-----------------------------------------------------------------------------
Segments == Names \cup {"/", ".", ".."}
PathCalls(paths, sizes, depths) ==
    [absolute : BOOLEAN, segments : paths \ {<<>>}, size : sizes,
     dirs : depths, next : {"none", "file", "raced", "denied"}]
PathInit == pathCall \in PathCalls(BoundedSeq(Segments, MaxSegments), Sizes, 0 .. 1)

\* How far below the root the first j segments lead.
Depth(s, j) == Cardinality({i \in 1 .. j : s[i] \in Names}) - Cardinality({i \in 1 .. j : s[i] = ".."})

\* A name is undone by the ".." that leads above it.
Undone(s, i) == \E j \in i + 1 .. Len(s) : Depth(s, j) < Depth(s, i)
Climbs(s) == \E j \in 1 .. Len(s) : Depth(s, j) < 0

\* The places, which are none above n, in order.
AddPlace(places, p, i) == IF i \in places THEN Append(p, i) ELSE p
Ascending(places, n) == FoldLeft(LAMBDA p, i : AddPlace(places, p, i), <<>>, [i \in 1 .. n |-> i])

Kept(s) == LET p == Ascending({i \in 1 .. Len(s) : s[i] \in Names /\ ~Undone(s, i)}, Len(s))
           IN [k \in 1 .. Len(p) |-> s[p[k]]]

(* clog_normalize refuses exactly the paths that climb above the root, are   *)
(* empty or leave less than one byte of the buffer over, and of every other  *)
(* keeps the names that no later ".." undoes (clog_file_system.c:370).  The  *)
(* directory of the file so named ends inside a buffer of the same size, and *)
(* making it succeeds iff neither a file nor a refusal is in the way.        *)
PathsNormalized == pathCall # NULL =>
    LET r == Normalize(pathCall, pathCall.size)
        kept == Kept(UnnormalizedAbs(pathCall))
        res == DirCreate(pathCall, Front(r.names))
    IN /\ r.ok <=> /\ Readable(pathCall) /\ ~Climbs(UnnormalizedAbs(pathCall))
                   /\ kept # <<>> => TextLength(kept) <= pathCall.size - 2
       /\ r.ok => r.names = kept /\ r.end < pathCall.size
       /\ r.ok /\ kept # <<>> =>
            /\ GetDirEnd(r.names) < pathCall.size
            /\ res \in {"BUSY", "FAIL"} <=>
                 pathCall.dirs + 1 < Len(kept) /\ pathCall.next \in {"file", "denied"}

================================================================================
