--------------------------------- MODULE Config ---------------------------------
(***************************************************************************)
(* source/utils/clog_config.c: the groups and items that the lines of a    *)
(* configuration make, and how they are looked up; and the modules that    *)
(* source/casca_log_core.c takes from them.                                *)
(*                                                                         *)
(* Lines come as what they say: a group with its path and whether blanks   *)
(* stand before the ']', an item with key and value, or a comment.  How    *)
(* one line is read is in ConfigText.                                      *)
(***************************************************************************)
EXTENDS Integers, Sequences, SequencesExt, Pointers

CONSTANTS
    Lines,        \* the lines that a text is made of
    Begins,       \* pairs of names, the first of which begins with the second
    MaxLines,     \* bound
    Process,      \* the process name of the context
    MaxRecorders  \* CASCA_LOG_TARGET_RECORDER_MAX_NUM

\* What clog_config_parse_value makes of a value; MIXED is an array with
\* anything but an unsigned number in its first MaxRecorders + 1 places.
ConfigValues ==
    [type : {"UINT"}, n : Nat] \cup [type : {"BOOL"}, flag : BOOLEAN]
    \cup [type : {"ARRAY"}, list : Seq(Nat)] \cup [type : {"INT", "FLOAT", "CHAR", "STRING", "MIXED"}]

ASSUME ConfigAssumption ==
    /\ MaxRecorders \in Nat /\ {"Process", Process} \subseteq STRING
    /\ Lines \subseteq [kind : {"group"}, path : Seq(STRING), blank : BOOLEAN]
                      \cup [kind : {"item"}, key : STRING, value : ConfigValues]
                      \cup [kind : {"comment"}]

VARIABLE configText  \* the lines of a text, or NULL

CLOG_LEVEL_ALL == 63
Root == 0
NoGroup == -1

\* A group is its place in the order of creation; children(g) come in it.
Children(tree, g) == {j \in 1 .. Len(tree) : tree[j].parent = g}
FirstOf(S) == CHOOSE i \in S : \A j \in S : i <= j

\* find_or_create_group compares as many characters as the header's name has.
SameName(name, wanted) == name = wanted \/ <<name, wanted>> \in Begins

\* One name of the path.  A group that is new behind others and has blanks
\* behind its name returns the NULL that ended the search.
Descend(r, name, blank) ==
    LET hits == {j \in Children(r.tree, r.at) : SameName(r.tree[j].name, name)} IN
    IF hits # {} THEN [r EXCEPT !.at = FirstOf(hits)]
    ELSE [tree |-> Append(r.tree, [parent |-> r.at, name |-> name]),
          at |-> Len(r.tree) + 1,
          ok |-> Children(r.tree, r.at) = {} \/ ~blank]

DescendAt(line, r, i) == Descend(r, line.path[i], line.blank /\ i = Len(line.path))
FindOrCreateGroup(tree, line) ==
    FoldLeft(LAMBDA r, i : DescendAt(line, r, i),
             [tree |-> tree, at |-> Root, ok |-> TRUE], [i \in 1 .. Len(line.path) |-> i])

\* add_item refuses a key that the group has; the mutant takes it.
MayAddAny(items, group, key) == TRUE
MayAdd(items, group, key) == \A i \in 1 .. Len(items) : items[i].group # group \/ items[i].key # key

ProcessLine(s, line) ==
    CASE ~s.ok \/ line.kind = "comment" -> s
      [] s.ok /\ line.kind = "group" ->
           LET r == FindOrCreateGroup(s.tree, line)
           IN [s EXCEPT !.tree = r.tree, !.current = r.at, !.ok = r.ok]
      [] s.ok /\ line.kind = "item" ->
           IF MayAdd(s.items, s.current, line.key)
           THEN [s EXCEPT !.items = Append(@, [group |-> s.current, key |-> line.key, value |-> line.value])]
           ELSE [s EXCEPT !.ok = FALSE]

\* clog_config_parse; a line that fails loses all.
Parse(text) ==
    FoldLeft(LAMBDA s, line : ProcessLine(s, line),
             [tree |-> <<>>, items |-> <<>>, current |-> Root, ok |-> TRUE], text)

FindChild(tree, g, name) ==
    LET hits == {j \in Children(tree, g) : tree[j].name = name}
    IN IF g = NoGroup \/ hits = {} THEN NoGroup ELSE FirstOf(hits)
FindGroup(tree, path) == FoldLeft(LAMBDA g, name : FindChild(tree, g, name), Root, path)

NotFound == [type |-> "NOT_FOUND"]
FindItemInGroup(s, g, key) ==
    LET hits == {i \in 1 .. Len(s.items) : s.items[i].group = g /\ s.items[i].key = key}
    IN IF hits = {} THEN NotFound ELSE s.items[FirstOf(hits)].value
FindItem(s, path, key) == FindItemInGroup(s, FindGroup(s.tree, path), key)

\* clog_config_item_get_enabled
Enabled(s, g) == FindItemInGroup(s, g, "enabled")

\* clog_init_process_module: "SKIP" for a module that is not enabled.  The test
\* of the number of recorders (:153) lets one more in than recorders[] has room
\* for, which is written behind it: "UNDEFINED".
InitProcessModule(s, g, mask) ==
    LET enabled == Enabled(s, g)
        level == FindItemInGroup(s, g, "level")
        recorders == FindItemInGroup(s, g, "recorder")
        chosen == IF level.type = "UINT" THEN level.n ELSE mask
        ids == IF recorders.type = "ARRAY" THEN recorders.list ELSE <<>>
    IN IF enabled = [type |-> "BOOL", flag |-> FALSE] THEN [res |-> "SKIP"]
       ELSE IF \/ enabled.type \notin {"NOT_FOUND", "BOOL"}
               \/ level.type \notin {"NOT_FOUND", "UINT"} \/ chosen > CLOG_LEVEL_ALL
               \/ recorders.type \notin {"NOT_FOUND", "ARRAY"}
       THEN [res |-> "ERROR"]
       ELSE IF Len(ids) > MaxRecorders THEN [res |-> "UNDEFINED"]
       ELSE [res |-> "SUCCESS", module |-> [level |-> chosen, recorders |-> ids]]

\* clog_init_modules: what the map holds, by name, of the children of a group;
\* the first error ends it.
NoModules == [n \in {} |-> <<>>]
PutModule(c, r, g) ==
    LET m == InitProcessModule(c.config, g, c.mask)
        name == c.config.tree[g].name IN
    IF c.config.tree[g].parent # c.group \/ r.res # "SUCCESS" \/ m.res = "SKIP" THEN r
    ELSE IF m.res # "SUCCESS" THEN [r EXCEPT !.res = m.res]
    ELSE [r EXCEPT !.modules = [n \in DOMAIN @ \cup {name} |-> IF n = name THEN m.module ELSE @[n]]]

InitModules(s, mask) ==
    LET c == [config |-> s, group |-> FindGroup(s.tree, <<"Process", Process>>), mask |-> mask]
    IN IF c.group = NoGroup THEN [res |-> "TARGET_NOT_FOUND", modules |-> NoModules]
       ELSE FoldLeft(LAMBDA r, g : PutModule(c, r, g), [res |-> "SUCCESS", modules |-> NoModules],
                     [g \in 1 .. Len(s.tree) |-> g])

\* clog_module_check
ModuleCheck(module, level, recorder) ==
    /\ (module.level \div 2 ^ (level - 1)) % 2 = 1
    /\ \E i \in 1 .. Len(module.recorders) : module.recorders[i] = recorder

-----------------------------------------------------------------------------
ConfigInit == configText \in BoundedSeq(Lines, MaxLines)

IsGroup(i) == configText[i].kind = "group"
\* The section that line i stands in.
Section(i) ==
    LET heads == {j \in 1 .. i : IsGroup(j)}
    IN IF heads = {} THEN <<>> ELSE configText[CHOOSE j \in heads : \A k \in heads : k <= j].path
ItemLines == {i \in 1 .. Len(configText) : configText[i].kind = "item"}
Says(path, key) == {configText[i].value : i \in {j \in ItemLines : Section(j) = path /\ configText[j].key = key}}
Repeats == \E i, j \in ItemLines : i # j /\ Section(i) = Section(j) /\ configText[i].key = configText[j].key
SectionPaths == {<<>>} \cup UNION {Prefixes(configText[i].path) : i \in {j \in 1 .. Len(configText) : IsGroup(j)}}
Clash == \E p, q \in SectionPaths : p # <<>> /\ q # <<>> /\ Front(p) = Front(q) /\ <<Last(p), Last(q)>> \in Begins

\* What the text says of a module, without the parser: the value or a default.
Said(path, key, otherwise) ==
    IF Says(path, key) = {} THEN otherwise ELSE CHOOSE v \in Says(path, key) : TRUE
ModulePaths == {p \in SectionPaths : Len(p) = 3 /\ Front(p) = <<"Process", Process>>}
Off(p) == Said(p, "enabled", NotFound) = [type |-> "BOOL", flag |-> FALSE]
RecordersSaid(p) == Said(p, "recorder", [type |-> "ARRAY", list |-> <<>>])
Overlong(p) == ~Off(p) /\ RecordersSaid(p).type = "ARRAY" /\ Len(RecordersSaid(p).list) > MaxRecorders
WellTyped(p) ==
    /\ Said(p, "enabled", NotFound).type \in {"NOT_FOUND", "BOOL"}
    /\ Off(p) \/ /\ Said(p, "level", [type |-> "UINT", n |-> 0]).type = "UINT"
                 /\ Said(p, "level", [type |-> "UINT", n |-> 0]).n <= CLOG_LEVEL_ALL
                 /\ RecordersSaid(p).type = "ARRAY" /\ ~Overlong(p)
MayLog(p, level, recorder, mask) ==
    /\ ~Off(p)
    /\ (Said(p, "level", [n |-> mask]).n \div 2 ^ (level - 1)) % 2 = 1
    /\ recorder \in ToSet(Said(p, "recorder", [list |-> <<>>]).list)

(* Where no name of a group begins another's, every item of a text that      *)
(* parses is found under its section and key, nothing else is found, and a   *)
(* text without blanks before a ']' parses unless a section repeats a key    *)
(* (clog_config.c:113, 534).  Unless a module names more recorders than it   *)
(* has room for, the context's modules are made if each is well typed, and   *)
(* then let pass exactly the levels and recorders that their sections name   *)
(* (casca_log_core.c:128); a module that names no level has the mask of the  *)
(* context (:139), not the level of its process.                             *)
ConfigFound == configText # NULL =>
    LET s == Parse(configText)
        mods == InitModules(s, 3)
    IN ~Clash =>
       /\ s.ok => ~Repeats
       /\ ~Repeats /\ (\A i \in 1 .. Len(configText) : IsGroup(i) => ~configText[i].blank) => s.ok
       /\ s.ok => \A p \in SectionPaths, key \in {"level", "enabled", "recorder"} :
                    FindItem(s, p, key) = Said(p, key, NotFound)
       /\ s.ok /\ mods.res # "UNDEFINED" =>
            (mods.res = "SUCCESS" <=> <<"Process", Process>> \in SectionPaths /\ \A p \in ModulePaths : WellTyped(p))
       /\ s.ok /\ mods.res = "UNDEFINED" => \E p \in ModulePaths : Overlong(p)
       /\ s.ok /\ mods.res = "SUCCESS" =>
            /\ DOMAIN mods.modules = {p[3] : p \in {q \in ModulePaths : ~Off(q)}}
            /\ \A p \in ModulePaths : ~Off(p) => \A level \in 1 .. 6, recorder \in 0 .. 3 :
                 ModuleCheck(mods.modules[p[3]], level, recorder) <=> MayLog(p, level, recorder, 3)

================================================================================
