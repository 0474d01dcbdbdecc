------------------------------- MODULE MCLibrary -------------------------------
(***************************************************************************)
(* The parts of the library that need no other part, for TLC: each         *)
(* behaviour exercises one of them, whole, while the others rest.  A part  *)
(* without a state of its own has one initial state for every input.       *)
(***************************************************************************)
EXTENDS DirectDispatcher, ErrorRing, FileRecorder, HashMap, Ebr, AtomicQueue,
        Paths, Interpolator, Fields, Config, ConfigText

CONSTANTS i1, i2, n1, n2, r1, r2, r3, t1, t2, k1, k2, k3, v1, v2

VARIABLE part

callVariables == <<pathCall, formatCall, fieldCall, configText, textCall>>
libraryVars == <<part, queueVars, directVars, errVars, frVars, mapVars, ebrVars, aqVars,
                 callVariables>>

Parts == {"queue", "direct", "errors", "recorder", "map", "ebr", "aqueue",
          "paths", "format", "fields", "config", "text"}

\* The input of a part is one of its inputs in its own behaviours only.
Init ==
    /\ part \in Parts
    /\ DirectInit /\ ErrInit /\ FrInit /\ MapInit /\ EbrInit /\ AqInit
    /\ IF part = "paths" THEN PathInit ELSE pathCall = NULL
    /\ IF part = "format" THEN FormatInit ELSE formatCall = NULL
    /\ IF part = "fields" THEN FieldInit ELSE fieldCall = NULL
    /\ IF part = "config" THEN ConfigInit ELSE configText = NULL
    /\ IF part = "text" THEN TextInit ELSE textCall = NULL

Next ==
    /\ UNCHANGED <<part, callVariables>>
    /\ \/ /\ part = "queue" /\ QueueNext
          /\ UNCHANGED <<directVars, errVars, frVars, mapVars, ebrVars, aqVars>>
       \/ /\ part = "direct" /\ DirectNext
          /\ UNCHANGED <<errVars, frVars, mapVars, ebrVars, aqVars>>
       \/ /\ part = "errors" /\ ErrNext
          /\ UNCHANGED <<queueVars, directVars, frVars, mapVars, ebrVars, aqVars>>
       \/ /\ part = "recorder" /\ FrNext
          /\ UNCHANGED <<queueVars, directVars, errVars, mapVars, ebrVars, aqVars>>
       \/ /\ part = "map" /\ MapNext
          /\ UNCHANGED <<queueVars, directVars, errVars, frVars, ebrVars, aqVars>>
       \/ /\ part = "ebr" /\ EbrNext
          /\ UNCHANGED <<queueVars, directVars, errVars, frVars, mapVars, aqVars>>
       \/ /\ part = "aqueue" /\ AqNext
          /\ UNCHANGED <<queueVars, directVars, errVars, frVars, mapVars, ebrVars>>

Spec == Init /\ [][Next]_libraryVars

--------------------------------------------------------------------------------
(* Values of the constants                                                   *)

\* One bucket puts the three keys together, two part them in two and one, four
\* keep them apart.
MCHash == (k1 :> 0) @@ (k2 :> 2) @@ (k3 :> 1)
ValueSymmetry == Permutations(Values)

MCRoutes == {<<r1, r2>>, <<r3, r2>>, <<r2, r1, r2>>}
MCNameLength == [a |-> 1, bb |-> 2]
MCCwd == <<"bb">>

\* Sections of the process p and of another, names that begin one another, and
\* items of the right and of the wrong type and size.
Group(path, blank) == [kind |-> "group", path |-> path, blank |-> blank]
ConfigItem(key, value) == [kind |-> "item", key |-> key, value |-> value]
MCLines == {
    Group(<<"Process", "p">>, FALSE), Group(<<"Process", "p", "m">>, FALSE),
    Group(<<"Process", "p", "m">>, TRUE), Group(<<"Process", "p", "mm">>, FALSE),
    Group(<<"Process", "p", "n">>, FALSE), Group(<<"Process", "q">>, TRUE),
    ConfigItem("level", [type |-> "UINT", n |-> 5]), ConfigItem("level", [type |-> "UINT", n |-> 64]),
    ConfigItem("enabled", [type |-> "BOOL", flag |-> FALSE]),
    ConfigItem("recorder", [type |-> "ARRAY", list |-> <<1, 2>>]),
    ConfigItem("recorder", [type |-> "ARRAY", list |-> <<1, 2, 3>>]),
    ConfigItem("recorder", [type |-> "UINT", n |-> 1]),
    [kind |-> "comment"]}
MCBegins == {<<"mm", "m">>}

================================================================================
