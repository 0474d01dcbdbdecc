------------------------------ MODULE Interpolator ------------------------------
(***************************************************************************)
(* source/utils/clog_interpolator.c and the handlers of                    *)
(* source/formatter/clog_log_format_placeholder.c: a template is parsed    *)
(* once into text and placeholders, and each log line or file name is      *)
(* written from it.                                                        *)
(*                                                                         *)
(* A template is a sequence of marks: the braces and the backslash stand   *)
(* for themselves, "x" and "y" for characters that a name may have.  Two   *)
(* names are registered, one for the line break and one for a placeholder  *)
(* of the kind that the call says: a "copy" of a string, a "number", or    *)
(* the "print" of the log's content.                                       *)
(***************************************************************************)
EXTENDS Integers, Sequences, SequencesExt, Pointers

CONSTANTS
    MaxTemplate,  \* bound: marks of a template
    ValueSizes,   \* lengths of what the placeholder stands for
    BufferSizes   \* sizes of the buffer

ASSUME InterpolatorAssumption == ValueSizes \subseteq Nat /\ BufferSizes \subseteq Nat \ {0, 1}

\* A call's [template, value, handler, room, size], or NULL: value is the length
\* of what the placeholder stands for, room what its handler wants to be left.
VARIABLE formatCall

NameMarks == {"x", "y"}
Marks == {"{", "}", "\\"} \cup NameMarks
LineBreak == <<"y">>
Registered == {<<"x">>, LineBreak}
Earliest(S) == CHOOSE i \in S : \A j \in S : i <= j

\* clog_interpolator_parse_placeholder_name: the '}' of the '{' at i, or 0.
PlaceholderEnd(f, i) ==
    LET ends == {j \in i + 2 .. Len(f) : f[j] = "}" /\ \A k \in i + 1 .. j - 1 : f[k] \in NameMarks}
    IN IF ends = {} THEN 0 ELSE Earliest(ends)
PlaceholderName(f, i) == SubSeq(f, i + 1, PlaceholderEnd(f, i) - 1)

\* The mutant takes every brace for one that means something.
NeverEscaped(f, k) == FALSE
Escaped(f, k) == k > 1 /\ f[k - 1] = "\\"

\* Where the text that begins at i ends: at the next brace with a meaning.
TextEnd(f, i) ==
    LET stops == {k \in i .. Len(f) : f[k] \in {"{", "}"} /\ ~Escaped(f, k)}
    IN IF stops = {} THEN Len(f) + 1 ELSE Earliest(stops)

\* A backslash goes when a brace follows, wherever the text ends.
CopyMark(f, text, k) ==
    IF f[k] = "\\" /\ k < Len(f) /\ f[k + 1] \in {"{", "}"} THEN text ELSE Append(text, f[k])
Unescaped(f, i, end) ==
    FoldLeft(LAMBDA text, k : CopyMark(f, text, k), <<>>, [k \in 1 .. end - i |-> i + k - 1])

Node(handle, text) == [handle |-> handle, text |-> text]

\* The root's next is set with the first node only: without one, the clean-up
\* or the use of the template follows what malloc left there.
End(p, res) == [p EXCEPT !.res = IF p.nodes = <<>> THEN "UNDEFINED" ELSE res]

ParsePlaceholder(f, p) ==
    LET end == PlaceholderEnd(f, p.at)
    IN IF end = 0 THEN End(p, "INVALID_PARAM")
       ELSE IF PlaceholderName(f, p.at) \notin Registered THEN End(p, "FAIL")
       ELSE [p EXCEPT !.at = end + 1, !.nodes = Append(@, Node(TRUE, PlaceholderName(f, p.at)))]

\* A '}' without a '{' returns false, which is CLOG_SUCCESS: the rest of the
\* template is dropped.
ParseText(f, p) ==
    LET end == TextEnd(f, p.at)
    IN IF end <= Len(f) /\ f[end] = "}" THEN End(p, "SUCCESS")
       ELSE [p EXCEPT !.at = end, !.nodes = Append(@, Node(FALSE, Unescaped(f, p.at, end)))]

\* One call of clog_interpolator_parse_format, for the template from p.at on.
ParseNode(f, p) ==
    CASE p.res # "MORE" -> p
      [] p.res = "MORE" /\ p.at > Len(f) -> End(p, "SUCCESS")
      [] p.res = "MORE" /\ p.at <= Len(f) ->
           IF f[p.at] = "{" THEN ParsePlaceholder(f, p) ELSE ParseText(f, p)

\* It calls itself for the rest: at most once for each mark and for the end.
ParseFormat(f) ==
    FoldLeft(LAMBDA p, k : ParseNode(f, p), [at |-> 1, res |-> "MORE", nodes |-> <<>>],
             [k \in 1 .. Len(f) + 1 |-> k])

\* What a placeholder stands for, of a length.
Shown(length) == [k \in 1 .. length |-> "v"]
Width(name, value) == IF name = LineBreak THEN 1 ELSE value

\* What a handler answers: a copy stops at the end of the buffer, a number wants
\* room for its largest value, vsnprintf says what it would have needed, and the
\* line break does not look.
Answer(call, name, left) ==
    CASE name = LineBreak -> 1
      [] name # LineBreak /\ call.handler = "number" /\ 0 <= left /\ left < call.room -> -1
      [] name # LineBreak /\ call.handler = "copy" /\ 0 <= left /\ left < call.value -> left
      [] OTHER -> call.value

\* One node.  size - offset is unsigned: past the end, it is huge.  A handler
\* that answers 0 makes the result -0, CLOG_SUCCESS, and clears the text.
WriteText(r, text, left) ==
    IF left >= 0 /\ Len(text) >= left THEN [r EXCEPT !.res = "FAIL"]
    ELSE [r EXCEPT !.offset = @ + Len(text), !.out = @ \o text, !.outside = @ \/ left < 0]

Beyond(name, left) == left < 0 \/ (left = 0 /\ name = LineBreak)
CallHandler(r, name, length, left) ==
    IF length < 0 THEN [r EXCEPT !.res = "INVALID_PARAM"]
    ELSE IF length = 0 THEN [r EXCEPT !.stop = TRUE, !.out = <<>>]
    ELSE [r EXCEPT !.offset = @ + length, !.out = @ \o Shown(length), !.outside = @ \/ Beyond(name, left)]

WriteNode(call, r, node) ==
    LET left == call.size - r.offset IN
    IF r.res # "SUCCESS" \/ r.stop THEN r
    ELSE IF node.handle THEN CallHandler(r, node.text, Answer(call, node.text, left), left)
    ELSE WriteText(r, node.text, left)

Interpolate(call, nodes) ==
    LET r == FoldLeft(LAMBDA s, node : WriteNode(call, s, node),
                      [res |-> "SUCCESS", stop |-> FALSE, offset |-> 0, out |-> <<>>, outside |-> FALSE], nodes)
    IN IF r.res = "SUCCESS" /\ ~r.stop /\ r.offset >= call.size THEN [r EXCEPT !.res = "NO_MEMORY"] ELSE r

-----------------------------------------------------------------------------
FormatCalls(templates, values, sizes) ==
    {call \in [template : templates \ {<<>>}, value : values, handler : {"copy", "number", "print"},
               room : values, size : sizes] :
        IF call.handler = "number" THEN call.value <= call.room ELSE call.value = call.room}
FormatInit == formatCall \in FormatCalls(BoundedSeq(Marks, MaxTemplate), ValueSizes, BufferSizes)

Means(f, k, brace) == f[k] = brace /\ ~(k > 1 /\ f[k - 1] = "\\")
WellFormed(f) ==
    /\ \A k \in 1 .. Len(f) : Means(f, k, "{") => PlaceholderEnd(f, k) # 0
    /\ \A k \in 1 .. Len(f) : Means(f, k, "}") =>
         \E j \in 1 .. k : Means(f, j, "{") /\ PlaceholderEnd(f, j) = k
Known(f) ==
    \A k \in 1 .. Len(f) : Means(f, k, "{") => PlaceholderName(f, k) \in Registered

\* What the mark at k stands for in the text.
Stands(f, k, value) ==
    IF Means(f, k, "{") THEN Shown(Width(PlaceholderName(f, k), value))
    ELSE IF \/ \E j \in 1 .. k - 1 : Means(f, j, "{") /\ k <= PlaceholderEnd(f, j)
            \/ f[k] = "\\" /\ k < Len(f) /\ f[k + 1] \in {"{", "}"}
    THEN <<>> ELSE <<f[k]>>
Render(call, text, k) == text \o Stands(call.template, k, call.value)
Rendering(call) ==
    FoldLeft(LAMBDA text, k : Render(call, text, k), <<>>, [k \in 1 .. Len(call.template) |-> k])

\* The text of some parts of it.
Expand(call, node) == IF node.handle THEN Shown(Width(node.text, call.value)) ELSE node.text
Expanded(call, text, node) == text \o Expand(call, node)
Expansion(call, nodes) == FoldLeft(LAMBDA text, node : Expanded(call, text, node), <<>>, nodes)

\* A number that is shorter than its largest value.
Narrow(call) == call.handler = "number" /\ call.value < call.room

(* Of a template whose braces pair up, clog_interpolator_parse takes what    *)
(* has only registered names.  If nothing comes after the part with which    *)
(* the buffer is full, nothing is written past its end, and the text written *)
(* is the template with its placeholders replaced and its escapes resolved   *)
(* if that leaves room for the terminator, and refused if not                *)
(* (clog_interpolator.c:191).  A number may be refused for want of room for  *)
(* its largest value.  Left out are a '}' of its own and a placeholder that  *)
(* stands for nothing.                                                       *)
FormatRendered == formatCall # NULL =>
    LET p == ParseFormat(formatCall.template)
        r == Interpolate(formatCall, p.nodes)
        text == Rendering(formatCall)
    IN WellFormed(formatCall.template) =>
         /\ p.res = "SUCCESS" <=> Known(formatCall.template)
         /\ /\ p.res = "SUCCESS" /\ formatCall.value > 0
            /\ Len(Expansion(formatCall, Front(p.nodes))) < formatCall.size
            => /\ ~r.outside
               /\ IF Len(text) < formatCall.size
                  THEN \/ r.res = "SUCCESS" /\ r.out = text /\ r.offset = Len(text)
                       \/ r.res = "INVALID_PARAM" /\ Narrow(formatCall)
                  ELSE r.res # "SUCCESS"

================================================================================
