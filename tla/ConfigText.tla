------------------------------- MODULE ConfigText -------------------------------
(***************************************************************************)
(* source/utils/clog_config.c: how one line is read.  The header of a      *)
(* group, an integer and an array, mark by mark: "CHAR" is a character     *)
(* that a name may have, "ONE" a digit of an array, and "HASH" begins a    *)
(* comment and is no character of a name.                                  *)
(***************************************************************************)
EXTENDS Integers, Sequences, FiniteSets, SequencesExt, Pointers

CONSTANTS
    UintRange,  \* 2 ^ 32, how many numbers an unsigned int has
    Radices,    \* of the numbers
    MaxMarks,   \* bound: marks of a header or an array
    MaxDigits   \* bound: digits of a number

ASSUME ConfigTextAssumption ==
    /\ UintRange \in Nat \ {0} /\ UintRange % 2 = 0
    /\ Radices \subseteq {2, 8, 10, 16}

VARIABLE textCall  \* [header], [array], [sign, radix, digits] or NULL

\* get_valid_group_name behind the '[', with is_split_exist in the modes "dot"
\* and "afterDot", and check_inline_comment behind the ']'.  What follows blanks
\* behind a name is skipped whatever it is.
NextMode(mode, m) ==
    CASE mode = "lead" /\ m = "BLANK" -> "lead"
      [] mode \in {"lead", "name", "dot", "afterDot"} /\ m = "CHAR" -> "name"
      [] mode \in {"name", "blank"} /\ m = "BLANK" -> "blank"
      [] mode = "blank" /\ m \in {"CHAR", "HASH"} -> "dot"
      [] mode = "name" /\ m = "DOT" -> "dot"
      [] mode \in {"dot", "afterDot"} /\ m = "BLANK" -> "afterDot"
      [] mode \in {"name", "blank"} /\ m = "CLOSE" -> "closed"
      [] mode = "closed" /\ m = "BLANK" -> "closed"
      [] mode = "closed" /\ m = "HASH" -> "comment"
      [] mode = "comment" -> "comment"
      [] OTHER -> "refused"

HeaderMode(header) == FoldLeft(LAMBDA mode, m : NextMode(mode, m), "lead", header)
ValidHeader(header) == HeaderMode(header) \in {"closed", "comment"}

\* The names that find_or_create_group takes out of a valid header, by length.
NextName(r, m) ==
    CASE r.mode = "lead" /\ m = "BLANK" -> r
      [] r.mode \in {"lead", "name"} /\ m \in {"CHAR", "HASH"} -> [r EXCEPT !.mode = "name", !.length = @ + 1]
      [] r.mode = "name" /\ m = "BLANK" -> [r EXCEPT !.mode = "blank"]
      [] r.mode = "blank" /\ m = "BLANK" -> r
      \* one mark is taken for the '.', whatever it is
      [] OTHER -> [mode |-> "lead", length |-> 0, path |-> Append(r.path, r.length)]

\* Where the first ']' is.
Closing(s) == CHOOSE i \in 1 .. Len(s) : s[i] = "CLOSE" /\ \A j \in 1 .. i - 1 : s[j] # "CLOSE"

HeaderPath(header) ==
    LET r == FoldLeft(LAMBDA p, m : NextName(p, m), [mode |-> "lead", length |-> 0, path |-> <<>>],
                      SubSeq(header, 1, Closing(header) - 1))
    IN IF r.length > 0 THEN Append(r.path, r.length) ELSE r.path

\* parse_uint_radix: 64 bits accumulate, 32 are stored.
Accumulate(radix, base, d) == (base * radix + d) % (UintRange * UintRange)
UintRadix(radix, digits) == FoldLeft(LAMBDA base, d : Accumulate(radix, base, d), 0, digits)

UintMax == UintRange - 1
\* The mutant takes the negative of every unsigned number.
IntMaxUnsigned == UintMax
IntMax == UintRange \div 2 - 1

\* parse_number: the type and the bits that are stored.  A sign excludes a radix,
\* and with no digit behind it the place to go on from is the one behind NULL;
\* the type of a signed number is lost in parse_uint_radix, a lone 0 apart.
Number(type, bits) == [type |-> type, bits |-> bits]
ParseNumber(sign, radix, digits) ==
    LET n == UintRadix(radix, digits)
        signed == sign # "none" IN
    IF signed /\ radix # 10 THEN Number("REFUSED", 0)
    ELSE IF signed /\ digits = <<>> THEN Number("UNDEFINED", 0)
    ELSE IF signed /\ digits = <<0>> THEN Number("INT", 0)
    ELSE IF n > UintMax \/ (sign = "-" /\ n > IntMax) THEN Number("REFUSED", 0)
    ELSE Number("UINT", IF sign = "-" THEN (UintRange - n) % UintRange ELSE n)

\* parse_value of an array behind its '['.  Of what follows a ',' one mark is
\* skipped unseen.
NextItem(r, m) ==
    CASE r.mode \in {"done", "refused"} -> r
      [] r.mode = "comma" -> [r EXCEPT !.mode = "open"]
      [] r.mode \in {"open", "number", "gap"} /\ m = "BLANK" -> [r EXCEPT !.mode = IF @ = "number" THEN "gap" ELSE @]
      [] r.mode \in {"open", "number", "gap"} /\ m = "CLOSE" -> [r EXCEPT !.mode = "done"]
      [] r.mode = "open" /\ m = "ONE" -> [mode |-> "number", items |-> Append(r.items, 1)]
      [] r.mode = "number" /\ m = "ONE" -> [r EXCEPT !.items[Len(r.items)] = @ + 1]
      [] r.mode \in {"number", "gap"} /\ m = "COMMA" -> [r EXCEPT !.mode = "comma"]
      [] OTHER -> [r EXCEPT !.mode = "refused"]

ParseArray(array) == FoldLeft(LAMBDA r, m : NextItem(r, m), [mode |-> "open", items |-> <<>>], array)

-----------------------------------------------------------------------------
HeaderMarks == {"CHAR", "DOT", "BLANK", "CLOSE", "HASH"}
ArrayMarks == {"ONE", "COMMA", "BLANK", "CLOSE"}
TextInit ==
    \/ textCall \in [header : BoundedSeq(HeaderMarks, MaxMarks)]
    \/ textCall \in [array : BoundedSeq(ArrayMarks, MaxMarks)]
    \/ \E radix \in Radices :
         textCall \in {call \in [sign : {"none", "+", "-"}, radix : {radix},
                                 digits : BoundedSeq({0, 1, radix - 1}, MaxDigits)] :
                         call.digits = <<>> => call.sign # "none" \/ radix # 10}

OnlyBlanks(s, i, j) == \A k \in i .. j : s[k] = "BLANK"
HasClosing(s) == \E i \in 1 .. Len(s) : s[i] = "CLOSE"

\* A blank before the ']', and one with marks of names on both sides.
Blanked(s) == \E i \in 1 .. Len(s) : s[i] = "BLANK" /\ \A k \in 1 .. i : s[k] # "CLOSE"
Gap(s) == \E i, j \in 1 .. Len(s) :
              /\ i + 1 < j /\ s[i] = "CHAR" /\ s[j] \in {"CHAR", "HASH"} /\ OnlyBlanks(s, i + 1, j - 1)
              /\ \A k \in 1 .. j : s[k] # "CLOSE"

\* The separators among the first i marks part them in pieces; how many marks
\* piece k has, and all pieces before the ']'.
Separators(s, i, sep) == Cardinality({j \in 1 .. i : s[j] = sep})
Piece(s, i, sep, mark, k) == Cardinality({j \in 1 .. i : s[j] = mark /\ Separators(s, j, sep) = k - 1})
Lengths(s, sep, mark) ==
    [k \in 1 .. Separators(s, Closing(s) - 1, sep) + 1 |-> Piece(s, Closing(s) - 1, sep, mark, k)]

ProperHeader(s) ==
    /\ HasClosing(s)
    /\ \A i \in 1 .. Closing(s) - 1 : s[i] # "HASH" /\ (s[i] = "DOT" => i > 1 /\ s[i - 1] = "CHAR")
    /\ \A k \in DOMAIN Lengths(s, "DOT", "CHAR") : Lengths(s, "DOT", "CHAR")[k] > 0
    /\ \E j \in Closing(s) .. Len(s) : OnlyBlanks(s, Closing(s) + 1, j) /\ (j = Len(s) \/ s[j + 1] = "HASH")

\* The last number may be missing.
ProperArray(s) ==
    /\ HasClosing(s)
    /\ ~\E i, j \in 1 .. Closing(s) - 1 : i + 1 < j /\ s[i] = "ONE" /\ s[j] = "ONE" /\ OnlyBlanks(s, i + 1, j - 1)
    /\ LET n == Lengths(s, "COMMA", "ONE") IN \A k \in 1 .. Len(n) - 1 : n[k] > 0
ArrayItems(s) == LET n == Lengths(s, "COMMA", "ONE") IN IF Last(n) = 0 THEN Front(n) ELSE n
SpacedCommas(s) == \A i \in 1 .. Len(s) : s[i] = "COMMA" => i < Len(s) /\ s[i + 1] = "BLANK"

DenotedBy(radix, n, d) == n * radix + d
Denotes(radix, digits) == FoldLeft(LAMBDA n, d : DenotedBy(radix, n, d), 0, digits)

NumberStored(sign, radix, digits) ==
    LET v == Denotes(radix, digits)
        greatest == IF sign = "-" THEN UintRange \div 2 - 1 ELSE UintRange - 1
        signed == sign # "none"
        r == ParseNumber(sign, radix, digits) IN
    v < UintRange * UintRange /\ r.type # "UNDEFINED" =>
      /\ r.type = "REFUSED" <=> v > greatest \/ (signed /\ radix # 10)
      /\ r.type = "INT" <=> signed /\ radix = 10 /\ digits = <<0>>
      /\ r.type # "REFUSED" => r.bits = IF sign = "-" /\ v > 0 THEN UintRange - v ELSE v

(* A header with no blank before the ']' is taken iff it is names parted by  *)
(* single dots with a comment at most behind (clog_config.c:161); nothing is *)
(* promised of taking one with blanks there, all errors to                   *)
(* casca_log_test.toml:24-32, but if it is taken and no blank parts the      *)
(* marks of a name, it gives its names in order, as every header does.  An   *)
(* array whose commas are followed by a blank gives its numbers in order.    *)
(* An integer that twice its bits can hold is refused or stored exactly, a   *)
(* negative one as the unsigned one of the same bits (304, 409): its type    *)
(* tells a reader nothing of its sign.                                       *)
LineRead == textCall # NULL =>
    CASE "header" \in DOMAIN textCall ->
           LET s == textCall.header IN
           /\ ~Blanked(s) => (ValidHeader(s) <=> ProperHeader(s))
           /\ ~Gap(s) /\ ValidHeader(s) => HeaderPath(s) = Lengths(s, "DOT", "CHAR")
      [] "array" \in DOMAIN textCall ->
           LET s == textCall.array
               r == ParseArray(s) IN
           SpacedCommas(s) =>
             /\ r.mode = "done" <=> ProperArray(s)
             /\ r.mode = "done" => r.items = ArrayItems(s)
      [] "sign" \in DOMAIN textCall ->
           NumberStored(textCall.sign, textCall.radix, textCall.digits)

================================================================================
