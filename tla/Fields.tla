--------------------------------- MODULE Fields ---------------------------------
(***************************************************************************)
(* The numbers of a log line: clog_num_to_str of                           *)
(* source/formatter/clog_log_format_placeholder.c, and the timestamp of    *)
(* source/utils/clog_datetime.c that goes with them.                       *)
(***************************************************************************)
EXTENDS Integers, Sequences, SequencesExt, Pointers

CONSTANTS
    Numbers,   \* the values that are printed
    MaxTid,    \* the greatest thread id
    Years,     \* of the dates, from 1970 on
    Minutes    \* minutes of the day

ASSUME FieldsAssumption ==
    Numbers \subseteq Nat /\ MaxTid \in Nat /\ Years \subseteq Nat \ 0 .. 1969 /\ Minutes \subseteq Nat

VARIABLE fieldCall  \* [value, field], [year, month, day, minute] or NULL

\* What CLOG_DECLARE_PLACEHOLDER_NUM_FORMAT_FUNCTION is given.
Field(width, max) == [width |-> width, max |-> max]
PaddedFields ==
    {Field(4, 9999), Field(2, 12), Field(2, 31), Field(2, 23), Field(2, 59), Field(3, 999)}
PlainFields == {Field(6, 999999), Field(10, MaxTid)}

\* max_values, which has 10^9 a second time.
MaxValues(index) ==
    <<1, 10, 100, 1000, 10000, 100000, 1000000, 10000000, 100000000, 1000000000, 1000000000>>[index + 1]

LastDigit(r, i) == [digits |-> <<r.value % 10>> \o r.digits, value |-> r.value \div 10]

PaddedDigits(value, width) ==
    FoldLeft(LastDigit, [digits |-> <<>>, value |-> value], [i \in 1 .. width |-> i]).digits

\* Down from the greatest power that is not above the value.
FirstIndex(value, width) ==
    CHOOSE i \in 0 .. width : MaxValues(i) <= value /\ \A j \in i + 1 .. width : MaxValues(j) > value

NextDigit(r, index) ==
    [digits |-> Append(r.digits, r.value \div MaxValues(index)), value |-> r.value % MaxValues(index)]

PlainDigits(value, width) ==
    LET first == FirstIndex(value, width)
    IN IF value = 0 THEN <<0>>
       ELSE FoldLeft(NextDigit, [digits |-> <<>>, value |-> value],
                     [i \in 1 .. first + 1 |-> first + 1 - i]).digits

NumToStr(call) ==
    IF call.field \in PaddedFields THEN PaddedDigits(call.value, call.field.width)
    ELSE PlainDigits(call.value, call.field.width)

\* The mutant has no 29th of February in 2000.
IsCenturyBlind(year) == year % 4 = 0 /\ year % 100 # 0
IsLeapYear(year) == (year % 4 = 0 /\ year % 100 # 0) \/ year % 400 = 0

DaysInMonth(year, month) ==
    IF month = 2 /\ IsLeapYear(year) THEN 29
    ELSE <<31, 28, 31, 30, 31, 30, 31, 31, 30, 31, 30, 31>>[month]

Total(s) == FoldLeft(LAMBDA n, k : n + k, 0, s)

\* clog_timestamp_of_datetime in minutes, for the timezone that is east by tz.
TimestampOf(d, tz) ==
    1440 * (Total([i \in 1 .. d.year - 1970 |-> IF IsLeapYear(1969 + i) THEN 366 ELSE 365])
            + Total([m \in 1 .. d.month - 1 |-> DaysInMonth(d.year, m)])
            + d.day - 1)
    + d.minute - tz

-----------------------------------------------------------------------------
NumberCalls(values) ==
    {c \in [value : values, field : PaddedFields \cup PlainFields] : c.value <= c.field.max}
DateCalls(years, days, minutes) ==
    {d \in [year : years, month : 1 .. 12, day : days, minute : minutes] :
        d.day <= DaysInMonth(d.year, d.month)}

FieldInit == fieldCall \in NumberCalls(Numbers) \cup DateCalls(Years, {1, 28, 29, 31}, Minutes)

Value(digits) == FoldLeft(LAMBDA n, d : 10 * n + d, 0, digits)

\* Days since 1970-01-01 in closed form, counting years from March.
CivilDays(d) ==
    LET y == IF d.month <= 2 THEN d.year - 1 ELSE d.year
        m == (d.month + 9) % 12
    IN 365 * y + y \div 4 - y \div 100 + y \div 400 + (153 * m + 2) \div 5 + d.day - 1 - 719468

(* A number is printed by its digits, as many as the field has when padded,  *)
(* and when not no more than that and without a leading zero, for every      *)
(* value of the field below 10^9 (clog_log_format_placeholder.c:13); and the *)
(* timestamp of a date counts its days as the calendar does, so that the     *)
(* timestamps of two items are ordered as their dates are.                   *)
FieldsRendered == fieldCall # NULL =>
    IF "value" \in DOMAIN fieldCall
    THEN LET digits == NumToStr(fieldCall) IN
         fieldCall.value < 1000000000 =>
           /\ Value(digits) = fieldCall.value /\ digits \in Seq(0 .. 9)
           /\ IF fieldCall.field \in PaddedFields THEN Len(digits) = fieldCall.field.width
              ELSE /\ Len(digits) \in 1 .. fieldCall.field.width
                   /\ digits[1] = 0 => Len(digits) = 1
    ELSE TimestampOf(fieldCall, 480) = 1440 * CivilDays(fieldCall) + fieldCall.minute - 480

================================================================================
