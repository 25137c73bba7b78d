------------------------------- MODULE Values --------------------------------
(***************************************************************************)
(* The column parsers of silver/section_value_parsers/common.py: dates,    *)
(* durations, amounts, identifiers and change descriptions.                *)
(*                                                                         *)
(* A raw text is a record that says what its regular expressions find in   *)
(* it: a date (exact if it is all there is), a duration in one of the six  *)
(* forms of _DURATION_RE, a number with or without a currency, an          *)
(* identifier that is valid or not, the words and markers of a change, or  *)
(* nothing that any parser knows.  A date in a text need not exist.        *)
(***************************************************************************)
EXTENDS Integers, Sequences, SequencesExt

CONSTANTS Null  \* None

MaxYear == 9999  \* datetime.MAXYEAR

-----------------------------------------------------------------------------
(* Python's calendar, external: date, timedelta and monthrange.            *)

DateOf(y, m, d) == [year |-> y, month |-> m, day |-> d]

LeapYear(y) == y % 4 = 0 /\ (y % 100 # 0 \/ y % 400 = 0)
MonthRange(y, m) ==
  CASE m = 2 -> IF LeapYear(y) THEN 29 ELSE 28
    [] m \in {4, 6, 9, 11} -> 30
    [] OTHER -> 31

\* What date.fromisoformat accepts.
Exists(d) ==
  /\ d.year \in 1 .. MaxYear /\ d.month \in 1 .. 12
  /\ d.day \in 1 .. MonthRange(d.year, d.month)

\* date.toordinal: the days since the end of year 0.
DaysBeforeMonth == <<0, 31, 59, 90, 120, 151, 181, 212, 243, 273, 304, 334>>
DaysBeforeYear(y) ==
  365 * (y - 1) + (y - 1) \div 4 - (y - 1) \div 100 + (y - 1) \div 400
Ordinal(d) ==
  DaysBeforeYear(d.year) + DaysBeforeMonth[d.month] + d.day
    + (IF d.month > 2 /\ LeapYear(d.year) THEN 1 ELSE 0)
MaxOrdinal == DaysBeforeYear(MaxYear + 1)

FromOrdinal(n) ==
  LET y == CHOOSE y \in (n \div 366) .. (n \div 365) + 1 :
             DaysBeforeYear(y) < n /\ n <= DaysBeforeYear(y + 1)
      m == CHOOSE m \in 1 .. 12 :
             /\ Ordinal(DateOf(y, m, 1)) <= n
             /\ n < Ordinal(DateOf(y, m, 1)) + MonthRange(y, m)
  IN  DateOf(y, m, n - Ordinal(DateOf(y, m, 1)) + 1)

-----------------------------------------------------------------------------
(* Durations.                                                              *)

\* Mutant: the day is not clamped, it runs over into the next month.
AddCalendarMonthsMutant(d, months) ==
  LET total == d.month + months
      year  == d.year + (total - 1) \div 12
      month == ((total - 1) % 12) + 1
  IN  IF year > MaxYear THEN Null
      ELSE FromOrdinal(Ordinal(DateOf(year, month, 1)) + d.day - 1)

\* _add_calendar_months; Null is the ValueError of a year after MAXYEAR.
AddCalendarMonths(d, months) ==
  LET total == d.month + months
      year  == d.year + (total - 1) \div 12
      month == ((total - 1) % 12) + 1
      last  == MonthRange(year, month)
  IN  IF year > MaxYear THEN Null
      ELSE DateOf(year, month, IF d.day < last THEN d.day ELSE last)

\* A parser returns a value, Null or an error (the ParseError or any other
\* exception that the fault-tolerant wrapper catches).
Returns(v) == [value |-> v, error |-> FALSE]
Fails == [value |-> Null, error |-> TRUE]

\* The kinds of _parse_raw_duration.
IsDuration(raw) == raw.kind \in {"range", "end", "days", "weeks", "months", "years"}
LengthInDays(raw) == IF raw.kind = "weeks" THEN raw.n * 7 ELSE raw.n
LengthInMonths(raw) == IF raw.kind = "years" THEN raw.n * 12 ELSE raw.n

\* start_date_iso as date.fromisoformat reads it: the output of
\* parse_date_from_text, or a text that is a date and nothing else.
StartDate(arg) ==
  IF arg = Null \/ arg.kind # "date" \/ ~arg.exact \/ ~Exists(arg.date)
    THEN Null ELSE arg.date

ComputeDurationDays(start, raw) ==
  IF raw = Null \/ ~IsDuration(raw) THEN Returns(Null)
  ELSE IF raw.kind = "range" THEN
    Returns(IF Exists(raw.from) /\ Exists(raw.to) THEN Ordinal(raw.to) - Ordinal(raw.from)
            ELSE Null)
  ELSE LET s == StartDate(start) IN
    IF s = Null THEN Returns(Null)
    ELSE IF raw.kind = "end" THEN
      Returns(IF Exists(raw.to) THEN Ordinal(raw.to) - Ordinal(s) ELSE Null)
    ELSE IF raw.kind \in {"days", "weeks"} THEN Returns(LengthInDays(raw))
    ELSE LET e == AddCalendarMonths(s, LengthInMonths(raw)) IN
      Returns(IF e = Null THEN Null ELSE Ordinal(e) - Ordinal(s))

\* An end date in the text is returned as it stands, and adding days past
\* MAXYEAR is an OverflowError, which the function does not catch.
ComputeContractEndDate(start, raw) ==
  IF raw = Null \/ ~IsDuration(raw) THEN Returns(Null)
  ELSE IF raw.kind = "range" THEN Returns(raw.to)
  ELSE LET s == StartDate(start) IN
    IF s = Null THEN Returns(Null)
    ELSE IF raw.kind = "end" THEN Returns(raw.to)
    ELSE IF raw.kind \in {"days", "weeks"} THEN
      LET n == Ordinal(s) + LengthInDays(raw) IN
      IF n > MaxOrdinal THEN Fails ELSE Returns(FromOrdinal(n))
    ELSE Returns(AddCalendarMonths(s, LengthInMonths(raw)))

\* The derived columns of a duration without a start date.
ParseDurationStartDate(raw) == Returns(IF raw.kind = "range" THEN raw.from ELSE Null)
ParseDurationEndDate(raw) == Returns(IF raw.kind \in {"range", "end"} THEN raw.to ELSE Null)
ParseDurationDaysFromRange(raw) ==
  Returns(IF raw.kind = "range" /\ Exists(raw.from) /\ Exists(raw.to)
            THEN Ordinal(raw.to) - Ordinal(raw.from) ELSE Null)

-----------------------------------------------------------------------------
(* The other parsers.                                                      *)

\* parse_date_from_text: the first date; no date is a ParseError.  What it
\* returns is a text that is a date and nothing else.
ParseDateFromText(raw) ==
  LET Found(d) == Returns([kind |-> "date", exact |-> TRUE, date |-> d]) IN
  CASE raw.kind = "date" -> Found(raw.date)
    [] raw.kind = "range" -> Found(raw.from)
    [] raw.kind = "end" -> Found(raw.to)
    [] OTHER -> Fails

\* The strict parsers of numbers, and the lenient one of currencies.
ParseNumber(raw) == IF raw.kind = "amount" THEN Returns(raw.n) ELSE Fails
ParseCurrencyCode(raw) ==
  Returns(IF raw.kind = "amount" /\ raw.currency THEN "PLN" ELSE Null)

\* parse_national_id_value and _type: an identifier that is not recognized is
\* None in both.
ParseNationalId(raw) == Returns(IF raw.kind = "id" /\ raw.valid THEN "id" ELSE Null)

\* A change is a sequence of words and of the markers "before" and "after".
\* The parsers return places in it, so that words are told apart.
IsChange(raw) ==
  /\ raw.words \in Seq({"word", "before", "after"})
  /\ \A places \in SUBSET DOMAIN raw.words : places # Null
Marks(raw, mark) == {i \in DOMAIN raw.words : raw.words[i] = mark}
First(places) == CHOOSE i \in places : \A j \in places : i <= j
Words(raw, places) ==
  LET found == {i \in places : raw.words[i] = "word"} IN IF found = {} THEN Null ELSE found

\* Mutant: no label without a marker.
ParseChangeLabelMutant(raw) ==
  LET before == Marks(raw, "before") IN
  Returns(IF before = {} THEN Null ELSE Words(raw, 1 .. First(before) - 1))
ParseChangeLabel(raw) ==
  LET before == Marks(raw, "before") IN
  Returns(Words(raw, IF before = {} THEN DOMAIN raw.words ELSE 1 .. First(before) - 1))

ParseChangeBefore(raw) ==
  LET before == Marks(raw, "before")
      after  == {i \in Marks(raw, "after") : i > First(before)}
  IN  IF before = {} THEN Returns(Null)
      ELSE Returns(Words(raw, First(before) .. (IF after = {} THEN Len(raw.words)
                                                ELSE First(after) - 1)))

ParseChangeAfter(raw) ==
  LET after == Marks(raw, "after") IN
  Returns(IF after = {} THEN Null ELSE Words(raw, First(after) .. Len(raw.words)))

-----------------------------------------------------------------------------
(* The registries of parser_registry.py.                                   *)

CommonParsers == {"parse_date_from_text", "parse_number", "parse_currency_code",
                  "parse_national_id_value", "parse_national_id_type",
                  "parse_duration_start_date", "parse_duration_end_date",
                  "parse_duration_days_from_range",
                  "parse_change_label", "parse_change_before", "parse_change_after"}
\* Those that raise where the others return None.
StrictParsers == {"parse_date_from_text", "parse_number"}
\* Those of changes.
ChangeParsers == {"parse_change_label", "parse_change_before", "parse_change_after"}
ComputedParsers == {"compute_duration_days", "compute_contract_end_date"}

CommonParser(fn, raw) ==
  CASE fn = "parse_date_from_text" -> ParseDateFromText(raw)
    [] fn = "parse_number" -> ParseNumber(raw)
    [] fn = "parse_currency_code" -> ParseCurrencyCode(raw)
    [] fn \in {"parse_national_id_value", "parse_national_id_type"} -> ParseNationalId(raw)
    [] fn = "parse_duration_start_date" -> ParseDurationStartDate(raw)
    [] fn = "parse_duration_end_date" -> ParseDurationEndDate(raw)
    [] fn = "parse_duration_days_from_range" -> ParseDurationDaysFromRange(raw)
    [] fn = "parse_change_label" -> ParseChangeLabel(raw)
    [] fn = "parse_change_before" -> ParseChangeBefore(raw)
    [] fn = "parse_change_after" -> ParseChangeAfter(raw)

ComputedParser(fn, args) ==
  CASE fn = "compute_duration_days" -> ComputeDurationDays(args[1], args[2])
    [] fn = "compute_contract_end_date" -> ComputeContractEndDate(args[1], args[2])

\* _call of the fault-tolerant wrapper.
CallParser(fn, arg) == IF arg = Null THEN Returns(Null) ELSE CommonParser(fn, arg)
CallComputed(fn, args) ==
  IF \A i \in DOMAIN args : args[i] = Null THEN Returns(Null) ELSE ComputedParser(fn, args)
=============================================================================
