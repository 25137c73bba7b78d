------------------------------ MODULE MCSections ------------------------------
(* An instance of Sections for TLC, with a profile like that of a contract    *)
(* notice: a start date and a duration in the core (1, 2), an identifier (3), *)
(* a client (4), parts (5, 6, 9) with criteria (7, 8) between their sections,  *)
(* changes (10), and a number no profile has (11).                             *)
EXTENDS Sections, TLC
CONSTANT MaxParts  \* the length of the bodies made of part sections

Col(s, suffix) == [section |-> s, suffix |-> suffix]
P(entity, leaf, mode, parser, derived) ==
  [model |-> <<entity, leaf>>, mode |-> mode, parser |-> parser, derived |-> derived]
Plain(entity, leaf) == P(entity, leaf, "standard", "none", << >>)
MCProfile ==
  1 :> P("core", "core", "standard", "parse_date_from_text", << >>)
  @@ 2 :> Plain("core", "core")
  @@ 3 :> P("core", "core", "standard", "none",
            Col(3, "") :> "parse_national_id_value" @@ Col(3, "type") :> "parse_national_id_type")
  @@ 4 :> P("client", "core", "standard", "parse_currency_code", << >>)
  @@ 5 :> Plain("part", "core")
  @@ 6 :> P("part", "core", "standard", "none",
            Col(6, "") :> "parse_number" @@ Col(6, "currency") :> "parse_currency_code")
  @@ 7 :> Plain("part", "criterion")
  @@ 8 :> P("part", "criterion", "standard", "parse_number", << >>)
  @@ 9 :> Plain("part", "core")
  @@ 10 :> P("part", "part", "full_block", "none",
             Col(10, "label") :> "parse_change_label" @@ Col(10, "before") :> "parse_change_before"
             @@ Col(10, "after") :> "parse_change_after")
MCComputed ==
  LET From(column, fn) == [column |-> column, fn |-> fn, model |-> <<"core", "core">>,
                           sources |-> <<Col(1, ""), Col(2, "")>>]
  IN  {From(Col(2, ""), "compute_duration_days"), From(Col(1, "end"), "compute_contract_end_date")}

Text == [kind |-> "text"]
Amount(n, currency) == [kind |-> "amount", n |-> n, currency |-> currency]
Id(valid) == [kind |-> "id", valid |-> valid]
Change(words) == [kind |-> "change", words |-> words]

\* The end of a leap February, the ends of a year and of all years, and dates
\* that do not exist.
Dates == {DateOf(2024, 2, 28), DateOf(2024, 2, 29), DateOf(2023, 3, 31), DateOf(2023, 12, 31),
          DateOf(2000, 1, 30), DateOf(9999, 11, 30), DateOf(2023, 2, 29), DateOf(2024, 13, 1)}
          \cup {DateOf(2023, 1, d) : d \in 27 .. 31}
Starts_ == {[kind |-> "date", exact |-> x, date |-> d] : x \in BOOLEAN, d \in Dates} \cup {Text}
Durations ==
  {[kind |-> k, n |-> n] : k \in {"days", "weeks", "months", "years"}, n \in {0, 1, 2, 5, 12, 13}}
  \cup {[kind |-> "end", to |-> d] : d \in Dates}
  \cup {[kind |-> "range", from |-> d, to |-> e] : d, e \in Dates}
  \cup {Text}
Marked == UNION {[1 .. n -> {"word", "before", "after"}] : n \in 1 .. 4}
MCRaws == Starts_ \cup Durations \cup {Amount(7, TRUE), Amount(7, FALSE), Id(TRUE), Id(FALSE)}
          \cup {Change(w) : w \in Marked}

B(s, nodes, raw) == [section |-> s, span |-> FALSE, nodes |-> nodes, raw |-> raw]
T(s) == B(s, <<"text">>, Text)
None(s) == B(s, <<>>, Text)
UpTo(n, blocks) == UNION {[1 .. k -> blocks] : k \in 0 .. n}

\* Parts and their criteria; all models, with values that parsers take or not;
\* starts and durations; contents under a heading in both modes; changes.
Contents == UNION {[1 .. n -> NodeKinds] : n \in 0 .. 3}
MCDocuments ==
  UpTo(MaxParts, {T(5), T(7), B(8, <<"p">>, Amount(7, FALSE)), T(9), None(5)})
  \cup UpTo(3, {B(3, <<"br", "text">>, Id(TRUE)), B(3, <<"p">>, Id(FALSE)), T(4), T(5), T(11),
                B(6, <<"text", "p">>, Amount(7, TRUE)), B(6, <<"p">>, Text), T(8), T(9),
                B(10, <<"p">>, Change(<<"word">>))})
  \cup {<<B(1, <<"text">>, s), B(2, <<"text">>, d)>> : s \in Starts_, d \in Durations}
  \cup {<<B(2, <<"text">>, d)>> : d \in Durations}
  \cup {<<[section |-> s, span |-> span, nodes |-> c, raw |-> Change(<<"word">>)], T(5)>> :
          s \in {4, 10, 11}, span \in BOOLEAN, c \in Contents}
  \cup {<<T(5), B(10, <<"h3", "p">>, Change(w)), B(10, <<"p">>, Change(w))>> : w \in Marked}
MCMistyped == {Col(9, "")}
=============================================================================
