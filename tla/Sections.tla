------------------------------ MODULE Sections -------------------------------
(***************************************************************************)
(* The section pipeline of silver (src/procurement/silver/section_pipeline)*)
(* for one notice: raw_section_extractor reads the headings of the HTML    *)
(* body in turn and groups their values into the entities of the notice    *)
(* type's profile, spark_table_builder makes the rows of the section       *)
(* tables and runs the column parsers, final_schema_validator checks the   *)
(* rows.  Notices do not depend on each other.                             *)
(*                                                                         *)
(* A body is a sequence of blocks: a heading with a section number and     *)
(* what follows it up to the next such heading.  A value is known by the   *)
(* block it comes from, its raw text is a record of Values.                *)
(***************************************************************************)
EXTENDS Values, FiniteSets, FiniteSetsExt, Functions

CONSTANTS
  Documents,  \* the bodies: sequences of Block
  Numbers,    \* section numbers, as places in the order of section_number_key
  Profile,    \* the section configurations of the notice type, by number
  Computed,   \* the specifications of _computed_cols
  Raws,       \* the raw texts
  Mistyped    \* columns whose parser returns what the Pydantic model refuses

\* What stands under a heading: texts, <br>, <p>, <h2>, headings without a
\* section number, and other elements.
NodeKinds == {"text", "br", "p", "h2", "h3", "other"}
Block == [section : Numbers, span : BOOLEAN, nodes : Seq(NodeKinds), raw : Raws]

\* data_model: "core" is <<"core", "core">>, "part" and "part.core" are
\* <<"part", "core">>, "part.criterion" is <<"part", "criterion">>.  No profile
\* has a deeper one.
Known == DOMAIN Profile
Models == {Profile[s].model : s \in Known}  \* output_models
Entities == {m[1] : m \in Models} \ {"core"}
Paths == Models \cup {<<e, "core">> : e \in Entities}

\* A column is its section and a suffix, "" for the column of the section.
Columns == [section : Numbers, suffix : STRING]
Source(s) == [section |-> s, suffix |-> ""]
\* The derived columns of a section of changes.
ChangeColumns(s) ==
  {c \in DOMAIN Profile[s].derived : Profile[s].derived[c] \in ChangeParsers}

ASSUME ConstantsAssumption ==
  /\ Numbers \subseteq Nat \ {0} /\ Known \subseteq Numbers
  /\ \A s \in Known :
       /\ Profile[s].model \in STRING \X STRING
       /\ Profile[s].model[1] = "core" => Profile[s].model[2] = "core"
       /\ Profile[s].mode \in {"standard", "full_block"}
       /\ Profile[s].parser \in CommonParsers \cup {"none"}
       /\ \A c \in DOMAIN Profile[s].derived :
            c \in Columns /\ c.section = s /\ Profile[s].derived[c] \in CommonParsers
       /\ DOMAIN Profile[s].derived # {} => Profile[s].parser = "none"
       /\ ChangeColumns(s) # {} =>
            /\ \A fn \in ChangeParsers : \E c \in ChangeColumns(s) : Profile[s].derived[c] = fn
            /\ \A c, d \in ChangeColumns(s) : Profile[s].derived[c] = Profile[s].derived[d] => c = d
  /\ \A spec \in Computed :
       /\ spec.fn \in ComputedParsers /\ spec.model \in Models /\ spec.column \in Columns
       /\ \A s \in Known : spec.column \notin DOMAIN Profile[s].derived
       /\ \A i \in DOMAIN spec.sources : Profile[spec.sources[i].section].model = spec.model
       /\ \E start, duration \in Known :
            /\ spec.sources = <<Source(start), Source(duration)>> /\ start # duration
            /\ Profile[duration].parser = "none" /\ DOMAIN Profile[duration].derived = {}
            /\ DOMAIN Profile[start].derived = {}
            /\ \A other \in Computed : other.column # Source(start)
  /\ \A d, e \in Computed :
       /\ d.model = e.model /\ d.sources = e.sources
       /\ d.fn = e.fn \/ d.column = e.column => d = e
  /\ Mistyped \subseteq Columns
  /\ Null \notin Raws
  /\ \A raw \in Raws : raw.kind \in {"days", "weeks", "months", "years"} => raw.n \in Nat
  /\ \A raw \in Raws, fn \in StrictParsers : CommonParser(fn, raw) # Returns(Null)
  /\ Documents \subseteq Seq(Block)
  /\ \A body \in Documents : \A i \in DOMAIN body :
       body[i].section \in Known /\ ChangeColumns(body[i].section) # {} => IsChange(body[i].raw)

VARIABLES
  doc,      \* the body
  pos,      \* the blocks read
  core,     \* model_values["core"]
  slots,    \* model_values[e]: the occurrences of entity e
  index,    \* current_index, of entities and of child lists
  last,     \* last_section_by_model; 0 where there is none
  unknown,  \* unknown_sections
  errors    \* parse_errors: the core sections met twice

extracted == <<core, slots, index, last, unknown, errors>>

VARIABLES
  pc,         \* the stage of the pipeline
  tables,     \* the rows of each output model, told apart by their ordinals
  quarantine  \* the models (or "unknown", or "core") the notice is quarantined for

vars == <<doc, pos, extracted, pc, tables, quarantine>>

-----------------------------------------------------------------------------
(* The value of a section: the places of the nodes it is made of, and 0    *)
(* for the <span> in the heading.                                          *)

Kind(b, kinds) == {i \in DOMAIN b.nodes : b.nodes[i] \in kinds}
Before(b, kinds) == {i \in DOMAIN b.nodes : \A j \in Kind(b, kinds) : i < j}

SpanValue(b) == IF b.span THEN {0} ELSE {}

\* The first text, if only <br> comes before it.
TextAfterHeading(b) == Kind(b, {"text"}) \cap
  {i \in DOMAIN b.nodes : \A j \in 1 .. i - 1 : b.nodes[j] = "br"}

CollectPValues(b) == Kind(b, {"p"}) \cap Before(b, {"h2", "h3"})

CollectFullBlock(b) == Kind(b, {"text", "p", "h3"}) \cap Before(b, {"h2"})

SectionValue(b) ==
  IF b.section \in Known /\ Profile[b.section].mode = "full_block" THEN CollectFullBlock(b)
  ELSE IF b.span THEN SpanValue(b)
  ELSE TextAfterHeading(b) \cup CollectPValues(b)

-----------------------------------------------------------------------------
(* Grouping.  Fields are partial: the block of a section, or 0.            *)

Blank == [s \in Known |-> 0]
NoChildren == [p \in Paths |-> <<>>]
NewSlot == [core |-> Blank, kids |-> NoChildren]

Pad(list, n, item) == list \o [i \in 1 .. n - Len(list) |-> item]

\* _ensure_model_slot for an entity.
EnsureSlot(list, i) == Pad(list, i + 1, NewSlot)

\* A field is written once.
Put(fields, s, p) == IF fields[s] = 0 THEN [fields EXCEPT ![s] = p] ELSE fields

IsEntity(k) == k[2] = "core"
Descendants(k) == IF IsEntity(k) THEN {p \in Paths : p[1] = k[1] /\ p[2] # "core"} ELSE {}

\* current_index and last_section_by_model after the counter of a repeating unit
\* is advanced: that of the entity for its core sections (index <<e, "core">>),
\* that of the list for the sections of a child.
\* Mutants: the descendants keep their indices; the entity's index is reset too.
AdvanceMutant(k) ==
  index' = [index EXCEPT ![k] = @ + 1]
AdvanceAndResetAll(k) ==
  index' = [p \in Paths |-> IF p = k /\ ~IsEntity(k) THEN index[p] + 1
                            ELSE IF p = k \/ p \in Descendants(k) THEN 0 ELSE index[p]]
Advance(k) ==
  index' = [p \in Paths |-> IF p = k THEN index[p] + 1
                            ELSE IF p \in Descendants(k) THEN 0 ELSE index[p]]

\* Mutant: children go on from their last section.
NewLastMutant(k, s, advanced) == [last EXCEPT ![k] = s]
NewLast(k, s, advanced) ==
  [p \in Paths |-> IF p = k THEN s
                   ELSE IF advanced /\ p \in Descendants(k) THEN 0 ELSE last[p]]

\* Mutant: a section that comes again does not start a new unit.
RepeatsMutant(k, s) == last[k] # 0 /\ s < last[k]
Repeats(k, s) == last[k] # 0 /\ s <= last[k]

StoreField(k, s, p) ==
  LET e    == k[1]
      i    == index'[<<e, "core">>] + 1
      list == EnsureSlot(slots[e], i - 1)
      slot == list[i]
      j    == index'[k] + 1
      kids == Pad(slot.kids[k], j, Blank)
  IN  slots' = [slots EXCEPT ![e] =
        IF IsEntity(k)
          THEN [list EXCEPT ![i].core = Put(@, s, p)]
          ELSE [list EXCEPT ![i].kids[k] = [kids EXCEPT ![j] = Put(@, s, p)]]]

-----------------------------------------------------------------------------
Init ==
  /\ doc \in Documents
  /\ pos = 0
  /\ core = Blank
  /\ slots = [e \in Entities |-> <<>>]
  /\ index = [p \in Paths |-> 0]
  /\ last = [p \in Paths |-> 0]
  /\ unknown = {} /\ errors = {}
  /\ pc = "read"
  /\ tables = [m \in Models |-> {}]
  /\ quarantine = {}

Section == doc[pos + 1].section
Model == Profile[Section].model

\* The loop of build_notice_sections_model, at the next heading with a number.
NextHeading ==
  /\ pc = "read" /\ pos < Len(doc)
  /\ pos' = pos + 1
  /\ UNCHANGED <<doc, pc, tables, quarantine>>

HasValue == SectionValue(doc[pos + 1]) # {}

SkipEmpty == NextHeading /\ ~HasValue /\ UNCHANGED extracted

UnknownSection ==
  /\ NextHeading /\ HasValue
  /\ Section \notin Known
  /\ unknown' = unknown \cup {Section}
  /\ UNCHANGED <<core, slots, index, last, errors>>

\* Mutant: the second value of a core section is dropped without an error.
CoreSectionMutant ==
  /\ NextHeading /\ HasValue
  /\ Section \in Known /\ Model = <<"core", "core">>
  /\ core' = Put(core, Section, pos')
  /\ UNCHANGED <<slots, index, last, unknown, errors>>

CoreSection ==
  /\ NextHeading /\ HasValue
  /\ Section \in Known /\ Model = <<"core", "core">>
  /\ IF core[Section] # 0
       THEN errors' = errors \cup {Section} /\ UNCHANGED core
       ELSE core' = [core EXCEPT ![Section] = pos'] /\ UNCHANGED errors
  /\ UNCHANGED <<slots, index, last, unknown>>

EntitySection ==
  /\ NextHeading /\ HasValue
  /\ Section \in Known /\ Model # <<"core", "core">>
  /\ IF Repeats(Model, Section) THEN Advance(Model) ELSE UNCHANGED index
  /\ StoreField(Model, Section, pos')
  /\ last' = NewLast(Model, Section, Repeats(Model, Section))
  /\ UNCHANGED <<core, unknown, errors>>

-----------------------------------------------------------------------------
(* Tables.                                                                 *)

SectionsOf(m) == {s \in Known : Profile[s].model = m}

\* A cell holds a value and the blocks it is made from.
NoCell == [from |-> {}, value |-> Null]
RawCell(p) == IF p = 0 THEN NoCell ELSE [from |-> {p}, value |-> doc[p].raw]
\* Mutant: ordinals count from 0.
NewRowMutant(m, fields, ordinal, parent) ==
  [ordinal |-> ordinal - 1, parent |-> parent, errors |-> {},
   cells |-> [c \in {Source(s) : s \in SectionsOf(m)} |-> RawCell(fields[c.section])]]
NewRow(m, fields, ordinal, parent) ==
  [ordinal |-> ordinal, parent |-> parent, errors |-> {},
   cells |-> [c \in {Source(s) : s \in SectionsOf(m)} |-> RawCell(fields[c.section])]]

\* The children of all occurrences of an entity, by the occurrence and the place
\* in its list; posexplode counts them through.
Children(m) ==
  UNION {{i} \X DOMAIN slots[m[1]][i].kids[m] : i \in DOMAIN slots[m[1]]}
UpToChild(m, c) == {d \in Children(m) : d[1] < c[1] \/ (d[1] = c[1] /\ d[2] <= c[2])}
ChildRow(m, c, parent) ==
  NewRow(m, slots[m[1]][c[1]].kids[m][c[2]], Cardinality(UpToChild(m, c)), parent)

\* One row per notice, one per occurrence, or one per child over all parents.
\* Mutant: children name their place in the list of their parent.
TableMutant(m) ==
  IF m = <<"core", "core">> THEN {NewRow(m, core, 1, 0)}
  ELSE IF IsEntity(m) THEN {NewRow(m, slots[m[1]][i].core, i, 0) : i \in DOMAIN slots[m[1]]}
  ELSE {ChildRow(m, c, c[2]) : c \in Children(m)}
Table(m) ==
  IF m = <<"core", "core">> THEN {NewRow(m, core, 1, 0)}
  ELSE IF IsEntity(m) THEN {NewRow(m, slots[m[1]][i].core, i, 0) : i \in DOMAIN slots[m[1]]}
  ELSE {ChildRow(m, c, c[1]) : c \in Children(m)}

\* build_section_tables leaves a notice with parse errors out, and the two
\* detectors quarantine it and the notices with unknown sections.
BuildSectionTables ==
  /\ pc = "read" /\ pos = Len(doc)
  /\ tables' = [m \in Models |-> IF errors = {} THEN Table(m) ELSE {}]
  /\ quarantine' = (IF unknown # {} THEN {<<"unknown", "unknown">>} ELSE {})
                     \cup (IF errors # {} THEN {<<"core", "core">>} ELSE {})
  /\ pc' = "parse"
  /\ UNCHANGED <<doc, pos, extracted>>

\* Columns replaced one by one: a failing parser leaves None and an error.
ParsedCell(cell, result) == [from |-> cell.from, value |-> result.value]
ParseInPlace(row) ==
  LET Result(c) == IF Profile[c.section].parser = "none" THEN Returns(row.cells[c].value)
                   ELSE CallParser(Profile[c.section].parser, row.cells[c].value)
  IN  [row EXCEPT !.cells = [c \in DOMAIN @ |-> ParsedCell(@[c], Result(c))],
                  !.errors = {c \in DOMAIN row.cells : Result(c).error}]

\* A source column with derived columns gives way to them.
DerivedFrom(c) == Profile[c.section].derived
ParseDerived(row) ==
  LET sources == {c \in DOMAIN row.cells : DOMAIN DerivedFrom(c) # {}}
      derived == UNION {DOMAIN DerivedFrom(c) : c \in sources}
      Cell(d) == row.cells[Source(d.section)]
      Result(d) == CallParser(DerivedFrom(d)[d], Cell(d).value)
  IN  [row EXCEPT
        !.cells = [c \in (DOMAIN @ \ sources) \cup derived |->
                     IF c \in derived THEN ParsedCell(Cell(c), Result(c)) ELSE @[c]],
        !.errors = @ \cup {d \in derived : Result(d).error}]

\* Computed columns all read what was there before any of them, and replace the
\* sources that have their names.
SourceCells(row, spec) == [i \in DOMAIN spec.sources |-> row.cells[spec.sources[i]]]
Compute(m, row) ==
  LET specs == {spec \in Computed : spec.model = m}
      SpecOf(c) == CHOOSE spec \in specs : spec.column = c
      outputs == {spec.column : spec \in specs}
      Cells(c) == SourceCells(row, SpecOf(c))
      Result(c) == CallComputed(SpecOf(c).fn, [i \in DOMAIN Cells(c) |-> Cells(c)[i].value])
      Cell(c) == [from |-> UNION {Cells(c)[i].from : i \in DOMAIN Cells(c)},
                  value |-> Result(c).value]
  IN  [row EXCEPT
        !.cells = [c \in DOMAIN @ \cup outputs |-> IF c \in outputs THEN Cell(c) ELSE @[c]],
        !.errors = @ \cup {c \in outputs : Result(c).error}]

ApplyColumnParsers ==
  /\ pc = "parse"
  /\ tables' = [m \in Models |->
       {Compute(m, ParseDerived(ParseInPlace(row))) : row \in tables[m]}]
  /\ pc' = "validate"
  /\ UNCHANGED <<doc, pos, extracted, quarantine>>

\* Rows the Pydantic model refuses go to quarantine, and only they.
Valid(row) == \A c \in Mistyped \cap DOMAIN row.cells : row.cells[c].value = Null
ApplyPydanticValidation ==
  /\ pc = "validate"
  /\ tables' = [m \in Models |-> {row \in tables[m] : Valid(row)}]
  /\ quarantine' = quarantine \cup
       {m \in Models : \E row \in tables[m] : ~Valid(row)}
  /\ pc' = "done"
  /\ UNCHANGED <<doc, pos, extracted>>

-----------------------------------------------------------------------------
Next ==
  \/ SkipEmpty
  \/ UnknownSection
  \/ CoreSection
  \/ EntitySection
  \/ BuildSectionTables
  \/ ApplyColumnParsers
  \/ ApplyPydanticValidation

Spec == Init /\ [][Next]_vars

-----------------------------------------------------------------------------
(***************************************************************************)
(* Properties.                                                             *)
(***************************************************************************)
Fields == [Known -> Nat]
Slot == [core : Fields, kids : [Paths -> Seq(Fields)]]

\* The types of the variables.
TypeOK ==
  /\ pos \in 0 .. Len(doc)
  /\ core \in Fields
  /\ slots \in [Entities -> Seq(Slot)]
  /\ index \in [Paths -> Nat] /\ last \in [Paths -> Known \cup {0}]
  /\ unknown \subseteq Numbers \ Known /\ errors \subseteq Known
  /\ pc \in {"read", "parse", "validate", "done"}
  /\ DOMAIN tables = Models
  /\ \A m \in Models : \A row \in tables[m] :
       /\ row.ordinal \in Nat \ {0} /\ row.parent \in Nat
       /\ row.errors \subseteq DOMAIN row.cells
  /\ quarantine \subseteq Models \cup {<<"unknown", "unknown">>, <<"core", "core">>}

\* The blocks read so far that have a value, and those of one model.
Valued == {p \in 1 .. pos : SectionValue(doc[p]) # {}}
ValuedOf(m) == {p \in Valued : doc[p].section \in SectionsOf(m)}

\* A value of the body is in a cell of its model's table, or an error of its row
\* says that it could not be parsed, or the notice is quarantined: no grouping of
\* repeated sections, no parser and no check drops one in silence
\* (raw_section_extractor.py:215-284, spark_table_builder.py:437-651).  Left out
\* are the two ways the parsers do: a text that the lenient parser of its column,
\* or none of those of its derived columns takes, and a duration that gives way to
\* a computed column.
Rejected(s, raw) ==
  IF DOMAIN Profile[s].derived = {}
    THEN /\ Profile[s].parser \in CommonParsers \ StrictParsers
         /\ CallParser(Profile[s].parser, raw) = Returns(Null)
    ELSE \A c \in DOMAIN Profile[s].derived : CallParser(Profile[s].derived[c], raw) = Returns(Null)
Replaced(s) == \E spec \in Computed : spec.column = Source(s)
InTable(p) ==
  \E row \in tables[Profile[doc[p].section].model] : \E c \in DOMAIN row.cells :
      p \in row.cells[c].from /\ (row.cells[c].value # Null \/ c \in row.errors)
NothingLostSilently ==
  pc = "done" =>
    \A p \in Valued : LET s == doc[p].section IN
      IF s \notin Known THEN <<"unknown", "unknown">> \in quarantine
      ELSE \/ <<"core", "core">> \in quarantine \/ Profile[s].model \in quarantine
           \/ Rejected(s, doc[p].raw) \/ Replaced(s)
           \/ InTable(p)

\* Occurrences follow the body: all values of one, children included, come before
\* those of the next, and so do the children of one occurrence; within a unit the
\* sections ascend (raw_section_extractor.py:251-279).
FieldsAscend(fields) ==
  \A s, t \in Known : fields[s] # 0 /\ fields[t] # 0 /\ s < t => fields[s] < fields[t]
BlocksOf(fields) == {fields[s] : s \in Known} \ {0}
ChildBlocks(slot) ==
  UNION {UNION {BlocksOf(slot.kids[k][j]) : j \in DOMAIN slot.kids[k]} : k \in Paths}
OrderIsKept ==
  \A e \in Entities : \A i, j \in DOMAIN slots[e] :
    LET Blocks(x) == BlocksOf(slots[e][x].core) \cup ChildBlocks(slots[e][x]) IN
    /\ i < j => \A p \in Blocks(i), q \in Blocks(j) : p < q
    /\ FieldsAscend(slots[e][i].core)
    /\ \A k \in Paths : \A x, y \in DOMAIN slots[e][i].kids[k] :
         LET kids == slots[e][i].kids[k] IN
         /\ x < y => \A p \in BlocksOf(kids[x]), q \in BlocksOf(kids[y]) : p < q
         /\ FieldsAscend(kids[x])

\* Counters never run ahead: no occurrence and no child is made of nothing, which
\* would give a row of nulls (raw_section_extractor.py:192-203, 257-276).
NoEmptyUnit ==
  \A e \in Entities : \A i \in DOMAIN slots[e] :
    /\ BlocksOf(slots[e][i].core) \cup ChildBlocks(slots[e][i]) # {}
    /\ \A k \in Paths : \A j \in DOMAIN slots[e][i].kids[k] :
         BlocksOf(slots[e][i].kids[k][j]) # {}

\* What the grouping is for.  If each part of a body begins with the entity's
\* first section and its other core sections ascend, and each child of a part
\* begins with the child's first section and ascends, then every part is an
\* occurrence and every child a child of its part
\* (raw_section_extractor.py:251-279).
FirstSection(m) == CHOOSE s \in SectionsOf(m) : \A t \in SectionsOf(m) : s <= t
Starts(m) == {p \in ValuedOf(m) : doc[p].section = FirstSection(m)}
Ascends(values, starts) ==
  /\ \A p \in values : \E b \in starts : b <= p
  /\ \A p, q \in values : q < p /\ (\A b \in starts : ~(q < b /\ b <= p)) =>
       doc[q].section < doc[p].section
LargestBelow(starts, p) == CHOOSE b \in starts : b <= p /\ \A c \in starts : c <= p => c <= b
UnitOf(starts, p) == Cardinality({b \in starts : b <= p})
PartsAreOccurrences ==
  pc = "parse" =>
    \A e \in Entities :
      LET of     == [k \in {m \in Models : m[1] = e} \cup {<<e, "core">>} |-> ValuedOf(k)]
          values == of[<<e, "core">>]
          parts  == Starts(<<e, "core">>)
          From(p) == LargestBelow(parts, p)
          Within(k) == \A p \in of[k] : \E b \in Starts(k), c \in parts : c <= b /\ b <= p /\
                                          \A d \in parts : ~(b < d /\ d <= p)
      IN
      <<e, "core">> \in Models /\ Ascends(values, parts) =>
        /\ Len(slots[e]) = (IF \A k \in DOMAIN of : of[k] = {} THEN 0
                            ELSE IF parts = {} THEN 1 ELSE Cardinality(parts))
        /\ \A p \in values : slots[e][UnitOf(parts, p)].core[doc[p].section] = p
        /\ \A k \in DOMAIN of \ {<<e, "core">>} :
             Within(k) /\ Ascends(of[k], Starts(k) \cup parts) =>
               \A p \in of[k] :
                 LET own == {b \in Starts(k) : b >= From(p)} IN
                 slots[e][UnitOf(parts, p)].kids[k][UnitOf(own, p)][doc[p].section] = p

\* A row of a child table names the ordinal of a row of its parent's table, unless
\* that row was refused and the notice is quarantined for it
\* (spark_table_builder.py:161-169, final_schema_validator.py:216-231).
ChildHasParent ==
  pc = "done" =>
    \A m \in Models : ~IsEntity(m) /\ <<m[1], "core">> \in Models =>
      \A row \in tables[m] :
        \/ \E occ \in tables[<<m[1], "core">>] : occ.ordinal = row.parent
        \/ <<m[1], "core">> \in quarantine

\* Where a row has both, the duration in days leads from the start to the end
\* date, and a duration of months or years ends in the month it says, on the day
\* of the month it began or on the last one (common.py:283-289, 339-422).
TextOf(row, fn) ==
  LET spec == CHOOSE spec \in Computed : spec.fn = fn
      source == spec.sources[2].section
  IN  doc[CHOOSE p \in row.cells[spec.column].from : doc[p].section = source].raw
StartOf(row, text) ==
  IF text.kind = "range" THEN text.from
  ELSE StartDate(row.cells[(CHOOSE spec \in Computed : TRUE).sources[1]].value)
Spans(start, end, text) ==
  text.kind \in {"months", "years"} =>
    /\ end.year * 12 + end.month = start.year * 12 + start.month + LengthInMonths(text)
    /\ \/ end.day = start.day
       \/ end.day < start.day /\ FromOrdinal(Ordinal(end) + 1).day = 1
DurationMatchesEndDate ==
  pc = "done" =>
    \A d, e \in Computed : d.fn = "compute_duration_days" /\ e.fn = "compute_contract_end_date" =>
      \A row \in tables[d.model] :
        LET days == row.cells[d.column].value
            end == row.cells[e.column].value
        IN  days # Null /\ end # Null =>
              LET text == TextOf(row, e.fn)
                  start == StartOf(row, text)
              IN  Ordinal(end) - Ordinal(start) = days /\ Spans(start, end, text)

\* The label, the old and the new text of a change hold every word of it between
\* them, and each only once if the markers are there in their order
\* (common.py:605-652).
ChangeTextIsKept ==
  pc = "done" =>
    \A m \in Models : \A row \in tables[m] : \A s \in SectionsOf(m) :
      LET cells == row.cells
          changes == ChangeColumns(s)
          Part(c) == IF cells[c].value = Null THEN {} ELSE cells[c].value
      IN  \A c \in changes : \A p \in cells[c].from :
            LET raw == doc[p].raw IN
            /\ Marks(raw, "word") = UNION {Part(d) : d \in changes}
            /\ (\E b, a \in DOMAIN raw.words :
                   /\ Marks(raw, "before") = {b} /\ Marks(raw, "after") = {a} /\ b < a) =>
                 \A d \in changes : d # c => Part(d) \cap Part(c) = {}
=============================================================================
