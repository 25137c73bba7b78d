----------------------------- MODULE DeltasProofs -----------------------------
(***************************************************************************)
(* What is proved about Deltas: what becomes of the changes of a notice,   *)
(* and that the tables stay whole and current, for every instance.         *)
(***************************************************************************)
EXTENDS Deltas, ListProofs

(***************************************************************************)
(* The changes of a NUN, applied one after the other.                      *)
(***************************************************************************)
Cells == [values : [Columns -> Values], errors : SUBSET Columns]
Amount(n) == Cardinality(Changes[n])

\* The changes come in the order of parts and of items.
LEMMA ChangesAreOrdered ==
  ASSUME NEW n \in Nuns
  PROVE  /\ ChangesInOrder(n) \in Seq(Changes[n])
         /\ ToSet(ChangesInOrder(n)) = Changes[n]
         /\ Amount(n) \in Nat /\ DOMAIN ChangesInOrder(n) = 1 .. Amount(n)
         /\ \A i \in 1 .. Amount(n) : ChangesInOrder(n)[i] \in Changes[n]
         /\ \A i, j \in 1 .. Amount(n) :
              i < j => IsEarlier(ChangesInOrder(n)[i], ChangesInOrder(n)[j])
         /\ Changes[n] \subseteq Change
<1> DEFINE C == Changes[n]
           R == {pair \in C \X C : IsEarlier(pair[1], pair[2])}
           s == Ranked(C, R)
<1>1. C \subseteq Change /\ IsFiniteSet(C)
  BY ConstantsAssumption
<1>2. \A x \in C : x.part \in Nat /\ x.item \in Nat
  BY <1>1 DEF Change
<1>3. \A x, y \in C : x.part = y.part /\ x.item = y.item => x = y
  BY ConstantsAssumption
<1>4. \A x, y \in C : <<x, y>> \in R <=> IsEarlier(x, y)
  OBVIOUS
<1>5. \A x, y : <<x, y>> \in R => IsEarlier(x, y)
  OBVIOUS
<1>6. s = ChangesInOrder(n)
  BY DEF ChangesInOrder
<1> HIDE DEF C, R, s
<1>7. IsOrder(C, R)
  <2>1. \A x \in C : <<x, x>> \notin R
    BY <1>2, <1>4 DEF IsEarlier
  <2>2. \A x, y, z \in C : <<x, y>> \in R /\ <<y, z>> \in R => <<x, z>> \in R
    BY <1>2, <1>4 DEF IsEarlier
  <2>3. \A x, y \in C : x = y \/ <<x, y>> \in R \/ <<y, x>> \in R
    <3> SUFFICES ASSUME NEW x \in C, NEW y \in C
                 PROVE  x = y \/ IsEarlier(x, y) \/ IsEarlier(y, x)
      BY <1>4
    <3>1. x.part \in Nat /\ x.item \in Nat /\ y.part \in Nat /\ y.item \in Nat
      BY <1>2
    <3>2. x.part = y.part /\ x.item = y.item => x = y
      BY <1>3
    <3> QED
      BY <3>1, <3>2 DEF IsEarlier
  <2> QED
    BY <2>1, <2>2, <2>3 DEF IsOrder
<1>8. /\ s \in Seq(C) /\ ToSet(s) = C
      /\ DOMAIN s = 1 .. Cardinality(C) /\ Cardinality(C) \in Nat
      /\ \A i, j \in DOMAIN s : i < j => <<s[i], s[j]>> \in R
  BY <1>1, <1>7, RankedListsEach DEF s
<1>9. \A i \in 1 .. Cardinality(C) : s[i] \in C
  BY <1>8 DEF ToSet
<1> QED
  BY <1>1, <1>5, <1>6, <1>8, <1>9 DEF C, Amount

\* A column takes a text or what its parser makes of it.
LEMMA ParserIsTyped ==
  ASSUME NEW c \in Columns, NEW text \in Texts \cup {NoText}
  PROVE  ApplyParser(c, text) \in Values
<1>1. Parser[c] = NoParser \/ Parser[c] \in Parsers
  BY DEF Parsers, Columns
<1> QED
  BY <1>1 DEF ApplyParser, Values

LEMMA ChangeIsTyped ==
  ASSUME NEW t \in Types, NEW row \in Cells, NEW ch \in Change
  PROVE  /\ ApplyChange(t, row, ch) \in Cells
         /\ \A c \in Columns :
              /\ c \in Touches(t, ch) =>
                   /\ ApplyChange(t, row, ch).values[c] = ApplyParser(c, ch.after)
                   /\ c \in ApplyChange(t, row, ch).errors <=> Fails(c, ch.after)
              /\ c \notin Touches(t, ch) =>
                   /\ ApplyChange(t, row, ch).values[c] = row.values[c]
                   /\ c \in ApplyChange(t, row, ch).errors <=> c \in row.errors
<1> DEFINE T == Touches(t, ch)
           V == [c \in Columns |-> IF c \in T THEN ApplyParser(c, ch.after) ELSE row.values[c]]
           X == (row.errors \ T) \cup {c \in T : Fails(c, ch.after)}
<1>1. T \subseteq Columns
  BY ConstantsAssumption DEF Touches
<1>2. row.values \in [Columns -> Values] /\ row.errors \subseteq Columns
  BY DEF Cells
<1>3. ch.after \in Texts \cup {NoText}
  BY DEF Change
<1>4. ApplyChange(t, row, ch) = [values |-> V, errors |-> X]
  BY DEF ApplyChange
<1> HIDE DEF T
<1>6. X \subseteq Columns
  BY <1>1, <1>2
<1>7. \A c \in Columns : ApplyParser(c, ch.after) \in Values
  BY <1>3, ParserIsTyped
<1>8. V \in [Columns -> Values]
  BY <1>2, <1>7
<1>9. [values |-> V, errors |-> X] \in Cells
  BY <1>6, <1>8 DEF Cells
<1> HIDE DEF V, X
<1>10. ApplyChange(t, row, ch).values = V /\ ApplyChange(t, row, ch).errors = X
  BY <1>4
<1> QED
  BY <1>4, <1>9, <1>10, Zenon DEF T, V, X

LEMMA AppliedSteps ==
  ASSUME NEW n \in Nuns, NEW t \in Types
  PROVE  /\ Applied(n, t) \in [0 .. Amount(n) -> Cells]
         /\ Applied(n, t)[0] = NoChange
         /\ \A i \in 1 .. Amount(n) :
              Applied(n, t)[i] = ApplyChange(t, Applied(n, t)[i - 1], ChangesInOrder(n)[i])
<1> DEFINE s == ChangesInOrder(n)
           m == Amount(n)
           Rule(f, i) == IF i = 0 THEN NoChange ELSE ApplyChange(t, f[i - 1], s[i])
           step == [i \in 1 .. m |-> [row \in Cells |-> ApplyChange(t, row, s[i])]]
<1>1. m \in Nat /\ Len(s) = m /\ \A i \in 1 .. m : s[i] \in Change
  BY ChangesAreOrdered, LenProperties
<1>2. NoChange \in Cells
  BY DEF NoChange, Cells, Values
<1>3. step \in [1 .. m -> [Cells -> Cells]]
  BY <1>1, ChangeIsTyped
<1>4. PICK g \in [0 .. m -> Cells] : g[0] = NoChange /\ \A i \in 1 .. m : g[i] = step[i][g[i - 1]]
  <2> HIDE DEF step, m
  <2>1. \E g : IsChain(g, m, Cells, NoChange, step)
    BY <1>1, <1>2, <1>3, ChainExists, Zenon
  <2> QED
    BY <2>1 DEF IsChain
<1>5. g = [i \in 0 .. m |-> Rule(g, i)]
  <2>1. ASSUME NEW i \in 0 .. m PROVE g[i] = Rule(g, i)
    <3>1. CASE i = 0
      BY <1>4, <3>1
    <3>2. CASE i # 0
      <4>1. i \in 1 .. m /\ i - 1 \in 0 .. m
        BY <1>1, <2>1, <3>2
      <4>2. g[i] = step[i][g[i - 1]] /\ g[i - 1] \in Cells
        BY <1>4, <4>1
      <4> QED
        BY <3>2, <4>1, <4>2
    <3> QED
      BY <3>1, <3>2
  <2> HIDE DEF Rule
  <2> QED
    BY <1>4, <2>1
<1> DEFINE a == Applied(n, t)
<1>6. a = [i \in 0 .. m |-> Rule(a, i)]
  <2>1. a = CHOOSE f : f = [i \in 0 .. m |-> Rule(f, i)]
    BY <1>1 DEF Applied
  <2> HIDE DEF Rule, a
  <2> QED
    BY <1>5, <2>1, Zenon
<1> HIDE DEF a, m, s
<1>7. \A i \in 1 .. m : i \in 0 .. m /\ i # 0
  BY <1>1
<1>8. a[0] = NoChange /\ \A i \in 1 .. m : a[i] = ApplyChange(t, a[i - 1], s[i])
  <2>1. 0 \in 0 .. m
    BY <1>1
  <2> QED
    BY <1>6, <1>7, <2>1
<1>9. \A i \in 0 .. m : a[i] \in Cells
  <2> DEFINE P == {i \in 0 .. m : a[i] \in Cells}
  <2>1. 0 \in P
    BY <1>1, <1>2, <1>8
  <2>2. ASSUME NEW i \in 1 .. m, i - 1 \in P PROVE i \in P
    BY <1>1, <1>7, <1>8, <2>2, ChangeIsTyped
  <2> HIDE DEF P
  <2>3. 0 .. m \subseteq P
    BY <1>1, <2>1, <2>2, InductionUpTo
  <2> QED
    BY <2>3 DEF P
<1>10. a \in [0 .. m -> Cells]
  BY <1>6, <1>9
<1> QED
  BY <1>8, <1>10 DEF a, m, s

\* After the first i changes a column says what the last of them that touches it says.
Touched(n, t, c, i) == c \in Touches(t, ChangesInOrder(n)[i])
Says(cells, c, text) ==
  cells.values[c] = ApplyParser(c, text) /\ (c \in cells.errors <=> Fails(c, text))
IsLast(n, t, c, i, j) == Touched(n, t, c, j) /\ \A k \in j + 1 .. i : ~Touched(n, t, c, k)
LastOf(n, t, c, i) ==
  \/ /\ \A j \in 1 .. i : ~Touched(n, t, c, j)
     /\ Says(Applied(n, t)[i], c, NoText)
  \/ \E j \in 1 .. i : /\ IsLast(n, t, c, i, j)
                       /\ Says(Applied(n, t)[i], c, ChangesInOrder(n)[j].after)

LEMMA NoTextIsNoError ==
  ASSUME NEW c \in Columns
  PROVE  ~Fails(c, NoText) /\ ApplyParser(c, NoText) = NoText
<1>1. NoText \notin Texts
  BY DEF Texts
<1>2. Unparsable \subseteq Parsers \X Texts
  BY ConstantsAssumption
<1>3. ASSUME <<Parser[c], NoText>> \in Unparsable PROVE FALSE
  <2> HIDE DEF Texts
  <2>1. <<Parser[c], NoText>> \in Parsers \X Texts
    BY <1>2, <1>3, Zenon
  <2>2. NoText \in Texts
    BY <2>1
  <2> QED
    BY <1>1, <2>2
<1> QED
  BY <1>3 DEF Fails, ApplyParser

LEMMA LastOfTheFirst ==
  ASSUME NEW n \in Nuns, NEW t \in Types, NEW c \in Columns, NEW m \in 0 .. Amount(n)
  PROVE  LastOf(n, t, c, m)
<1> DEFINE s == ChangesInOrder(n)
           a == Applied(n, t)
           P == {i \in 0 .. Amount(n) : LastOf(n, t, c, i)}
<1>1. Amount(n) \in Nat /\ \A i \in 1 .. Amount(n) : s[i] \in Change
  BY ChangesAreOrdered
<1>2. /\ a[0] = NoChange /\ \A i \in 0 .. Amount(n) : a[i] \in Cells
      /\ \A i \in 1 .. Amount(n) : a[i] = ApplyChange(t, a[i - 1], s[i])
  BY AppliedSteps
<1>3. 0 \in P
  <2>1. Says(a[0], c, NoText)
    BY <1>2, NoTextIsNoError DEF NoChange, Says
  <2>2. \A j \in 1 .. 0 : ~Touched(n, t, c, j)
    OBVIOUS
  <2>3. 0 \in 0 .. Amount(n)
    BY <1>1
  <2> QED
    BY <2>1, <2>2, <2>3, Zenon DEF LastOf
<1>4. ASSUME NEW i \in 1 .. Amount(n), i - 1 \in P PROVE i \in P
  <2>1. /\ i \in Nat /\ i - 1 \in 0 .. Amount(n) /\ i \in 0 .. Amount(n) /\ i \in 1 .. i
        /\ s[i] \in Change /\ a[i - 1] \in Cells
    BY <1>1, <1>2, <1>4
  <2>2. a[i] = ApplyChange(t, a[i - 1], s[i])
    BY <1>2
  <2>3. CASE Touched(n, t, c, i)
    <3>1. Says(a[i], c, s[i].after)
      BY <2>1, <2>2, <2>3, ChangeIsTyped DEF Says, Touched
    <3>2. IsLast(n, t, c, i, i)
      BY <2>1, <2>3 DEF IsLast
    <3> QED
      BY <2>1, <3>1, <3>2, Zenon DEF LastOf
  <2>4. CASE ~Touched(n, t, c, i)
    <3>1. \A text : Says(a[i - 1], c, text) => Says(a[i], c, text)
      BY <2>1, <2>2, <2>4, ChangeIsTyped DEF Says, Touched
    <3>2. CASE \A j \in 1 .. i - 1 : ~Touched(n, t, c, j)
      <4>1. \A j \in 1 .. i - 1 : ~IsLast(n, t, c, i - 1, j)
        BY <3>2, Zenon DEF IsLast
      <4>2. Says(a[i - 1], c, NoText)
        BY <1>4, <4>1, Zenon DEF LastOf
      <4>3. \A j \in 1 .. i : j = i \/ j \in 1 .. i - 1
        BY <2>1
      <4>4. \A j \in 1 .. i : ~Touched(n, t, c, j)
        BY <2>4, <3>2, <4>3, Zenon
      <4> QED
        BY <2>1, <3>1, <4>2, <4>4, Zenon DEF LastOf
    <3>3. CASE ~(\A j \in 1 .. i - 1 : ~Touched(n, t, c, j))
      <4>1. PICK j \in 1 .. i - 1 :
              IsLast(n, t, c, i - 1, j) /\ Says(a[i - 1], c, s[j].after)
        BY <1>4, <3>3, Zenon DEF LastOf
      <4>2. j \in 1 .. i /\ \A k \in j + 1 .. i : k = i \/ k \in j + 1 .. i - 1
        BY <2>1
      <4>3. IsLast(n, t, c, i, j)
        BY <2>4, <4>1, <4>2, Zenon DEF IsLast
      <4> QED
        BY <2>1, <3>1, <4>1, <4>2, <4>3, Zenon DEF LastOf
    <3> QED
      BY <3>2, <3>3, Zenon
  <2> QED
    BY <2>3, <2>4
<1> HIDE DEF P
<1>5. 0 .. Amount(n) \subseteq P
  BY <1>1, <1>3, <1>4, InductionUpTo
<1> QED
  BY <1>5 DEF P

LEMMA ColumnsAreLatest ==
  ASSUME NEW n \in Nuns, NEW t \in Types
  PROVE  /\ ColumnsOf[n][t] \in Cells
         /\ \A c \in Columns : Says(ColumnsOf[n][t], c, Text[n][t][c])
<1> DEFINE s == ChangesInOrder(n)
           m == Amount(n)
           cells == ColumnsOf[n][t]
<1>1. m \in Nat /\ m \in 0 .. m
  BY ChangesAreOrdered
<1>2. cells = Applied(n, t)[m]
  BY DEF ColumnsOf, Amount
<1>3. cells \in Cells
  BY <1>1, <1>2, AppliedSteps
<1>4. ASSUME NEW c \in Columns PROVE Says(cells, c, Text[n][t][c])
  <2> DEFINE touching == {ch \in Changes[n] : c \in Touches(t, ch)}
  <2>1. Text[n][t][c] = IF touching = {} THEN NoText ELSE LatestOf(touching).after
    BY DEF Text
  <2>2. \A i \in 1 .. m : s[i] \in Changes[n] /\ (Touched(n, t, c, i) <=> s[i] \in touching)
    BY ChangesAreOrdered DEF Touched
  <2>3. \A ch \in Changes[n] : \E i \in 1 .. m : ch = s[i]
    BY ChangesAreOrdered DEF ToSet
  <2>4. LastOf(n, t, c, m)
    BY <1>1, LastOfTheFirst
  <2>5. CASE /\ \A j \in 1 .. m : ~Touched(n, t, c, j)
             /\ Says(cells, c, NoText)
    <3>1. touching = {}
      BY <2>2, <2>3, <2>5
    <3> QED
      BY <2>1, <2>5, <3>1, Zenon
  <2>6. ASSUME NEW j \in 1 .. m, IsLast(n, t, c, m, j), Says(cells, c, s[j].after)
        PROVE  Says(cells, c, Text[n][t][c])
    <3>1. s[j] \in touching
      BY <2>2, <2>6 DEF IsLast
    <3>2. ASSUME NEW ch \in touching, ch # s[j] PROVE IsEarlier(ch, s[j])
      <4>1. PICK i \in 1 .. m : ch = s[i]
        BY <2>3
      <4>2. Touched(n, t, c, i) /\ i # j
        BY <2>2, <3>2, <4>1
      <4>3. i \notin j + 1 .. m
        BY <2>6, <4>2 DEF IsLast
      <4>4. i < j
        BY <1>1, <4>2, <4>3
      <4> QED
        BY <4>1, <4>4, ChangesAreOrdered
    <3>3. \A x, y \in Changes[n] : IsEarlier(x, y) => ~IsEarlier(y, x)
      <4>1. \A x \in Changes[n] : x.part \in Nat /\ x.item \in Nat
        BY ChangesAreOrdered DEF Change
      <4> QED
        BY <4>1 DEF IsEarlier
    <3>4. ASSUME NEW x \in touching, \A y \in touching \ {x} : IsEarlier(y, x)
          PROVE  x = s[j]
      <4>1. x \in Changes[n] /\ s[j] \in Changes[n]
        BY <3>1, <3>4
      <4>2. x # s[j] => IsEarlier(s[j], x) /\ IsEarlier(x, s[j])
        BY <3>1, <3>2, <3>4
      <4> QED
        BY <3>3, <4>1, <4>2, Zenon
    <3>5. LatestOf(touching) = s[j]
      <4> HIDE DEF touching, s
      <4> QED
        BY <3>1, <3>2, <3>4 DEF LatestOf
    <3> QED
      BY <2>1, <2>6, <3>1, <3>5
  <2> QED
    BY <1>2, <2>4, <2>5, <2>6 DEF LastOf
<1> QED
  BY <1>3, <1>4

-----------------------------------------------------------------------------
(* The inductive invariant.                                                *)

\* The days of the chunk are being built anew.
Busy == pc \in {"delete", "read", "write"} \/ (pc = "index" /\ job.kind = "day")

\* What a job may have built for a day, if silver has come as far as last and this was
\* lost of the day's NUNs; and what the tables may then hold.
IsBuilt(S, d, version, last, lost) ==
  \E nuns \in NunsRead(d, last, lost), read \in ChangesRead(lost), s \in 0 .. last :
    \E years \in YearsRead(d, nuns) :
      S = BuildUpdateDeltas(d, nuns, read, LoadBzpIndex(s, years), version)
Holds(table, t, d, built, lost) ==
  OfDay(table, d) = RowsOf(t, built) \/ ("delete" \in lost /\ RowsOf(t, built) = {})
IsHeld(tables, d, version, last, lost) ==
  \E built : /\ IsBuilt(built, d, version, last, lost)
            /\ \A t \in Types : Holds(tables[t], t, d, built, lost)

\* What the running job remembers, by where it is.
JobInv ==
  /\ pc # "idle" => job.script <= code.script /\ job.upstream <= code.upstream
  /\ pc = "idle" => pending = {} /\ job.force = FALSE
  /\ rows # {} => pc = "write" \/ (pc = "read" /\ job.kind = "range")
  /\ pc = "idle" \/ (pc = "index" /\ job.kind = "range") => chunk = {}
  /\ job.kind = "day" => /\ pc # "chunk" /\ pending = {}
                         /\ Busy => chunk = {job.first}
                         /\ pc \in {"delete", "read", "index"} => left = chunk
  /\ pc = "delete" => left = chunk
  /\ pc = "write" => todo \subseteq TablesOf(rows)

\* A manifest is never of newer code than the deployed; and the days of a job are
\* those whose manifest it has found not to match.
Due(d) ==
  /\ manifest[d] # NoManifest =>
       manifest[d].script <= job.script /\ manifest[d].deps <= job.upstream
  /\ ~job.force => ~IsAlreadyProcessed(manifest[d], job.script, job.upstream)
ManifestInv ==
  /\ \A d \in Days : manifest[d] # NoManifest =>
       manifest[d].script <= code.script /\ manifest[d].deps <= code.upstream
  /\ \A d \in pending : Due(d)
  /\ Busy => \A d \in chunk : Due(d)

\* The rows in memory, and what they are built from.
IndexLoaded ==
  \E s \in 0 .. silver, days \in SUBSET Days :
    pending \cup chunk \subseteq days /\ index = LoadBzpIndex(s, YearsWithPrevious(days))
RowsInv ==
  /\ job.kind = "range" /\ pc \in {"chunk", "delete", "read", "write", "manifests"} => IndexLoaded
  /\ job.kind = "day" /\ pc = "index" =>
       /\ core \in NunsRead(job.first, silver, missed[job.first])
       /\ changed \in ChangesRead(missed[job.first])
  /\ \A r \in rows : r.day \in chunk /\ (pc = "read" => r.day \notin left)
  /\ pc = "read" => \A d \in chunk \ left : IsBuilt(OfDay(rows, d), d, job.script, silver, missed[d])
  /\ pc = "write" => \A d \in chunk : IsBuilt(OfDay(rows, d), d, job.script, silver, missed[d])

\* The rows in the tables.
Made(r, blank) ==
  /\ r.target.type \in Types
  /\ \/ /\ r.values = ColumnsOf[r.nun][r.target.type].values
        /\ r.errors = ColumnsOf[r.nun][r.target.type].errors
     \/ blank /\ r.values = NoChange.values /\ r.errors = NoChange.errors
IsDelta(r) == Made(r, "changes" \in missed[r.day])
Cleared(t) == \A r \in deltas[t] : r.day \notin chunk
Swept(t, d) == OfDay(deltas[t], d) = {} \/ "delete" \in missed[d]
\* What write_deltas has written of a chunk, table by table.
Written(t, d) ==
  IF t \in todo THEN Swept(t, d) ELSE Holds(deltas[t], t, d, OfDay(rows, d), missed[d])
TablesInv ==
  /\ \A r \in rows : IsDelta(r)
  /\ \A t \in Types : \A r \in deltas[t] : IsDelta(r) /\ r.target.type = t
  /\ pc = "delete" => \A t \in Types \ todo : Cleared(t)
  /\ pc = "read" \/ (pc = "index" /\ job.kind = "day") =>
       \A t \in Types, d \in chunk : Swept(t, d)
  /\ pc = "write" => \A t \in Types, d \in chunk : Written(t, d)
  /\ pc = "manifests" => \A d \in left : IsHeld(deltas, d, job.script, silver, missed[d])

IInv == TypeOK /\ JobInv /\ ManifestInv /\ RowsInv /\ TablesInv /\ OneDeltaPerNotice

(***************************************************************************)
(* The index of the envelope, and what is built with it.                   *)
(***************************************************************************)
\* The index has the earliest entry within the years of each number that has one.
LEMMA IndexIsEarliest ==
  ASSUME NEW s \in SilverStates, NEW years, NEW num \in Numbers
  PROVE  LET bzp == LoadBzpIndex(s, years)
             Found == {x \in Envelope[s] : x.number = num /\ YearOf[x.day] \in years}
         IN  /\ DOMAIN bzp \subseteq Numbers
             /\ num \in DOMAIN bzp <=> Found # {}
             /\ Found # {} => /\ bzp[num] \in Found
                              /\ \A y \in Found : bzp[num].day <= y.day
<1> DEFINE Found(k) == {x \in Envelope[s] : x.number = k /\ YearOf[x.day] \in years}
           Earliest(k, x) == x \in Found(k) /\ \A y \in Found(k) : x.day <= y.day
           S == {x \in Numbers : Found(x) # {}}
           bzp == [k \in S |-> CHOOSE x \in Found(k) : \A y \in Found(k) : x.day <= y.day]
<1>1. LoadBzpIndex(s, years) = bzp
  BY DEF LoadBzpIndex
<1>2. ASSUME Found(num) # {} PROVE \E x : Earliest(num, x)
  <2> DEFINE days == {d \in Days : \E x \in Found(num) : x.day = d}
  <2>1. \A x \in Found(num) : x \in Entry
    BY ConstantsAssumption
  <2>2. \A x \in Found(num) : x.day \in Days
    BY <2>1 DEF Entry
  <2>3. days # {}
    BY <1>2, <2>2
  <2>4. IsFiniteSet(days) /\ days \in SUBSET Int
    <3>1. IsFiniteSet(Days) /\ Days \in SUBSET Int
      BY ConstantsAssumption, FS_Interval DEF Days
    <3>2. days \in SUBSET Days
      OBVIOUS
    <3> QED
      BY <3>1, <3>2, FS_Subset
  <2>5. PICK d \in days : \A e \in days : d <= e
    <3> HIDE DEF days
    <3> QED
      BY <2>3, <2>4, SmallestOfNumbers
  <2>6. PICK x \in Found(num) : x.day = d
    BY <2>5
  <2>7. \A y \in Found(num) : x.day <= y.day
    BY <2>2, <2>5, <2>6
  <2> QED
    BY <2>6, <2>7
<1>3. DOMAIN bzp = S /\ S \subseteq Numbers /\ (num \in S <=> Found(num) # {})
  OBVIOUS
<1>4. ASSUME Found(num) # {} PROVE Earliest(num, bzp[num])
  <2>1. bzp[num] = CHOOSE x \in Found(num) : \A y \in Found(num) : x.day <= y.day
    BY <1>3, <1>4
  <2> HIDE DEF Found, bzp
  <2> QED
    BY <1>2, <1>4, <2>1
<1> HIDE DEF bzp, S
<1> QED
  BY <1>1, <1>3, <1>4

IsIndex(bzp) == DOMAIN bzp \subseteq Numbers /\ \A num \in DOMAIN bzp : bzp[num] \in Entry

LEMMA IndexIsTyped ==
  ASSUME NEW s \in SilverStates, NEW years
  PROVE  IsIndex(LoadBzpIndex(s, years))
<1> DEFINE bzp == LoadBzpIndex(s, years)
<1>1. DOMAIN bzp \subseteq Numbers
  BY DEF LoadBzpIndex
<1>2. ASSUME NEW num \in DOMAIN bzp PROVE bzp[num] \in Entry
  <2>1. num \in Numbers
    BY <1>1, <1>2
  <2>2. bzp[num] \in Envelope[s]
    BY <1>2, <2>1, IndexIsEarliest
  <2> QED
    BY <2>2, ConstantsAssumption
<1> QED
  BY <1>1, <1>2 DEF IsIndex

\* The rows are well made, and there is one for each NUN that resolves.
Resolved(nuns, bzp) == {m \in nuns : Target[m] \in DOMAIN bzp /\ bzp[Target[m]].type \in Types}

IsSound(S, d, nuns, bzp, blank) ==
  /\ S \subseteq Row
  /\ \A r \in S : /\ r.day = d /\ Made(r, blank)
                 /\ r.nun \in Resolved(nuns, bzp) /\ r.target = bzp[Target[r.nun]]
  /\ \A r1, r2 \in S : r1.nun = r2.nun => r1 = r2
  /\ \A n \in Resolved(nuns, bzp) : \E r \in S : r.nun = n

LEMMA BuildIsSound ==
  ASSUME NEW d \in Days, NEW nuns \in SUBSET Nuns, NEW read \in BOOLEAN, NEW bzp, IsIndex(bzp),
         NEW v \in Versions
  PROVE  IsSound(BuildUpdateDeltas(d, nuns, read, bzp, v), d, nuns, bzp, ~read)
<1> DEFINE RowOf(n) ==
             LET entry == bzp[Target[n]]
                 columns == IF read THEN ColumnsOf[n][entry.type] ELSE NoChange
             IN  [nun |-> n, day |-> d, target |-> entry, version |-> v,
                  values |-> columns.values, errors |-> columns.errors]
           S == {RowOf(n) : n \in Resolved(nuns, bzp)}
<1>1. BuildUpdateDeltas(d, nuns, read, bzp, v) = S
  BY DEF BuildUpdateDeltas, Resolved
<1>2. ASSUME NEW n \in Resolved(nuns, bzp)
      PROVE  /\ RowOf(n) \in Row /\ RowOf(n).nun = n /\ RowOf(n).day = d
             /\ RowOf(n).target = bzp[Target[n]] /\ Made(RowOf(n), ~read)
  <2>1. n \in Nuns /\ bzp[Target[n]] \in Entry /\ bzp[Target[n]].type \in Types
    BY <1>2 DEF Resolved, IsIndex
  <2>2. ColumnsOf[n][bzp[Target[n]].type] \in Cells /\ NoChange \in Cells
    BY <2>1, ColumnsAreLatest DEF NoChange, Cells, Values
  <2> DEFINE columns == IF read THEN ColumnsOf[n][bzp[Target[n]].type] ELSE NoChange
  <2>3. columns.values \in [Columns -> Values] /\ columns.errors \in SUBSET Columns
    BY <2>2 DEF Cells
  <2>4. /\ read => columns = ColumnsOf[n][bzp[Target[n]].type]
        /\ ~read => columns = NoChange
    OBVIOUS
  <2>5. RowOf(n) = [nun |-> n, day |-> d, target |-> bzp[Target[n]], version |-> v,
                    values |-> columns.values, errors |-> columns.errors]
    OBVIOUS
  <2> HIDE DEF columns, RowOf
  <2> QED
    BY <2>1, <2>3, <2>4, <2>5 DEF Row, Made
<1> HIDE DEF RowOf
<1>3. \A r \in S : \E n \in Resolved(nuns, bzp) : r = RowOf(n) /\ r.nun = n
  BY <1>2
<1>4. S \subseteq Row /\ \A r \in S : r.day = d /\ Made(r, ~read)
  BY <1>2
<1>5. \A r \in S : r.nun \in Resolved(nuns, bzp) /\ r.target = bzp[Target[r.nun]]
  BY <1>2
<1>6. \A n \in Resolved(nuns, bzp) : \E r \in S : r.nun = n
  BY <1>2
<1>7. \A r1, r2 \in S : r1.nun = r2.nun => r1 = r2
  BY <1>3
<1> HIDE DEF S
<1> QED
  BY <1>1, <1>4, <1>5, <1>6, <1>7 DEF IsSound

LEMMA BuildIsOfDay ==
  ASSUME NEW d \in Days, NEW nuns \in SUBSET Nuns, NEW read \in BOOLEAN, NEW bzp, IsIndex(bzp),
         NEW v \in Versions
  PROVE  \A r \in BuildUpdateDeltas(d, nuns, read, bzp, v) : r.day = d /\ Made(r, ~read)
<1>1. IsSound(BuildUpdateDeltas(d, nuns, read, bzp, v), d, nuns, bzp, ~read)
  BY BuildIsSound
<1> QED
  BY <1>1 DEF IsSound

(***************************************************************************)
(* The steps keep the inductive invariant.                                 *)
(***************************************************************************)
LEMMA NumbersOfConstants ==
  /\ 0 \in SilverStates /\ 0 \in Versions /\ 1 \in Days
  /\ SilverStates \subseteq Nat /\ Versions \subseteq Nat /\ Days \subseteq Nat
  /\ \A s \in SilverStates, d \in Days : Core[s][d] \in SUBSET Nuns
BY ConstantsAssumption DEF SilverStates, Versions, Days

\* What is lost of a day's NUNs, and what the history keeps of it.
LEMMA LossesAreTyped ==
  ASSUME NEW d \in Days, NEW lost \in Losses(d)
  PROVE  lost \subseteq {"core", "changes"}
BY DEF Losses

LEMMA LossIsKept ==
  ASSUME TypeOK, NEW d \in Days, NEW lost \in Losses(d), LoadNunRows(d, lost)
  PROVE  /\ missed' \in [Days -> SUBSET Misses]
         /\ \A e \in Days \ {d} : missed'[e] = missed[e]
         /\ "core" \in missed'[d] <=> "core" \in lost
         /\ "changes" \in lost \/ "changes" \in missed[d] => "changes" \in missed'[d]
         /\ "delete" \in missed'[d] <=> "delete" \in missed[d]
<1>1. missed \in [Days -> SUBSET Misses]
  BY DEF TypeOK
<1>2. lost \subseteq {"core", "changes"}
  BY LossesAreTyped
<1>3. /\ missed'[d] = (missed[d] \ {"core"}) \cup lost
      /\ \A e \in Days \ {d} : missed'[e] = missed[e]
      /\ missed' \in [Days -> SUBSET Misses]
  BY <1>1, <1>2 DEF LoadNunRows, Misses
<1> QED
  BY <1>2, <1>3

LEMMA NunsAreTyped ==
  ASSUME NEW d \in Days, NEW s \in SilverStates, NEW lost
  PROVE  /\ \A nuns \in NunsRead(d, s, lost) : nuns \in SUBSET Nuns
         /\ \A read \in ChangesRead(lost) : read \in BOOLEAN /\ (~read => "changes" \in lost)
<1>1. 0 .. s \subseteq SilverStates
  BY ConstantsAssumption DEF SilverStates
<1> QED
  BY <1>1, NumbersOfConstants DEF NunsRead, ChangesRead

LEMMA NunsAreRead ==
  ASSUME NEW d \in Days, NEW s \in SilverStates, silver = s, NEW lost, NEW missing,
         "core" \in missing <=> "core" \in lost,
         "changes" \in lost => "changes" \in missing
  PROVE  /\ NunRows(d, lost) \in NunsRead(d, s, missing)
         /\ ("changes" \notin lost) \in ChangesRead(missing)
<1>1. s \in 0 .. s
  BY NumbersOfConstants
<1> QED
  BY <1>1 DEF NunRows, NunsRead, ChangesRead

LEMMA TypeInit == Init => TypeOK /\ JobInv
<1> SUFFICES ASSUME Init PROVE TypeOK /\ JobInv
  OBVIOUS
<1> USE DEF Init
<1>1. deltas \in [Types -> SUBSET Row] /\ manifest \in [Days -> Manifest]
  BY DEF Manifest
<1>2. /\ code \in [script : Versions, upstream : Versions] /\ silver \in SilverStates
      /\ job \in Job
  BY NumbersOfConstants DEF NoJob, Job
<1>3. IsIndex(index)
  BY NumbersOfConstants, IndexIsTyped DEF NoIndex
<1>4. missed \in [Days -> SUBSET Misses]
  OBVIOUS
<1> QED
  BY <1>1, <1>2, <1>3, <1>4 DEF TypeOK, IsIndex, JobInv, Busy, NoJob

LEMMA TypeStep ==
  ASSUME TypeOK, JobInv, TablesInv, [Next]_vars
  PROVE  TypeOK'
<1> DEFINE Data == /\ deltas \in [Types -> SUBSET Row]
                   /\ manifest \in [Days -> Manifest]
                   /\ code \in [script : Versions, upstream : Versions]
                   /\ silver \in SilverStates
                   /\ missed \in [Days -> SUBSET Misses]
           Place == pc \in {"idle", "index", "chunk", "delete", "read", "write", "manifests",
                            "done"}
           Control == /\ pending \subseteq Days /\ chunk \subseteq Days /\ chunk \cap pending = {}
                      /\ left \subseteq chunk
                      /\ todo \subseteq Types
           Read == core \subseteq Nuns /\ changed \in BOOLEAN /\ rows \subseteq Row
<1>0. Data /\ Place /\ job \in Job /\ IsIndex(index) /\ Control /\ Read
  BY DEF TypeOK, IsIndex
<1>1. Data' /\ Place' /\ job' \in Job /\ IsIndex(index)' /\ Control' /\ Read' => TypeOK'
  BY DEF TypeOK, IsIndex
<1>2. ASSUME NEW s \in Versions, NEW u \in Versions, Deploy(s, u) PROVE TypeOK'
  BY <1>0, <1>1, <1>2 DEF Deploy, memory, IsIndex
<1>3. CASE RebuildSilver
  BY <1>0, <1>1, <1>3, ConstantsAssumption DEF RebuildSilver, memory, IsIndex, SilverStates
<1>4. CASE NoMemory /\ UNCHANGED <<stores, missed>>
  <2>1. IsIndex(index)'
    BY <1>4, NumbersOfConstants, IndexIsTyped DEF NoMemory, NoIndex
  <2>2. job' \in Job
    BY <1>4, NumbersOfConstants DEF NoMemory, NoJob, Job
  <2> QED
    BY <1>0, <1>1, <1>4, <2>1, <2>2 DEF NoMemory, stores
<1>5. ASSUME NEW force \in ForceFlags, NEW first \in Days, NEW last \in Days,
             NEW ok \in Outcomes("days"), StartRange(first, last, force, ok)
      PROVE  TypeOK'
  <2>1. job' \in Job /\ force \in BOOLEAN
    BY <1>0, <1>5, ConstantsAssumption DEF StartRange, NewJob, Job
  <2>2. pending' \subseteq Days /\ chunk = {}
    BY <1>5, ConstantsAssumption DEF StartRange, DiscoverNunDays, JobInv, Days
  <2> QED
    BY <1>0, <1>1, <1>5, <2>1, <2>2 DEF StartRange, stores, IsIndex
<1>6. ASSUME NEW force \in ForceFlags, NEW d \in Days, StartDay(d, force)
      PROVE  TypeOK'
  <2>1. job' \in Job /\ force \in BOOLEAN
    BY <1>0, <1>6, ConstantsAssumption DEF StartDay, NewJob, Job
  <2>2. pending = {}
    BY <1>6 DEF StartDay, JobInv
  <2> QED
    BY <1>0, <1>1, <1>6, <2>1, <2>2 DEF StartDay, stores, IsIndex
<1>7. CASE LoadIndex
  <2>1. IsIndex(index)'
    BY <1>0, <1>7, IndexIsTyped DEF LoadIndex
  <2> QED
    BY <1>0, <1>1, <1>7, <2>1 DEF LoadIndex, stores
<1>8. CASE BeginChunk
  <2>1. chunk' \subseteq pending
    BY <1>8 DEF BeginChunk, FirstDays
  <2> QED
    BY <1>0, <1>1, <1>8, <2>1 DEF BeginChunk, stores, IsIndex
<1>9. ASSUME NEW t \in Types, DeleteDeltaPartitions(t) PROVE TypeOK'
  BY <1>0, <1>1, <1>9 DEF DeleteDeltaPartitions, IsIndex
<1>10. CASE EndDelete
  <2>1. missed' \in [Days -> SUBSET Misses]
    BY <1>0, <1>10 DEF EndDelete
  <2> QED
    BY <1>0, <1>1, <1>10, <2>1 DEF EndDelete, stores, IsIndex
<1>20. CASE SkipDelete
  <2>1. missed' \in [Days -> SUBSET Misses]
    BY <1>0, <1>20 DEF SkipDelete, Misses
  <2> QED
    BY <1>0, <1>1, <1>20, <2>1 DEF SkipDelete, stores, IsIndex
<1>11. ASSUME NEW built, TablesOf(built) \subseteq Types, ToWrite(built)
       PROVE  Place' /\ left' = chunk /\ todo' \subseteq Types
  BY <1>11 DEF ToWrite
<1>12. ASSUME NEW d \in Days, NEW lost \in Losses(d), ReadDay(d, lost) PROVE TypeOK'
  <2> DEFINE B == BuildUpdateDeltas(d, NunRows(d, lost), "changes" \notin lost, index, job.script)
  <2>1. NunRows(d, lost) \in SUBSET Nuns /\ job.script \in Versions
    BY <1>0, NumbersOfConstants DEF Job, NunRows
  <2>8. ("changes" \notin lost) \in BOOLEAN /\ IsIndex(index)
    BY <1>0
  <2>9. IsSound(B, d, NunRows(d, lost), index, ~("changes" \notin lost))
    BY <2>1, <2>8, BuildIsSound
  <2>2. B \subseteq Row /\ \A r \in B : r.target.type \in Types
    <3> HIDE DEF B
    <3> QED
      BY <2>9 DEF IsSound, Made
  <2>3. rows' = rows \cup B /\ rows' \subseteq Row
    BY <1>0, <1>12, <2>2 DEF ReadDay
  <2>4. TablesOf(rows') \subseteq Types
    BY <2>2, <2>3 DEF TablesOf, TablesInv, IsDelta, Made
  <2>6. missed' \in [Days -> SUBSET Misses]
    BY <1>12, LossIsKept DEF ReadDay
  <2>5. Place' /\ left' \subseteq chunk /\ todo' \subseteq Types
    <3>1. CASE left = {d}
      <4>1. ToWrite(rows')
        BY <1>12, <3>1 DEF ReadDay
      <4> QED
        BY <2>4, <4>1, <1>0 DEF ToWrite
    <3>2. CASE left # {d}
      BY <1>0, <1>12, <3>2 DEF ReadDay
    <3> QED
      BY <3>1, <3>2
  <2> QED
    BY <1>0, <1>1, <1>12, <2>3, <2>5, <2>6 DEF ReadDay, stores, IsIndex
<1>13. ASSUME NEW d \in Days, NEW lost \in Losses(d), ReadCore(d, lost) PROVE TypeOK'
  <2>1. core' \subseteq Nuns /\ changed' \in BOOLEAN
    BY <1>0, <1>13, NumbersOfConstants DEF ReadCore, NunRows
  <2>3. missed' \in [Days -> SUBSET Misses]
    BY <1>13, LossIsKept DEF ReadCore
  <2>2. Place' /\ left' \subseteq chunk /\ todo' \subseteq Types
    <3>1. CASE DayYears(core') = {}
      <4>1. ToWrite({}) /\ TablesOf({}) = {}
        BY <1>13, <3>1 DEF ReadCore, TablesOf
      <4> QED
        BY <4>1, <1>0 DEF ToWrite
    <3>2. CASE DayYears(core') # {}
      BY <1>0, <1>13, <3>2 DEF ReadCore
    <3> QED
      BY <3>1, <3>2
  <2> QED
    BY <1>0, <1>1, <1>13, <2>1, <2>2, <2>3 DEF ReadCore, stores, IsIndex
<1>14. CASE LoadDayIndex
  <2> DEFINE bzp == LoadBzpIndex(silver, DayYears(core))
             B == BuildUpdateDeltas(job.first, core, changed, bzp, job.script)
  <2>1. /\ IsIndex(bzp) /\ job.first \in Days /\ job.script \in Versions
        /\ core \in SUBSET Nuns /\ changed \in BOOLEAN
    BY <1>0, IndexIsTyped DEF Job
  <2> HIDE DEF bzp
  <2>7. IsSound(B, job.first, core, bzp, ~changed)
    BY <2>1, BuildIsSound
  <2>2. B \subseteq Row /\ \A r \in B : r.target.type \in Types
    <3> HIDE DEF B
    <3> QED
      BY <2>7 DEF IsSound, Made
  <2>3. rows' = B
    BY <1>14 DEF LoadDayIndex, bzp
  <2>4. TablesOf(rows') \subseteq Types
    BY <2>2, <2>3 DEF TablesOf
  <2> HIDE DEF B
  <2>5. ToWrite(rows')
    BY <1>14 DEF LoadDayIndex
  <2>6. Place' /\ left' \subseteq chunk /\ todo' \subseteq Types
    BY <2>4, <2>5, <1>0 DEF ToWrite
  <2> QED
    BY <1>0, <1>1, <1>14, <2>2, <2>3, <2>6 DEF LoadDayIndex, stores, IsIndex
<1>15. ASSUME NEW t \in Types, WriteDeltas(t) PROVE TypeOK'
  BY <1>0, <1>1, <1>15 DEF WriteDeltas, IsIndex, RowsOf
<1>16. CASE EndWrite
  BY <1>0, <1>1, <1>16 DEF EndWrite, stores, IsIndex
<1>17. ASSUME NEW d \in Days, WriteManifest(d) PROVE TypeOK'
  <2>1. manifest' \in [Days -> Manifest]
    BY <1>0, <1>17 DEF WriteManifest, WriteProcessedManifest, Manifest, Hashes, Deps, Job
  <2> QED
    BY <1>0, <1>1, <1>17, <2>1 DEF WriteManifest, IsIndex
<1>18. CASE UNCHANGED vars
  BY <1>0, <1>1, <1>18 DEF vars, stores, memory, IsIndex
<1> HIDE DEF Data, Place, Control, Read
<1> QED
  BY <1>2, <1>3, <1>4, <1>5, <1>6, <1>7, <1>8, <1>9, <1>10, <1>12, <1>13, <1>14, <1>15,
     <1>16, <1>17, <1>18, <1>20, Zenon DEF Next, Start, Step, Crash, Exit

LEMMA JobStep ==
  ASSUME TypeOK, JobInv, TablesInv, [Next]_vars
  PROVE  JobInv'
<1>0. /\ code.script \in Nat /\ code.upstream \in Nat
      /\ job.script \in Nat /\ job.upstream \in Nat /\ job.kind \in {"range", "day"}
  BY NumbersOfConstants DEF TypeOK, Job
<1> USE DEF JobInv, Busy
<1>2. ASSUME NEW s \in Versions, NEW u \in Versions, Deploy(s, u) PROVE JobInv'
  <2>1. code'.script \in Nat /\ code'.upstream \in Nat
        /\ code.script <= code'.script /\ code.upstream <= code'.upstream
    BY <1>0, <1>2, NumbersOfConstants DEF Deploy
  <2> QED
    BY <1>0, <1>2, <2>1 DEF Deploy, memory
<1>3. CASE RebuildSilver
  BY <1>3 DEF RebuildSilver, memory
<1>4. CASE NoMemory /\ UNCHANGED <<stores, missed>>
  BY <1>4 DEF NoMemory, NoJob, stores
<1>5. ASSUME NEW force \in ForceFlags, NEW first \in Days, NEW last \in Days,
             NEW ok \in Outcomes("days"), StartRange(first, last, force, ok)
      PROVE  JobInv'
  <2>1. job' = NewJob("range", first, last, force) /\ pc' \in {"done", "index"}
    BY <1>5 DEF StartRange
  <2>2. job'.kind = "range" /\ job'.script <= code.script /\ job'.upstream <= code.upstream
    BY <1>0, <2>1 DEF NewJob
  <2> QED
    BY <1>5, <2>1, <2>2 DEF StartRange, stores
<1>6. ASSUME NEW force \in ForceFlags, NEW d \in Days, StartDay(d, force)
      PROVE  JobInv'
  <2>1. job' = NewJob("day", d, d, force) /\ pc' \in {"done", "delete"}
    BY <1>6 DEF StartDay
  <2>2. /\ job'.kind = "day" /\ job'.first = d
        /\ job'.script <= code.script /\ job'.upstream <= code.upstream
    BY <1>0, <2>1 DEF NewJob
  <2> QED
    BY <1>6, <2>1, <2>2 DEF StartDay, stores
<1>7. CASE LoadIndex
  BY <1>7 DEF LoadIndex, stores
<1>8. CASE BeginChunk
  BY <1>8 DEF BeginChunk, stores
<1>9. ASSUME NEW t \in Types, DeleteDeltaPartitions(t) PROVE JobInv'
  BY <1>9 DEF DeleteDeltaPartitions
<1>10. CASE EndDelete
  BY <1>10 DEF EndDelete, stores
<1>20. CASE SkipDelete
  BY <1>20 DEF SkipDelete, stores
<1>12. ASSUME NEW d \in Days, NEW lost \in Losses(d), ReadDay(d, lost) PROVE JobInv'
  BY <1>12 DEF ReadDay, ToWrite, stores
<1>13. ASSUME NEW d \in Days, NEW lost \in Losses(d), ReadCore(d, lost) PROVE JobInv'
  <2>1. rows = {} /\ TablesOf({}) = {} /\ TablesOf(rows') = {}
    BY <1>13 DEF ReadCore, TablesOf
  <2> QED
    BY <1>13, <2>1 DEF ReadCore, ToWrite, stores
<1>14. CASE LoadDayIndex
  BY <1>14 DEF LoadDayIndex, ToWrite, stores
<1>15. ASSUME NEW t \in Types, WriteDeltas(t) PROVE JobInv'
  BY <1>15 DEF WriteDeltas
<1>16. CASE EndWrite
  BY <1>16 DEF EndWrite, stores
<1>17. ASSUME NEW d \in Days, WriteManifest(d) PROVE JobInv'
  BY <1>17 DEF WriteManifest
<1>18. CASE UNCHANGED vars
  BY <1>18 DEF vars, stores, memory
<1> USE DEF JobInv
<1> QED
  BY <1>2, <1>3, <1>4, <1>5, <1>6, <1>7, <1>8, <1>9, <1>10, <1>12, <1>13, <1>14, <1>15,
     <1>16, <1>17, <1>18, <1>20, Zenon DEF Next, Start, Step, Crash, Exit

\* Which of the job's days are due does not change while nothing but the place does.
LEMMA DueStays ==
  ASSUME UNCHANGED <<manifest, job>>, NEW d, Due(d)
  PROVE  Due(d)'
BY DEF Due

LEMMA ManifestStep ==
  ASSUME TypeOK, JobInv, ManifestInv, [Next]_vars
  PROVE  ManifestInv'
<1> DEFINE Older(m, script, deps) == m # NoManifest => m.script <= script /\ m.deps <= deps
<1>0. /\ code.script \in Nat /\ code.upstream \in Nat
      /\ \A d \in Days : manifest[d] # NoManifest =>
           manifest[d].script \in Nat /\ manifest[d].deps \in Nat
      /\ pending \subseteq Days /\ chunk \subseteq Days /\ left \subseteq chunk
      /\ chunk \cap pending = {}
  <2>1. \A d \in Days : manifest[d] \in Manifest
    BY DEF TypeOK
  <2> QED
    BY <2>1, NumbersOfConstants DEF TypeOK, Manifest, Hashes, Deps
<1>1. /\ \A d \in Days : Older(manifest[d], code.script, code.upstream)
      /\ \A d \in pending : Due(d)
      /\ Busy => \A d \in chunk : Due(d)
  BY DEF ManifestInv
<1>a. ASSUME \A d \in Days : Older(manifest'[d], code'.script, code'.upstream),
             \A d \in pending' : Due(d)',
             Busy' => \A d \in chunk' : Due(d)'
      PROVE  ManifestInv'
  BY <1>a DEF ManifestInv
<1>b. ASSUME UNCHANGED <<manifest, code, job>>,
             pending' \subseteq pending,
             Busy' => (Busy /\ chunk' \subseteq chunk) \/ chunk' \subseteq pending
      PROVE  ManifestInv'
  <2>1. \A d \in Days : Older(manifest'[d], code'.script, code'.upstream)
    BY <1>1, <1>b
  <2>2. \A d \in pending' : Due(d)'
    BY <1>1, <1>b, DueStays
  <2>3. Busy' => \A d \in chunk' : Due(d)'
    BY <1>1, <1>b, DueStays
  <2> QED
    BY <1>a, <2>1, <2>2, <2>3, Zenon
<1>2. ASSUME NEW s \in Versions, NEW u \in Versions, Deploy(s, u) PROVE ManifestInv'
  <2>1. code'.script \in Nat /\ code'.upstream \in Nat
        /\ code.script <= code'.script /\ code.upstream <= code'.upstream
    BY <1>0, <1>2, NumbersOfConstants DEF Deploy
  <2>2. UNCHANGED <<manifest, job, pending, chunk, pc>>
    BY <1>2 DEF Deploy, memory
  <2>3. \A d \in Days : Older(manifest'[d], code'.script, code'.upstream)
    BY <1>0, <1>1, <2>1, <2>2
  <2>4. \A d : Due(d) => Due(d)'
    BY <2>2, DueStays
  <2>5. Busy' = Busy
    BY <2>2 DEF Busy
  <2> HIDE DEF Older
  <2> QED
    BY <1>1, <1>a, <2>2, <2>3, <2>4, <2>5
<1>3. CASE RebuildSilver
  BY <1>b, <1>3 DEF RebuildSilver, memory, Busy
<1>4. CASE NoMemory /\ UNCHANGED <<stores, missed>>
  <2>1. UNCHANGED <<manifest, code>> /\ pending' = {} /\ ~Busy'
    BY <1>4 DEF NoMemory, stores, Busy
  <2> QED
    BY <1>1, <1>a, <2>1
<1>5. ASSUME NEW force \in ForceFlags, NEW first \in Days, NEW last \in Days,
             NEW ok \in Outcomes("days"), StartRange(first, last, force, ok)
      PROVE  ManifestInv'
  <2>1. /\ UNCHANGED <<manifest, code>> /\ job' = NewJob("range", first, last, force)
        /\ pending' \subseteq Days /\ \A d \in pending' : force \/ ~Match(d)
    BY <1>5, ConstantsAssumption DEF StartRange, stores, DiscoverNunDays, Days
  <2>2. /\ job'.force = force /\ job'.script = code.script /\ job'.upstream = code.upstream
        /\ job'.kind = "range"
    BY <2>1 DEF NewJob
  <2>3. ~Busy'
    BY <1>5, <2>2 DEF StartRange, Busy
  <2>4. \A d \in pending' : Due(d)'
    BY <1>1, <2>1, <2>2 DEF Due, Match
  <2> QED
    BY <1>1, <1>a, <2>1, <2>3, <2>4
<1>6. ASSUME NEW force \in ForceFlags, NEW d \in Days, StartDay(d, force)
      PROVE  ManifestInv'
  <2>1. /\ UNCHANGED <<manifest, code, pending>> /\ job' = NewJob("day", d, d, force)
        /\ pending = {}
    BY <1>6 DEF StartDay, stores, JobInv
  <2>2. job'.force = force /\ job'.script = code.script /\ job'.upstream = code.upstream
    BY <2>1 DEF NewJob
  <2>3. CASE Match(d) /\ ~force
    BY <1>1, <1>6, <1>a, <2>1, <2>3 DEF StartDay, Busy
  <2>4. CASE ~(Match(d) /\ ~force)
    <3>1. chunk' = {d}
      BY <1>6, <2>4 DEF StartDay
    <3>2. Due(d)'
      BY <1>1, <2>1, <2>2, <2>4 DEF Due, Match
    <3> QED
      BY <1>1, <1>a, <2>1, <3>1, <3>2
  <2> QED
    BY <2>3, <2>4
<1>7. CASE LoadIndex
  BY <1>b, <1>7 DEF LoadIndex, stores, Busy
<1>8. CASE BeginChunk
  <2>1. UNCHANGED <<manifest, code, job>> /\ pending' \subseteq pending /\ chunk' \subseteq pending
    BY <1>8 DEF BeginChunk, stores, FirstDays
  <2> QED
    BY <1>b, <2>1
<1>9. ASSUME NEW t \in Types, DeleteDeltaPartitions(t) PROVE ManifestInv'
  BY <1>b, <1>9 DEF DeleteDeltaPartitions, Busy
<1>10. CASE EndDelete
  BY <1>b, <1>10 DEF EndDelete, stores, Busy
<1>20. CASE SkipDelete
  BY <1>b, <1>20 DEF SkipDelete, stores, Busy
<1>12. ASSUME NEW d \in Days, NEW lost \in Losses(d), ReadDay(d, lost) PROVE ManifestInv'
  BY <1>b, <1>12 DEF ReadDay, stores, Busy
<1>13. ASSUME NEW d \in Days, NEW lost \in Losses(d), ReadCore(d, lost) PROVE ManifestInv'
  BY <1>b, <1>13 DEF ReadCore, stores, Busy
<1>14. CASE LoadDayIndex
  BY <1>b, <1>14 DEF LoadDayIndex, stores, Busy
<1>15. ASSUME NEW t \in Types, WriteDeltas(t) PROVE ManifestInv'
  BY <1>b, <1>15 DEF WriteDeltas, Busy
<1>16. CASE EndWrite
  BY <1>b, <1>16 DEF EndWrite, stores, Busy
<1>17. ASSUME NEW d \in Days, WriteManifest(d) PROVE ManifestInv'
  <2>1. /\ manifest' = WriteProcessedManifest(manifest, d, job.script, job.upstream)
        /\ UNCHANGED <<code, job, pending>> /\ ~Busy' /\ d \in left
    BY <1>17 DEF WriteManifest, Busy, IsNext
  <2>2. /\ \A e \in Days \ {d} : manifest'[e] = manifest[e]
        /\ manifest'[d] = [script |-> job.script, deps |-> job.upstream]
    BY <2>1 DEF WriteProcessedManifest, TypeOK
  <2>3. job.script <= code.script /\ job.upstream <= code.upstream
    BY <1>17 DEF WriteManifest, JobInv
  <2>4. \A e \in Days : Older(manifest'[e], code'.script, code'.upstream)
    BY <1>1, <2>1, <2>2, <2>3
  <2>5. \A e \in pending : e \in Days \ {d}
    BY <1>0, <2>1
  <2>6. \A e \in pending' : Due(e)'
    BY <1>1, <2>1, <2>2, <2>5 DEF Due
  <2> QED
    BY <1>a, <2>1, <2>4, <2>6
<1>18. CASE UNCHANGED vars
  BY <1>b, <1>18 DEF vars, stores, memory, Busy
<1> HIDE DEF Older
<1> QED
  BY <1>2, <1>3, <1>4, <1>5, <1>6, <1>7, <1>8, <1>9, <1>10, <1>12, <1>13, <1>14, <1>15,
     <1>16, <1>17, <1>18, <1>20, Zenon DEF Next, Start, Step, Crash, Exit

\* What is built stays built when silver goes on.
LEMMA ReadStays ==
  ASSUME NEW d, NEW lost, NEW s \in SilverStates, NEW z \in SilverStates, s <= z
  PROVE  NunsRead(d, s, lost) \subseteq NunsRead(d, z, lost) /\ 0 .. s \subseteq 0 .. z
<1>1. 0 .. s \subseteq 0 .. z
  BY NumbersOfConstants
<1> QED
  BY <1>1 DEF NunsRead

LEMMA BuiltStays ==
  ASSUME NEW S, NEW d, NEW v, NEW lost, NEW s \in SilverStates, NEW z \in SilverStates, s <= z,
         IsBuilt(S, d, v, s, lost)
  PROVE  IsBuilt(S, d, v, z, lost)
BY ReadStays DEF IsBuilt

LEMMA HeldStays ==
  ASSUME NEW before, NEW after, NEW d, NEW v, NEW lost, NEW s \in SilverStates,
         NEW z \in SilverStates, s <= z, \A t \in Types : OfDay(after[t], d) = OfDay(before[t], d),
         IsHeld(before, d, v, s, lost)
  PROVE  IsHeld(after, d, v, z, lost)
<1>1. PICK built : /\ IsBuilt(built, d, v, s, lost)
                   /\ \A t \in Types : Holds(before[t], t, d, built, lost)
  BY DEF IsHeld
<1>2. IsBuilt(built, d, v, z, lost)
  BY <1>1, BuiltStays
<1>3. \A t \in Types : Holds(after[t], t, d, built, lost)
  BY <1>1 DEF Holds
<1> QED
  BY <1>2, <1>3 DEF IsHeld

\* A build without an index entry is empty, one with a range job's index is as good as any.
LEMMA EmptyBuild ==
  ASSUME NEW s \in SilverStates, NEW d, NEW nuns, NEW read, NEW v
  PROVE  BuildUpdateDeltas(d, nuns, read, LoadBzpIndex(s, {}), v) = {}
<1>1. DOMAIN LoadBzpIndex(s, {}) = {}
  BY DEF LoadBzpIndex
<1> QED
  BY <1>1 DEF BuildUpdateDeltas

LEMMA DayIsBuilt ==
  ASSUME NEW d \in Days, NEW s \in SilverStates, NEW lost, NEW nuns \in NunsRead(d, s, lost),
         NEW read \in ChangesRead(lost), NEW v
  PROVE  IsBuilt(BuildUpdateDeltas(d, nuns, read, LoadBzpIndex(s, DayYears(nuns)), v), d, v, s, lost)
<1>1. s \in 0 .. s
  BY NumbersOfConstants
<1>2. DayYears(nuns) \in YearsRead(d, nuns)
  BY DEF YearsRead
<1> QED
  BY <1>1, <1>2 DEF IsBuilt

LEMMA RangeDayIsBuilt ==
  ASSUME NEW days \in SUBSET Days, NEW d \in days, NEW s \in SilverStates, NEW z \in 0 .. s,
         NEW lost, NEW nuns \in NunsRead(d, s, lost), NEW read \in ChangesRead(lost), NEW v
  PROVE  IsBuilt(BuildUpdateDeltas(d, nuns, read, LoadBzpIndex(z, YearsWithPrevious(days)), v),
                 d, v, s, lost)
<1>1. days \cup {d} = days
  OBVIOUS
<1>2. YearsWithPrevious(days) \in YearsRead(d, nuns)
  BY <1>1 DEF YearsRead
<1> QED
  BY <1>2 DEF IsBuilt

\* What is built has one row for each NUN.
LEMMA BuiltIsSound ==
  ASSUME NEW d \in Days, NEW s \in SilverStates, NEW v \in Versions, NEW lost, NEW S,
         IsBuilt(S, d, v, s, lost)
  PROVE  \A r1, r2 \in S : r1.nun = r2.nun => r1 = r2
<1>1. PICK nuns \in NunsRead(d, s, lost), read \in ChangesRead(lost), z \in 0 .. s :
        \E years : S = BuildUpdateDeltas(d, nuns, read, LoadBzpIndex(z, years), v)
  BY DEF IsBuilt
<1>2. PICK years : S = BuildUpdateDeltas(d, nuns, read, LoadBzpIndex(z, years), v)
  BY <1>1
<1>3. z \in SilverStates
  BY ConstantsAssumption DEF SilverStates
<1>4. nuns \in SUBSET Nuns /\ read \in BOOLEAN
  BY NunsAreTyped
<1>5. IsIndex(LoadBzpIndex(z, years))
  BY <1>3, IndexIsTyped
<1> DEFINE bzp == LoadBzpIndex(z, years)
<1> HIDE DEF bzp
<1>6. IsIndex(bzp) /\ S = BuildUpdateDeltas(d, nuns, read, bzp, v)
  BY <1>2, <1>5 DEF bzp
<1>7. IsSound(S, d, nuns, bzp, ~read)
  BY <1>4, <1>6, BuildIsSound
<1> QED
  BY <1>7 DEF IsSound

LEMMA RowsStep ==
  ASSUME TypeOK, JobInv, RowsInv, [Next]_vars
  PROVE  RowsInv'
<1> DEFINE Ranged == job.kind = "range" /\ pc \in {"chunk", "delete", "read", "write", "manifests"}
           Cored == job.kind = "day" /\ pc = "index"
           CoreRead == /\ core \in NunsRead(job.first, silver, missed[job.first])
                       /\ changed \in ChangesRead(missed[job.first])
           Placed == \A r \in rows : r.day \in chunk /\ (pc = "read" => r.day \notin left)
           ReadBuilt == pc = "read" =>
             \A d \in chunk \ left : IsBuilt(OfDay(rows, d), d, job.script, silver, missed[d])
           WriteBuilt == pc = "write" =>
             \A d \in chunk : IsBuilt(OfDay(rows, d), d, job.script, silver, missed[d])
<1>0. /\ silver \in SilverStates /\ silver \in Nat /\ silver \in 0 .. silver
      /\ chunk \subseteq Days /\ left \subseteq chunk /\ job.script \in Versions
      /\ pending \subseteq Days
  BY NumbersOfConstants DEF TypeOK, Job
<1>1. (Ranged => IndexLoaded) /\ (Cored => CoreRead) /\ Placed /\ ReadBuilt /\ WriteBuilt
  BY DEF RowsInv
<1>a. ASSUME (Ranged => IndexLoaded)', (Cored => CoreRead)', Placed', ReadBuilt', WriteBuilt'
      PROVE  RowsInv'
  BY <1>a DEF RowsInv
<1>b. ASSUME UNCHANGED <<silver, job, index, core>>, pc' # "index",
             Ranged' => Ranged /\ pending' \cup chunk' \subseteq pending \cup chunk,
             rows' = {}, pc' \notin {"read", "write"}
      PROVE  RowsInv'
  <2>1. (Ranged => IndexLoaded)'
    BY <1>1, <1>b DEF IndexLoaded
  <2> HIDE DEF Ranged
  <2> QED
    BY <1>a, <1>b, <2>1
<1>c. ASSUME UNCHANGED <<silver, missed, job, index, core, changed, pending, chunk, left, rows, pc>>
      PROVE  RowsInv'
  <2>1. IndexLoaded' <=> IndexLoaded
    BY <1>c DEF IndexLoaded
  <2> QED
    BY <1>1, <1>a, <1>c, <2>1
<1>2. ASSUME NEW s \in Versions, NEW u \in Versions, Deploy(s, u) PROVE RowsInv'
  BY <1>2, <1>c DEF Deploy, memory
<1>3. CASE RebuildSilver
  <2>1. /\ UNCHANGED <<missed, job, index, core, changed, pending, chunk, left, rows, pc>>
        /\ silver' = silver + 1 /\ silver' \in SilverStates
    BY <1>0, <1>3, ConstantsAssumption DEF RebuildSilver, memory, SilverStates
  <2>2. silver <= silver' /\ 0 .. silver \subseteq 0 .. silver'
    BY <1>0, <2>1
  <2>3. \A S, d, lost : IsBuilt(S, d, job.script, silver, lost)
                          => IsBuilt(S, d, job.script, silver', lost)
    BY <1>0, <2>1, <2>2, BuiltStays
  <2>6. \A d, lost : NunsRead(d, silver, lost) \subseteq NunsRead(d, silver', lost)
    BY <1>0, <2>1, <2>2, ReadStays
  <2>4. (Ranged => IndexLoaded)' /\ (Cored => CoreRead)'
    BY <1>1, <2>1, <2>2, <2>6 DEF IndexLoaded
  <2>5. Placed' /\ ReadBuilt' /\ WriteBuilt'
    BY <1>1, <2>1, <2>3
  <2> QED
    BY <1>a, <2>4, <2>5
<1>4. CASE NoMemory /\ UNCHANGED <<stores, missed>>
  BY <1>a, <1>4 DEF NoMemory, stores
<1>5. ASSUME NEW force \in ForceFlags, NEW first \in Days, NEW last \in Days,
             NEW ok \in Outcomes("days"), StartRange(first, last, force, ok)
      PROVE  RowsInv'
  <2>1. job'.kind = "range" /\ pc' \in {"done", "index"}
    BY <1>5 DEF StartRange, NewJob
  <2>2. rows' = {}
    BY <1>5 DEF StartRange, JobInv
  <2> QED
    BY <1>a, <2>1, <2>2
<1>6. ASSUME NEW force \in ForceFlags, NEW d \in Days, StartDay(d, force)
      PROVE  RowsInv'
  <2>1. job'.kind = "day" /\ pc' \in {"done", "delete"}
    BY <1>6 DEF StartDay, NewJob
  <2>2. rows' = {}
    BY <1>6 DEF StartDay, JobInv
  <2> QED
    BY <1>a, <2>1, <2>2
<1>7. CASE LoadIndex
  <2>1. /\ index' = LoadBzpIndex(silver, YearsWithPrevious(pending)) /\ chunk = {}
        /\ rows' = {} /\ pc' = "chunk" /\ UNCHANGED <<silver, pending, chunk>>
    BY <1>7 DEF LoadIndex, stores, JobInv
  <2>2. IndexLoaded'
    <3>1. pending \in SUBSET Days /\ pending \cup chunk \subseteq pending
      BY <1>0, <2>1
    <3> QED
      BY <1>0, <2>1, <3>1 DEF IndexLoaded
  <2> QED
    BY <1>a, <2>1, <2>2
<1>8. CASE BeginChunk
  <2>1. /\ UNCHANGED <<silver, job, index, core>> /\ pc = "chunk" /\ pc' = "delete" /\ rows' = {}
        /\ job.kind = "range"
    BY <1>8 DEF BeginChunk, stores, JobInv, TypeOK, Job
  <2>2. pending' \cup chunk' \subseteq pending \cup chunk
    BY <1>8 DEF BeginChunk, FirstDays
  <2> QED
    BY <1>b, <2>1, <2>2
<1>9. ASSUME NEW t \in Types, DeleteDeltaPartitions(t) PROVE RowsInv'
  BY <1>9, <1>c DEF DeleteDeltaPartitions
<1>10. CASE EndDelete
  <2>1. /\ UNCHANGED <<silver, job, index, core, pending, chunk, left>> /\ rows' = {}
        /\ pc = "delete" /\ pc' = "read" /\ left = chunk
    BY <1>10 DEF EndDelete, stores, JobInv
  <2>2. (Ranged => IndexLoaded)'
    BY <1>1, <2>1 DEF IndexLoaded
  <2>3. ReadBuilt'
    BY <2>1
  <2> HIDE DEF Ranged, ReadBuilt
  <2> QED
    BY <1>a, <2>1, <2>2, <2>3
<1>20. CASE SkipDelete
  <2>1. /\ UNCHANGED <<silver, job, index, core, pending, chunk, left>> /\ rows' = {}
        /\ pc = "delete" /\ pc' = "read" /\ left = chunk
    BY <1>20 DEF SkipDelete, stores, JobInv
  <2>2. (Ranged => IndexLoaded)'
    BY <1>1, <2>1 DEF IndexLoaded
  <2>3. ReadBuilt'
    BY <2>1
  <2> HIDE DEF Ranged, ReadBuilt
  <2> QED
    BY <1>a, <2>1, <2>2, <2>3
<1>12. ASSUME NEW d \in Days, NEW lost \in Losses(d), ReadDay(d, lost) PROVE RowsInv'
  <2> DEFINE nuns == NunRows(d, lost)
             read == "changes" \notin lost
             B == BuildUpdateDeltas(d, nuns, read, index, job.script)
  <2>1. /\ UNCHANGED <<silver, job, index, core, pending, chunk>> /\ rows' = rows \cup B
        /\ pc = "read" /\ job.kind = "range" /\ d \in left
    BY <1>12 DEF ReadDay, stores, IsNext
  <2>2. \/ pc' = "write" /\ left = {d}
        \/ pc' = "read" /\ left' = left \ {d}
    BY <1>12 DEF ReadDay, ToWrite
  <2>a. /\ \A e \in Days \ {d} : missed'[e] = missed[e]
        /\ nuns \in NunsRead(d, silver, missed'[d]) /\ read \in ChangesRead(missed'[d])
    <3>1. /\ \A e \in Days \ {d} : missed'[e] = missed[e]
          /\ "core" \in missed'[d] <=> "core" \in lost
          /\ "changes" \in lost => "changes" \in missed'[d]
      BY <1>12, LossIsKept DEF ReadDay
    <3> QED
      BY <1>0, <3>1, NunsAreRead
  <2> HIDE DEF nuns, read
  <2>3. \A r \in B : r.day = d
    <3>1. nuns \in SUBSET Nuns /\ read \in BOOLEAN
      BY <1>0, <2>a, NunsAreTyped
    <3>2. IsIndex(index)
      BY DEF TypeOK, IsIndex
    <3> QED
      BY <1>0, <1>12, <3>1, <3>2, BuildIsOfDay
  <2>4. IsBuilt(B, d, job.script, silver, missed'[d])
    <3>1. PICK s \in 0 .. silver, days \in SUBSET Days :
            /\ pending \cup chunk \subseteq days
            /\ index = LoadBzpIndex(s, YearsWithPrevious(days))
      BY <1>1, <2>1 DEF IndexLoaded
    <3>2. d \in days
      BY <1>0, <2>1, <3>1
    <3> QED
      BY <1>0, <2>a, <3>1, <3>2, RangeDayIsBuilt
  <2> HIDE DEF B
  <2>5. OfDay(rows', d) = B
    BY <1>1, <2>1, <2>3 DEF OfDay
  <2>6. \A e \in (chunk \ left) : OfDay(rows', e) = OfDay(rows, e)
    BY <2>1, <2>3 DEF OfDay
  <2>7. \A e \in (chunk \ left) \cup {d} :
          IsBuilt(OfDay(rows', e), e, job.script, silver, missed'[e])
    <3>1. \A e \in chunk \ left : e \in Days \ {d}
      BY <1>0, <2>1
    <3>2. \A e \in chunk \ left : IsBuilt(OfDay(rows', e), e, job.script, silver, missed'[e])
      BY <1>1, <2>1, <2>6, <2>a, <3>1
    <3> QED
      BY <2>4, <2>5, <3>2
  <2>8. (Ranged => IndexLoaded)'
    BY <1>1, <2>1 DEF IndexLoaded
  <2>9. Placed'
    BY <1>0, <1>1, <2>1, <2>2, <2>3
  <2>10. ReadBuilt' /\ WriteBuilt'
    BY <1>0, <2>1, <2>2, <2>7
  <2> HIDE DEF Ranged, Placed, ReadBuilt, WriteBuilt
  <2> QED
    BY <1>a, <2>1, <2>8, <2>9, <2>10
<1>13. ASSUME NEW d \in Days, NEW lost \in Losses(d), ReadCore(d, lost) PROVE RowsInv'
  <2>1. /\ UNCHANGED <<silver, job, index, pending, chunk, rows>> /\ core' = NunRows(d, lost)
        /\ changed' = ("changes" \notin lost)
        /\ pc = "read" /\ job.kind = "day" /\ d \in left /\ rows = {}
        /\ chunk = {job.first} /\ d = job.first
    BY <1>13 DEF ReadCore, stores, IsNext, JobInv, Busy
  <2>4. core' \in NunsRead(d, silver, missed'[d]) /\ changed' \in ChangesRead(missed'[d])
    <3>1. /\ "core" \in missed'[d] <=> "core" \in lost
          /\ "changes" \in lost => "changes" \in missed'[d]
      BY <1>13, LossIsKept DEF ReadCore
    <3> QED
      BY <1>0, <2>1, <3>1, NunsAreRead
  <2>2. CASE DayYears(core') = {}
    <3>1. pc' = "write"
      BY <1>13, <2>2 DEF ReadCore, ToWrite
    <3>2. IsBuilt({}, d, job.script, silver, missed'[d])
      <4>1. IsBuilt(BuildUpdateDeltas(d, core', changed', LoadBzpIndex(silver, {}), job.script),
                    d, job.script, silver, missed'[d])
        BY <1>0, <2>2, <2>4, DayIsBuilt
      <4> QED
        BY <1>0, <4>1, EmptyBuild
    <3>3. WriteBuilt'
      BY <2>1, <3>2 DEF OfDay
    <3> HIDE DEF WriteBuilt
    <3> QED
      BY <1>a, <2>1, <3>1, <3>3
  <2>3. CASE DayYears(core') # {}
    <3>1. pc' = "index"
      BY <1>13, <2>3 DEF ReadCore
    <3>2. CoreRead'
      BY <1>0, <2>1, <2>4
    <3> HIDE DEF CoreRead
    <3> QED
      BY <1>a, <2>1, <3>1, <3>2
  <2> QED
    BY <2>2, <2>3
<1>14. CASE LoadDayIndex
  <2> DEFINE d == job.first
             bzp == LoadBzpIndex(silver, DayYears(core))
             B == BuildUpdateDeltas(d, core, changed, bzp, job.script)
  <2>1. /\ UNCHANGED <<silver, missed, job, index, pending, chunk, core>> /\ rows' = B
        /\ pc = "index" /\ job.kind = "day" /\ pc' = "write"
        /\ chunk = {d}
    BY <1>14 DEF LoadDayIndex, ToWrite, stores, JobInv, Busy
  <2>2. core \in NunsRead(d, silver, missed[d]) /\ changed \in ChangesRead(missed[d])
    BY <1>1, <2>1
  <2>3. d \in Days
    BY DEF TypeOK, Job
  <2>4. IsBuilt(B, d, job.script, silver, missed[d])
    BY <1>0, <2>2, <2>3, DayIsBuilt
  <2>5. core \in SUBSET Nuns /\ changed \in BOOLEAN /\ IsIndex(bzp)
    BY <1>0, <2>2, <2>3, NunsAreTyped, IndexIsTyped
  <2> HIDE DEF bzp
  <2>6. \A r \in B : r.day = d
    BY <1>0, <2>3, <2>5, BuildIsOfDay
  <2> HIDE DEF B
  <2>7. OfDay(rows', d) = B
    BY <2>1, <2>6 DEF OfDay
  <2>8. Placed' /\ WriteBuilt'
    BY <2>1, <2>4, <2>6, <2>7
  <2> HIDE DEF Placed, WriteBuilt
  <2> QED
    BY <1>a, <2>1, <2>8
<1>15. ASSUME NEW t \in Types, WriteDeltas(t) PROVE RowsInv'
  BY <1>15, <1>c DEF WriteDeltas
<1>16. CASE EndWrite
  BY <1>16, <1>b DEF EndWrite, stores
<1>17. ASSUME NEW d \in Days, WriteManifest(d) PROVE RowsInv'
  <2>1. rows' = {}
    BY <1>17 DEF WriteManifest, JobInv
  <2> QED
    BY <1>17, <1>b, <2>1 DEF WriteManifest
<1>18. CASE UNCHANGED vars
  BY <1>18, <1>c DEF vars, stores, memory
<1> QED
  BY <1>2, <1>3, <1>4, <1>5, <1>6, <1>7, <1>8, <1>9, <1>10, <1>12, <1>13, <1>14, <1>15,
     <1>16, <1>17, <1>18, <1>20, Zenon DEF Next, Start, Step, Crash, Exit

(* The tables.                                                             *)

\* A delta stays one as long as the history keeps that changes went unread.
LEMMA DeltaStays ==
  ASSUME NEW r, IsDelta(r), "changes" \in missed[r.day] => "changes" \in missed'[r.day]
  PROVE  IsDelta(r)'
BY DEF IsDelta, Made

LEMMA TablesStep ==
  ASSUME TypeOK, JobInv, RowsInv, TablesInv, [Next]_vars
  PROVE  TablesInv'
<1> DEFINE DayIndex == pc = "index" /\ job.kind = "day"
           Rows == \A r \in rows : IsDelta(r)
           Apart == \A t \in Types : \A r \in deltas[t] : IsDelta(r) /\ r.target.type = t
           Deleted == pc = "delete" => \A t \in Types \ todo : Cleared(t)
           AllSwept == pc = "read" \/ DayIndex => \A t \in Types, d \in chunk : Swept(t, d)
           AllWritten == pc = "write" => \A t \in Types, d \in chunk : Written(t, d)
           Left == pc = "manifests" =>
                     \A d \in left : IsHeld(deltas, d, job.script, silver, missed[d])
<1>0. /\ silver \in SilverStates /\ silver \in Nat
      /\ chunk \subseteq Days /\ left \subseteq chunk /\ job.script \in Versions
      /\ DOMAIN deltas = Types /\ todo \subseteq Types
      /\ \A r \in rows : r.day \in Days
      /\ \A t \in Types : \A r \in deltas[t] : r.day \in Days
      /\ DOMAIN missed = Days
  <2>1. \A r \in Row : r.day \in Days
    BY DEF Row
  <2>2. rows \subseteq Row /\ \A t \in Types : deltas[t] \subseteq Row
    BY DEF TypeOK
  <2> QED
    BY <2>1, <2>2, NumbersOfConstants DEF TypeOK, Job
<1>1. Rows /\ Apart /\ Deleted /\ AllSwept /\ AllWritten /\ Left
  BY DEF TablesInv
<1>a. ASSUME Rows', Apart', Deleted', AllSwept', AllWritten', Left' PROVE TablesInv'
  BY <1>a DEF TablesInv
<1>d. ASSUME UNCHANGED <<deltas, missed>>, rows' \subseteq rows PROVE Rows' /\ Apart'
  <2>1. \A r : IsDelta(r)' <=> IsDelta(r)
    BY <1>d DEF IsDelta
  <2> QED
    BY <1>1, <1>d, <2>1
<1>e. ASSUME UNCHANGED deltas, rows' = {}, \A d \in Days : missed[d] \subseteq missed'[d]
      PROVE  Rows' /\ Apart'
  <2>1. \A t \in Types : \A r \in deltas[t] : IsDelta(r)'
    BY <1>0, <1>1, <1>e, DeltaStays
  <2> HIDE DEF IsDelta
  <2> QED
    BY <1>1, <1>e, <2>1
<1>b. ASSUME UNCHANGED <<deltas, missed>>, rows' = {}, pc' \notin {"delete", "read", "write", "manifests"},
             ~DayIndex'
      PROVE  TablesInv'
  <2>1. Rows' /\ Apart'
    BY <1>b, <1>d
  <2> QED
    BY <1>a, <1>b, <2>1
<1>c. ASSUME UNCHANGED <<deltas, missed, rows, chunk, todo, left, pc, job>>,
             silver' \in SilverStates, silver <= silver'
      PROVE  TablesInv'
  <2>1. Rows' /\ Apart'
    BY <1>c, <1>d
  <2>2. \A t : Cleared(t)' = Cleared(t)
    BY <1>c DEF Cleared
  <2>3. \A t, d : Swept(t, d)' = Swept(t, d) /\ Written(t, d)' = Written(t, d)
    BY <1>c DEF Swept, Written
  <2>4. Left'
    BY <1>0, <1>1, <1>c, HeldStays
  <2> HIDE DEF Rows, Apart, Left
  <2> QED
    BY <1>1, <1>a, <1>c, <2>1, <2>2, <2>3, <2>4
<1>2. ASSUME NEW s \in Versions, NEW u \in Versions, Deploy(s, u) PROVE TablesInv'
  BY <1>0, <1>2, <1>c DEF Deploy, memory
<1>3. CASE RebuildSilver
  <2>1. /\ UNCHANGED <<deltas, missed, rows, chunk, todo, left, pc, job>>
        /\ silver' \in SilverStates /\ silver <= silver'
    BY <1>0, <1>3, ConstantsAssumption DEF RebuildSilver, memory, SilverStates
  <2> QED
    BY <1>c, <2>1
<1>4. CASE NoMemory /\ UNCHANGED <<stores, missed>>
  BY <1>4, <1>b DEF NoMemory, stores
<1>5. ASSUME NEW force \in ForceFlags, NEW first \in Days, NEW last \in Days,
             NEW ok \in Outcomes("days"), StartRange(first, last, force, ok)
      PROVE  TablesInv'
  <2>1. job'.kind = "range" /\ pc' \in {"done", "index"} /\ UNCHANGED <<deltas, missed>>
    BY <1>5 DEF StartRange, NewJob, stores
  <2>2. rows' = {}
    BY <1>5 DEF StartRange, JobInv
  <2> QED
    BY <1>b, <2>1, <2>2
<1>6. ASSUME NEW force \in ForceFlags, NEW d \in Days, StartDay(d, force)
      PROVE  TablesInv'
  <2>1. UNCHANGED <<deltas, missed>> /\ rows' = {}
    BY <1>6 DEF StartDay, JobInv, stores
  <2>2. CASE pc' = "done"
    BY <1>b, <2>1, <2>2
  <2>3. CASE pc' = "delete" /\ todo' = Types
    <3>1. Rows' /\ Apart'
      BY <1>d, <2>1
    <3> QED
      BY <1>a, <2>1, <2>3, <3>1
  <2> QED
    BY <1>6, <2>2, <2>3 DEF StartDay
<1>7. CASE LoadIndex
  BY <1>7, <1>b DEF LoadIndex, stores, JobInv
<1>8. CASE BeginChunk
  <2>1. UNCHANGED <<deltas, missed>> /\ rows' = {} /\ pc' = "delete" /\ todo' = Types
    BY <1>8 DEF BeginChunk, stores, JobInv
  <2>2. Rows' /\ Apart'
    BY <1>d, <2>1
  <2> QED
    BY <1>a, <2>1, <2>2
<1>9. ASSUME NEW t \in Types, DeleteDeltaPartitions(t) PROVE TablesInv'
  <2>1. /\ UNCHANGED <<missed, rows, chunk, left, pc, job, silver>> /\ pc = "delete"
        /\ todo' = todo \ {t}
        /\ \A w \in Types \ {t} : deltas'[w] = deltas[w]
        /\ deltas'[t] = {r \in deltas[t] : r.day \notin chunk}
    BY <1>0, <1>9 DEF DeleteDeltaPartitions
  <2>2. \A r : IsDelta(r)' <=> IsDelta(r)
    BY <2>1 DEF IsDelta
  <2>3. Rows' /\ Apart'
    <3>1. \A w \in Types : deltas'[w] \subseteq deltas[w]
      BY <2>1
    <3> QED
      BY <1>1, <2>1, <2>2, <3>1
  <2>4. Deleted'
    BY <1>1, <2>1 DEF Cleared
  <2> HIDE DEF Rows, Apart, Deleted
  <2> QED
    BY <1>a, <2>1, <2>3, <2>4
<1>10. CASE EndDelete
  <2>1. /\ UNCHANGED <<deltas, chunk, job>> /\ rows' = {} /\ pc = "delete" /\ pc' = "read"
        /\ todo = {} /\ \A d \in Days \ chunk : missed'[d] = missed[d]
    BY <1>10 DEF EndDelete, stores, JobInv
  <2>2. \A t \in Types : \A r \in deltas[t] : r.day \notin chunk
    BY <1>1, <2>1 DEF Cleared
  <2>3. Rows' /\ Apart'
    <3>1. \A t \in Types : \A r \in deltas[t] : IsDelta(r)'
      BY <1>0, <1>1, <2>1, <2>2, DeltaStays
    <3> HIDE DEF IsDelta
    <3> QED
      BY <1>1, <2>1, <3>1
  <2>4. AllSwept'
    BY <2>1, <2>2 DEF Swept, OfDay
  <2> HIDE DEF Rows, Apart, AllSwept
  <2> QED
    BY <1>a, <2>1, <2>3, <2>4
<1>20. CASE SkipDelete
  <2>1. /\ UNCHANGED <<deltas, chunk, job>> /\ rows' = {} /\ pc' = "read"
        /\ \A d \in Days : missed[d] \subseteq missed'[d]
        /\ \A d \in chunk : DeltasOf(d) # {} => "delete" \in missed'[d]
    BY <1>0, <1>20 DEF SkipDelete, stores, JobInv
  <2>2. Rows' /\ Apart'
    BY <1>e, <2>1
  <2>3. AllSwept'
    <3>1. \A t \in Types, d \in chunk : OfDay(deltas[t], d) \subseteq DeltasOf(d)
      BY DEF DeltasOf
    <3> QED
      BY <2>1, <3>1 DEF Swept
  <2> HIDE DEF Rows, Apart, AllSwept
  <2> QED
    BY <1>a, <2>1, <2>2, <2>3
<1>11. ASSUME UNCHANGED <<deltas, chunk>>, \A t \in Types, d \in chunk : Swept(t, d)',
              ToWrite(rows'), Rows', Apart'
       PROVE  TablesInv'
  <2>1. pc' = "write" /\ todo' = TablesOf(rows')
    BY <1>11 DEF ToWrite
  <2>2. ASSUME NEW t \in Types, NEW d \in chunk PROVE Written(t, d)'
    <3>1. CASE t \in todo'
      BY <1>11, <3>1 DEF Written
    <3>2. CASE t \notin todo'
      <4>1. RowsOf(t, OfDay(rows', d)) = {}
        BY <2>1, <3>2 DEF TablesOf, RowsOf, OfDay
      <4>2. OfDay(deltas'[t], d) = {} \/ "delete" \in missed'[d]
        BY <1>11 DEF Swept
      <4> QED
        BY <3>2, <4>1, <4>2 DEF Written, Holds
    <3> QED
      BY <3>1, <3>2
  <2> HIDE DEF Rows, Apart
  <2> QED
    BY <1>a, <1>11, <2>1, <2>2
<1>f. ASSUME NEW d \in Days, NEW lost \in Losses(d), LoadNunRows(d, lost), UNCHANGED deltas
      PROVE  /\ \A r : r.day \in Days /\ IsDelta(r) => IsDelta(r)'
             /\ \A t \in Types, e \in Days : Swept(t, e) => Swept(t, e)'
             /\ Apart'
  <2>1. /\ \A e \in Days : "changes" \in missed[e] => "changes" \in missed'[e]
        /\ \A e \in Days : "delete" \in missed[e] => "delete" \in missed'[e]
    BY <1>f, LossIsKept
  <2>2. \A r : r.day \in Days /\ IsDelta(r) => IsDelta(r)'
    BY <2>1, DeltaStays
  <2>3. \A t \in Types, e \in Days : Swept(t, e) => Swept(t, e)'
    BY <1>f, <2>1 DEF Swept
  <2>4. Apart'
    BY <1>0, <1>1, <1>f, <2>2
  <2> HIDE DEF Apart
  <2> QED
    BY <2>2, <2>3, <2>4
<1>12. ASSUME NEW d \in Days, NEW lost \in Losses(d), ReadDay(d, lost) PROVE TablesInv'
  <2> DEFINE nuns == NunRows(d, lost)
             read == "changes" \notin lost
             B == BuildUpdateDeltas(d, nuns, read, index, job.script)
  <2>1. /\ UNCHANGED <<deltas, chunk, job>> /\ rows' = rows \cup B /\ pc = "read"
        /\ LoadNunRows(d, lost)
    BY <1>12 DEF ReadDay, stores
  <2>2. nuns \in SUBSET Nuns /\ read \in BOOLEAN /\ IsIndex(index)
    BY <1>0, NumbersOfConstants DEF TypeOK, IsIndex, NunRows
  <2>3. ~read => "changes" \in missed'[d]
    BY <2>1, LossIsKept
  <2> HIDE DEF nuns, read
  <2>4. \A r \in B : r.day = d /\ Made(r, ~read)
    BY <1>0, <2>2, BuildIsOfDay
  <2> HIDE DEF B
  <2>5. \A r \in B : IsDelta(r)'
    BY <2>3, <2>4 DEF IsDelta, Made
  <2>6. Rows' /\ Apart'
    <3>1. \A r \in rows : IsDelta(r)'
      BY <1>0, <1>1, <1>f, <2>1
    <3>2. \A r \in rows' : IsDelta(r)'
      BY <2>1, <2>5, <3>1
    <3>3. Apart'
      BY <1>f, <2>1
    <3> QED
      BY <3>2, <3>3
  <2>7. \A t \in Types, e \in chunk : Swept(t, e)'
    BY <1>0, <1>1, <1>f, <2>1
  <2>8. CASE left = {d}
    <3>1. ToWrite(rows')
      BY <1>12, <2>8 DEF ReadDay
    <3> HIDE DEF Rows, Apart
    <3> QED
      BY <1>11, <2>1, <2>6, <2>7, <3>1
  <2>9. CASE left # {d}
    <3>1. pc' = "read"
      BY <1>12, <2>9 DEF ReadDay
    <3>2. AllSwept'
      BY <2>1, <2>7
    <3> HIDE DEF Rows, Apart, AllSwept
    <3> QED
      BY <1>a, <2>6, <3>1, <3>2
  <2> QED
    BY <2>8, <2>9
<1>13. ASSUME NEW d \in Days, NEW lost \in Losses(d), ReadCore(d, lost) PROVE TablesInv'
  <2>1. /\ UNCHANGED <<deltas, chunk, job, rows>> /\ pc = "read" /\ rows = {}
        /\ LoadNunRows(d, lost)
    BY <1>13 DEF ReadCore, stores, JobInv
  <2>2. \A t \in Types, e \in chunk : Swept(t, e)'
    BY <1>0, <1>1, <1>f, <2>1
  <2>3. Rows' /\ Apart'
    <3>1. Apart'
      BY <1>f, <2>1
    <3> QED
      BY <2>1, <3>1
  <2>4. CASE DayYears(core') = {}
    <3>1. ToWrite(rows')
      BY <1>13, <2>1, <2>4 DEF ReadCore
    <3> HIDE DEF Rows, Apart
    <3> QED
      BY <1>11, <2>1, <2>2, <2>3, <3>1
  <2>5. CASE DayYears(core') # {}
    <3>1. pc' = "index"
      BY <1>13, <2>5 DEF ReadCore
    <3>2. AllSwept'
      BY <2>1, <2>2
    <3> HIDE DEF Rows, Apart, AllSwept
    <3> QED
      BY <1>a, <2>3, <3>1, <3>2
  <2> QED
    BY <2>4, <2>5
<1>14. CASE LoadDayIndex
  <2> DEFINE d == job.first
             bzp == LoadBzpIndex(silver, DayYears(core))
             B == BuildUpdateDeltas(d, core, changed, bzp, job.script)
  <2>1. /\ UNCHANGED <<deltas, missed, chunk>> /\ rows' = B /\ pc = "index"
        /\ job.kind = "day" /\ ToWrite(rows')
    BY <1>14 DEF LoadDayIndex, stores
  <2>2. core \in SUBSET Nuns /\ changed \in BOOLEAN /\ IsIndex(bzp) /\ d \in Days
    BY <1>0, IndexIsTyped DEF TypeOK, Job
  <2>3. ~changed => "changes" \in missed[d]
    BY <2>1 DEF RowsInv, ChangesRead
  <2> HIDE DEF bzp
  <2>4. \A r \in B : r.day = d /\ Made(r, ~changed)
    BY <1>0, <2>2, BuildIsOfDay
  <2> HIDE DEF B
  <2>5. Rows' /\ Apart'
    <3>1. \A r \in B : IsDelta(r)'
      BY <2>1, <2>3, <2>4 DEF IsDelta, Made
    <3>2. \A r : IsDelta(r)' <=> IsDelta(r)
      BY <2>1 DEF IsDelta
    <3> QED
      BY <1>1, <2>1, <3>1, <3>2
  <2>6. \A t \in Types, e \in chunk : Swept(t, e)'
    BY <1>1, <2>1 DEF Swept
  <2> HIDE DEF Rows, Apart
  <2> QED
    BY <1>11, <2>1, <2>5, <2>6
<1>15. ASSUME NEW t \in Types, WriteDeltas(t) PROVE TablesInv'
  <2>1. /\ UNCHANGED <<missed, rows, chunk, left, pc, job, silver>> /\ pc = "write"
        /\ t \in todo /\ todo' = todo \ {t}
        /\ \A w \in Types \ {t} : deltas'[w] = deltas[w]
        /\ deltas'[t] = {r \in deltas[t] : \A n \in RowsOf(t, rows) : n.day # r.day}
                        \cup RowsOf(t, rows)
    BY <1>0, <1>15 DEF WriteDeltas
  <2>2. \A r : IsDelta(r)' <=> IsDelta(r)
    BY <2>1 DEF IsDelta
  <2>3. Rows' /\ Apart'
    <3>1. \A r \in RowsOf(t, rows) : IsDelta(r) /\ r.target.type = t
      BY <1>1 DEF RowsOf
    <3> QED
      BY <1>1, <2>1, <2>2, <3>1
  <2>5. ASSUME NEW d \in chunk PROVE Written(t, d)'
    <3>1. OfDay(deltas[t], d) = {} \/ "delete" \in missed[d]
      BY <1>1, <2>1 DEF Written, Swept
    <3>2. RowsOf(t, OfDay(rows, d)) = OfDay(RowsOf(t, rows), d)
      BY DEF RowsOf, OfDay
    <3>3. CASE OfDay(RowsOf(t, rows), d) = {}
      <4>1. OfDay(deltas'[t], d) = OfDay(deltas[t], d)
        BY <2>1, <3>3 DEF OfDay
      <4> QED
        BY <2>1, <3>1, <3>2, <3>3, <4>1 DEF Written, Holds
    <3>4. CASE OfDay(RowsOf(t, rows), d) # {}
      <4>1. OfDay(deltas'[t], d) = OfDay(RowsOf(t, rows), d)
        BY <2>1, <3>4 DEF OfDay
      <4> QED
        BY <2>1, <3>2, <4>1 DEF Written, Holds
    <3> QED
      BY <3>3, <3>4
  <2>6. ASSUME NEW w \in Types \ {t}, NEW d \in chunk PROVE Written(w, d)'
    <3>1. Written(w, d)
      BY <1>1, <2>1
    <3>2. deltas'[w] = deltas[w] /\ (w \in todo' <=> w \in todo)
      BY <2>1
    <3> QED
      BY <2>1, <3>1, <3>2 DEF Written, Swept
  <2> HIDE DEF Rows, Apart
  <2> QED
    BY <1>a, <2>1, <2>3, <2>5, <2>6
<1>16. CASE EndWrite
  <2>1. /\ UNCHANGED <<deltas, missed, chunk, left, job, silver>> /\ rows' = {}
        /\ pc = "write" /\ pc' = "manifests" /\ todo = {}
    BY <1>16 DEF EndWrite, stores
  <2>2. ASSUME NEW d \in left PROVE IsHeld(deltas, d, job.script, silver, missed[d])
    <3>1. IsBuilt(OfDay(rows, d), d, job.script, silver, missed[d]) /\ d \in chunk
      BY <1>0, <2>1, <2>2 DEF RowsInv
    <3>2. \A t \in Types : Holds(deltas[t], t, d, OfDay(rows, d), missed[d])
      BY <1>1, <2>1, <3>1 DEF Written
    <3> QED
      BY <3>1, <3>2 DEF IsHeld
  <2>3. Left'
    BY <2>1, <2>2
  <2>4. Rows' /\ Apart'
    BY <1>d, <2>1
  <2> HIDE DEF Rows, Apart, Left
  <2> QED
    BY <1>a, <2>1, <2>3, <2>4
<1>17. ASSUME NEW d \in Days, WriteManifest(d) PROVE TablesInv'
  <2>1. /\ UNCHANGED <<deltas, missed, job, silver>> /\ rows' = {} /\ pc = "manifests"
        /\ pc' \in {"manifests", "done", "chunk"} /\ left' \subseteq left
    BY <1>17 DEF WriteManifest, JobInv
  <2>2. Left'
    BY <1>1, <2>1
  <2>3. Rows' /\ Apart'
    BY <1>d, <2>1
  <2> HIDE DEF Rows, Apart, Left
  <2> QED
    BY <1>a, <2>1, <2>2, <2>3
<1>18. CASE UNCHANGED vars
  BY <1>0, <1>18, <1>c DEF vars, stores, memory
<1> QED
  BY <1>2, <1>3, <1>4, <1>5, <1>6, <1>7, <1>8, <1>9, <1>10, <1>12, <1>13, <1>14, <1>15,
     <1>16, <1>17, <1>18, <1>20, Zenon DEF Next, Start, Step, Crash, Exit

\* Only the deletes and the writes of the running job change the tables, and only the
\* rows of the chunk; the same holds of what the history says of a day.
Changing == \E t \in Types : DeleteDeltaPartitions(t) \/ WriteDeltas(t)
Missing == \/ EndDelete \/ SkipDelete
           \/ \E d \in Days : \E lost \in Losses(d) : ReadDay(d, lost) \/ ReadCore(d, lost)

LEMMA OnlyJobsChangeTables ==
  ASSUME [Next]_vars
  PROVE  (Changing \/ UNCHANGED deltas) /\ (Missing \/ UNCHANGED missed)
<1> DEFINE Same == UNCHANGED <<deltas, missed>>
<1>1. ASSUME NEW s \in Versions, NEW u \in Versions, Deploy(s, u) PROVE Same
  BY <1>1 DEF Deploy
<1>2. RebuildSilver \/ Crash \/ LoadIndex \/ BeginChunk \/ LoadDayIndex \/ EndWrite \/ Exit => Same
  BY DEF RebuildSilver, Crash, LoadIndex, BeginChunk, LoadDayIndex, EndWrite, Exit, stores
<1>3. Start => Same
  BY DEF Start, StartRange, StartDay, stores
<1>4. Missing => UNCHANGED deltas
  BY DEF Missing, EndDelete, SkipDelete, ReadDay, ReadCore, stores
<1>5. Changing => UNCHANGED missed
  BY DEF Changing, DeleteDeltaPartitions, WriteDeltas
<1>6. ASSUME NEW d \in Days, WriteManifest(d) PROVE Same
  BY <1>6 DEF WriteManifest
<1>7. UNCHANGED vars => Same
  BY DEF vars, stores
<1>8. Same \/ Missing \/ Changing
  <2> HIDE DEF Same
  <2> QED
    BY <1>1, <1>2, <1>3, <1>6, <1>7, Zenon DEF Changing, Missing, Next, Step
<1> QED
  BY <1>4, <1>5, <1>8

LEMMA OtherDaysStay ==
  ASSUME TypeOK, JobInv, RowsInv, [Next]_vars, NEW d \in Days, Busy => d \notin chunk
  PROVE  /\ missed'[d] = missed[d]
         /\ \A t \in Types : OfDay(deltas'[t], d) = OfDay(deltas[t], d)
         /\ DeltasOf(d)' = DeltasOf(d)
<1>1. DOMAIN deltas = Types /\ left \subseteq chunk
  BY DEF TypeOK
<1>2. missed'[d] = missed[d]
  <2>1. CASE EndDelete \/ SkipDelete
    BY <2>1 DEF EndDelete, SkipDelete, Busy
  <2>2. ASSUME NEW e \in Days, NEW lost \in Losses(e), ReadDay(e, lost) \/ ReadCore(e, lost)
        PROVE  missed'[d] = missed[d]
    <3>1. Busy /\ e \in left /\ LoadNunRows(e, lost)
      BY <2>2 DEF ReadDay, ReadCore, Busy, IsNext
    <3>2. d # e
      BY <1>1, <3>1
    <3> QED
      BY <3>1, <3>2, LossIsKept
  <2>3. CASE UNCHANGED missed
    BY <2>3
  <2> QED
    BY <2>1, <2>2, <2>3, OnlyJobsChangeTables, Zenon DEF Missing
<1>3. ASSUME NEW t \in Types PROVE OfDay(deltas'[t], d) = OfDay(deltas[t], d)
  <2>1. ASSUME NEW w \in Types, DeleteDeltaPartitions(w)
        PROVE  OfDay(deltas'[t], d) = OfDay(deltas[t], d)
    <3>1. d \notin chunk
      BY <2>1 DEF DeleteDeltaPartitions, Busy
    <3>2. deltas'[t] = deltas[t] \/ deltas'[t] = {r \in deltas[t] : r.day \notin chunk}
      BY <1>1, <2>1 DEF DeleteDeltaPartitions
    <3> QED
      BY <3>1, <3>2 DEF OfDay
  <2>2. ASSUME NEW w \in Types, WriteDeltas(w)
        PROVE  OfDay(deltas'[t], d) = OfDay(deltas[t], d)
    <3>1. d \notin chunk
      BY <2>2 DEF WriteDeltas, Busy
    <3>2. \/ deltas'[t] = deltas[t]
          \/ deltas'[t] = {r \in deltas[t] : \A n \in RowsOf(t, rows) : n.day # r.day}
                          \cup RowsOf(t, rows)
      BY <1>1, <2>2 DEF WriteDeltas
    <3>3. \A n \in RowsOf(t, rows) : n.day # d
      BY <3>1 DEF RowsOf, RowsInv
    <3> QED
      BY <3>2, <3>3 DEF OfDay
  <2> QED
    BY <2>1, <2>2, OnlyJobsChangeTables DEF Changing
<1>4. DeltasOf(d)' = DeltasOf(d)
  BY <1>3 DEF DeltasOf
<1> QED
  BY <1>2, <1>3, <1>4

LEMMA OneDeltaStep ==
  ASSUME TypeOK, JobInv, RowsInv, TablesInv, OneDeltaPerNotice, [Next]_vars
  PROVE  OneDeltaPerNotice'
<1> DEFINE One(S) == \A r1, r2 \in S : r1.nun = r2.nun => r1 = r2
<1>1. \A d \in Days : "delete" \notin missed[d] => One(DeltasOf(d))
  BY DEF OneDeltaPerNotice
<1> SUFFICES ASSUME NEW d \in Days, "delete" \notin missed'[d] PROVE One(DeltasOf(d)')
  BY DEF OneDeltaPerNotice
<1>2. CASE Busy => d \notin chunk
  <2>1. missed'[d] = missed[d] /\ DeltasOf(d)' = DeltasOf(d)
    BY <1>2, OtherDaysStay
  <2> QED
    BY <1>1, <2>1
<1>3. ASSUME Busy, d \in chunk, UNCHANGED deltas, "delete" \in missed[d] => "delete" \in missed'[d]
      PROVE  One(DeltasOf(d)')
  <2>1. DeltasOf(d)' = DeltasOf(d)
    BY <1>3 DEF DeltasOf
  <2> QED
    BY <1>1, <1>3, <2>1
<1>4. ASSUME Busy, d \in chunk, EndDelete PROVE One(DeltasOf(d)')
  <2>1. \A t \in Types : OfDay(deltas'[t], d) = {}
    BY <1>4 DEF EndDelete, TablesInv, Cleared, stores, OfDay
  <2> QED
    BY <2>1 DEF DeltasOf
<1>5. ASSUME Busy, d \in chunk, SkipDelete PROVE One(DeltasOf(d)')
  BY <1>3, <1>5 DEF SkipDelete, stores
<1>6. ASSUME Busy, d \in chunk, NEW e \in Days, NEW lost \in Losses(e),
             ReadDay(e, lost) \/ ReadCore(e, lost)
      PROVE  One(DeltasOf(d)')
  <2>1. LoadNunRows(e, lost) /\ UNCHANGED deltas
    BY <1>6 DEF ReadDay, ReadCore, stores
  <2>2. "delete" \in missed[d] => "delete" \in missed'[d]
    BY <2>1, LossIsKept
  <2> QED
    BY <1>3, <1>6, <2>1, <2>2
<1>7. ASSUME NEW t \in Types, DeleteDeltaPartitions(t) PROVE One(DeltasOf(d)')
  <2>1. \A w \in Types : deltas'[w] \subseteq deltas[w]
    BY <1>7 DEF DeleteDeltaPartitions, TypeOK
  <2>2. DeltasOf(d)' \subseteq DeltasOf(d) /\ UNCHANGED missed
    BY <1>7, <2>1 DEF DeltasOf, OfDay, DeleteDeltaPartitions
  <2> QED
    BY <1>1, <2>2
<1>8. ASSUME d \in chunk, NEW t \in Types, WriteDeltas(t) PROVE One(DeltasOf(d)')
  <2>1. pc = "write" /\ pc' = "write" /\ UNCHANGED <<rows, chunk>>
    BY <1>8 DEF WriteDeltas
  <2>2. \A w \in Types : Written(w, d)'
    BY <1>8, <2>1, TablesStep DEF TablesInv
  <2>3. \A w \in Types : OfDay(deltas'[w], d) \subseteq OfDay(rows, d)
    BY <2>1, <2>2 DEF Written, Swept, Holds, RowsOf
  <2>4. DeltasOf(d)' \subseteq OfDay(rows, d)
    BY <2>3 DEF DeltasOf
  <2>5. IsBuilt(OfDay(rows, d), d, job.script, silver, missed[d])
    BY <1>8, <2>1 DEF RowsInv
  <2>6. One(OfDay(rows, d))
    BY <2>5, BuiltIsSound DEF TypeOK, Job
  <2> QED
    BY <2>4, <2>6
<1> HIDE DEF One
<1>9. CASE UNCHANGED deltas /\ UNCHANGED missed
  BY <1>2, <1>3, <1>9
<1> QED
  BY <1>2, <1>4, <1>5, <1>6, <1>7, <1>8, <1>9, OnlyJobsChangeTables, Zenon DEF Changing, Missing

-----------------------------------------------------------------------------
(***************************************************************************)
(* The theorems.                                                           *)
(***************************************************************************)
LEMMA InitIInv == Init => IInv
<1> SUFFICES ASSUME Init PROVE IInv
  OBVIOUS
<1>1. TypeOK /\ JobInv
  BY TypeInit
<1>2. ManifestInv /\ RowsInv /\ TablesInv
  BY DEF Init, ManifestInv, RowsInv, TablesInv, Busy
<1>3. OneDeltaPerNotice
  BY DEF Init, OneDeltaPerNotice, DeltasOf, OfDay
<1> QED
  BY <1>1, <1>2, <1>3 DEF IInv

LEMMA StepIInv == IInv /\ [Next]_vars => IInv'
BY TypeStep, JobStep, ManifestStep, RowsStep, TablesStep, OneDeltaStep, Zenon DEF IInv

LEMMA InductiveInvariant == Spec => []IInv
BY InitIInv, StepIInv, PTL DEF Spec

\* The variables have their types, and a chunk is no longer pending.
THEOREM TypesAreCorrect == Spec => []TypeOK
<1>1. IInv => TypeOK
  BY DEF IInv
<1> QED
  BY <1>1, InductiveInvariant, PTL

\* The deltas of a day hold one row of a NUN at most, in all tables together, unless a
\* delete of the day met an error.
THEOREM NoticesHaveOneDelta == Spec => []OneDeltaPerNotice
<1>1. IInv => OneDeltaPerNotice
  BY DEF IInv
<1> QED
  BY <1>1, InductiveInvariant, PTL

\* Whatever the changes of a NUN, its delta says of a column what the last of them that
\* touches the column says, or nothing at all if the changes of its day went unread.
THEOREM LastChangesWin == Spec => []LastChangeWins
<1>1. IInv => LastChangeWins
  <2> SUFFICES ASSUME IInv, NEW t \in Types, NEW r \in deltas[t]
               PROVE  \/ LET text == Text[r.nun][t] IN
                         /\ \A c \in Columns : r.values[c] = ApplyParser(c, text[c])
                         /\ r.errors = {c \in Columns : Fails(c, text[c])}
                      \/ /\ "changes" \in missed[r.day]
                         /\ [values |-> r.values, errors |-> r.errors] = NoChange
    BY DEF LastChangeWins
  <2>1. r \in Row /\ r.target.type = t /\ Made(r, "changes" \in missed[r.day])
    BY DEF IInv, TypeOK, TablesInv, IsDelta
  <2>5. CASE "changes" \in missed[r.day] /\ r.values = NoChange.values /\ r.errors = NoChange.errors
    BY <2>5 DEF NoChange
  <2>6. CASE /\ r.values = ColumnsOf[r.nun][t].values
             /\ r.errors = ColumnsOf[r.nun][t].errors
    <3>2. r.nun \in Nuns
      BY <2>1 DEF Row
    <3>3. /\ ColumnsOf[r.nun][t] \in Cells
          /\ \A c \in Columns : Says(ColumnsOf[r.nun][t], c, Text[r.nun][t][c])
      BY <3>2, ColumnsAreLatest
    <3>4. r.errors \subseteq Columns
      BY <2>6, <3>3 DEF Cells
    <3> QED
      BY <2>6, <3>3, <3>4 DEF Says
  <2> QED
    BY <2>1, <2>5, <2>6 DEF Made
<1> QED
  BY <1>1, InductiveInvariant, PTL

\* A manifest that matches the deployed code matched the job's code as well.
LEMMA MatchedIsNotDue ==
  ASSUME TypeOK, JobInv, ManifestInv, NEW d \in Days, Match(d), pc # "idle", ~job.force, Due(d)
  PROVE  FALSE
<1>1. /\ manifest[d] # NoManifest
      /\ manifest[d].script = code.script /\ manifest[d].deps = code.upstream
  BY DEF Match, IsAlreadyProcessed
<1>2. /\ job.script <= code.script /\ job.upstream <= code.upstream
      /\ code.script <= job.script /\ code.upstream <= job.upstream
  BY <1>1 DEF JobInv, Due
<1>3. /\ job.script \in Nat /\ job.upstream \in Nat
      /\ code.script \in Nat /\ code.upstream \in Nat
  BY NumbersOfConstants DEF TypeOK, Job
<1>4. job.script = code.script /\ job.upstream = code.upstream
  BY <1>2, <1>3
<1> QED
  BY <1>1, <1>4 DEF Due, IsAlreadyProcessed

LEMMA MatchedDayStays ==
  ASSUME TypeOK, JobInv, ManifestInv, RowsInv, [Next]_vars, NEW d \in Days, Match(d), ~job.force
  PROVE  /\ missed'[d] = missed[d]
         /\ \A t \in Types : OfDay(deltas'[t], d) = OfDay(deltas[t], d)
         /\ DeltasOf(d)' = DeltasOf(d)
<1>1. Busy => d \notin chunk
  <2> SUFFICES ASSUME Busy, d \in chunk PROVE FALSE
    OBVIOUS
  <2>1. pc # "idle" /\ Due(d)
    BY DEF Busy, ManifestInv
  <2> QED
    BY <2>1, MatchedIsNotDue
<1> QED
  BY <1>1, OtherDaysStay

\* A job without --force leaves the rows of the days alone whose manifests match, even
\* if code is deployed while it runs.
THEOREM SkippedDaysAreUntouched == Spec => SkippedDayUntouched
<1>1. IInv /\ [Next]_vars =>
        [\A d \in Days : Match(d) /\ ~job.force => DeltasOf(d)' = DeltasOf(d)]_vars
  BY MatchedDayStays DEF IInv
<1> QED
  BY <1>1, InductiveInvariant, PTL DEF Spec, SkippedDayUntouched

-----------------------------------------------------------------------------
(* What a matching manifest vouches for.  A job with --force that dies leaves  *)
(* days that match and are not whole, hence the hypothesis on ForceFlags.      *)

Current == \A d \in Days : Match(d) => IsHeld(deltas, d, code.script, silver, missed[d])
CInv == IInv /\ ~job.force /\ Current

LEMMA CurrentIsOneBuild == Current => MatchedDayIsOneBuild
<1> SUFFICES ASSUME Current, NEW d \in Days, Match(d)
             PROVE  \E nuns \in NunsRead(d, silver, missed[d]), read \in ChangesRead(missed[d]),
                       s \in 0 .. silver :
                      \E years \in YearsRead(d, nuns) :
                        LET built == BuildUpdateDeltas(d, nuns, read, LoadBzpIndex(s, years),
                                                       code.script)
                        IN  \A t \in Types : HoldsIn(t, d, built)
  BY DEF MatchedDayIsOneBuild
<1>1. PICK built : /\ IsBuilt(built, d, code.script, silver, missed[d])
                   /\ \A t \in Types : Holds(deltas[t], t, d, built, missed[d])
  BY DEF Current, IsHeld
<1>2. \A t \in Types : HoldsIn(t, d, built)
  BY <1>1 DEF HoldsIn, Holds
<1> QED
  BY <1>1, <1>2, Zenon DEF IsBuilt

LEMMA CurrentStep ==
  ASSUME IInv, ~job.force, Current, [Next]_vars
  PROVE  Current'
<1> DEFINE Goal(d) == IsHeld(deltas', d, code'.script, silver', missed'[d])
<1>0. /\ TypeOK /\ JobInv /\ ManifestInv /\ RowsInv /\ TablesInv /\ silver \in SilverStates
      /\ silver \in Nat /\ DOMAIN manifest = Days
  BY NumbersOfConstants DEF IInv, TypeOK
<1> SUFFICES ASSUME NEW d \in Days, Match(d)' PROVE Goal(d)
  BY DEF Current
<1>1. ASSUME Match(d), UNCHANGED code, silver' \in SilverStates, silver <= silver' PROVE Goal(d)
  <2>1. /\ missed'[d] = missed[d]
        /\ \A t \in Types : OfDay(deltas'[t], d) = OfDay(deltas[t], d)
    BY <1>0, <1>1, MatchedDayStays
  <2>2. IsHeld(deltas, d, code.script, silver, missed[d])
    BY <1>1 DEF Current
  <2> QED
    BY <1>0, <1>1, <2>1, <2>2, HeldStays
<1>2. ASSUME NEW s \in Versions, NEW u \in Versions, Deploy(s, u) PROVE FALSE
  <2>1. /\ manifest[d] # NoManifest
        /\ manifest[d].script = s /\ manifest[d].deps = u
    BY <1>2 DEF Deploy, Match, IsAlreadyProcessed
  <2>2. manifest[d].script <= code.script /\ manifest[d].deps <= code.upstream
    BY <1>0, <2>1 DEF ManifestInv
  <2>3. s >= code.script /\ u >= code.upstream /\ code # [script |-> s, upstream |-> u]
    BY <1>2 DEF Deploy
  <2>4. /\ code \in [script : Versions, upstream : Versions]
        /\ code.script \in Nat /\ code.upstream \in Nat /\ s \in Nat /\ u \in Nat
    BY <1>0, NumbersOfConstants DEF TypeOK
  <2>5. code.script = s /\ code.upstream = u
    BY <2>1, <2>2, <2>3, <2>4
  <2> QED
    BY <2>3, <2>4, <2>5
<1>3. CASE RebuildSilver
  <2>1. /\ UNCHANGED <<manifest, code>> /\ silver' \in SilverStates /\ silver <= silver'
    BY <1>0, <1>3, ConstantsAssumption DEF RebuildSilver, SilverStates
  <2>2. Match(d)
    BY <2>1 DEF Match
  <2> QED
    BY <1>1, <2>1, <2>2
<1>4. ASSUME NEW e \in Days, WriteManifest(e) PROVE Goal(d)
  <2>1. /\ manifest' = WriteProcessedManifest(manifest, e, job.script, job.upstream)
        /\ UNCHANGED <<deltas, missed, code, silver>> /\ pc = "manifests" /\ e \in left
    BY <1>4 DEF WriteManifest, IsNext
  <2>3. CASE d = e
    <3>1. manifest'[d] = [script |-> job.script, deps |-> job.upstream]
      BY <1>0, <2>1, <2>3 DEF WriteProcessedManifest
    <3>2. code'.script = job.script
      BY <3>1 DEF Match, IsAlreadyProcessed
    <3>3. IsHeld(deltas, d, job.script, silver, missed[d])
      BY <1>0, <2>1, <2>3 DEF TablesInv
    <3> QED
      BY <2>1, <3>2, <3>3
  <2>4. CASE d # e
    <3>1. manifest'[d] = manifest[d]
      BY <1>0, <2>1, <2>4 DEF WriteProcessedManifest
    <3>2. Match(d)
      BY <2>1, <3>1 DEF Match
    <3> QED
      BY <1>0, <1>1, <2>1, <3>2
  <2> QED
    BY <2>3, <2>4
<1> DEFINE Still == UNCHANGED <<manifest, code, silver>>
<1>5. Start \/ Crash => Still
  BY DEF Start, StartRange, StartDay, Crash, stores
<1>6. LoadIndex \/ BeginChunk \/ EndDelete \/ SkipDelete \/ LoadDayIndex \/ EndWrite \/ Exit => Still
  BY DEF LoadIndex, BeginChunk, EndDelete, SkipDelete, LoadDayIndex, EndWrite, Exit, stores
<1>7. ASSUME NEW t \in Types PROVE DeleteDeltaPartitions(t) \/ WriteDeltas(t) => Still
  BY DEF DeleteDeltaPartitions, WriteDeltas
<1>8. ASSUME NEW e \in Days, NEW lost \in Losses(e)
      PROVE  ReadDay(e, lost) \/ ReadCore(e, lost) => Still
  BY DEF ReadDay, ReadCore, stores
<1>9. UNCHANGED vars => Still
  BY DEF vars, stores
<1>10. ASSUME Still PROVE Goal(d)
  <2>1. Match(d) /\ silver <= silver'
    BY <1>0, <1>10 DEF Match
  <2> QED
    BY <1>0, <1>1, <1>10, <2>1
<1> HIDE DEF Still, Goal
<1> QED
  BY <1>2, <1>3, <1>4, <1>5, <1>6, <1>7, <1>8, <1>9, <1>10, Zenon DEF Next, Step

LEMMA ForceStays ==
  ASSUME ForceFlags \subseteq {FALSE}, ~job.force, [Next]_vars
  PROVE  ~job'.force
<1>1. ASSUME NEW s \in Versions, NEW u \in Versions, Deploy(s, u) PROVE job' = job
  BY <1>1 DEF Deploy, memory
<1>2. RebuildSilver \/ LoadIndex \/ BeginChunk \/ EndDelete \/ SkipDelete \/ LoadDayIndex \/ EndWrite
      => job' = job
  BY DEF RebuildSilver, LoadIndex, BeginChunk, EndDelete, SkipDelete, LoadDayIndex, EndWrite, memory
<1>3. ASSUME NEW d \in Days
      PROVE  /\ \A lost \in Losses(d) : ReadDay(d, lost) \/ ReadCore(d, lost) => job' = job
             /\ WriteManifest(d) => job' = job
  BY DEF ReadDay, ReadCore, WriteManifest
<1>4. ASSUME NEW t \in Types PROVE DeleteDeltaPartitions(t) \/ WriteDeltas(t) => job' = job
  BY DEF DeleteDeltaPartitions, WriteDeltas
<1>5. Crash \/ Exit => job' = NoJob
  BY DEF Crash, Exit, NoMemory
<1>6. ~NoJob.force
  BY DEF NoJob
<1>7. Start => ~job'.force
  <2>1. \A kind, first, last : ~NewJob(kind, first, last, FALSE).force
    BY DEF NewJob
  <2>2. \A force \in ForceFlags : force = FALSE
    OBVIOUS
  <2> QED
    BY <2>1, <2>2, Zenon DEF Start, StartRange, StartDay
<1>8. UNCHANGED vars => job' = job
  BY DEF vars, memory
<1> QED
  BY <1>1, <1>2, <1>3, <1>4, <1>5, <1>6, <1>7, <1>8, Zenon DEF Next, Step

LEMMA CurrentInvariant ==
  ASSUME ForceFlags \subseteq {FALSE}
  PROVE  Spec => []CInv
<1>1. Init => CInv
  <2> SUFFICES ASSUME Init PROVE CInv
    OBVIOUS
  <2>1. ~job.force
    BY DEF Init, NoJob
  <2>2. \A d \in Days : ~Match(d)
    BY DEF Init, Match, IsAlreadyProcessed
  <2> QED
    BY <2>1, <2>2, InitIInv DEF CInv, Current
<1>2. CInv /\ [Next]_vars => CInv'
  BY StepIInv, CurrentStep, ForceStays DEF CInv
<1> QED
  BY <1>1, <1>2, PTL DEF Spec

\* A day whose manifest matches the deployed code holds what one build by that code made
\* of a state of the core table and a state of the envelope there have been, but for the
\* errors that the history says were swallowed.
THEOREM MatchedDaysAreOneBuild ==
  ASSUME ForceFlags \subseteq {FALSE}
  PROVE  Spec => []MatchedDayIsOneBuild
<1>1. CInv => MatchedDayIsOneBuild
  BY CurrentIsOneBuild DEF CInv
<1> QED
  BY <1>1, CurrentInvariant, PTL

LEMMA BuildHasResolved ==
  ASSUME NEW d \in Days, NEW nuns \in SUBSET Nuns, NEW read \in BOOLEAN, NEW bzp, IsIndex(bzp),
         NEW v \in Versions
  PROVE  \A n \in Resolved(nuns, bzp) :
           \E r \in BuildUpdateDeltas(d, nuns, read, bzp, v) : r.nun = n /\ r.target = bzp[Target[n]]
<1> DEFINE S == BuildUpdateDeltas(d, nuns, read, bzp, v)
<1>1. IsSound(S, d, nuns, bzp, ~read)
  BY BuildIsSound
<1> HIDE DEF S
<1>2. \A n \in Resolved(nuns, bzp) : \E r \in S : r.nun = n /\ r.target = bzp[Target[n]]
  BY <1>1 DEF IsSound
<1> QED
  BY <1>2 DEF S

\* It has a delta for each NUN of the day that changes a notice silver has had all along
\* and that was published in the year of the day or the year before, unless its core rows
\* went unread.
THEOREM RecentTargetsAreResolved ==
  ASSUME ForceFlags \subseteq {FALSE}
  PROVE  Spec => []RecentTargetIsResolved
<1>1. ASSUME TypeOK, Current PROVE RecentTargetIsResolved
  <2> SUFFICES ASSUME NEW d \in Days, Match(d), "core" \notin missed[d], NEW n \in Nuns,
                      \A s \in 0 .. silver : n \in Core[s][d],
                      NEW x \in Envelope[silver],
                      x.number = Target[n], x.type \in Types, Steady(x),
                      YearOf[x.day] \in {YearOf[d] - 1, YearOf[d]}
               PROVE  \E r \in DeltasOf(d) : r.nun = n /\ r.target = x
    BY DEF RecentTargetIsResolved, Resolves
  <2>1. PICK built : /\ IsBuilt(built, d, code.script, silver, missed[d])
                     /\ \A t \in Types : Holds(deltas[t], t, d, built, missed[d])
    BY <1>1 DEF Current, IsHeld
  <2>2. PICK nuns \in NunsRead(d, silver, missed[d]), read \in ChangesRead(missed[d]),
             s2 \in 0 .. silver :
          \E years \in YearsRead(d, nuns) :
            built = BuildUpdateDeltas(d, nuns, read, LoadBzpIndex(s2, years), code.script)
    BY <2>1 DEF IsBuilt
  <2>12. PICK years \in YearsRead(d, nuns) :
          built = BuildUpdateDeltas(d, nuns, read, LoadBzpIndex(s2, years), code.script)
    BY <2>2
  <2>3. /\ silver \in SilverStates /\ s2 \in SilverStates /\ code.script \in Versions
    BY <1>1, ConstantsAssumption DEF TypeOK, SilverStates
  <2>10. nuns \in SUBSET Nuns /\ n \in nuns /\ read \in BOOLEAN
    <3>1. nuns \in SUBSET Nuns /\ read \in BOOLEAN
      BY <2>3, NunsAreTyped
    <3>2. PICK s \in 0 .. silver : nuns = Core[s][d]
      BY DEF NunsRead
    <3> QED
      BY <3>1, <3>2
  <2>4. x \in Entry /\ x.number \in Numbers /\ x.day \in Days
    BY <2>3, ConstantsAssumption DEF Entry
  <2>5. YearOf[x.day] \in Nat /\ YearOf[d] \in Nat
    BY <2>4, ConstantsAssumption
  <2>6. YearOf[x.day] \in years
    <3>1. CASE years = DayYears(nuns)
      <4>1. n \in nuns /\ Target[n] # NoNumber
        BY <2>4, <2>10, ConstantsAssumption
      <4>2. NumberYear[Target[n]] = YearOf[x.day] /\ YearOf[x.day] # NoYear
        BY <2>5, ConstantsAssumption DEF Steady
      <4>3. YearOf[x.day] \in DayYears(nuns)
        BY <4>1, <4>2 DEF DayYears
      <4> QED
        BY <3>1, <4>3
    <3>2. CASE \E days \in SUBSET Days : years = YearsWithPrevious(days \cup {d})
      <4>1. {YearOf[d] - 1, YearOf[d]} \subseteq years
        BY <3>2 DEF YearsWithPrevious
      <4> QED
        BY <4>1
    <3> QED
      BY <3>1, <3>2 DEF YearsRead
  <2> DEFINE bzp == LoadBzpIndex(s2, years)
             Found == {y \in Envelope[s2] : y.number = x.number /\ YearOf[y.day] \in years}
  <2>7. Found = {x}
    <3>1. {y \in Envelope[s2] : y.number = x.number} = {x}
      BY DEF Steady
    <3> QED
      BY <2>6, <3>1
  <2>8. x.number \in DOMAIN bzp /\ bzp[x.number] = x
    <3>1. /\ x.number \in DOMAIN bzp <=> Found # {}
          /\ Found # {} => bzp[x.number] \in Found
      <4> HIDE DEF bzp
      <4> QED
        BY <2>3, <2>4, IndexIsEarliest DEF bzp
    <3> QED
      BY <2>7, <3>1
  <2>9. IsIndex(bzp)
    BY <2>3, IndexIsTyped
  <2> HIDE DEF bzp, Found
  <2>11. \E r \in BuildUpdateDeltas(d, nuns, read, bzp, code.script) : r.nun = n /\ r.target = x
    <3>1. n \in Resolved(nuns, bzp)
      BY <2>8, <2>10 DEF Resolved
    <3>2. bzp[Target[n]] = x
      BY <2>8
    <3> QED
      BY <2>3, <2>9, <2>10, <3>1, <3>2, BuildHasResolved
  <2>13. PICK r \in built : r.nun = n /\ r.target = x
    BY <2>11, <2>12 DEF bzp
  <2>14. r.day = d
    BY <2>3, <2>9, <2>10, <2>12, BuildIsOfDay DEF bzp
  <2>15. r \in OfDay(deltas[x.type], d)
    BY <2>1, <2>13, <2>14 DEF Holds, RowsOf
  <2> QED
    BY <2>13, <2>15 DEF DeltasOf
<1>2. CInv => RecentTargetIsResolved
  BY <1>1 DEF CInv, IInv
<1> QED
  BY <1>2, CurrentInvariant, PTL
=============================================================================
