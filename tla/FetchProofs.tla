------------------------------ MODULE FetchProofs -----------------------------
(***************************************************************************)
(* Proofs about Fetch for any days, notice types, notices, page size and   *)
(* number of retries.                                                      *)
(***************************************************************************)
EXTENDS Fetch, ListProofs, FiniteSetTheorems, SequenceTheorems, TLAPS


-----------------------------------------------------------------------------
(* The inductive invariants.                                               *)

Working == pc \in {"request", "write", "record", "manifest"}

\* The day being fetched is one of the job and not to be skipped; the job began it
\* no earlier than the one that wrote its file.
DayInv ==
  /\ \A d \in Days : begun[d] <= today
  /\ Working =>
       /\ day <= job.last /\ started <= today
       /\ ~Skip(day)
       /\ begun[day] <= started

DayOK == TypeOK /\ DayInv

\* The notices the job has asked for so far: those of the types before, and of the
\* type it is at those up to the cursor.
UpTo(n, i, key) ==
  \E k \in DOMAIN NoticeTypes : n.type = NoticeTypes[k] /\ (k < i \/ (k = i /\ n.key <= key))
Asked(n) == pc = "write" \/ UpTo(n, type, after)

\* The job has each notice once, and if the day was over when it began, every
\* notice it has asked for.
GotInv ==
  pc \in {"request", "write"} =>
    /\ NoRepeats(got)
    /\ \A n \in ToSet(got) : n.window = day /\ Asked(n)
    /\ started > day /\ AllIds(day) =>
         \A n \in published : n.window = day /\ Asked(n) => n \in ToSet(got)

\* A file made of such a fetch is complete, and stays so: whoever overwrites it began
\* later.  Torn files apart, a file is what a job that began when begun says vouches for.
Vouched(d) == raw[d] \notin {NoFile, Torn} /\ begun[d] > d /\ AllIds(d) => Complete(d)
FileInv ==
  /\ \A d \in Days : manifest[d] # NoManifest => raw[d] # NoFile
  /\ \A d \in Days : Vouched(d)
  /\ \A d \in Days : runs[d] # NoRun => raw[d] # NoFile /\ runs[d].started <= begun[d]
  /\ pc \in {"record", "manifest"} => raw[day] # NoFile /\ begun[day] = started

IInv == DayOK /\ GotInv /\ FileHasDistinctNotices /\ FileInv

-----------------------------------------------------------------------------
(* Pages, and the notices of a day.                                        *)

LEMMA NoticesAreRecords ==
  /\ \A n \in Notices : /\ n.type \in ToSet(NoticeTypes) /\ n.key \in Nat \ {0}
                        /\ n.hasId \in BOOLEAN /\ n.window \in Days /\ n.prefix \in Days
  /\ \A m, n \in Notices : m.type = n.type /\ m.key = n.key => m = n
  /\ PageSize \in Nat \ {0} /\ MaxRetries \in Nat \ {0} /\ LastDay \in Nat \ {0}
BY ConstantsAssumption DEF Notice

\* A page has the next notices in the order of their keys: all up to its last one,
\* and all there are if it is not full.
Rest(t, d, key) == {n \in published : n.type = t /\ n.window = d /\ n.key > key}

LEMMA PageIsNext ==
  ASSUME published \subseteq Notices, NEW t, NEW d, NEW key \in Nat
  PROVE  LET page == Page(t, d, key)
             rest == Rest(t, d, key) IN
           /\ page \in Seq(Notices) /\ NoRepeats(page) /\ ToSet(page) \subseteq rest
           /\ Len(page) < PageSize => ToSet(page) = rest
           /\ Len(page) >= PageSize =>
                /\ Last(page) \in rest
                /\ \A n \in rest : n \in ToSet(page) <=> n.key <= Last(page).key
<1> DEFINE page == Page(t, d, key)
           rest == Rest(t, d, key)
           keys == {n.key : n \in rest}
           order == InOrder(keys)
           size == IF Len(order) < PageSize THEN Len(order) ELSE PageSize
<1>1. /\ \A n \in rest : n \in Notices /\ n.key \in Nat
      /\ \A m, n \in rest : m.key = n.key => m = n
      /\ IsFiniteSet(rest) /\ rest \in SUBSET Notices
  <2>1. rest \in SUBSET Notices
    BY DEF Rest
  <2>2. IsFiniteSet(rest)
    BY <2>1, ConstantsAssumption, FS_Subset, Zenon
  <2> QED
    BY <2>1, <2>2, NoticesAreRecords DEF Rest
<1>2. keys \in SUBSET Int /\ IsFiniteSet(keys)
  <2>1. keys \in SUBSET Int
    BY <1>1
  <2>2. [n \in rest |-> n.key] \in Surjection(rest, keys)
    BY DEF Surjection
  <2> QED
    BY <1>1, <2>1, <2>2, FS_Surjection, Zenon
<1> DEFINE m == Cardinality(keys)
<1>3. /\ order \in Seq(keys) /\ NoRepeats(order) /\ ToSet(order) = keys
      /\ DOMAIN order = 1 .. m /\ m \in Nat /\ Len(order) = m
      /\ \A i, j \in 1 .. m : i < j => order[i] < order[j]
  <2> HIDE DEF keys
  <2>1. /\ order \in Seq(keys) /\ NoRepeats(order) /\ ToSet(order) = keys
        /\ DOMAIN order = 1 .. m /\ m \in Nat
        /\ \A i, j \in DOMAIN order : i < j => order[i] < order[j]
    BY <1>2, InOrderListsEach
  <2> HIDE DEF order, m
  <2> QED
    BY <2>1, LenProperties
<1> HIDE DEF keys, order, m
<1>4. size \in 0 .. m /\ size = (IF m < PageSize THEN m ELSE PageSize) /\ size \in Nat
  BY <1>3, NoticesAreRecords
<1>5. page = [i \in 1 .. size |-> CHOOSE n \in rest : n.key = order[i]]
  BY DEF Page, Rest, keys, order
<1> HIDE DEF page, rest, size
<1>6. \A i \in 1 .. m : order[i] \in keys /\ \E n \in rest : n.key = order[i]
  <2>1. \A i \in 1 .. m : order[i] \in keys
    BY <1>3, ElementOfSeq
  <2> QED
    BY <2>1 DEF keys
<1>7. \A i \in 1 .. size : i \in 1 .. m /\ page[i] \in rest /\ page[i].key = order[i]
  <2>1. \A i \in 1 .. size : i \in 1 .. m
    BY <1>3, <1>4
  <2>2. \A i \in 1 .. size : page[i] = CHOOSE n \in rest : n.key = order[i]
    BY <1>5
  <2> QED
    BY <1>6, <2>1, <2>2, Zenon
<1>8. page \in Seq(Notices) /\ Len(page) = size /\ DOMAIN page = 1 .. size
  <2>1. page \in [1 .. size -> Notices]
    BY <1>1, <1>5, <1>7
  <2> QED
    BY <1>4, <1>5, <2>1, LenProperties
<1>9. NoRepeats(page)
  BY <1>3, <1>7, <1>8 DEF NoRepeats
<1>10. ToSet(page) = {page[i] : i \in 1 .. size} /\ ToSet(page) \subseteq rest
  BY <1>7, <1>8 DEF ToSet
<1>11. ASSUME NEW n \in rest PROVE \E i \in 1 .. m : n.key = order[i]
  <2>1. n.key \in ToSet(order)
    BY <1>3, <1>11 DEF keys
  <2> QED
    BY <1>3, <2>1 DEF ToSet
<1>12. ASSUME NEW n \in rest, NEW i \in 1 .. size, n.key = order[i] PROVE n \in ToSet(page)
  BY <1>1, <1>7, <1>10, <1>12
<1>13. Len(page) < PageSize => ToSet(page) = rest
  BY <1>4, <1>8, <1>10, <1>11, <1>12
<1>14. ASSUME Len(page) >= PageSize
       PROVE  /\ Last(page) \in rest
              /\ \A n \in rest : n \in ToSet(page) <=> n.key <= Last(page).key
  <2>1. size \in 1 .. m /\ size \in 1 .. size
    BY <1>4, <1>8, <1>14, NoticesAreRecords
  <2>2. Last(page) = page[size] /\ Last(page) \in rest /\ Last(page).key = order[size]
    BY <1>7, <1>8, <2>1 DEF Last
  <2>3. \A i \in 1 .. m : i <= size <=> order[i] <= order[size]
    <3>1. \A i \in 1 .. m : order[i] \in Int
      BY <1>2, <1>6
    <3> QED
      BY <1>3, <2>1, <3>1
  <2>4. ASSUME NEW n \in rest, n.key <= Last(page).key PROVE n \in ToSet(page)
    <3>1. PICK i \in 1 .. m : n.key = order[i]
      BY <1>11, <2>4
    <3>2. i \in 1 .. size
      BY <2>1, <2>2, <2>3, <2>4, <3>1
    <3> QED
      BY <1>12, <2>4, <3>1, <3>2
  <2>5. ASSUME NEW n \in ToSet(page) PROVE n.key <= Last(page).key
    <3>1. PICK i \in 1 .. size : n = page[i]
      BY <1>10, <2>5
    <3> QED
      BY <1>4, <1>7, <2>1, <2>2, <2>3, <3>1
  <2> QED
    BY <2>2, <2>4, <2>5
<1> QED
  BY <1>8, <1>9, <1>10, <1>13, <1>14 DEF page, rest

\* The deduplication keeps the first notice of each objectId, and every notice that
\* has none.
LEMMA FilteredAndDistinct ==
  ASSUME NEW s \in Seq(Notices), NEW d
  PROVE  LET f == FilterAndDedup(s, d) IN
           /\ f \in Seq(Notices)
           /\ NoRepeats(s) =>
                \A i, j \in DOMAIN f : i # j => f[i] # f[j] /\ ~SameId(f[i], f[j])
           /\ \A n \in ToSet(f) : n \in ToSet(s) /\ n.prefix = d
           /\ \A n \in ToSet(s) : n.prefix = d => \E m \in ToSet(f) : m = n \/ SameId(m, n)
<1> DEFINE f == FilterAndDedup(s, d)
           filtered == {i \in DOMAIN s : s[i].prefix = d}
           first == {i \in filtered : \A j \in filtered : j < i => ~SameId(s[j], s[i])}
           order == InOrder(first)
<1>1. DOMAIN s = 1 .. Len(s) /\ Len(s) \in Nat /\ \A i \in DOMAIN s : s[i] \in Notices
  BY LenProperties, ElementOfSeq
<1>2. IsFiniteSet(DOMAIN s) /\ DOMAIN s \in SUBSET Int
  BY <1>1, FS_Interval
<1>3. first \in SUBSET Int /\ IsFiniteSet(first) /\ first \subseteq DOMAIN s
  <2>1. first \in SUBSET DOMAIN s
    OBVIOUS
  <2> QED
    BY <1>2, <2>1, FS_Subset, Zenon
<1>4. /\ order \in Seq(first) /\ NoRepeats(order) /\ ToSet(order) = first
      /\ Len(order) \in Nat /\ DOMAIN order = 1 .. Len(order)
      /\ \A k \in DOMAIN order : order[k] \in first
  <2> HIDE DEF first
  <2>1. order \in Seq(first) /\ NoRepeats(order) /\ ToSet(order) = first
    BY <1>3, InOrderListsEach
  <2> HIDE DEF order
  <2> QED
    BY <2>1, LenProperties, ElementOfSeq
<1>5. f = [k \in DOMAIN order |-> s[order[k]]]
  BY DEF FilterAndDedup
<1> HIDE DEF f, order
<1>6. \A k \in DOMAIN f : k \in DOMAIN order /\ f[k] = s[order[k]] /\ order[k] \in first
  BY <1>4, <1>5
<1>7. f \in Seq(Notices)
  <2>1. \A k \in 1 .. Len(order) : s[order[k]] \in Notices
    BY <1>1, <1>3, <1>4
  <2>2. f \in [1 .. Len(order) -> Notices]
    BY <1>4, <1>5, <2>1
  <2> QED
    BY <1>4, <1>5, <2>2
<1>8. \A i, j \in first : s[i].hasId /\ s[j].hasId /\ s[i].key = s[j].key => i = j
  <2> SUFFICES ASSUME NEW i \in first, NEW j \in first,
                      s[i].hasId, s[j].hasId, s[i].key = s[j].key, i # j
               PROVE  FALSE
    OBVIOUS
  <2>1. i \in Int /\ j \in Int /\ i \in filtered /\ j \in filtered
    BY <1>2
  <2>2. i < j \/ j < i
    BY <2>1
  <2> QED
    BY <2>1, <2>2 DEF SameId
<1>9. ASSUME NoRepeats(s), NEW i \in DOMAIN f, NEW j \in DOMAIN f, i # j
      PROVE  f[i] # f[j] /\ ~SameId(f[i], f[j])
  <2>1. /\ order[i] # order[j] /\ order[i] \in first /\ order[j] \in first
        /\ f[i] = s[order[i]] /\ f[j] = s[order[j]]
    BY <1>4, <1>6, <1>9 DEF NoRepeats
  <2>2. s[order[i]] # s[order[j]]
    BY <1>3, <1>9, <2>1 DEF NoRepeats
  <2> QED
    BY <1>8, <2>1, <2>2 DEF SameId
<1>10. ASSUME NEW n \in ToSet(f) PROVE n \in ToSet(s) /\ n.prefix = d
  <2>1. PICK k \in DOMAIN f : n = f[k]
    BY <1>10 DEF ToSet
  <2>2. n = s[order[k]] /\ order[k] \in first
    BY <1>6, <2>1
  <2> QED
    BY <1>3, <2>2 DEF ToSet
<1>11. \A i \in first : s[i] \in ToSet(f)
  <2> SUFFICES ASSUME NEW i \in first PROVE s[i] \in ToSet(f)
    OBVIOUS
  <2>1. PICK k \in DOMAIN order : order[k] = i
    BY <1>4 DEF ToSet
  <2>2. k \in DOMAIN f /\ f[k] = s[i]
    BY <1>5, <2>1
  <2> QED
    BY <2>2 DEF ToSet
<1>12. ASSUME NEW n \in ToSet(s), n.prefix = d PROVE \E m \in ToSet(f) : m = n \/ SameId(m, n)
  <2>1. PICK i \in DOMAIN s : n = s[i]
    BY <1>12 DEF ToSet
  <2> DEFINE same == {j \in filtered : j = i \/ SameId(s[j], s[i])}
  <2>2. same \in SUBSET DOMAIN s /\ i \in same
    BY <1>12, <2>1
  <2>3. same \in SUBSET Int /\ IsFiniteSet(same) /\ same # {}
    BY <1>2, <2>2, FS_Subset, Zenon
  <2>4. PICK k \in same : \A j \in same : k <= j
    <3> HIDE DEF same
    <3> QED
      BY <2>3, SmallestOfNumbers
  <2>5. k \in first
    <3> SUFFICES ASSUME NEW j \in filtered, j < k, SameId(s[j], s[k]) PROVE FALSE
      BY <2>4
    <3>1. j \in same
      BY <2>4 DEF SameId
    <3> QED
      BY <1>2, <2>3, <2>4, <3>1
  <2> QED
    BY <1>11, <2>1, <2>4, <2>5
<1> QED
  BY <1>7, <1>9, <1>10, <1>12 DEF f

-----------------------------------------------------------------------------
(* Types and the day of the job.                                           *)

LEMMA TypesAreListed ==
  /\ NoticeTypes \in Seq(ToSet(NoticeTypes)) /\ Len(NoticeTypes) \in Nat \ {0}
  /\ DOMAIN NoticeTypes = 1 .. Len(NoticeTypes) /\ 1 \in DOMAIN NoticeTypes
<1>1. NoticeTypes \in Seq(ToSet(NoticeTypes)) /\ NoticeTypes # <<>>
  BY ConstantsAssumption
<1>2. Len(NoticeTypes) \in Nat \ {0} /\ DOMAIN NoticeTypes = 1 .. Len(NoticeTypes)
  BY <1>1, EmptySeq, LenProperties
<1> QED
  BY <1>1, <1>2

\* A job that is not running remembers nothing.
LEMMA NoMemoryIsTyped ==
  ASSUME TypeOK, NoMemory, UNCHANGED <<world, stores>>
  PROVE  TypeOK'
<1>1. job' \in [script : Hashes, last : Days, force : BOOLEAN]
  BY NoticesAreRecords DEF NoMemory, NoJob, Hashes, Days
<1>2. /\ day' \in 1 .. LastDay + 1 /\ started' \in 1 .. LastDay + 1 /\ attempt' \in 0 .. MaxRetries - 1
      /\ type' \in DOMAIN NoticeTypes
  BY NoticesAreRecords, TypesAreListed DEF NoMemory
<1>3. got' \in Seq(Notices)
  BY EmptySeq DEF NoMemory
<1> QED
  BY <1>1, <1>2, <1>3 DEF TypeOK, NoMemory, world, stores

LEMMA InitDayOK == Init => DayOK
<1> SUFFICES ASSUME Init PROVE DayOK
  OBVIOUS
<1>1. job \in [script : Hashes, last : Days, force : BOOLEAN]
  BY NoticesAreRecords DEF Init, NoJob, Hashes, Days
<1>2. /\ day \in 1 .. LastDay + 1 /\ started \in 1 .. LastDay + 1 /\ attempt \in 0 .. MaxRetries - 1
      /\ type \in DOMAIN NoticeTypes /\ today \in 1 .. LastDay + 1
  BY NoticesAreRecords, TypesAreListed DEF Init
<1>3. got \in Seq(Notices) /\ published \subseteq Notices
  BY EmptySeq, ConstantsAssumption DEF Init
<1>4. /\ raw \in [Days -> Seq(Notices) \cup {NoFile, Torn}] /\ runs \in [Days -> Run \cup {NoRun}]
      /\ manifest \in [Days -> Manifest] /\ begun \in [Days -> 1 .. LastDay + 1]
  BY NoticesAreRecords DEF Init, Manifest
<1>5. TypeOK
  BY <1>1, <1>2, <1>3, <1>4 DEF TypeOK, Init
<1>6. DayInv
  BY DEF Init, DayInv, Working
<1> QED
  BY <1>5, <1>6 DEF DayOK

LEMMA DayOKInductive ==
  ASSUME DayOK, [Next]_vars
  PROVE  DayOK'
<1>1. TypeOK /\ DayInv /\ LastDay \in Nat \ {0} /\ Days = 1 .. LastDay
  BY NoticesAreRecords DEF DayOK, Days
<1>2. /\ \A d \in Days : begun[d] \in 1 .. LastDay + 1
      /\ today \in 1 .. LastDay + 1 /\ day \in 1 .. LastDay + 1 /\ job.last \in Days
  BY <1>1 DEF TypeOK
<1>3. CASE NoMemory /\ UNCHANGED <<world, stores>>
  <2>1. TypeOK'
    BY <1>1, <1>3, NoMemoryIsTyped
  <2>2. DayInv'
    BY <1>1, <1>3 DEF DayInv, Working, NoMemory, world, stores
  <2> QED
    BY <2>1, <2>2 DEF DayOK
<1>4. ASSUME NEW n \in Notices, Publish(n) PROVE DayOK'
  BY <1>1, <1>4 DEF Publish, DayOK, TypeOK, DayInv, Working, Skip, stores, memory
<1>5. CASE Midnight
  <2>1. today' = today + 1 /\ today' \in 1 .. LastDay + 1 /\ started \in 1 .. LastDay + 1
    BY <1>1, <1>2, <1>5 DEF Midnight, TypeOK
  <2>2. TypeOK'
    BY <1>1, <1>5, <2>1 DEF Midnight, TypeOK, stores, memory
  <2>3. (\A d \in Days : begun[d] <= today + 1)
        /\ (started <= today => started <= today + 1)
    BY <1>1, <1>2, <2>1 DEF DayInv
  <2>4. DayInv'
    BY <1>1, <1>5, <2>1, <2>3 DEF Midnight, DayInv, Working, Skip, stores, memory
  <2> QED
    BY <2>2, <2>4 DEF DayOK
<1>6. ASSUME NEW script \in Hashes, NEW first \in Days, NEW last \in Days, NEW force \in BOOLEAN,
             Start(script, first, last, force)
      PROVE  DayOK'
  <2>1. job' \in [script : Hashes, last : Days, force : BOOLEAN] /\ day' \in 1 .. LastDay + 1
    BY <1>1, <1>6 DEF Start
  <2>2. TypeOK'
    BY <1>1, <1>6, <2>1 DEF Start, TypeOK, world, stores
  <2>3. DayInv'
    BY <1>1, <1>6 DEF Start, DayInv, Working, world, stores
  <2> QED
    BY <2>2, <2>3 DEF DayOK
<1>7. CASE SkipDay
  <2>1. day' \in 1 .. LastDay + 1
    BY <1>1, <1>2, <1>7 DEF SkipDay, EndOfDays
  <2>2. TypeOK'
    BY <1>1, <1>7, <2>1 DEF SkipDay, TypeOK, world, stores
  <2>3. DayInv'
    BY <1>1, <1>7 DEF SkipDay, DayInv, Working, world, stores
  <2> QED
    BY <2>2, <2>3 DEF DayOK
<1>8. CASE BeginDay
  <2>1. day <= job.last /\ day \in Days /\ ~Skip(day)
    BY <1>1, <1>2, <1>8 DEF BeginDay, EndOfDays
  <2>2. attempt' \in 0 .. MaxRetries - 1 /\ type' \in DOMAIN NoticeTypes /\ got' \in Seq(Notices)
    BY <1>8, NoticesAreRecords, TypesAreListed, EmptySeq DEF BeginDay
  <2>3. TypeOK'
    BY <1>1, <1>8, <2>2 DEF BeginDay, TypeOK, world, stores
  <2>4. DayInv'
    BY <1>1, <1>2, <1>8, <2>1 DEF BeginDay, DayInv, Working, Skip, world, stores
  <2> QED
    BY <2>3, <2>4 DEF DayOK
<1>9. CASE TransientError
  <2> SUFFICES ASSUME attempt # MaxRetries - 1 PROVE DayOK'
    BY <1>3, <1>9 DEF TransientError
  <2>1. attempt' \in 0 .. MaxRetries - 1
    BY <1>1, <1>9, NoticesAreRecords DEF TransientError, TypeOK
  <2>2. TypeOK'
    BY <1>1, <1>9, <2>1 DEF TransientError, TypeOK, world, stores
  <2>3. DayInv'
    BY <1>1, <1>9 DEF TransientError, DayInv, Working, Skip, world, stores
  <2> QED
    BY <2>2, <2>3 DEF DayOK
<1>10. CASE ReceivePage
  <2> DEFINE page == Page(NoticeTypes[type], day, after)
  <2>1. published \subseteq Notices /\ after \in Nat /\ got \in Seq(Notices) /\ type \in DOMAIN NoticeTypes
    BY <1>1, NoticesAreRecords DEF TypeOK
  <2>2. /\ page \in Seq(Notices)
        /\ Len(page) >= PageSize => Last(page) \in Notices
    BY <2>1, PageIsNext DEF Rest
  <2> HIDE DEF page
  <2>3. got' = got \o page /\ attempt' = 0 /\ UNCHANGED <<world, stores, job, day, started>>
    BY <1>10 DEF ReceivePage, page
  <2>4. got' \in Seq(Notices) /\ attempt' \in 0 .. MaxRetries - 1
    BY <2>1, <2>2, <2>3, ConcatProperties, NoticesAreRecords
  <2>5. /\ pc' \in {"request", "write"} /\ type' \in DOMAIN NoticeTypes
        /\ after' \in {0} \cup {n.key : n \in Notices}
    <3>1. CASE LastPage(page)
      <4>1. NextType
        BY <1>10, <3>1 DEF ReceivePage, page
      <4> QED
        BY <1>10, <2>1, <4>1, TypesAreListed DEF NextType, ReceivePage
    <3>2. CASE ~LastPage(page)
      <4>1. after' = Last(page).key /\ UNCHANGED <<pc, type>>
        BY <1>10, <3>2 DEF ReceivePage, page
      <4>2. Last(page) \in Notices
        <5>1. Len(page) \in Nat
          BY <2>2, LenProperties
        <5> QED
          BY <2>2, <3>2, <5>1, NoticesAreRecords DEF LastPage
      <4> QED
        BY <1>10, <2>1, <4>1, <4>2 DEF ReceivePage
    <3> QED
      BY <3>1, <3>2
  <2>6. TypeOK'
    BY <1>1, <2>3, <2>4, <2>5 DEF TypeOK, world, stores
  <2>7. DayInv'
    BY <1>1, <1>10, <2>3, <2>5 DEF ReceivePage, DayInv, Working, Skip, world, stores
  <2> QED
    BY <2>6, <2>7 DEF DayOK
<1>11. CASE WriteOutput
  <2>1. got' \in Seq(Notices) /\ type' \in DOMAIN NoticeTypes
    BY <1>11, TypesAreListed, EmptySeq DEF WriteOutput
  <2>2. raw' \in [Days -> Seq(Notices) \cup {NoFile, Torn}]
    <3>1. FilterAndDedup(got, day) \in Seq(Notices)
      BY <1>1, FilteredAndDistinct DEF TypeOK
    <3> QED
      BY <1>1, <1>11, <3>1 DEF WriteOutput, TypeOK
  <2>5. /\ day \in Days /\ started \in 1 .. LastDay + 1 /\ started <= today
        /\ begun' = [begun EXCEPT ![day] = started]
    BY <1>1, <1>2, <1>11 DEF WriteOutput, TypeOK, DayInv, Working
  <2>6. /\ begun' \in [Days -> 1 .. LastDay + 1]
        /\ begun'[day] = started /\ \A d \in Days \ {day} : begun'[d] = begun[d]
    BY <1>1, <2>5 DEF TypeOK
  <2>3. TypeOK'
    BY <1>1, <1>11, <2>1, <2>2, <2>6 DEF WriteOutput, TypeOK, world
  <2>7. \A d \in Days : begun'[d] <= today
    BY <1>1, <2>5, <2>6 DEF DayInv
  <2>4. DayInv'
    BY <1>1, <1>2, <1>11, <2>5, <2>6, <2>7 DEF WriteOutput, DayInv, Working, Skip, world
  <2> QED
    BY <2>3, <2>4 DEF DayOK
<1>15. CASE WriteTorn
  <2>1. raw' \in [Days -> Seq(Notices) \cup {NoFile, Torn}]
    BY <1>1, <1>15 DEF WriteTorn, TypeOK
  <2>2. job' \in [script : Hashes, last : Days, force : BOOLEAN]
    BY <1>15, NoticesAreRecords DEF WriteTorn, NoMemory, NoJob, Hashes, Days
  <2>3. /\ day' \in 1 .. LastDay + 1 /\ started' \in 1 .. LastDay + 1 /\ attempt' \in 0 .. MaxRetries - 1
        /\ type' \in DOMAIN NoticeTypes /\ got' \in Seq(Notices)
    BY <1>15, NoticesAreRecords, TypesAreListed, EmptySeq DEF WriteTorn, NoMemory
  <2>4. TypeOK'
    BY <1>1, <1>15, <2>1, <2>2, <2>3 DEF WriteTorn, TypeOK, NoMemory, world
  <2>5. DayInv'
    BY <1>1, <1>15 DEF WriteTorn, DayInv, Working, NoMemory, world
  <2> QED
    BY <2>4, <2>5 DEF DayOK
<1>12. ASSUME NEW stored \in BOOLEAN, WritePipelineRun(stored) PROVE DayOK'
  <2>1. day \in Days /\ [started |-> started] \in Run
    BY <1>1, <1>2, <1>12 DEF WritePipelineRun, TypeOK, DayInv, Working, Run
  <2>2. runs' \in [Days -> Run \cup {NoRun}]
    BY <1>1, <1>12, <2>1 DEF WritePipelineRun, TypeOK
  <2>3. TypeOK'
    BY <1>1, <1>12, <2>2 DEF WritePipelineRun, TypeOK, world
  <2>5. DayInv'
    BY <1>1, <1>2, <1>12 DEF WritePipelineRun, DayInv, Working, Skip, world
  <2> QED
    BY <2>3, <2>5 DEF DayOK
<1>13. CASE WriteManifest
  <2>1. day \in Days /\ day' \in 1 .. LastDay + 1 /\ started' \in 1 .. LastDay + 1
    BY <1>1, <1>2, <1>13 DEF WriteManifest, DayInv, Working
  <2>2. manifest' \in [Days -> Manifest]
    <3>1. [script |-> job.script, deps |-> NoDeps] \in Manifest
      BY <1>1 DEF TypeOK, Manifest
    <3> QED
      BY <1>1, <1>13, <2>1, <3>1 DEF WriteManifest, WriteProcessedManifest, TypeOK
  <2>3. TypeOK'
    BY <1>1, <1>13, <2>1, <2>2 DEF WriteManifest, TypeOK, world
  <2>4. DayInv'
    BY <1>1, <1>13 DEF WriteManifest, DayInv, Working, world
  <2> QED
    BY <2>3, <2>4 DEF DayOK
<1>14. CASE UNCHANGED vars
  BY <1>1, <1>14 DEF vars, world, stores, memory, DayOK, TypeOK, DayInv, Working, Skip
<1> QED
  BY <1>3, <1>4, <1>5, <1>6, <1>7, <1>8, <1>9, <1>10, <1>11, <1>12, <1>13, <1>14, <1>15, Zenon
     DEF Next, Step, Crash, PermanentError, Exit, StartRange, StartDay, Hashes

-----------------------------------------------------------------------------
(* What the job has got.                                                   *)

LEMMA UpToNext ==
  ASSUME NEW n \in Notices, NEW i \in DOMAIN NoticeTypes, NEW a \in Nat
  PROVE  /\ UpTo(n, i, a) /\ n.type = NoticeTypes[i] => n.key <= a
         /\ UpTo(n, i + 1, 0) <=> UpTo(n, i, a) \/ (n.type = NoticeTypes[i] /\ n.key > a)
         /\ \A b \in Nat : b >= a =>
              (UpTo(n, i, b) <=>
                 UpTo(n, i, a) \/ (n.type = NoticeTypes[i] /\ n.key > a /\ n.key <= b))
         /\ i = Len(NoticeTypes) => UpTo(n, i + 1, 0)
<1>1. /\ n.key \in Nat \ {0} /\ n.type \in ToSet(NoticeTypes) /\ DOMAIN NoticeTypes = 1 .. Len(NoticeTypes)
      /\ Len(NoticeTypes) \in Nat
      /\ \A k, l \in DOMAIN NoticeTypes : NoticeTypes[k] = NoticeTypes[l] => k = l
  BY NoticesAreRecords, TypesAreListed, ConstantsAssumption
<1>2. PICK k \in DOMAIN NoticeTypes : n.type = NoticeTypes[k]
  BY <1>1 DEF ToSet
<1>3. \A j, b \in Nat : UpTo(n, j, b) <=> k < j \/ (k = j /\ n.key <= b)
  BY <1>1, <1>2 DEF UpTo
<1>4. /\ UpTo(n, i, a) <=> k < i \/ (k = i /\ n.key <= a)
      /\ UpTo(n, i + 1, 0) <=> k <= i
      /\ \A b \in Nat : UpTo(n, i, b) <=> k < i \/ (k = i /\ n.key <= b)
  BY <1>1, <1>2, <1>3
<1>5. n.type = NoticeTypes[i] <=> k = i
  BY <1>1, <1>2
<1> HIDE DEF UpTo
<1> QED
  BY <1>1, <1>2, <1>4, <1>5

\* The steps that leave the job's memory alone: what comes in meanwhile is of days
\* that are not over.
LEMMA WorldKeepsGot ==
  ASSUME DayOK, GotInv, UNCHANGED memory,
         \A n \in published' \ published : n.window >= today,
         published \subseteq published'
  PROVE  GotInv'
<1> SUFFICES ASSUME pc \in {"request", "write"} PROVE GotInv'
  BY DEF GotInv, memory
<1>1. \A n : Asked(n)' <=> Asked(n)
  BY DEF Asked, UpTo, memory
<1>2. started <= today /\ started \in Int /\ today \in Int /\ day \in Int
  BY DEF DayOK, TypeOK, DayInv, Working
<1>3. \A n \in published' \ published : n.window >= today => (n.window = day => ~(started > day))
  BY <1>2
<1> QED
  BY <1>1, <1>3 DEF GotInv, memory, NoRepeats, ToSet

LEMMA ReceivePageKeepsGot ==
  ASSUME DayOK, GotInv, ReceivePage
  PROVE  GotInv'
<1> DEFINE page == Page(NoticeTypes[type], day, after)
           rest == Rest(NoticeTypes[type], day, after)
<1>1. /\ published \subseteq Notices /\ after \in Nat /\ got \in Seq(Notices)
      /\ type \in DOMAIN NoticeTypes /\ type \in Int
      /\ pc = "request" /\ UNCHANGED <<published, day, started>> /\ got' = got \o page
  BY NoticesAreRecords, TypesAreListed DEF DayOK, TypeOK, ReceivePage, world
<1>2. /\ NoRepeats(got)
      /\ \A n \in ToSet(got) : n \in Notices /\ n.window = day /\ UpTo(n, type, after)
      /\ started > day /\ AllIds(day) =>
           \A n \in published : n.window = day /\ UpTo(n, type, after) => n \in ToSet(got)
  <2>1. ToSet(got) \subseteq Notices
    BY <1>1, LenProperties DEF ToSet
  <2> QED
    BY <1>1, <2>1 DEF GotInv, Asked
<1>3. /\ page \in Seq(Notices) /\ NoRepeats(page) /\ ToSet(page) \subseteq rest
      /\ Len(page) < PageSize => ToSet(page) = rest
      /\ Len(page) >= PageSize =>
           /\ Last(page) \in rest
           /\ \A n \in rest : n \in ToSet(page) <=> n.key <= Last(page).key
      /\ Len(page) \in Nat
  <2>1. /\ page \in Seq(Notices) /\ NoRepeats(page) /\ ToSet(page) \subseteq rest
        /\ Len(page) < PageSize => ToSet(page) = rest
        /\ Len(page) >= PageSize =>
             /\ Last(page) \in rest
             /\ \A n \in rest : n \in ToSet(page) <=> n.key <= Last(page).key
    BY <1>1, PageIsNext
  <2> QED
    BY <2>1, LenProperties
<1>4. \A n : n \in rest <=> n \in published /\ n.type = NoticeTypes[type] /\ n.window = day /\ n.key > after
  BY DEF Rest
<1>5. LastPage(page) <=> Len(page) < PageSize \/ ~Last(page).hasId
  BY DEF LastPage
<1>6. IF LastPage(page) THEN NextType ELSE after' = Last(page).key /\ UNCHANGED <<pc, type>>
  BY DEF ReceivePage
<1> HIDE DEF page, rest
<1>7. NoRepeats(got') /\ ToSet(got') = ToSet(got) \cup ToSet(page)
  <2>1. ASSUME NEW n \in ToSet(got), n \in rest PROVE FALSE
    <3>1. n \in Notices /\ n.type = NoticeTypes[type] /\ n.key > after /\ UpTo(n, type, after)
      BY <1>2, <1>4, <2>1
    <3>2. n.key <= after /\ n.key \in Nat
      BY <1>1, <3>1, UpToNext, NoticesAreRecords
    <3> QED
      BY <1>1, <3>1, <3>2
  <2>2. ToSet(got) \cap ToSet(page) = {}
    BY <1>3, <2>1
  <2> QED
    BY <1>1, <1>2, <1>3, <2>2, ConcatOfDistinct
\* The notices asked for now are those of before and those of the page, or more if
\* the last notice of a full page has no objectId.
<1>8. ASSUME NEW n \in Notices
      PROVE  /\ UpTo(n, type, after) => Asked(n)'
             /\ n \in ToSet(page) => Asked(n)'
             /\ /\ Len(page) < PageSize \/ ~LastPage(page)
                /\ n \in published /\ n.window = day /\ Asked(n)'
                => UpTo(n, type, after) \/ n \in ToSet(page)
  <2>1. CASE LastPage(page)
    <3>1. NextType
      BY <1>6, <2>1
    <3>2. Asked(n)' <=> UpTo(n, type + 1, 0)
      <4>1. CASE type = Len(NoticeTypes)
        BY <1>1, <3>1, <4>1, UpToNext DEF NextType, Asked
      <4>2. CASE type # Len(NoticeTypes)
        BY <1>1, <3>1, <4>2 DEF NextType, Asked, UpTo
      <4> QED
        BY <4>1, <4>2
    <3>3. Asked(n)' <=> UpTo(n, type, after) \/ (n.type = NoticeTypes[type] /\ n.key > after)
      BY <1>1, <1>8, <3>2, UpToNext
    <3> QED
      BY <1>3, <1>4, <2>1, <3>3
  <2>2. CASE ~LastPage(page)
    <3>1. Last(page) \in rest /\ after' = Last(page).key /\ UNCHANGED <<pc, type>>
      BY <1>3, <1>5, <1>6, <2>2, NoticesAreRecords
    <3>2. after' \in Nat /\ after' >= after
      BY <1>1, <1>4, <3>1, NoticesAreRecords
    <3>3. Asked(n)' <=> UpTo(n, type, after')
      BY <1>1, <3>1 DEF Asked, UpTo
    <3>4. Asked(n)' <=> UpTo(n, type, after)
                        \/ (n.type = NoticeTypes[type] /\ n.key > after /\ n.key <= after')
      BY <1>1, <1>8, <3>2, <3>3, UpToNext
    <3>5. Len(page) >= PageSize
      BY <1>3, <1>5, <2>2, NoticesAreRecords
    <3> QED
      BY <1>3, <1>4, <3>1, <3>4, <3>5
  <2> QED
    BY <2>1, <2>2
<1>9. ASSUME AllIds(day) PROVE Len(page) < PageSize \/ ~LastPage(page)
  <2> SUFFICES ASSUME Len(page) >= PageSize PROVE ~LastPage(page)
    BY <1>3, NoticesAreRecords
  <2>1. Last(page).hasId
    BY <1>1, <1>3, <1>4, <1>9 DEF AllIds
  <2> QED
    BY <1>3, <1>5, <2>1, NoticesAreRecords
<1>10. \A n \in ToSet(got') : n.window = day' /\ Asked(n)'
  BY <1>1, <1>2, <1>3, <1>4, <1>7, <1>8
<1>11. ASSUME started' > day', AllIds(day')
       PROVE  \A n \in published' : n.window = day' /\ Asked(n)' => n \in ToSet(got')
  BY <1>1, <1>2, <1>7, <1>8, <1>9, <1>11
<1> QED
  BY <1>7, <1>10, <1>11 DEF GotInv, AllIds

LEMMA GotInvInductive ==
  ASSUME DayOK, DayOK', GotInv, [Next]_vars
  PROVE  GotInv'
<1>1. ASSUME NEW n \in Notices, Publish(n) PROVE GotInv'
  BY <1>1, WorldKeepsGot DEF Publish
<1>2. CASE Midnight \/ UNCHANGED vars
  BY <1>2, WorldKeepsGot DEF Midnight, vars, world
<1>3. CASE BeginDay
  <2>1. pc' = "request" /\ got' = <<>> /\ type' = 1 /\ after' = 0 /\ published' = published
    BY <1>3 DEF BeginDay, world
  <2>2. \A n \in Notices : ~Asked(n)'
    BY <2>1, NoticesAreRecords, TypesAreListed DEF Asked, UpTo
  <2>3. NoRepeats(got') /\ ToSet(got') = {}
    BY <2>1 DEF NoRepeats, ToSet
  <2> QED
    BY <2>1, <2>2, <2>3 DEF GotInv, DayOK, TypeOK
<1>4. CASE TransientError /\ ~NoMemory
  <2>1. UNCHANGED <<published, pc, day, type, after, got, started>>
    BY <1>4 DEF TransientError, world
  <2> QED
    BY <2>1 DEF GotInv, Asked, UpTo, NoRepeats, ToSet
<1>5. CASE ReceivePage
  BY <1>5, ReceivePageKeepsGot
<1>6. CASE pc' \notin {"request", "write"}
  BY <1>6 DEF GotInv
<1>7. ASSUME Next PROVE \/ \E n \in Notices : Publish(n)
                        \/ Midnight \/ BeginDay \/ (TransientError /\ ~NoMemory) \/ ReceivePage
                        \/ pc' \notin {"request", "write"}
  BY <1>7 DEF Next, Step, Crash, WriteTorn, PermanentError, Exit, StartRange, StartDay, Start, SkipDay, NoMemory,
     WriteOutput, WritePipelineRun, WriteManifest
<1> QED
  BY <1>1, <1>2, <1>3, <1>4, <1>5, <1>6, <1>7

-----------------------------------------------------------------------------
(* The files.                                                              *)

LEMMA WriteOutputMakesFile ==
  ASSUME DayOK, GotInv, WriteOutput
  PROVE  LET f == FilterAndDedup(got, day) IN
           /\ day \in Days /\ raw' = [raw EXCEPT ![day] = f]
           /\ f \in Seq(Notices) /\ f \notin {NoFile, Torn}
           /\ \A i, j \in DOMAIN f : i # j => f[i] # f[j] /\ ~SameId(f[i], f[j])
           /\ \A n \in ToSet(f) : n.prefix = day /\ n.window = day
           /\ started > day /\ AllIds(day) =>
                \A n \in published : n.window = day /\ n.prefix = day =>
                  \E m \in ToSet(f) : m = n \/ SameId(m, n)
<1> DEFINE f == FilterAndDedup(got, day)
<1>1. pc = "write" /\ got \in Seq(Notices) /\ raw' = [raw EXCEPT ![day] = f]
  BY DEF DayOK, TypeOK, WriteOutput
<1>2. day \in Days
  BY <1>1, NoticesAreRecords DEF DayOK, TypeOK, DayInv, Working, Days
<1>3. /\ NoRepeats(got) /\ \A n \in ToSet(got) : n.window = day
      /\ started > day /\ AllIds(day) => \A n \in published : n.window = day => n \in ToSet(got)
  BY <1>1 DEF GotInv, Asked
<1>4. /\ f \in Seq(Notices)
      /\ NoRepeats(got) => \A i, j \in DOMAIN f : i # j => f[i] # f[j] /\ ~SameId(f[i], f[j])
      /\ \A n \in ToSet(f) : n \in ToSet(got) /\ n.prefix = day
      /\ \A n \in ToSet(got) : n.prefix = day => \E m \in ToSet(f) : m = n \/ SameId(m, n)
  BY <1>1, FilteredAndDistinct
<1> HIDE DEF f
<1>5. f \notin {NoFile, Torn}
  BY <1>4, ConstantsAssumption
<1> QED
  BY <1>1, <1>2, <1>3, <1>4, <1>5 DEF f

LEMMA FilesChangeByWriting ==
  ASSUME [Next]_vars
  PROVE  WriteOutput \/ (WriteTorn /\ begun' = begun) \/ (raw' = raw /\ begun' = begun)
BY DEF Next, Step, Publish, Midnight, Crash, PermanentError, Exit, StartRange, StartDay, Start, SkipDay,
   BeginDay, TransientError, ReceivePage, WriteTorn, WritePipelineRun, WriteManifest, vars, stores

LEMMA TornIsOfTheDay ==
  ASSUME DayOK, WriteTorn
  PROVE  /\ day \in Days /\ raw'[day] = Torn /\ \A d \in Days \ {day} : raw'[d] = raw[d]
         /\ ~Skip(day)
BY NoticesAreRecords DEF DayOK, TypeOK, DayInv, Working, Days, WriteTorn

LEMMA DistinctInductive ==
  ASSUME DayOK, GotInv, FileHasDistinctNotices, [Next]_vars
  PROVE  FileHasDistinctNotices'
<1>1. CASE raw' = raw
  BY <1>1 DEF FileHasDistinctNotices
<1>2. CASE WriteOutput
  <2> DEFINE f == FilterAndDedup(got, day)
  <2>1. /\ day \in Days /\ raw' = [raw EXCEPT ![day] = f]
        /\ \A i, j \in DOMAIN f : i # j => f[i] # f[j] /\ ~SameId(f[i], f[j])
        /\ \A n \in ToSet(f) : n.prefix = day /\ n.window = day
    BY <1>2, WriteOutputMakesFile
  <2> HIDE DEF f
  <2>2. raw'[day] = f /\ \A d \in Days \ {day} : raw'[d] = raw[d]
    BY <2>1 DEF DayOK, TypeOK
  <2> SUFFICES ASSUME NEW d \in Days, raw'[d] \notin {NoFile, Torn}
               PROVE  /\ \A i, j \in DOMAIN raw'[d] :
                           i # j => raw'[d][i] # raw'[d][j] /\ ~SameId(raw'[d][i], raw'[d][j])
                      /\ \A n \in ToSet(raw'[d]) : n.prefix = d /\ n.window = d
    BY DEF FileHasDistinctNotices
  <2>3. CASE d = day
    BY <2>1, <2>2, <2>3
  <2>4. CASE d # day
    BY <2>2, <2>4 DEF FileHasDistinctNotices
  <2> QED
    BY <2>3, <2>4
<1>3. CASE WriteTorn
  BY <1>3, TornIsOfTheDay DEF FileHasDistinctNotices
<1> QED
  BY <1>1, <1>2, <1>3, FilesChangeByWriting

\* Notices come in only of days that are not over.
LEMMA OverDaysAreClosed ==
  ASSUME DayOK, [Next]_vars, NEW d \in Days, today > d
  PROVE  \A n \in published' : n.window = d => n \in published
<1>1. today \in Int /\ d \in Int
  BY DEF DayOK, TypeOK, Days
<1>2. ASSUME NEW m \in Notices, Publish(m) PROVE \A n \in published' : n.window = d => n \in published
  BY <1>1, <1>2 DEF Publish
<1>3. CASE published' = published
  BY <1>3
<1> QED
  BY <1>2, <1>3 DEF Next, Step, Midnight, Crash, PermanentError, Exit, StartRange, StartDay, Start, SkipDay,
     BeginDay, TransientError, ReceivePage, WriteOutput, WriteTorn, WritePipelineRun, WriteManifest,
     vars, world

LEMMA VouchedIsKept ==
  ASSUME DayOK, [Next]_vars, NEW d \in Days, Vouched(d), raw'[d] = raw[d], begun'[d] = begun[d]
  PROVE  Vouched(d)'
<1> SUFFICES ASSUME raw[d] \notin {NoFile, Torn}, begun[d] > d, AllIds(d) PROVE Complete(d)'
  BY DEF Vouched, AllIds
<1>1. today > d
  BY DEF DayOK, DayInv, TypeOK, Days
<1>2. \A n \in published' : n.window = d => n \in published
  BY <1>1, OverDaysAreClosed
<1> QED
  BY <1>2 DEF Vouched, Complete, Kept

LEMMA AllVouched ==
  ASSUME DayOK, GotInv, \A d \in Days : Vouched(d), [Next]_vars
  PROVE  \A d \in Days : Vouched(d)'
<1>1. CASE raw' = raw /\ begun' = begun
  BY <1>1, VouchedIsKept
<1>2. CASE WriteOutput
  <2> DEFINE f == FilterAndDedup(got, day)
  <2>1. /\ day \in Days /\ raw' = [raw EXCEPT ![day] = f]
        /\ started > day /\ AllIds(day) =>
             \A n \in published : n.window = day /\ n.prefix = day =>
               \E m \in ToSet(f) : m = n \/ SameId(m, n)
    BY <1>2, WriteOutputMakesFile
  <2> HIDE DEF f
  <2>2. /\ raw'[day] = f /\ \A d \in Days \ {day} : raw'[d] = raw[d] /\ begun'[d] = begun[d]
        /\ begun'[day] = started /\ published' = published
    BY <1>2, <2>1 DEF WriteOutput, world, DayOK, TypeOK
  <2>5. ASSUME NEW d \in Days, d # day PROVE Vouched(d)'
    BY <2>2, <2>5, VouchedIsKept
  <2>6. ASSUME NEW d \in Days, d = day PROVE Vouched(d)'
    <3>1. SUFFICES ASSUME begun'[d] > d, AllIds(d) PROVE Complete(d)'
      BY DEF Vouched, AllIds
    <3>2. \A n \in published : n.window = d /\ n.prefix = d =>
            \E m \in ToSet(f) : m = n \/ SameId(m, n)
      BY <2>1, <2>2, <2>6, <3>1
    <3> QED
      BY <2>2, <2>6, <3>2 DEF Complete, Kept
  <2> QED
    BY <2>5, <2>6
<1>3. CASE WriteTorn /\ begun' = begun
  <2>1. /\ day \in Days /\ raw'[day] = Torn /\ \A d \in Days \ {day} : raw'[d] = raw[d]
    BY <1>3, TornIsOfTheDay
  <2>2. ASSUME NEW d \in Days PROVE Vouched(d)'
    <3>1. CASE d = day
      BY <2>1, <3>1 DEF Vouched
    <3>2. CASE d # day
      BY <1>3, <2>1, <3>2, VouchedIsKept
    <3> QED
      BY <3>1, <3>2
  <2> QED
    BY <2>2
<1> QED
  BY <1>1, <1>2, <1>3, FilesChangeByWriting

LEMMA FileInvInductive ==
  ASSUME DayOK, DayOK', GotInv, FileInv, [Next]_vars
  PROVE  FileInv'
<1>1. /\ \A d \in Days : begun[d] \in Int /\ begun[d] <= today
      /\ \A d \in Days : runs[d] # NoRun => runs[d].started \in Int
      /\ Working => day \in Days /\ started \in Int /\ begun[day] <= started
  <2>1. Working => day \in Days /\ started \in Int /\ begun[day] <= started
    BY NoticesAreRecords DEF DayOK, TypeOK, DayInv, Days
  <2>2. \A d \in Days : begun[d] \in Int /\ begun[d] <= today
    BY DEF DayOK, TypeOK, DayInv
  <2>3. \A d \in Days : runs[d] # NoRun => runs[d] \in Run
    BY DEF DayOK, TypeOK
  <2>4. \A x \in Run : x.started \in Int
    BY DEF Run
  <2> QED
    BY <2>1, <2>2, <2>3, <2>4
<1>2. /\ \A d \in Days : manifest[d] # NoManifest => raw[d] # NoFile
      /\ \A d \in Days : Vouched(d)
      /\ \A d \in Days : runs[d] # NoRun => raw[d] # NoFile /\ runs[d].started <= begun[d]
      /\ pc \in {"record", "manifest"} => raw[day] # NoFile /\ begun[day] = started
  BY DEF FileInv
<1>3. \A d \in Days : Vouched(d)'
  BY <1>2, AllVouched
<1>4. SUFFICES
        /\ \A d \in Days : manifest'[d] # NoManifest => raw'[d] # NoFile
        /\ \A d \in Days : runs'[d] # NoRun => raw'[d] # NoFile /\ runs'[d].started <= begun'[d]
        /\ pc' \in {"record", "manifest"} => raw'[day'] # NoFile /\ begun'[day'] = started'
  BY <1>3 DEF FileInv
<1>5. CASE WriteOutput
  <2> DEFINE f == FilterAndDedup(got, day)
  <2>1. day \in Days /\ raw' = [raw EXCEPT ![day] = f] /\ f # NoFile
    BY <1>5, WriteOutputMakesFile
  <2> HIDE DEF f
  <2>2. /\ raw'[day] # NoFile /\ \A d \in Days \ {day} : raw'[d] = raw[d] /\ begun'[d] = begun[d]
        /\ begun'[day] = started /\ UNCHANGED <<runs, manifest, day, started>> /\ Working
    BY <1>5, <2>1 DEF WriteOutput, Working, DayOK, TypeOK
  <2>3. runs[day] # NoRun => runs[day].started <= started
    BY <1>1, <1>2, <2>2
  <2> QED
    BY <1>2, <2>2, <2>3
<1>6. CASE WriteTorn
  <2>1. /\ \A d \in Days : raw[d] # NoFile => raw'[d] # NoFile
        /\ pc' = "idle" /\ UNCHANGED <<runs, manifest, begun>>
    BY <1>6, TornIsOfTheDay, ConstantsAssumption DEF WriteTorn, NoMemory
  <2> QED
    BY <1>2, <2>1
<1>7. CASE raw' = raw /\ begun' = begun
  <2>1. ASSUME NEW stored \in BOOLEAN, WritePipelineRun(stored)
        PROVE  FileInv'
    <3>1. /\ pc = "record" /\ UNCHANGED <<manifest, day, started>> /\ day \in Days
          /\ runs' = runs \/ runs' = [runs EXCEPT ![day] = [started |-> started]]
      BY <1>1, <2>1 DEF WritePipelineRun, Working
    <3>2. \A d \in Days : runs'[d] = runs[d] \/ (d = day /\ runs'[d].started = started)
      BY <3>1 DEF DayOK, TypeOK
    <3>3. \A d \in Days : runs'[d] # NoRun => raw'[d] # NoFile /\ runs'[d].started <= begun'[d]
      BY <1>1, <1>2, <1>7, <3>1, <3>2 DEF Working
    <3> QED
      BY <1>2, <1>3, <1>7, <3>1, <3>3 DEF FileInv
  <2>2. CASE WriteManifest
    <3>1. /\ pc = "manifest" /\ pc' = "day" /\ day \in Days /\ runs' = runs
          /\ \A d \in Days \ {day} : manifest'[d] = manifest[d]
      BY <1>1, <2>2 DEF WriteManifest, WriteProcessedManifest, Working, DayOK, TypeOK
    <3> QED
      BY <1>2, <1>7, <3>1
  <2>3. CASE /\ UNCHANGED <<runs, manifest>>
             /\ pc' \notin {"record", "manifest"} \/ UNCHANGED <<pc, day, started>>
    BY <1>2, <1>7, <2>3
  <2>4. \/ WriteOutput \/ WriteTorn \/ WriteManifest \/ \E stored \in BOOLEAN : WritePipelineRun(stored)
        \/ /\ UNCHANGED <<runs, manifest>>
           /\ pc' \notin {"record", "manifest"} \/ UNCHANGED <<pc, day, started>>
    BY DEF Next, Step, Publish, Midnight, Crash, PermanentError, Exit, StartRange, StartDay, Start, SkipDay,
       BeginDay, TransientError, ReceivePage, NextType, NoMemory, vars, stores, memory
  <2> QED
    BY <1>5, <1>6, <2>1, <2>2, <2>3, <2>4 DEF FileInv
<1> QED
  BY <1>5, <1>6, <1>7, FilesChangeByWriting

-----------------------------------------------------------------------------
(* The theorems.                                                           *)

LEMMA InitIInv == Init => IInv
<1> SUFFICES ASSUME Init PROVE GotInv /\ FileHasDistinctNotices /\ FileInv
  BY InitDayOK DEF IInv
<1>1. \A d \in Days : raw[d] = NoFile /\ runs[d] = NoRun /\ manifest[d] = NoManifest
  BY DEF Init
<1> QED
  BY <1>1 DEF Init, GotInv, FileHasDistinctNotices, FileInv, Vouched

LEMMA InvariantHolds == Spec => []IInv
<1>1. IInv /\ [Next]_vars => IInv'
  BY DayOKInductive, GotInvInductive, DistinctInductive, FileInvInductive DEF IInv
<1> QED
  BY <1>1, InitIInv, PTL DEF Spec

\* The variables always have their types: no request is tried more than _MAX_RETRIES
\* times (bzp_api.py:54-80) and the loop over days and types stays in its range.
THEOREM TypesAreCorrect == Spec => []TypeOK
<1>1. IInv => TypeOK
  BY DEF IInv, DayOK
<1> QED
  BY <1>1, InvariantHolds, PTL

\* No raw file has an objectId twice, nor a notice of another day, whatever the API
\* returned over all pages and types (bzp_api.py:148-172).
THEOREM FilesHaveDistinctNotices == Spec => []FileHasDistinctNotices
<1>1. IInv => FileHasDistinctNotices
  BY DEF IInv
<1> QED
  BY <1>1, InvariantHolds, PTL

\* A manifest vouches for its day: if the job that wrote the file began when the day was
\* over, and all notices of the day have objectIds, no notice is missing in the file,
\* through retries, crashes, re-fetches and notices that come in meanwhile
\* (fetch_bzp_range.py:114-171, bzp_api.py:83-172), unless a later job died while it wrote
\* the file; and a run record, where there is one, never names a later beginning.
THEOREM ManifestsVouchForDays == Spec => []ManifestVouchesForDay
<1>1. IInv => ManifestVouchesForDay
  BY DEF IInv, FileInv, Vouched, ManifestVouchesForDay
<1> QED
  BY <1>1, InvariantHolds, PTL

\* A day with a manifest of the script that runs is not fetched again without --force
\* (fetch_bzp_range.py:196-201): from the check to the write nothing changes it.
THEOREM MatchedDaysAreUntouched == Spec => MatchedDayUntouched
<1> DEFINE Matched(d) == ~job.force /\ IsScriptProcessed(manifest[d], job.script)
<1>1. ASSUME IInv, [Next]_vars, NEW d \in Days, Matched(d) PROVE raw'[d] = raw[d]
  <2>1. CASE WriteOutput
    <3>1. ~Skip(day)
      BY <1>1, <2>1 DEF IInv, DayOK, DayInv, Working, WriteOutput
    <3>2. d # day
      BY <1>1, <3>1 DEF Skip
    <3> QED
      BY <1>1, <2>1, <3>2 DEF WriteOutput, IInv, DayOK, TypeOK
  <2>2. CASE WriteTorn
    <3>1. ~Skip(day) /\ \A e \in Days \ {day} : raw'[e] = raw[e]
      BY <1>1, <2>2, TornIsOfTheDay DEF IInv
    <3>2. d # day
      BY <1>1, <3>1 DEF Skip
    <3> QED
      BY <3>1, <3>2
  <2> QED
    BY <1>1, <2>1, <2>2, FilesChangeByWriting
<1>2. IInv /\ [Next]_vars => [\A d \in Days : Matched(d) => raw'[d] = raw[d]]_vars
  BY <1>1
<1> QED
  BY <1>2, InvariantHolds, PTL DEF Spec, MatchedDayUntouched
=============================================================================
