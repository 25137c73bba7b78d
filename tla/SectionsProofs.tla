---------------------------- MODULE SectionsProofs ----------------------------
(***************************************************************************)
(* What is proved about Sections: that no value of a body is lost on the   *)
(* way to the tables, that the units of an entity keep the order of the    *)
(* body and are never empty, that the rows of children have parents, that  *)
(* no word of a change is lost, that durations agree with end dates, and   *)
(* that the parts of a body are the occurrences of its entities, for every *)
(* profile and every body.                                                 *)
(***************************************************************************)
EXTENDS Sections, ListProofs

(***************************************************************************)
(* Profiles.                                                               *)
(***************************************************************************)
CoreModel == <<"core", "core">>
EntityOf(k) == <<k[1], "core">>

LEMMA ModelsAreRight ==
  ASSUME NEW s \in Known
  PROVE  /\ s \in Numbers /\ s \in Nat \ {0}
         /\ Profile[s].model \in Models
         /\ Profile[s].model # CoreModel => Profile[s].model[1] \in Entities
<1>1. s \in Numbers /\ s \in Nat \ {0}
  BY ConstantsAssumption
<1>2. Profile[s].model \in Models
  BY DEF Models
<1>3. Profile[s].model \in STRING \X STRING
      /\ (Profile[s].model[1] = "core" => Profile[s].model[2] = "core")
  BY ConstantsAssumption
<1>4. Profile[s].model = <<Profile[s].model[1], Profile[s].model[2]>>
  BY <1>3
<1>5. ASSUME Profile[s].model # CoreModel PROVE Profile[s].model[1] # "core"
  BY <1>3, <1>4, <1>5 DEF CoreModel
<1> QED
  BY <1>1, <1>2, <1>5 DEF Entities

LEMMA PathsAreRight ==
  /\ Models \subseteq Paths
  /\ \A e \in Entities : <<e, "core">> \in Paths
  /\ \A k \in Paths : k = <<k[1], k[2]>>
  /\ \A k \in Paths : k[2] = "core" => k = EntityOf(k)
<1>1. \A m \in Models : m \in STRING \X STRING
  BY ConstantsAssumption DEF Models
<1>2. \A m \in Models : m = <<m[1], m[2]>>
  BY <1>1
<1>3. ASSUME NEW k \in Paths PROVE k = <<k[1], k[2]>>
  <2>1. CASE k \in Models
    BY <2>1, <1>2
  <2>2. CASE k \in {<<e, "core">> : e \in Entities}
    BY <2>2
  <2> QED
    BY <2>1, <2>2 DEF Paths
<1>4. \A k \in Paths : k[2] = "core" => k = EntityOf(k)
  BY <1>3 DEF EntityOf
<1> QED
  BY <1>3, <1>4 DEF Paths

(***************************************************************************)
(* Lists that are filled up to a place, and what is stored in them.        *)
(***************************************************************************)
OldSlot(list, i) == IF i <= Len(list) THEN list[i] ELSE NewSlot
OldUnit(kids, j) == IF j <= Len(kids) THEN kids[j] ELSE Blank

Padded(new, S, list, n, item) ==
  /\ new \in Seq(S) /\ Len(new) = n
  /\ \A x \in 1 .. Len(list) : new[x] = list[x]
  /\ n > Len(list) => new[n] = item

LEMMA PadFills ==
  ASSUME NEW S, NEW list \in Seq(S), NEW item \in S,
         NEW n \in Nat, n = Len(list) \/ n = Len(list) + 1
  PROVE  Padded(Pad(list, n, item), S, list, n, item)
<1> DEFINE more == [i \in 1 .. n - Len(list) |-> item]
<1>1. Len(list) \in Nat
  OBVIOUS
<1>2. more \in Seq(S) /\ Len(more) = n - Len(list)
  BY <1>1
<1> HIDE DEF more
<1>3. /\ list \o more \in Seq(S)
      /\ Len(list \o more) = n
      /\ \A x \in 1 .. n : (list \o more)[x] = IF x <= Len(list) THEN list[x] ELSE more[x - Len(list)]
  BY <1>1, <1>2
<1>4. n > Len(list) => more[1] = item
  BY <1>1 DEF more
<1>5. n > Len(list) => (list \o more)[n] = item
  BY <1>1, <1>3, <1>4
<1> QED
  BY <1>1, <1>3, <1>5 DEF Pad, Padded, more

LEMMA LastIsReplaced ==
  ASSUME NEW S, NEW list \in Seq(S), NEW i \in Nat \ {0}, Len(list) = i, NEW v \in S
  PROVE  /\ [list EXCEPT ![i] = v] \in Seq(S) /\ Len([list EXCEPT ![i] = v]) = i
         /\ [list EXCEPT ![i] = v][i] = v
         /\ \A x \in 1 .. i - 1 : [list EXCEPT ![i] = v][x] = list[x]
  OBVIOUS

LEMMA BlanksAreFields ==
  /\ Blank \in Fields /\ NewSlot \in Slot
  /\ \A s \in Known : Blank[s] = 0
  /\ \A k \in Paths : NewSlot.kids[k] = << >>
  /\ NewSlot.core = Blank
  BY DEF Blank, NewSlot, NoChildren, Fields, Slot

LEMMA PutIsField ==
  ASSUME NEW f \in Fields, NEW s \in Known, NEW p \in Nat
  PROVE  /\ Put(f, s, p) \in Fields
         /\ f[s] = 0 => Put(f, s, p) = [f EXCEPT ![s] = p]
  BY DEF Put, Fields

LEMMA SlotIsEnsured ==
  ASSUME NEW list \in Seq(Slot), NEW i \in Nat \ {0}, Len(list) = i \/ Len(list) = i - 1
  PROVE  /\ EnsureSlot(list, i - 1) \in Seq(Slot) /\ Len(EnsureSlot(list, i - 1)) = i
         /\ \A x \in 1 .. i - 1 : EnsureSlot(list, i - 1)[x] = list[x]
         /\ EnsureSlot(list, i - 1)[i] = OldSlot(list, i)
         /\ OldSlot(list, i) \in Slot
<1>1. Len(list) \in Nat /\ (i = Len(list) \/ i = Len(list) + 1)
  OBVIOUS
<1>2. EnsureSlot(list, i - 1) = Pad(list, i, NewSlot)
  BY DEF EnsureSlot
<1>3. i \in Nat /\ NewSlot \in Slot
  BY BlanksAreFields
<1>4. /\ Pad(list, i, NewSlot) \in Seq(Slot) /\ Len(Pad(list, i, NewSlot)) = i
      /\ \A x \in 1 .. Len(list) : Pad(list, i, NewSlot)[x] = list[x]
      /\ i > Len(list) => Pad(list, i, NewSlot)[i] = NewSlot
  <2>1. list \in Seq(Slot) /\ NewSlot \in Slot /\ i \in Nat /\ (i = Len(list) \/ i = Len(list) + 1)
    BY <1>1, <1>3
  <2>2. Padded(Pad(list, i, NewSlot), Slot, list, i, NewSlot)
    BY <2>1, PadFills, Zenon
  <2> QED
    BY <2>2 DEF Padded
<1>5. Pad(list, i, NewSlot)[i] = OldSlot(list, i)
  BY <1>1, <1>4 DEF OldSlot
<1>6. Pad(list, i, NewSlot)[i] \in Slot
  BY <1>4
<1> QED
  BY <1>1, <1>2, <1>4, <1>5, <1>6

LEMMA UnitIsPadded ==
  ASSUME NEW kids \in Seq(Fields), NEW j \in Nat \ {0}, Len(kids) = j \/ Len(kids) = j - 1
  PROVE  /\ Pad(kids, j, Blank) \in Seq(Fields) /\ Len(Pad(kids, j, Blank)) = j
         /\ \A x \in 1 .. j - 1 : Pad(kids, j, Blank)[x] = kids[x]
         /\ Pad(kids, j, Blank)[j] = OldUnit(kids, j)
         /\ OldUnit(kids, j) \in Fields
<1>1. Len(kids) \in Nat /\ (j = Len(kids) \/ j = Len(kids) + 1)
  OBVIOUS
<1>2. j \in Nat /\ Blank \in Fields
  BY BlanksAreFields
<1>3. /\ Pad(kids, j, Blank) \in Seq(Fields) /\ Len(Pad(kids, j, Blank)) = j
      /\ \A x \in 1 .. Len(kids) : Pad(kids, j, Blank)[x] = kids[x]
      /\ j > Len(kids) => Pad(kids, j, Blank)[j] = Blank
  <2>1. kids \in Seq(Fields) /\ Blank \in Fields /\ j \in Nat /\ (j = Len(kids) \/ j = Len(kids) + 1)
    BY <1>1, <1>2
  <2>2. Padded(Pad(kids, j, Blank), Fields, kids, j, Blank)
    BY <2>1, PadFills, Zenon
  <2> QED
    BY <2>2 DEF Padded
<1>4. Pad(kids, j, Blank)[j] = OldUnit(kids, j)
  BY <1>1, <1>3 DEF OldUnit
<1>5. Pad(kids, j, Blank)[j] \in Fields
  BY <1>3
<1> QED
  BY <1>1, <1>3, <1>4, <1>5

\* What StoreField makes of the list of an entity.
InCore(list, i, s, p) == [EnsureSlot(list, i - 1) EXCEPT ![i].core = Put(@, s, p)]
InChild(list, i, k, j, s, p) ==
  [EnsureSlot(list, i - 1) EXCEPT ![i].kids[k] =
     [Pad(EnsureSlot(list, i - 1)[i].kids[k], j, Blank) EXCEPT ![j] = Put(@, s, p)]]

WithCore(new, list, i, s, p) ==
  /\ new \in Seq(Slot) /\ Len(new) = i
  /\ \A x \in 1 .. i - 1 : new[x] = list[x]
  /\ new[i].core = Put(OldSlot(list, i).core, s, p)
  /\ new[i].kids = OldSlot(list, i).kids

LEMMA StoredInCore ==
  ASSUME NEW list \in Seq(Slot), NEW i \in Nat \ {0}, Len(list) = i \/ Len(list) = i - 1,
         NEW s \in Known, NEW p \in Nat
  PROVE  WithCore(InCore(list, i, s, p), list, i, s, p)
<1> DEFINE full == EnsureSlot(list, i - 1)
           old == OldSlot(list, i)
           slot == [old EXCEPT !.core = Put(@, s, p)]
           new == InCore(list, i, s, p)
<1>1. /\ full \in Seq(Slot) /\ Len(full) = i
      /\ \A x \in 1 .. i - 1 : full[x] = list[x]
      /\ full[i] = old /\ old \in Slot
  BY SlotIsEnsured
<1>2. new = [full EXCEPT ![i] = slot]
  BY <1>1 DEF InCore
<1> HIDE DEF full, old, new
<1>3. old.core \in Fields /\ old.kids \in [Paths -> Seq(Fields)]
  BY <1>1 DEF Slot
<1>4. Put(old.core, s, p) \in Fields
  BY <1>3, PutIsField
<1>5. slot \in Slot /\ slot.core = Put(old.core, s, p) /\ slot.kids = old.kids
  BY <1>1, <1>3, <1>4 DEF Slot
<1> HIDE DEF slot
<1>6. /\ new \in Seq(Slot) /\ Len(new) = i /\ new[i] = slot
      /\ \A x \in 1 .. i - 1 : new[x] = full[x]
  BY <1>1, <1>2, <1>5, LastIsReplaced
<1>7. \A x \in 1 .. i - 1 : new[x] = list[x]
  BY <1>1, <1>6
<1> QED
  BY <1>5, <1>6, <1>7 DEF new, old, WithCore

WithChild(new, list, i, k, j, s, p) ==
  LET old == OldSlot(list, i) IN
  /\ new \in Seq(Slot) /\ Len(new) = i
  /\ \A x \in 1 .. i - 1 : new[x] = list[x]
  /\ new[i].core = old.core
  /\ \A q \in Paths \ {k} : new[i].kids[q] = old.kids[q]
  /\ Len(new[i].kids[k]) = j
  /\ \A y \in 1 .. j - 1 : new[i].kids[k][y] = old.kids[k][y]
  /\ new[i].kids[k][j] = Put(OldUnit(old.kids[k], j), s, p)

LEMMA StoredInChild ==
  ASSUME NEW list \in Seq(Slot), NEW i \in Nat \ {0}, Len(list) = i \/ Len(list) = i - 1,
         NEW k \in Paths, NEW j \in Nat \ {0},
         Len(OldSlot(list, i).kids[k]) = j \/ Len(OldSlot(list, i).kids[k]) = j - 1,
         NEW s \in Known, NEW p \in Nat
  PROVE  WithChild(InChild(list, i, k, j, s, p), list, i, k, j, s, p)
<1> DEFINE full == EnsureSlot(list, i - 1)
           old == OldSlot(list, i)
           kids == old.kids[k]
           padded == Pad(kids, j, Blank)
           unit == Put(OldUnit(kids, j), s, p)
           units == [padded EXCEPT ![j] = unit]
           slot == [old EXCEPT !.kids[k] = units]
           new == InChild(list, i, k, j, s, p)
<1>1. /\ full \in Seq(Slot) /\ Len(full) = i
      /\ \A x \in 1 .. i - 1 : full[x] = list[x]
      /\ full[i] = old /\ old \in Slot
  BY SlotIsEnsured
<1>2. old.core \in Fields /\ old.kids \in [Paths -> Seq(Fields)]
  <2> HIDE DEF old
  <2> QED
    BY <1>1 DEF Slot
<1>3. /\ padded \in Seq(Fields) /\ Len(padded) = j
      /\ \A x \in 1 .. j - 1 : padded[x] = kids[x]
      /\ padded[j] = OldUnit(kids, j)
      /\ OldUnit(kids, j) \in Fields
  <2>1. kids \in Seq(Fields)
    BY <1>2
  <2>2. Len(kids) = j \/ Len(kids) = j - 1
    OBVIOUS
  <2> HIDE DEF kids
  <2> QED
    BY <2>1, <2>2, UnitIsPadded
<1>4. new = [full EXCEPT ![i] = slot]
  <2>1. [padded EXCEPT ![j] = Put(@, s, p)] = units
    BY <1>3
  <2>2. new = [full EXCEPT ![i].kids[k] = [padded EXCEPT ![j] = Put(@, s, p)]]
    BY <1>1 DEF InChild
  <2> HIDE DEF units, padded, full, old, new
  <2> QED
    BY <1>1, <2>1, <2>2
<1> HIDE DEF padded, full, new
<1>5. unit \in Fields
  BY <1>3, PutIsField
<1>6. /\ units \in Seq(Fields) /\ Len(units) = j /\ units[j] = unit
      /\ \A y \in 1 .. j - 1 : units[y] = padded[y]
  <2> HIDE DEF unit
  <2> QED
    BY <1>3, <1>5, LastIsReplaced
<1> HIDE DEF units, old
<1>7. /\ slot \in Slot /\ slot.core = old.core
      /\ slot.kids[k] = units
      /\ \A q \in Paths \ {k} : slot.kids[q] = old.kids[q]
  BY <1>1, <1>2, <1>6 DEF Slot
<1> HIDE DEF slot
<1>8. /\ new \in Seq(Slot) /\ Len(new) = i /\ new[i] = slot
      /\ \A x \in 1 .. i - 1 : new[x] = full[x]
  BY <1>1, <1>4, <1>7, LastIsReplaced
<1>9. \A x \in 1 .. i - 1 : new[x] = list[x]
  BY <1>1, <1>8
<1>10. \A y \in 1 .. j - 1 : units[y] = kids[y]
  BY <1>3, <1>6
<1> QED
  BY <1>6, <1>7, <1>8, <1>9, <1>10 DEF new, old, WithChild

(***************************************************************************)
(* The order of units.                                                     *)
(***************************************************************************)
SlotBlocks(slot) == BlocksOf(slot.core) \cup ChildBlocks(slot)

KidsOK(kids) ==
  /\ \A x \in DOMAIN kids : FieldsAscend(kids[x]) /\ BlocksOf(kids[x]) # {}
  /\ \A x, y \in DOMAIN kids :
       x < y => \A p \in BlocksOf(kids[x]), q \in BlocksOf(kids[y]) : p < q
SlotOK(slot) == FieldsAscend(slot.core) /\ \A k \in Paths : KidsOK(slot.kids[k])
ListOK(list, n) ==
  /\ \A x \in DOMAIN list :
       SlotOK(list[x]) /\ SlotBlocks(list[x]) # {} /\ \A b \in SlotBlocks(list[x]) : b <= n
  /\ \A x, y \in DOMAIN list :
       x < y => \A p \in SlotBlocks(list[x]), q \in SlotBlocks(list[y]) : p < q

\* The sections of a unit are all below s.
Below(fields, s) == \A t \in Known : fields[t] # 0 => t < s

LEMMA BlocksAreThere ==
  ASSUME NEW slot \in Slot
  PROVE  /\ \A t \in Known : slot.core[t] # 0 => slot.core[t] \in SlotBlocks(slot)
         /\ \A b \in SlotBlocks(slot) :
              \/ b \in BlocksOf(slot.core)
              \/ \E k \in Paths : \E j \in DOMAIN slot.kids[k] : b \in BlocksOf(slot.kids[k][j])
         /\ \A k \in Paths : \A j \in DOMAIN slot.kids[k] :
              \A b \in BlocksOf(slot.kids[k][j]) : b \in SlotBlocks(slot)
         /\ \A b \in SlotBlocks(slot) : b \in Nat \ {0}
<1>1. slot.core \in Fields /\ slot.kids \in [Paths -> Seq(Fields)]
  BY DEF Slot
<1>2. \A f \in Fields : \A b \in BlocksOf(f) : b \in Nat \ {0}
  BY DEF BlocksOf, Fields
<1>3. \A b \in SlotBlocks(slot) :
        \/ b \in BlocksOf(slot.core)
        \/ \E k \in Paths : \E j \in DOMAIN slot.kids[k] : b \in BlocksOf(slot.kids[k][j])
  BY DEF SlotBlocks, ChildBlocks
<1>4. \A t \in Known : slot.core[t] # 0 => slot.core[t] \in SlotBlocks(slot)
  BY DEF SlotBlocks, BlocksOf
<1>5. \A k \in Paths : \A j \in DOMAIN slot.kids[k] :
        \A b \in BlocksOf(slot.kids[k][j]) : b \in SlotBlocks(slot)
  BY DEF SlotBlocks, ChildBlocks
<1>6. \A k \in Paths : \A j \in DOMAIN slot.kids[k] : slot.kids[k][j] \in Fields
  BY <1>1
<1> QED
  BY <1>1, <1>2, <1>3, <1>4, <1>5, <1>6

LEMMA FieldIsPut ==
  ASSUME NEW f \in Fields, NEW s \in Known, Below(f, s), FieldsAscend(f),
         NEW n \in Nat, \A b \in BlocksOf(f) : b <= n
  PROVE  LET new == Put(f, s, n + 1) IN
         /\ new[s] = n + 1 /\ FieldsAscend(new)
         /\ BlocksOf(new) = BlocksOf(f) \cup {n + 1}
         /\ \A t \in Known : f[t] # 0 => new[t] = f[t]
         /\ \A t \in Known : new[t] # 0 => t <= s
<1> DEFINE new == Put(f, s, n + 1)
<1>1. /\ \A t \in Known : t \in Nat
      /\ \A t \in Known : f[t] \in Nat
      /\ \A t \in Known : f[t] # 0 => f[t] <= n
  BY ModelsAreRight DEF Fields, BlocksOf
<1>2. f[s] = 0
  BY <1>1 DEF Below
<1>3. new = [f EXCEPT ![s] = n + 1]
  BY <1>2 DEF Put
<1>4. \A t \in Known : new[t] = IF t = s THEN n + 1 ELSE f[t]
  BY <1>3 DEF Fields
<1> HIDE DEF new
<1>5. new[s] = n + 1 /\ \A t \in Known : f[t] # 0 => new[t] = f[t]
  BY <1>2, <1>4
<1>6. \A t \in Known : new[t] # 0 => t <= s
  BY <1>1, <1>4 DEF Below
<1>7. FieldsAscend(new)
  <2> SUFFICES ASSUME NEW t \in Known, NEW u \in Known, new[t] # 0, new[u] # 0, t < u
               PROVE  new[t] < new[u]
    BY DEF FieldsAscend
  <2>1. t # s
    BY <1>1, <1>6
  <2>2. CASE u = s
    BY <2>1, <2>2, <1>1, <1>4
  <2>3. CASE u # s
    BY <2>1, <2>3, <1>4 DEF FieldsAscend
  <2> QED
    BY <2>2, <2>3
<1>8. BlocksOf(new) = BlocksOf(f) \cup {n + 1}
  <2>1. \A t \in Known : new[t] # 0 => new[t] = n + 1 \/ new[t] \in BlocksOf(f)
    BY <1>4 DEF BlocksOf
  <2>2. \A t \in Known : f[t] # 0 => f[t] \in BlocksOf(new)
    BY <1>5 DEF BlocksOf
  <2>3. n + 1 \in BlocksOf(new)
    BY <1>5 DEF BlocksOf
  <2> QED
    BY <2>1, <2>2, <2>3 DEF BlocksOf
<1> QED
  BY <1>5, <1>6, <1>7, <1>8 DEF new

LEMMA NewSlotIsEmpty ==
  /\ FieldsAscend(Blank) /\ BlocksOf(Blank) = {} /\ SlotOK(NewSlot) /\ SlotBlocks(NewSlot) = {}
  /\ \A s \in Known : Below(Blank, s)
<1>1. \A t \in Known : Blank[t] = 0
  BY BlanksAreFields
<1>2. FieldsAscend(Blank) /\ BlocksOf(Blank) = {} /\ \A s \in Known : Below(Blank, s)
  BY <1>1 DEF FieldsAscend, BlocksOf, Below
<1>3. \A k \in Paths : NewSlot.kids[k] = << >>
  BY BlanksAreFields
<1>4. DOMAIN << >> = {}
  OBVIOUS
<1>5. \A k \in Paths : DOMAIN NewSlot.kids[k] = {}
  BY <1>3, <1>4
<1>6. NewSlot.core = Blank
  BY BlanksAreFields
<1>7. SlotOK(NewSlot)
  BY <1>2, <1>5, <1>6 DEF SlotOK, KidsOK
<1>8. SlotBlocks(NewSlot) = {}
  <2>1. \A b \in SlotBlocks(NewSlot) : FALSE
    BY <1>2, <1>5, <1>6, BlanksAreFields, BlocksAreThere
  <2> QED
    BY <2>1
<1> QED
  BY <1>2, <1>7, <1>8

\* The last slot of a list gains a block, or a slot with it is appended.
LEMMA ListGainsBlock ==
  ASSUME NEW list \in Seq(Slot), NEW new \in Seq(Slot), NEW i \in Nat \ {0},
         Len(list) = i \/ Len(list) = i - 1, Len(new) = i,
         \A x \in 1 .. i - 1 : new[x] = list[x],
         NEW n \in Nat, ListOK(list, n), SlotOK(new[i]),
         n + 1 \in SlotBlocks(new[i]),
         SlotBlocks(new[i]) \subseteq SlotBlocks(OldSlot(list, i)) \cup {n + 1}
  PROVE  ListOK(new, n + 1)
<1>1. DOMAIN new = 1 .. i /\ \A x \in 1 .. i - 1 : x \in DOMAIN list
  OBVIOUS
<1>2. \A x \in 1 .. i : x = i \/ x \in 1 .. i - 1
  OBVIOUS
<1>3. \A x \in 1 .. i : new[x] \in Slot
  BY <1>1
<1>4. \A x \in 1 .. i : \A b \in SlotBlocks(new[x]) : b \in Nat
  BY <1>3, BlocksAreThere
<1>5. \A b \in SlotBlocks(OldSlot(list, i)) :
        b <= n /\ i \in DOMAIN list /\ OldSlot(list, i) = list[i]
  <2>1. CASE Len(list) = i
    BY <2>1 DEF ListOK, OldSlot
  <2>2. CASE Len(list) = i - 1
    BY <2>2, NewSlotIsEmpty DEF OldSlot
  <2> QED
    BY <2>1, <2>2
<1>6. \A x \in 1 .. i - 1 : SlotOK(new[x]) /\ SlotBlocks(new[x]) # {}
        /\ \A b \in SlotBlocks(new[x]) : b <= n
  BY <1>1 DEF ListOK
<1>7. \A b \in SlotBlocks(new[i]) : b <= n + 1
  BY <1>4, <1>5
<1>8. ASSUME NEW x \in 1 .. i
      PROVE  SlotOK(new[x]) /\ SlotBlocks(new[x]) # {} /\ \A b \in SlotBlocks(new[x]) : b <= n + 1
  <2>1. CASE x = i
    BY <2>1, <1>7
  <2>2. CASE x \in 1 .. i - 1
    <3>1. \A b \in SlotBlocks(new[x]) : b \in Nat /\ b <= n
      BY <2>2, <1>4, <1>6
    <3> QED
      BY <2>2, <3>1, <1>6
  <2> QED
    BY <1>2, <2>1, <2>2
<1>9. ASSUME NEW x \in 1 .. i, NEW y \in 1 .. i, x < y,
             NEW p \in SlotBlocks(new[x]), NEW q \in SlotBlocks(new[y])
      PROVE  p < q
  <2>1. x \in 1 .. i - 1 /\ x \in DOMAIN list /\ new[x] = list[x]
    BY <1>1, <1>9
  <2>2. CASE y \in 1 .. i - 1
    BY <2>1, <2>2, <1>1, <1>9 DEF ListOK
  <2>3. CASE y = i /\ q = n + 1
    BY <2>1, <2>3, <1>4, <1>6
  <2>4. CASE y = i /\ q \in SlotBlocks(OldSlot(list, i))
    <3>1. i \in DOMAIN list /\ q \in SlotBlocks(list[i])
      BY <2>4, <1>5
    <3> QED
      BY <2>1, <2>4, <3>1, <1>9 DEF ListOK
  <2> QED
    BY <1>2, <2>2, <2>3, <2>4
<1> QED
  BY <1>1, <1>8, <1>9 DEF ListOK

(***************************************************************************)
(* What is stored stays stored.                                            *)
(***************************************************************************)
StoredIn(list, k, t, b) ==
  IF IsEntity(k) THEN \E x \in DOMAIN list : list[x].core[t] = b
  ELSE \E x \in DOMAIN list : \E y \in DOMAIN list[x].kids[k] : list[x].kids[k][y][t] = b

\* Each written field of a slot is one of the other.
Keeps(old, new) ==
  /\ \A t \in Known : old.core[t] # 0 => new.core[t] = old.core[t]
  /\ \A k \in Paths : \A y \in DOMAIN old.kids[k] :
       /\ y \in DOMAIN new.kids[k]
       /\ \A t \in Known : old.kids[k][y][t] # 0 => new.kids[k][y][t] = old.kids[k][y][t]

\* Where it is stored: in slot x, and in unit y of a list of children.
At(list, k, t, b, x, y) ==
  /\ x \in DOMAIN list
  /\ ~IsEntity(k) => y \in DOMAIN list[x].kids[k] /\ list[x].kids[k][y][t] = b
  /\ IsEntity(k) => list[x].core[t] = b

LEMMA StoredIsAt ==
  ASSUME NEW list, NEW k, NEW t, NEW b
  PROVE  StoredIn(list, k, t, b) <=> \E x, y : At(list, k, t, b, x, y)
  BY DEF StoredIn, At

LEMMA PlacesStay ==
  ASSUME NEW list \in Seq(Slot), NEW new \in Seq(Slot), NEW i \in Nat \ {0},
         Len(list) = i \/ Len(list) = i - 1, Len(new) = i,
         \A x \in 1 .. i - 1 : new[x] = list[x],
         Keeps(OldSlot(list, i), new[i]),
         NEW k \in Paths, NEW t \in Known, NEW b \in Nat \ {0},
         NEW x, NEW y, At(list, k, t, b, x, y)
  PROVE  At(new, k, t, b, x, y)
<1>1. x \in DOMAIN list /\ x \in DOMAIN new
  BY DEF At
<1>2. CASE x \in 1 .. i - 1
  BY <1>1, <1>2 DEF At
<1>3. CASE x = i
  <2>1. OldSlot(list, i) = list[i] /\ i \in DOMAIN list
    BY <1>1, <1>3 DEF OldSlot
  <2>2. ASSUME IsEntity(k) PROVE new[i].core[t] = b
    BY <1>3, <2>1, <2>2 DEF Keeps, At
  <2>3. ASSUME ~IsEntity(k) PROVE y \in DOMAIN new[i].kids[k] /\ new[i].kids[k][y][t] = b
    BY <1>3, <2>1, <2>3 DEF Keeps, At
  <2> QED
    BY <1>1, <1>3, <2>2, <2>3 DEF At
<1> QED
  BY <1>1, <1>2, <1>3

PlacesKept(list, new) ==
  \A k \in Paths, t \in Known, b \in Nat \ {0} : \A x, y :
    At(list, k, t, b, x, y) => At(new, k, t, b, x, y)

\* What is stored in new was in list, or is p at section s of model k.
OnlyAdds(list, new, k, s, p) ==
  \A q \in Paths, t \in Known, b \in Nat \ {0} :
    q[1] = k[1] /\ StoredIn(new, q, t, b) =>
      StoredIn(list, q, t, b) \/ (q = k /\ t = s /\ b = p)

\* A field of a slot that the other does not have is p at section s of model k.
FieldsAdd(old, new, k, s, p) ==
  /\ \A t \in Known : new.core[t] # old.core[t] => IsEntity(k) /\ t = s /\ new.core[t] = p
  /\ \A q \in Paths : ~IsEntity(q) =>
       \A y \in DOMAIN new.kids[q] : \A t \in Known :
         \/ y \in DOMAIN old.kids[q] /\ new.kids[q][y][t] = old.kids[q][y][t]
         \/ new.kids[q][y][t] = 0
         \/ q = k /\ t = s /\ new.kids[q][y][t] = p

LEMMA StoredIsAdded ==
  ASSUME NEW list \in Seq(Slot), NEW new \in Seq(Slot), NEW i \in Nat \ {0},
         Len(list) = i \/ Len(list) = i - 1, Len(new) = i,
         \A x \in 1 .. i - 1 : new[x] = list[x],
         NEW k \in Paths, NEW s \in Known, NEW p,
         FieldsAdd(OldSlot(list, i), new[i], k, s, p)
  PROVE  OnlyAdds(list, new, k, s, p)
<1> SUFFICES ASSUME NEW q \in Paths, NEW t \in Known, NEW b \in Nat \ {0},
                    q[1] = k[1], StoredIn(new, q, t, b)
             PROVE  StoredIn(list, q, t, b) \/ (q = k /\ t = s /\ b = p)
  BY DEF OnlyAdds
<1>1. PICK x \in DOMAIN new :
        IF IsEntity(q) THEN new[x].core[t] = b
        ELSE \E y \in DOMAIN new[x].kids[q] : new[x].kids[q][y][t] = b
  BY DEF StoredIn
<1>2. CASE x \in 1 .. i - 1
  <2>1. x \in DOMAIN list
    BY <1>2
  <2> QED
    BY <1>1, <1>2, <2>1 DEF StoredIn
<1>3. CASE x = i
  <2> DEFINE old == OldSlot(list, i)
  <2>1. \/ i \in DOMAIN list /\ old = list[i]
        \/ old = NewSlot
    BY DEF OldSlot
  <2> HIDE DEF old
  <2>2. CASE IsEntity(q)
    <3>1. new[i].core[t] = b
      BY <1>1, <1>3, <2>2
    <3>2. CASE old.core[t] = b
      <4>1. old # NewSlot
        BY <3>2, BlanksAreFields
      <4> QED
        BY <2>1, <2>2, <3>2, <4>1 DEF StoredIn
    <3>3. CASE old.core[t] # b
      <4>1. IsEntity(k) /\ t = s /\ b = p
        BY <3>1, <3>3 DEF FieldsAdd, old
      <4>2. q = k
        BY <2>2, <4>1, PathsAreRight DEF IsEntity, EntityOf
      <4> QED
        BY <4>1, <4>2
    <3> QED
      BY <3>2, <3>3
  <2>3. CASE ~IsEntity(q)
    <3>1. PICK y \in DOMAIN new[i].kids[q] : new[i].kids[q][y][t] = b
      BY <1>1, <1>3, <2>3
    <3>2. \/ y \in DOMAIN old.kids[q] /\ old.kids[q][y][t] = b
          \/ q = k /\ t = s /\ b = p
      BY <2>3, <3>1 DEF FieldsAdd, old
    <3>3. CASE y \in DOMAIN old.kids[q] /\ old.kids[q][y][t] = b
      <4>1. NewSlot.kids[q] = << >> /\ DOMAIN << >> = {}
        BY BlanksAreFields
      <4>2. old # NewSlot
        BY <3>3, <4>1
      <4> QED
        BY <2>1, <2>3, <3>3, <4>2 DEF StoredIn
    <3> QED
      BY <3>2, <3>3
  <2> QED
    BY <2>2, <2>3
<1> QED
  BY <1>2, <1>3

(***************************************************************************)
(* A list after a value is stored in it.                                   *)
(***************************************************************************)
\* The list with a value of the entity itself.
CoreGained(new, list, i, k, s, n) ==
  /\ new \in Seq(Slot) /\ Len(new) = i
  /\ ListOK(new, n + 1)
  /\ \A t \in Known : new[i].core[t] # 0 => t <= s
  /\ new[i].kids = OldSlot(list, i).kids
  /\ \A y : At(new, k, s, n + 1, i, y)
  /\ PlacesKept(list, new)
  /\ OnlyAdds(list, new, k, s, n + 1)

LEMMA CoreIsStored ==
  ASSUME NEW list \in Seq(Slot), NEW i \in Nat \ {0}, Len(list) = i \/ Len(list) = i - 1,
         NEW s \in Known, NEW n \in Nat, ListOK(list, n), Below(OldSlot(list, i).core, s),
         NEW k \in Paths, IsEntity(k)
  PROVE  CoreGained(InCore(list, i, s, n + 1), list, i, k, s, n)
<1> DEFINE new == InCore(list, i, s, n + 1)
           old == OldSlot(list, i)
<1>1. /\ new \in Seq(Slot) /\ Len(new) = i
      /\ \A x \in 1 .. i - 1 : new[x] = list[x]
      /\ new[i].core = Put(old.core, s, n + 1)
      /\ new[i].kids = old.kids
  <2>1. n + 1 \in Nat
    OBVIOUS
  <2>2. WithCore(InCore(list, i, s, n + 1), list, i, s, n + 1)
    BY <2>1, StoredInCore
  <2> QED
    BY <2>2 DEF WithCore
<1>2. old \in Slot /\ Below(old.core, s)
  BY SlotIsEnsured
<1>3. SlotOK(old) /\ \A b \in SlotBlocks(old) : b <= n
  <2>1. CASE Len(list) = i
    BY <2>1 DEF ListOK, OldSlot
  <2>2. CASE Len(list) = i - 1
    BY <2>2, NewSlotIsEmpty DEF OldSlot
  <2> QED
    BY <2>1, <2>2
<1> HIDE DEF new, old
<1>4. old.core \in Fields /\ FieldsAscend(old.core) /\ \A b \in BlocksOf(old.core) : b <= n
  BY <1>2, <1>3 DEF Slot, SlotOK, SlotBlocks
<1>5. /\ new[i].core[s] = n + 1 /\ FieldsAscend(new[i].core)
      /\ BlocksOf(new[i].core) = BlocksOf(old.core) \cup {n + 1}
      /\ \A t \in Known : old.core[t] # 0 => new[i].core[t] = old.core[t]
      /\ \A t \in Known : new[i].core[t] # 0 => t <= s
  BY <1>1, <1>2, <1>4, FieldIsPut
<1>6. SlotOK(new[i])
  BY <1>1, <1>3, <1>5 DEF SlotOK
<1>7. SlotBlocks(new[i]) = SlotBlocks(old) \cup {n + 1}
  <2>1. ChildBlocks(new[i]) = ChildBlocks(old)
    BY <1>1 DEF ChildBlocks
  <2> QED
    BY <2>1, <1>5 DEF SlotBlocks
<1>8. ListOK(new, n + 1)
  BY <1>1, <1>6, <1>7, ListGainsBlock DEF old
<1>9. Keeps(old, new[i])
  BY <1>1, <1>5 DEF Keeps
<1>10. \A y : At(new, k, s, n + 1, i, y)
  <2>1. i \in DOMAIN new
    BY <1>1
  <2> QED
    BY <2>1, <1>5 DEF At
<1>11. PlacesKept(list, new)
  BY <1>1, <1>9, PlacesStay DEF old, PlacesKept
<1>12. OnlyAdds(list, new, k, s, n + 1)
  <2>1. \A t \in Known : new[i].core[t] = old.core[t] \/ (t = s /\ new[i].core[t] = n + 1)
    BY <1>1, <1>2, <1>4 DEF Put, Fields
  <2>2. FieldsAdd(old, new[i], k, s, n + 1)
    BY <1>1, <2>1 DEF FieldsAdd
  <2> QED
    BY <1>1, <2>2, StoredIsAdded DEF old
<1> QED
  BY <1>1, <1>5, <1>8, <1>10, <1>11, <1>12 DEF CoreGained, new, old

\* The list with a value of a child.
ChildGained(new, list, i, k, j, s, n) ==
  /\ new \in Seq(Slot) /\ Len(new) = i
  /\ ListOK(new, n + 1)
  /\ new[i].core = OldSlot(list, i).core
  /\ \A q \in Paths \ {k} : new[i].kids[q] = OldSlot(list, i).kids[q]
  /\ Len(new[i].kids[k]) = j
  /\ \A t \in Known : new[i].kids[k][j][t] # 0 => t <= s
  /\ At(new, k, s, n + 1, i, j)
  /\ PlacesKept(list, new)
  /\ OnlyAdds(list, new, k, s, n + 1)

LEMMA ChildIsStored ==
  ASSUME NEW list \in Seq(Slot), NEW i \in Nat \ {0}, Len(list) = i \/ Len(list) = i - 1,
         NEW k \in Paths, ~IsEntity(k), NEW j \in Nat \ {0},
         Len(OldSlot(list, i).kids[k]) = j \/ Len(OldSlot(list, i).kids[k]) = j - 1,
         NEW s \in Known, NEW n \in Nat, ListOK(list, n),
         Below(OldUnit(OldSlot(list, i).kids[k], j), s)
  PROVE  ChildGained(InChild(list, i, k, j, s, n + 1), list, i, k, j, s, n)
<1> DEFINE new == InChild(list, i, k, j, s, n + 1)
           old == OldSlot(list, i)
           kids == old.kids[k]
           unit == OldUnit(kids, j)
           nkids == new[i].kids[k]
<1>1. /\ new \in Seq(Slot) /\ Len(new) = i
      /\ \A x \in 1 .. i - 1 : new[x] = list[x]
      /\ new[i].core = old.core
      /\ \A q \in Paths \ {k} : new[i].kids[q] = old.kids[q]
      /\ Len(nkids) = j
      /\ \A y \in 1 .. j - 1 : nkids[y] = kids[y]
      /\ nkids[j] = Put(unit, s, n + 1)
  <2>1. n + 1 \in Nat
    OBVIOUS
  <2> QED
    <3>1. WithChild(InChild(list, i, k, j, s, n + 1), list, i, k, j, s, n + 1)
      BY <2>1, StoredInChild
    <3> QED
      BY <3>1 DEF WithChild
<1>2. old \in Slot
  BY SlotIsEnsured
<1>3. SlotOK(old) /\ \A b \in SlotBlocks(old) : b <= n
  <2>1. CASE Len(list) = i
    BY <2>1 DEF ListOK, OldSlot
  <2>2. CASE Len(list) = i - 1
    BY <2>2, NewSlotIsEmpty DEF OldSlot
  <2> QED
    BY <2>1, <2>2
<1>4. Below(unit, s) /\ (Len(kids) = j \/ Len(kids) = j - 1)
  OBVIOUS
<1> HIDE DEF new, old
<1>5. kids \in Seq(Fields) /\ KidsOK(kids) /\ old.core \in Fields
  BY <1>2, <1>3 DEF Slot, SlotOK
<1>6. \A y \in DOMAIN kids : \A b \in BlocksOf(kids[y]) : b <= n
  BY <1>2, <1>3, BlocksAreThere
<1>7. new[i] \in Slot /\ nkids \in Seq(Fields)
  <2>1. i \in DOMAIN new
    BY <1>1
  <2>2. new[i] \in Slot
    BY <1>1, <2>1
  <2> QED
    BY <2>2 DEF Slot
<1> HIDE DEF kids, unit, nkids
<1>8. /\ unit \in Fields /\ FieldsAscend(unit) /\ \A b \in BlocksOf(unit) : b <= n
      /\ \A b \in BlocksOf(unit) : j \in DOMAIN kids /\ unit = kids[j]
      /\ j \in DOMAIN kids => unit = kids[j]
  <2>1. CASE Len(kids) = j
    <3>1. unit = kids[j] /\ j \in DOMAIN kids
      BY <2>1, <1>5 DEF unit, OldUnit
    <3> QED
      BY <3>1, <1>5, <1>6 DEF KidsOK
  <2>2. CASE Len(kids) = j - 1
    <3>1. unit = Blank /\ j \notin DOMAIN kids
      BY <2>2, <1>5 DEF unit, OldUnit
    <3> QED
      BY <3>1, NewSlotIsEmpty, BlanksAreFields
  <2> QED
    BY <1>4, <2>1, <2>2
<1>9. /\ nkids[j][s] = n + 1 /\ FieldsAscend(nkids[j])
      /\ BlocksOf(nkids[j]) = BlocksOf(unit) \cup {n + 1}
      /\ \A t \in Known : unit[t] # 0 => nkids[j][t] = unit[t]
      /\ \A t \in Known : nkids[j][t] # 0 => t <= s
  BY <1>1, <1>4, <1>8, FieldIsPut
<1>10. DOMAIN nkids = 1 .. j /\ \A y \in DOMAIN kids : y = j \/ y \in 1 .. j - 1
  BY <1>1, <1>4, <1>5, <1>7
<1>11. \A y \in 1 .. j - 1 : y \in DOMAIN kids
  BY <1>4, <1>5
<1>12. KidsOK(nkids)
  <2>1. \A y \in DOMAIN nkids : FieldsAscend(nkids[y]) /\ BlocksOf(nkids[y]) # {}
    <3> SUFFICES ASSUME NEW y \in DOMAIN nkids
                 PROVE  FieldsAscend(nkids[y]) /\ BlocksOf(nkids[y]) # {}
      OBVIOUS
    <3>1. CASE y = j
      BY <3>1, <1>9
    <3>2. CASE y \in 1 .. j - 1
      BY <3>2, <1>1, <1>5, <1>11 DEF KidsOK
    <3> QED
      BY <1>10, <3>1, <3>2
  <2>2. ASSUME NEW x \in DOMAIN nkids, NEW y \in DOMAIN nkids, x < y,
               NEW p \in BlocksOf(nkids[x]), NEW q \in BlocksOf(nkids[y])
        PROVE  p < q
    <3>1. x \in 1 .. j - 1 /\ x \in DOMAIN kids /\ nkids[x] = kids[x]
      BY <1>1, <1>10, <1>11, <2>2
    <3>2. CASE y \in 1 .. j - 1
      BY <3>1, <3>2, <1>1, <1>5, <1>11, <2>2 DEF KidsOK
    <3>3. CASE y = j /\ q = n + 1
      <4>1. p <= n
        BY <3>1, <1>6
      <4>2. p \in Nat
        BY <1>7, <2>2 DEF BlocksOf, Fields
      <4> QED
        BY <3>3, <4>1, <4>2
    <3>4. CASE y = j /\ q \in BlocksOf(unit)
      BY <3>1, <3>4, <1>5, <1>8, <2>2 DEF KidsOK
    <3> QED
      BY <1>9, <1>10, <3>2, <3>3, <3>4
  <2> QED
    BY <2>1, <2>2 DEF KidsOK
<1>13. SlotOK(new[i])
  BY <1>1, <1>3, <1>12 DEF SlotOK, nkids
<1>14. n + 1 \in SlotBlocks(new[i])
  <2>1. j \in DOMAIN nkids /\ n + 1 \in BlocksOf(nkids[j])
    BY <1>9, <1>10
  <2> QED
    BY <1>7, <2>1, BlocksAreThere DEF nkids
<1>15. SlotBlocks(new[i]) \subseteq SlotBlocks(old) \cup {n + 1}
  <2> SUFFICES ASSUME NEW b \in SlotBlocks(new[i]) PROVE b \in SlotBlocks(old) \cup {n + 1}
    OBVIOUS
  <2>1. CASE b \in BlocksOf(new[i].core)
    BY <2>1, <1>1 DEF SlotBlocks
  <2>2. ASSUME NEW q \in Paths, NEW y \in DOMAIN new[i].kids[q], b \in BlocksOf(new[i].kids[q][y])
        PROVE  b \in SlotBlocks(old) \cup {n + 1}
    <3>1. CASE q # k
      BY <3>1, <2>2, <1>1, <1>2, BlocksAreThere
    <3>2. CASE q = k /\ y \in 1 .. j - 1
      <4>1. y \in DOMAIN kids /\ b \in BlocksOf(kids[y])
        BY <3>2, <2>2, <1>1, <1>11 DEF nkids
      <4> QED
        BY <4>1, <1>2, BlocksAreThere DEF kids
    <3>3. CASE q = k /\ y = j
      <4>1. b = n + 1 \/ (j \in DOMAIN kids /\ b \in BlocksOf(kids[j]))
        BY <3>3, <2>2, <1>8, <1>9 DEF nkids
      <4> QED
        BY <4>1, <1>2, BlocksAreThere DEF kids
    <3>4. q = k => y \in DOMAIN nkids
      BY DEF nkids
    <3> QED
      BY <1>10, <3>1, <3>2, <3>3, <3>4
  <2> QED
    BY <1>7, <2>1, <2>2, BlocksAreThere
<1>16. ListOK(new, n + 1)
  BY <1>1, <1>13, <1>14, <1>15, ListGainsBlock DEF old
<1>17. Keeps(old, new[i])
  <2>1. \A t \in Known : old.core[t] # 0 => new[i].core[t] = old.core[t]
    BY <1>1
  <2>2. ASSUME NEW q \in Paths, NEW y \in DOMAIN old.kids[q]
        PROVE  /\ y \in DOMAIN new[i].kids[q]
               /\ \A t \in Known : old.kids[q][y][t] # 0 => new[i].kids[q][y][t] = old.kids[q][y][t]
    <3>1. CASE q # k
      BY <3>1, <1>1
    <3>2. CASE q = k
      <4>1. y \in DOMAIN kids
        BY <3>2 DEF kids
      <4>2. y \in DOMAIN nkids
        BY <4>1, <1>10
      <4>3. \A t \in Known : kids[y][t] # 0 => nkids[y][t] = kids[y][t]
        BY <4>1, <1>1, <1>8, <1>9, <1>10
      <4> QED
        BY <3>2, <4>2, <4>3 DEF kids, nkids
    <3> QED
      BY <3>1, <3>2
  <2> QED
    BY <2>1, <2>2 DEF Keeps
<1>18. At(new, k, s, n + 1, i, j)
  <2>1. i \in DOMAIN new /\ j \in DOMAIN nkids
    BY <1>1, <1>10
  <2> QED
    BY <2>1, <1>9 DEF At, nkids
<1>19. PlacesKept(list, new)
  BY <1>1, <1>17, PlacesStay DEF old, PlacesKept
<1>20. OnlyAdds(list, new, k, s, n + 1)
  <2>1. \A t \in Known : nkids[j][t] = unit[t] \/ (t = s /\ nkids[j][t] = n + 1)
    BY <1>1, <1>8 DEF Put, Fields
  <2>2. ASSUME NEW q \in Paths, NEW y \in DOMAIN new[i].kids[q], NEW t \in Known
        PROVE  \/ y \in DOMAIN old.kids[q] /\ new[i].kids[q][y][t] = old.kids[q][y][t]
               \/ new[i].kids[q][y][t] = 0
               \/ q = k /\ t = s /\ new[i].kids[q][y][t] = n + 1
    <3>1. CASE q # k
      BY <3>1, <1>1
    <3>2. CASE q = k /\ y \in 1 .. j - 1
      BY <3>2, <1>1, <1>11 DEF kids, nkids
    <3>3. CASE q = k /\ y = j
      <4>1. j \in DOMAIN kids \/ unit = Blank
        BY <1>4, <1>5 DEF unit, OldUnit
      <4>2. j \in DOMAIN kids => unit = kids[j]
        BY <1>8
      <4> QED
        BY <3>3, <2>1, <4>1, <4>2, BlanksAreFields DEF kids, nkids
    <3>4. q = k => y \in DOMAIN nkids
      BY DEF nkids
    <3> QED
      BY <1>10, <3>1, <3>2, <3>3, <3>4
  <2>3. FieldsAdd(old, new[i], k, s, n + 1)
    BY <1>1, <2>2 DEF FieldsAdd
  <2> QED
    BY <1>1, <2>3, StoredIsAdded DEF old
<1> QED
  BY <1>1, <1>9, <1>16, <1>18, <1>19, <1>20 DEF ChildGained, new, old, nkids

(***************************************************************************)
(* Grouping.                                                               *)
(***************************************************************************)
\* The counters stand at the last unit, and no section of it is above the last one.
KidsCurrent(kids, n, l) ==
  IF kids = << >> THEN n = 0 /\ l = 0
  ELSE Len(kids) = n + 1 /\ \A t \in Known : kids[Len(kids)][t] # 0 => t <= l
Current(e, list, idx, lst) ==
  IF list = << >> THEN \A k \in Paths : k[1] = e => idx[k] = 0 /\ lst[k] = 0
  ELSE /\ Len(list) = idx[<<e, "core">>] + 1
       /\ \A t \in Known : list[Len(list)].core[t] # 0 => t <= lst[<<e, "core">>]
       /\ \A k \in Descendants(<<e, "core">>) : KidsCurrent(list[Len(list)].kids[k], idx[k], lst[k])

TypeInv ==
  /\ doc \in Documents /\ doc \in Seq(Block) /\ pos \in 0 .. Len(doc)
  /\ core \in Fields
  /\ slots \in [Entities -> Seq(Slot)]
  /\ index \in [Paths -> Nat] /\ last \in [Paths -> Known \cup {0}]
  /\ unknown \subseteq Numbers \ Known /\ errors \subseteq Known
  /\ pc \in {"read", "parse", "validate", "done"}
  /\ quarantine \subseteq Models \cup {<<"unknown", "unknown">>, <<"core", "core">>}

GroupInv == \A e \in Entities : ListOK(slots[e], pos) /\ Current(e, slots[e], index, last)

LEMMA PathsOfEntities ==
  ASSUME NEW e \in Entities
  PROVE  /\ <<e, "core">> \in Paths /\ <<e, "core">>[1] = e /\ IsEntity(<<e, "core">>)
         /\ Descendants(<<e, "core">>) = {q \in Paths : q[1] = e /\ q[2] # "core"}
         /\ \A q \in Paths : q[1] = e => q = <<e, "core">> \/ q \in Descendants(<<e, "core">>)
         /\ <<e, "core">> \notin Descendants(<<e, "core">>)
         /\ \A k \in Paths : ~IsEntity(k) => Descendants(k) = {}
<1>1. <<e, "core">> \in Paths /\ <<e, "core">>[1] = e /\ IsEntity(<<e, "core">>)
  BY PathsAreRight DEF IsEntity
<1>2. Descendants(<<e, "core">>) = {q \in Paths : q[1] = e /\ q[2] # "core"}
  BY <1>1 DEF Descendants
<1>3. \A q \in Paths : q[1] = e /\ q[2] = "core" => q = <<e, "core">>
  BY PathsAreRight DEF EntityOf
<1>4. \A k \in Paths : ~IsEntity(k) => Descendants(k) = {}
  BY DEF Descendants
<1> QED
  BY <1>1, <1>2, <1>3, <1>4

\* The counters after a section of model k.
LEMMA CountersAdvance ==
  ASSUME TypeInv, EntitySection
  PROVE  /\ index' \in [Paths -> Nat] /\ last' \in [Paths -> Known \cup {0}]
         /\ \A q \in Paths :
              index'[q] = IF ~Repeats(Model, Section) THEN index[q]
                          ELSE IF q = Model THEN index[q] + 1
                          ELSE IF q \in Descendants(Model) THEN 0 ELSE index[q]
         /\ \A q \in Paths :
              last'[q] = IF q = Model THEN Section
                         ELSE IF Repeats(Model, Section) /\ q \in Descendants(Model) THEN 0
                         ELSE last[q]
<1> DEFINE k == Model
           s == Section
           R == Repeats(k, s)
<1>1. s \in Known
  BY DEF EntitySection
<1>2. last' = [q \in Paths |-> IF q = k THEN s ELSE IF R /\ q \in Descendants(k) THEN 0 ELSE last[q]]
  BY DEF EntitySection, NewLast
<1>3. IF R THEN index' = [q \in Paths |-> IF q = k THEN index[q] + 1
                                            ELSE IF q \in Descendants(k) THEN 0 ELSE index[q]]
      ELSE index' = index
  BY DEF EntitySection, Advance
<1>4. index \in [Paths -> Nat] /\ last \in [Paths -> Known \cup {0}]
  BY DEF TypeInv
<1> HIDE DEF k, s, R
<1>5. last' \in [Paths -> Known \cup {0}]
  BY <1>1, <1>2, <1>4
<1>6. index' \in [Paths -> Nat]
  BY <1>3, <1>4
<1>7. \A q \in Paths : index'[q] = IF ~R THEN index[q] ELSE IF q = k THEN index[q] + 1
                          ELSE IF q \in Descendants(k) THEN 0 ELSE index[q]
  BY <1>3
<1>8. \A q \in Paths : last'[q] = IF q = k THEN s
                         ELSE IF R /\ q \in Descendants(k) THEN 0 ELSE last[q]
  BY <1>2
<1> QED
  BY <1>5, <1>6, <1>7, <1>8 DEF k, s, R

\* What a section does to the list of its entity.
Gained(e, k, s, n, list, new, idx, lst) ==
  /\ new \in Seq(Slot) /\ ListOK(new, n + 1) /\ Current(e, new, idx, lst)
  /\ At(new, k, s, n + 1, idx[<<e, "core">>] + 1, idx[k] + 1)
  /\ PlacesKept(list, new)
  /\ OnlyAdds(list, new, k, s, n + 1)

\* Repeats, for any counters.
Again(lst, k, s) == lst[k] # 0 /\ s <= lst[k]

\* A section of the entity itself.
LEMMA CoreIsGrouped ==
  ASSUME NEW e \in Entities, NEW list \in Seq(Slot), NEW n \in Nat,
         NEW idx \in [Paths -> Nat], NEW lst \in [Paths -> Known \cup {0}],
         NEW nidx \in [Paths -> Nat], NEW nlst \in [Paths -> Known \cup {0}],
         NEW s \in Known, ListOK(list, n), Current(e, list, idx, lst),
         nidx[<<e, "core">>] = IF Again(lst, <<e, "core">>, s) THEN idx[<<e, "core">>] + 1 ELSE idx[<<e, "core">>],
         nlst[<<e, "core">>] = s,
         \A q \in Descendants(<<e, "core">>) : nidx[q] = IF Again(lst, <<e, "core">>, s) THEN 0 ELSE idx[q],
         \A q \in Descendants(<<e, "core">>) : nlst[q] = IF Again(lst, <<e, "core">>, s) THEN 0 ELSE lst[q]
  PROVE  Gained(e, <<e, "core">>, s, n, list, InCore(list, nidx[<<e, "core">>] + 1, s, n + 1), nidx, nlst)
<1> DEFINE k == <<e, "core">>
           R == Again(lst, k, s)
           i == nidx[k] + 1
           old == OldSlot(list, i)
           new == InCore(list, i, s, n + 1)
<1>1. k \in Paths /\ k[1] = e /\ IsEntity(k) /\ Descendants(k) \subseteq Paths
      /\ \A q \in Descendants(k) : q[1] = e
  BY PathsOfEntities
<1>2. /\ s \in Nat \ {0} /\ lst[k] \in Nat /\ i \in Nat \ {0} /\ idx[k] \in Nat
      /\ \A t \in Known : t \in Nat \ {0}
  BY <1>1, ModelsAreRight
<1>3. \/ list = << >> /\ Len(list) = 0
      \/ list # << >> /\ Len(list) \in Nat \ {0}
  OBVIOUS
<1>4. list = << >> => ~R /\ idx[k] = 0 /\ i = 1
  BY <1>1, <1>2 DEF Current, Again
<1>5. list # << >> => Len(list) = idx[k] + 1
  BY DEF Current
<1> HIDE DEF k
<1>6. Len(list) = i \/ Len(list) = i - 1
  BY <1>2, <1>3, <1>4, <1>5 DEF k
<1>7. (R \/ list = << >>) => old = NewSlot
  BY <1>2, <1>3, <1>4, <1>5 DEF OldSlot, k
<1>8. (~R /\ list # << >>) => Len(list) = i /\ old = list[Len(list)]
  BY <1>2, <1>3, <1>5 DEF OldSlot, k
<1> HIDE DEF i, old, new
<1>9. Below(old.core, s)
  <2>1. CASE R \/ list = << >>
    BY <2>1, <1>7, NewSlotIsEmpty, BlanksAreFields
  <2>2. CASE ~R /\ list # << >>
    <3>1. \A t \in Known : old.core[t] # 0 => t <= lst[k]
      BY <2>2, <1>8 DEF Current, k
    <3>2. lst[k] = 0 \/ s > lst[k]
      BY <2>2, <1>2 DEF k, Again
    <3> QED
      BY <3>1, <3>2, <1>2 DEF Below
  <2> QED
    BY <2>1, <2>2
<1>10. /\ new \in Seq(Slot) /\ Len(new) = i
       /\ ListOK(new, n + 1)
       /\ \A t \in Known : new[i].core[t] # 0 => t <= s
       /\ new[i].kids = old.kids
       /\ \A y : At(new, k, s, n + 1, i, y)
       /\ PlacesKept(list, new)
       /\ OnlyAdds(list, new, k, s, n + 1)
  <2>1. CoreGained(new, list, i, k, s, n)
    BY <1>1, <1>2, <1>6, <1>9, CoreIsStored DEF new, old
  <2> QED
    BY <2>1 DEF CoreGained, old
<1>11. Current(e, new, nidx, nlst)
  <2>1. new # << >>
    BY <1>2, <1>10
  <2>2. Len(new) = nidx[k] + 1
    BY <1>10 DEF i
  <2>3. \A t \in Known : new[Len(new)].core[t] # 0 => t <= nlst[k]
    BY <1>10 DEF k
  <2>4. ASSUME NEW q \in Descendants(k) PROVE KidsCurrent(new[Len(new)].kids[q], nidx[q], nlst[q])
    <3>0. new[Len(new)].kids[q] = old.kids[q] /\ q \in Paths
      BY <1>1, <1>10
    <3>1. CASE R \/ list = << >>
      <4>1. old.kids[q] = << >>
        BY <3>0, <3>1, <1>7, BlanksAreFields
      <4>2. nidx[q] = 0 /\ nlst[q] = 0
        BY <3>0, <3>1, <1>1 DEF Current, k
      <4> QED
        BY <3>0, <4>1, <4>2 DEF KidsCurrent
    <3>2. CASE ~R /\ list # << >>
      <4>1. KidsCurrent(old.kids[q], idx[q], lst[q])
        BY <3>2, <1>8 DEF Current, k
      <4> QED
        BY <3>0, <3>2, <4>1 DEF k
    <3> QED
      BY <3>1, <3>2
  <2> QED
    BY <2>1, <2>2, <2>3, <2>4 DEF Current, k
<1> QED
  BY <1>10, <1>11 DEF Gained, new, i, k

\* A section of a child.
LEMMA ChildIsGrouped ==
  ASSUME NEW e \in Entities, NEW k \in Descendants(<<e, "core">>),
         NEW list \in Seq(Slot), NEW n \in Nat,
         NEW idx \in [Paths -> Nat], NEW lst \in [Paths -> Known \cup {0}],
         NEW nidx \in [Paths -> Nat], NEW nlst \in [Paths -> Known \cup {0}],
         NEW s \in Known, ListOK(list, n), Current(e, list, idx, lst),
         nidx[k] = IF Again(lst, k, s) THEN idx[k] + 1 ELSE idx[k],
         nlst[k] = s,
         \A q \in Paths \ {k} : nidx[q] = idx[q] /\ nlst[q] = lst[q]
  PROVE  Gained(e, k, s, n, list, InChild(list, nidx[<<e, "core">>] + 1, k, nidx[k] + 1, s, n + 1),
                nidx, nlst)
<1> DEFINE c == <<e, "core">>
           R == Again(lst, k, s)
           i == nidx[c] + 1
           j == nidx[k] + 1
           old == OldSlot(list, i)
           kids == old.kids[k]
           new == InChild(list, i, k, j, s, n + 1)
<1>1. /\ c \in Paths /\ k \in Paths /\ ~IsEntity(k) /\ c # k
      /\ Descendants(c) \subseteq Paths /\ k[1] = e /\ c[1] = e
      /\ \A q \in Descendants(c) : q[1] = e
  BY PathsOfEntities DEF IsEntity
<1>2. /\ s \in Nat \ {0} /\ lst[k] \in Nat /\ i \in Nat \ {0} /\ idx[k] \in Nat /\ j \in Nat \ {0}
      /\ i = idx[c] + 1 /\ idx[c] \in Nat
      /\ \A t \in Known : t \in Nat \ {0}
  <2>1. \A t \in Known : t \in Nat \ {0}
    BY ModelsAreRight
  <2>2. /\ lst[k] \in Known \cup {0} /\ nidx[c] \in Nat /\ nidx[k] \in Nat
        /\ idx[k] \in Nat /\ idx[c] \in Nat
    BY <1>1
  <2>3. i \in Nat \ {0} /\ j \in Nat \ {0}
    BY <2>2
  <2>4. i = idx[c] + 1
    BY <1>1
  <2>5. lst[k] \in Nat
    BY <2>1, <2>2
  <2> QED
    BY <2>1, <2>2, <2>3, <2>4, <2>5
<1>3. \/ list = << >> /\ Len(list) = 0
      \/ list # << >> /\ Len(list) \in Nat \ {0}
  OBVIOUS
<1>4. list = << >> => ~R /\ idx[k] = 0 /\ i = 1
  BY <1>1, <1>2 DEF Current, Again
<1>5. list # << >> => Len(list) = i
  BY <1>2 DEF Current
<1>6. Len(list) = i \/ Len(list) = i - 1
  BY <1>3, <1>4, <1>5
<1>7. list = << >> => old = NewSlot
  BY <1>3, <1>4 DEF OldSlot
<1>8. list # << >> => old = list[Len(list)]
  BY <1>3, <1>5 DEF OldSlot
<1>9. old \in Slot
  BY <1>2, <1>6, SlotIsEnsured
<1>10. \A q \in Descendants(c) : KidsCurrent(old.kids[q], idx[q], lst[q])
  <2>1. CASE list = << >>
    <3>1. \A q \in Descendants(c) : old.kids[q] = << >>
      BY <2>1, <1>1, <1>7, BlanksAreFields
    <3>2. \A q \in Descendants(c) : idx[q] = 0 /\ lst[q] = 0
      BY <2>1, <1>1 DEF Current
    <3> QED
      BY <3>1, <3>2 DEF KidsCurrent
  <2>2. CASE list # << >>
    BY <2>2, <1>8 DEF Current
  <2> QED
    BY <2>1, <2>2
<1>11. KidsCurrent(kids, idx[k], lst[k])
  BY <1>10
<1>12. kids \in Seq(Fields)
  <2> HIDE DEF old
  <2> QED
    BY <1>1, <1>9 DEF Slot
<1> HIDE DEF old, i, new
<1> DEFINE unit == OldUnit(kids, j)
<1>13. Len(kids) = j \/ Len(kids) = j - 1
  <2> HIDE DEF kids
  <2>1. kids = << >> => Len(kids) = 0 /\ ~R /\ j = 1
    BY <1>2, <1>11 DEF KidsCurrent, Again
  <2>2. kids # << >> => Len(kids) = idx[k] + 1
    BY <1>11 DEF KidsCurrent
  <2>3. j = idx[k] + 1 \/ j = idx[k] + 2
    BY <1>2
  <2>4. idx[k] \in Nat
    BY <1>2
  <2> HIDE DEF j
  <2>5. CASE kids = << >>
    BY <2>1, <2>5
  <2>6. CASE kids # << >>
    BY <2>2, <2>3, <2>4, <2>6
  <2> QED
    BY <2>5, <2>6
<1>14. Below(unit, s)
  <2> HIDE DEF kids
  <2>1. CASE R \/ kids = << >>
    <3>1. Len(kids) = j - 1
      BY <2>1, <1>2, <1>11 DEF KidsCurrent, Again
    <3>2. unit = Blank
      BY <3>1, <1>2, <1>12 DEF OldUnit
    <3> QED
      BY <3>2, NewSlotIsEmpty
  <2>2. CASE ~R /\ kids # << >>
    <3>1. Len(kids) = j /\ unit = kids[Len(kids)]
      BY <2>2, <1>2, <1>11 DEF KidsCurrent, OldUnit
    <3>2. \A t \in Known : unit[t] # 0 => t <= lst[k]
      BY <2>2, <3>1, <1>11 DEF KidsCurrent
    <3>3. lst[k] = 0 \/ s > lst[k]
      BY <2>2, <1>2 DEF Again
    <3> HIDE DEF unit
    <3> QED
      BY <3>2, <3>3, <1>2 DEF Below
  <2> QED
    BY <2>1, <2>2
<1>15. /\ new \in Seq(Slot) /\ Len(new) = i
       /\ ListOK(new, n + 1)
       /\ new[i].core = old.core
       /\ \A q \in Paths \ {k} : new[i].kids[q] = old.kids[q]
       /\ Len(new[i].kids[k]) = j
       /\ \A t \in Known : new[i].kids[k][j][t] # 0 => t <= s
       /\ At(new, k, s, n + 1, i, j)
       /\ PlacesKept(list, new)
       /\ OnlyAdds(list, new, k, s, n + 1)
  <2>1. ChildGained(new, list, i, k, j, s, n)
    BY <1>1, <1>2, <1>6, <1>13, <1>14, ChildIsStored DEF new, old
  <2> QED
    BY <2>1 DEF ChildGained, old
<1> HIDE DEF kids, unit
<1>16. Current(e, new, nidx, nlst)
  <2>1. new # << >>
    BY <1>2, <1>15
  <2>2. Len(new) = nidx[c] + 1
    BY <1>15 DEF i
  <2>3. \A t \in Known : new[Len(new)].core[t] # 0 => t <= nlst[c]
    <3>1. CASE list = << >>
      BY <3>1, <1>7, <1>15, BlanksAreFields
    <3>2. CASE list # << >>
      <4>1. \A t \in Known : old.core[t] # 0 => t <= lst[c]
        BY <3>2, <1>8 DEF Current
      <4> QED
        BY <4>1, <1>1, <1>15
    <3> QED
      BY <3>1, <3>2
  <2>4. ASSUME NEW q \in Descendants(c) PROVE KidsCurrent(new[Len(new)].kids[q], nidx[q], nlst[q])
    <3>1. CASE q # k
      BY <3>1, <1>1, <1>10, <1>15
    <3>2. CASE q = k
      <4>1. Len(new[Len(new)].kids[k]) = j /\ j # 0
        BY <1>2, <1>15
      <4>2. Len(<< >>) = 0
        OBVIOUS
      <4>3. new[Len(new)].kids[k] # << >>
        BY <4>1, <4>2
      <4> QED
        BY <3>2, <4>1, <4>3, <1>15 DEF KidsCurrent
    <3> QED
      BY <3>1, <3>2
  <2> QED
    BY <2>1, <2>2, <2>3, <2>4 DEF Current
<1> QED
  BY <1>15, <1>16 DEF Gained, new, i

LEMMA EntityIsGrouped ==
  ASSUME TypeInv, GroupInv, EntitySection
  PROVE  /\ Section \in Known /\ Model \in Paths /\ Model # CoreModel /\ Model[1] \in Entities
         /\ \E new : /\ slots' = [slots EXCEPT ![Model[1]] = new]
                     /\ Gained(Model[1], Model, Section, pos, slots[Model[1]], new, index', last')
<1> DEFINE k == Model
           s == Section
           e == k[1]
           c == <<e, "core">>
           n == pos
           list == slots[e]
           i == index'[c] + 1
           j == index'[k] + 1
<1>1. s \in Known /\ k # CoreModel
  BY DEF EntitySection, CoreModel
<1>2. k \in Paths /\ e \in Entities
  BY <1>1, ModelsAreRight, PathsAreRight DEF Model
<1>3. /\ list \in Seq(Slot) /\ n \in Nat
      /\ index \in [Paths -> Nat] /\ last \in [Paths -> Known \cup {0}]
  BY <1>2 DEF TypeInv
<1>4. ListOK(list, n) /\ Current(e, list, index, last)
  BY <1>2 DEF GroupInv
<1>5. pos' = n + 1
  BY DEF EntitySection, NextHeading
<1>6. slots' = [slots EXCEPT ![e] = IF IsEntity(k) THEN InCore(list, i, s, n + 1)
                                      ELSE InChild(list, i, k, j, s, n + 1)]
  <2>1. StoreField(k, s, n + 1)
    BY <1>5 DEF EntitySection
  <2>2. EnsureSlot(list, i - 1) = EnsureSlot(slots[k[1]], (index'[<<k[1], "core">>] + 1) - 1)
    OBVIOUS
  <2> QED
    BY <2>1 DEF StoreField, InCore, InChild
<1>7. /\ index' \in [Paths -> Nat] /\ last' \in [Paths -> Known \cup {0}]
      /\ \A q \in Paths :
           index'[q] = IF ~Repeats(k, s) THEN index[q]
                       ELSE IF q = k THEN index[q] + 1
                       ELSE IF q \in Descendants(k) THEN 0 ELSE index[q]
      /\ \A q \in Paths :
           last'[q] = IF q = k THEN s
                      ELSE IF Repeats(k, s) /\ q \in Descendants(k) THEN 0 ELSE last[q]
  BY CountersAdvance
<1>8. Repeats(k, s) <=> Again(last, k, s)
  BY DEF Repeats, Again
<1>9. /\ c \in Paths /\ Descendants(c) \subseteq Paths /\ c \notin Descendants(c)
      /\ k = c \/ k \in Descendants(c)
      /\ k = c => IsEntity(k)
      /\ k \in Descendants(c) => ~IsEntity(k) /\ Descendants(k) = {}
  BY <1>2, PathsOfEntities DEF IsEntity
<1> HIDE DEF k, s, e, n, list
<1>10. CASE k = c
  <2> DEFINE new == InCore(list, i, s, n + 1)
  <2>1. slots' = [slots EXCEPT ![e] = new]
    BY <1>6, <1>9, <1>10
  <2>2. /\ index'[c] = IF Again(last, c, s) THEN index[c] + 1 ELSE index[c]
        /\ last'[c] = s
        /\ \A q \in Descendants(c) : index'[q] = IF Again(last, c, s) THEN 0 ELSE index[q]
        /\ \A q \in Descendants(c) : last'[q] = IF Again(last, c, s) THEN 0 ELSE last[q]
    BY <1>7, <1>8, <1>9, <1>10
  <2>3. Gained(e, c, s, n, list, new, index', last')
    BY <1>1, <1>2, <1>3, <1>4, <1>7, <2>2, CoreIsGrouped
  <2> QED
    BY <1>1, <1>2, <1>10, <2>1, <2>3 DEF k, s, e, n, list
<1>11. CASE k \in Descendants(c)
  <2> DEFINE new == InChild(list, i, k, j, s, n + 1)
  <2>1. slots' = [slots EXCEPT ![e] = new]
    BY <1>6, <1>9, <1>11
  <2>2. /\ index'[k] = IF Again(last, k, s) THEN index[k] + 1 ELSE index[k]
        /\ last'[k] = s
        /\ \A q \in Paths \ {k} : index'[q] = index[q] /\ last'[q] = last[q]
    BY <1>2, <1>7, <1>8, <1>9, <1>11
  <2>3. Gained(e, k, s, n, list, new, index', last')
    BY <1>1, <1>2, <1>3, <1>4, <1>7, <1>11, <2>2, ChildIsGrouped
  <2> QED
    BY <1>1, <1>2, <2>1, <2>3 DEF k, s, e, n, list
<1> QED
  BY <1>9, <1>10, <1>11

(***************************************************************************)
(* The inductive invariant.                                                *)
(***************************************************************************)
\* Where a value of the body is while the body is read and after.
Kept(p) ==
  LET s == doc[p].section
      k == Profile[s].model
  IN  IF s \notin Known THEN s \in unknown
      ELSE IF k = CoreModel THEN core[s] = p \/ s \in errors
      ELSE StoredIn(slots[k[1]], k, s, p)
KeptInv == \A p \in Valued : Kept(p)

\* What is stored has been read, at the section and the model it is stored under.
IsOf(p, m, s) == p \in Valued /\ doc[p].section = s /\ Profile[s].model = m
StoredInv ==
  /\ \A s \in Known : core[s] # 0 => IsOf(core[s], CoreModel, s)
  /\ \A e \in Entities, k \in Paths, s \in Known, p \in Nat \ {0} :
       k[1] = e /\ StoredIn(slots[e], k, s, p) => IsOf(p, k, s)

Built(m) == IF errors = {} THEN Table(m) ELSE {}
Parse(m, row) == Compute(m, ParseDerived(ParseInPlace(row)))
Parsed(m) == {Parse(m, row) : row \in Built(m)}
TablesInv ==
  /\ pc = "read" => tables = [m \in Models |-> {}] /\ quarantine = {}
  /\ pc = "parse" => tables = [m \in Models |-> Built(m)]
  /\ pc = "validate" => tables = [m \in Models |-> Parsed(m)]
  /\ pc = "done" => /\ tables = [m \in Models |-> {row \in Parsed(m) : Valid(row)}]
                    /\ \A m \in Models : \A row \in Parsed(m) : Valid(row) \/ m \in quarantine
  /\ pc # "read" => /\ unknown # {} => <<"unknown", "unknown">> \in quarantine
                    /\ errors # {} => <<"core", "core">> \in quarantine

IInv == TypeInv /\ GroupInv /\ KeptInv /\ StoredInv /\ TablesInv

LEMMA InitIsKept == Init => IInv
<1> SUFFICES ASSUME Init PROVE IInv
  OBVIOUS
<1>1. TypeInv
  <2>1. doc \in Documents /\ doc \in Seq(Block)
    BY ConstantsAssumption DEF Init
  <2>2. core \in Fields
    BY BlanksAreFields DEF Init
  <2>3. slots \in [Entities -> Seq(Slot)] /\ index \in [Paths -> Nat]
        /\ last \in [Paths -> Known \cup {0}]
    BY DEF Init
  <2>4. pos \in 0 .. Len(doc)
    BY <2>1 DEF Init
  <2> QED
    BY <2>1, <2>2, <2>3, <2>4 DEF TypeInv, Init
<1>2. GroupInv
  <2> SUFFICES ASSUME NEW e \in Entities
               PROVE  ListOK(slots[e], pos) /\ Current(e, slots[e], index, last)
    BY DEF GroupInv
  <2>1. slots[e] = << >> /\ DOMAIN << >> = {}
    BY DEF Init
  <2>2. ListOK(slots[e], pos)
    BY <2>1 DEF ListOK
  <2> QED
    BY <2>1, <2>2 DEF Current, Init
<1>3. KeptInv
  BY DEF KeptInv, Valued, Init
<1>4. TablesInv
  BY DEF TablesInv, Init
<1>5. StoredInv
  <2>1. \A e \in Entities : slots[e] = << >> /\ DOMAIN << >> = {}
    BY DEF Init
  <2>2. \A s \in Known : core[s] = 0
    BY BlanksAreFields DEF Init
  <2> QED
    BY <2>1, <2>2 DEF StoredInv, StoredIn
<1> QED
  BY <1>1, <1>2, <1>3, <1>4, <1>5 DEF IInv

(***************************************************************************)
(* Reading a body keeps the invariant.                                     *)
(***************************************************************************)
LEMMA HeadingsAdvance ==
  ASSUME TypeInv, NextHeading
  PROVE  /\ doc' = doc /\ pos' = pos + 1 /\ pos \in Nat /\ pos' \in 0 .. Len(doc)
         /\ pc = "read" /\ pc' = pc /\ tables' = tables /\ quarantine' = quarantine
         /\ pos + 1 \in DOMAIN doc /\ Section = doc[pos + 1].section /\ Section \in Numbers
<1>1. pos \in Nat /\ doc \in Seq(Block) /\ pos < Len(doc)
  BY DEF TypeInv, NextHeading
<1>2. pos + 1 \in DOMAIN doc /\ doc[pos + 1] \in Block
  BY <1>1
<1> QED
  BY <1>1, <1>2 DEF NextHeading, Section, Block

LEMMA GroupsStay ==
  ASSUME TypeInv, GroupInv, NextHeading, UNCHANGED <<slots, index, last>>
  PROVE  GroupInv'
<1>1. pos \in Nat /\ pos' = pos + 1
  BY HeadingsAdvance
<1> SUFFICES ASSUME NEW e \in Entities
             PROVE  ListOK(slots[e], pos + 1) /\ Current(e, slots[e], index, last)
  BY <1>1 DEF GroupInv
<1>2. ListOK(slots[e], pos) /\ Current(e, slots[e], index, last)
  BY DEF GroupInv
<1>3. slots[e] \in Seq(Slot)
  BY DEF TypeInv
<1>4. \A x \in DOMAIN slots[e] : \A b \in SlotBlocks(slots[e][x]) : b <= pos + 1
  <2> SUFFICES ASSUME NEW x \in DOMAIN slots[e], NEW b \in SlotBlocks(slots[e][x])
               PROVE  b <= pos + 1
    OBVIOUS
  <2>1. slots[e][x] \in Slot
    BY <1>3
  <2>2. b \in Nat
    BY <2>1, BlocksAreThere
  <2>3. b <= pos
    BY <1>2 DEF ListOK
  <2> QED
    BY <1>1, <2>2, <2>3
<1> QED
  BY <1>2, <1>4 DEF ListOK

\* The blocks that have been read, after the next heading.
LEMMA ValuedGrows ==
  ASSUME TypeInv, NextHeading
  PROVE  /\ \A p \in Valued' : p \in Valued \/ (p = pos + 1 /\ HasValue)
         /\ \A p \in Valued' : p \in Nat \ {0} /\ doc'[p] = doc[p]
<1>1. doc' = doc /\ pos' = pos + 1 /\ pos \in Nat
  BY HeadingsAdvance
<1>2. \A p \in 1 .. pos + 1 : p \in 1 .. pos \/ p = pos + 1
  BY <1>1
<1>3. Valued' = {p \in 1 .. pos + 1 : SectionValue(doc[p]) # {}}
  BY <1>1 DEF Valued
<1>4. \A p \in Valued' : p \in Valued \/ (p = pos + 1 /\ HasValue)
  BY <1>2, <1>3 DEF Valued, HasValue
<1> QED
  BY <1>1, <1>3, <1>4

LEMMA StoredStaysRead ==
  ASSUME TypeInv, NextHeading, NEW p, NEW m, NEW s, IsOf(p, m, s)
  PROVE  IsOf(p, m, s)'
<1>1. doc' = doc /\ pos' = pos + 1 /\ pos \in Nat
  BY HeadingsAdvance
<1>2. \A q \in 1 .. pos : q \in 1 .. pos + 1
  BY <1>1
<1> QED
  BY <1>1, <1>2 DEF IsOf, Valued

LEMMA FieldsStayStored ==
  ASSUME TypeInv, StoredInv, NextHeading, UNCHANGED <<core, slots>>
  PROVE  StoredInv'
<1>1. \A p, m, s : IsOf(p, m, s) => IsOf(p, m, s)'
  BY StoredStaysRead
<1> QED
  BY <1>1 DEF StoredInv

LEMMA TablesStay ==
  ASSUME TypeInv, TablesInv, NextHeading
  PROVE  TablesInv'
<1>1. pc = "read" /\ pc' = pc /\ tables' = tables /\ quarantine' = quarantine
  BY HeadingsAdvance
<1> QED
  BY <1>1 DEF TablesInv

LEMMA SkipEmptyIsKept ==
  ASSUME IInv, SkipEmpty PROVE IInv'
<1> USE DEF SkipEmpty, IInv
<1>1. /\ doc' = doc /\ pos' \in 0 .. Len(doc) /\ pc' = pc /\ quarantine' = quarantine
      /\ UNCHANGED extracted
  BY HeadingsAdvance
<1>2. TypeInv'
  BY <1>1 DEF TypeInv, extracted
<1>3. GroupInv'
  BY <1>1, GroupsStay DEF extracted
<1>4. KeptInv'
  <2>1. \A p \in Valued' : p \in Valued
    BY ValuedGrows
  <2> QED
    BY <1>1, <2>1 DEF KeptInv, Kept, extracted
<1>5. StoredInv'
  BY <1>1, FieldsStayStored DEF extracted
<1> QED
  BY <1>2, <1>3, <1>4, <1>5, TablesStay

LEMMA UnknownSectionIsKept ==
  ASSUME IInv, UnknownSection PROVE IInv'
<1> USE DEF UnknownSection, IInv
<1>1. /\ doc' = doc /\ pos' \in 0 .. Len(doc) /\ pc' = pc /\ quarantine' = quarantine
      /\ UNCHANGED <<core, slots, index, last, errors>>
      /\ unknown' = unknown \cup {Section} /\ Section \in Numbers \ Known
      /\ Section = doc[pos + 1].section
  BY HeadingsAdvance
<1>2. TypeInv'
  BY <1>1 DEF TypeInv
<1>3. GroupInv'
  BY <1>1, GroupsStay
<1>4. KeptInv'
  <2> SUFFICES ASSUME NEW p \in Valued' PROVE Kept(p)'
    BY DEF KeptInv
  <2>1. CASE p \in Valued
    BY <1>1, <2>1 DEF KeptInv, Kept
  <2>2. CASE p = pos + 1
    BY <1>1, <2>2 DEF Kept
  <2> QED
    BY <2>1, <2>2, ValuedGrows
<1>5. StoredInv'
  BY <1>1, FieldsStayStored
<1> QED
  BY <1>2, <1>3, <1>4, <1>5, TablesStay

LEMMA CoreSectionIsKept ==
  ASSUME IInv, CoreSection PROVE IInv'
<1> USE DEF IInv
<1>0. NextHeading
  BY DEF CoreSection
<1>1. /\ doc' = doc /\ pos' = pos + 1 /\ pos \in Nat /\ pos' \in 0 .. Len(doc)
      /\ pc' = pc /\ quarantine' = quarantine
      /\ Section = doc[pos + 1].section
  BY <1>0, HeadingsAdvance
<1>2. /\ UNCHANGED <<slots, index, last, unknown>>
      /\ Section \in Known /\ Profile[Section].model = CoreModel
      /\ \/ core[Section] # 0 /\ errors' = errors \cup {Section} /\ core' = core
         \/ core[Section] = 0 /\ core' = [core EXCEPT ![Section] = pos + 1] /\ errors' = errors
  BY <1>1 DEF CoreSection, Model, CoreModel
<1>3. core \in Fields
  BY DEF TypeInv
<1>4. core' \in Fields
  BY <1>1, <1>2, <1>3 DEF Fields
<1>5. TypeInv'
  BY <1>1, <1>2, <1>4 DEF TypeInv
<1>6. GroupInv'
  BY <1>0, <1>2, GroupsStay
<1>7. KeptInv'
  <2> SUFFICES ASSUME NEW p \in Valued' PROVE Kept(p)'
    BY DEF KeptInv
  <2>1. CASE p \in Valued
    <3>1. p \in Nat \ {0} /\ Kept(p)
      BY <1>0, <2>1, ValuedGrows DEF KeptInv
    <3>2. \A t \in Known : core[t] = p => core'[t] = p
      BY <1>2, <1>3, <3>1 DEF Fields
    <3> QED
      BY <1>1, <1>2, <3>1, <3>2 DEF Kept
  <2>2. CASE p = pos + 1
    <3>1. core'[Section] = pos + 1 \/ Section \in errors'
      BY <1>2, <1>3 DEF Fields
    <3> QED
      BY <1>1, <1>2, <2>2, <3>1 DEF Kept
  <2> QED
    BY <1>0, <2>1, <2>2, ValuedGrows
<1>8. StoredInv'
  <2>1. \A p, m, s : IsOf(p, m, s) => IsOf(p, m, s)'
    BY <1>0, StoredStaysRead
  <2>2. pos + 1 \in Valued' /\ doc'[pos + 1].section = Section /\ Profile[Section].model = CoreModel
    <3>1. pos + 1 \in 1 .. pos + 1
      BY <1>1
    <3>2. pos + 1 \in Valued'
      BY <1>1, <3>1 DEF CoreSection, HasValue, Valued
    <3> QED
      BY <1>1, <1>2, <3>2
  <2>3. Valued \subseteq Valued'
    BY <1>1 DEF Valued
  <2>4. \A t \in Known : core'[t] = core[t] \/ (t = Section /\ core'[t] = pos + 1)
    BY <1>2, <1>3 DEF Fields
  <2> QED
    <3>1. ASSUME NEW t \in Known, core'[t] # 0
          PROVE  core'[t] \in Valued' /\ doc'[core'[t]].section = t /\ Profile[t].model = CoreModel
      <4>1. CASE core'[t] = core[t]
        <5>1. IsOf(core[t], CoreModel, t)
          BY <3>1, <4>1 DEF StoredInv
        <5> QED
          BY <1>1, <2>3, <4>1, <5>1 DEF IsOf
      <4>2. CASE t = Section /\ core'[t] = pos + 1
        BY <2>2, <4>2
      <4> QED
        BY <2>4, <4>1, <4>2
    <3> QED
      BY <1>2, <2>1, <3>1 DEF StoredInv, IsOf
<1> QED
  BY <1>0, <1>5, <1>6, <1>7, <1>8, TablesStay

LEMMA EntitySectionIsKept ==
  ASSUME IInv, EntitySection PROVE IInv'
<1> USE DEF IInv
<1>0. NextHeading
  BY DEF EntitySection
<1>1. /\ doc' = doc /\ pos' = pos + 1 /\ pos \in Nat /\ pos' \in 0 .. Len(doc)
      /\ pc' = pc /\ quarantine' = quarantine
      /\ Section = doc[pos + 1].section
  BY <1>0, HeadingsAdvance
<1>2. UNCHANGED <<core, unknown, errors>> /\ Model = Profile[Section].model
  BY DEF EntitySection, Model
<1>3. /\ Section \in Known /\ Model \in Paths /\ Model # CoreModel /\ Model[1] \in Entities
      /\ \E new : /\ slots' = [slots EXCEPT ![Model[1]] = new]
                  /\ Gained(Model[1], Model, Section, pos, slots[Model[1]], new, index', last')
  BY EntityIsGrouped
<1> DEFINE k == Model
           e == k[1]
           s == Section
<1> HIDE DEF k, s
<1>4. PICK new : /\ slots' = [slots EXCEPT ![e] = new]
                 /\ Gained(e, k, s, pos, slots[e], new, index', last')
  BY <1>3 DEF k, s
<1>5. slots \in [Entities -> Seq(Slot)] /\ e \in Entities /\ k \in Paths /\ s \in Known
  BY <1>3 DEF TypeInv, k, s
<1>6. /\ new \in Seq(Slot) /\ ListOK(new, pos + 1) /\ Current(e, new, index', last')
      /\ StoredIn(new, k, s, pos + 1)
      /\ \A q \in Paths, t \in Known, b \in Nat \ {0} :
           StoredIn(slots[e], q, t, b) => StoredIn(new, q, t, b)
  <2>1. /\ new \in Seq(Slot) /\ ListOK(new, pos + 1) /\ Current(e, new, index', last')
        /\ At(new, k, s, pos + 1, index'[<<e, "core">>] + 1, index'[k] + 1)
        /\ PlacesKept(slots[e], new)
    BY <1>4 DEF Gained
  <2>2. StoredIn(new, k, s, pos + 1)
    BY <2>1, StoredIsAt
  <2>3. \A q \in Paths, t \in Known, b \in Nat \ {0} :
           StoredIn(slots[e], q, t, b) => StoredIn(new, q, t, b)
    BY <2>1, StoredIsAt DEF PlacesKept
  <2> QED
    BY <2>1, <2>2, <2>3
<1>7. /\ slots' \in [Entities -> Seq(Slot)] /\ slots'[e] = new
      /\ \A f \in Entities \ {e} : slots'[f] = slots[f]
  BY <1>4, <1>5, <1>6
<1>8. index' \in [Paths -> Nat] /\ last' \in [Paths -> Known \cup {0}]
  BY CountersAdvance
<1>9. TypeInv'
  BY <1>1, <1>2, <1>7, <1>8 DEF TypeInv
<1>10. ASSUME NEW f \in Entities
       PROVE  ListOK(slots'[f], pos + 1) /\ Current(f, slots'[f], index', last')
  <2>1. CASE f = e
    BY <2>1, <1>6, <1>7
  <2>2. CASE f # e
    <3>1. \A q \in Paths : q[1] = f => index'[q] = index[q] /\ last'[q] = last[q]
      <4>1. \A q \in Descendants(k) : q[1] = e
        BY DEF Descendants
      <4> QED
        BY <2>2, <4>1, CountersAdvance DEF k
    <3>2. Current(f, slots[f], index, last)
      BY DEF GroupInv
    <3>3. <<f, "core">> \in Paths /\ <<f, "core">>[1] = f
          /\ \A q \in Descendants(<<f, "core">>) : q \in Paths /\ q[1] = f
      BY PathsOfEntities
    <3>4. Current(f, slots[f], index', last')
      <4>1. CASE slots[f] = << >>
        BY <3>1, <3>2, <4>1 DEF Current
      <4>2. CASE slots[f] # << >>
        BY <3>1, <3>2, <3>3, <4>2 DEF Current
      <4> QED
        BY <4>1, <4>2
    <3>5. ListOK(slots[f], pos + 1)
      <4>1. slots[f] \in Seq(Slot) /\ ListOK(slots[f], pos)
        BY <1>5 DEF GroupInv
      <4>2. \A x \in DOMAIN slots[f] : \A b \in SlotBlocks(slots[f][x]) : b <= pos + 1
        <5> SUFFICES ASSUME NEW x \in DOMAIN slots[f], NEW b \in SlotBlocks(slots[f][x])
                     PROVE  b <= pos + 1
          OBVIOUS
        <5>1. slots[f][x] \in Slot
          BY <4>1
        <5>2. b \in Nat
          BY <5>1, BlocksAreThere
        <5>3. b <= pos
          BY <4>1 DEF ListOK
        <5> QED
          BY <1>1, <5>2, <5>3
      <4> QED
        BY <4>1, <4>2 DEF ListOK
    <3> QED
      BY <2>2, <1>7, <3>4, <3>5
  <2> QED
    BY <2>1, <2>2
<1>11. GroupInv'
  BY <1>1, <1>10 DEF GroupInv
<1>12. KeptInv'
  <2> SUFFICES ASSUME NEW p \in Valued' PROVE Kept(p)'
    BY DEF KeptInv
  <2> DEFINE t == doc[p].section
             m == Profile[t].model
  <2>1. CASE p \in Valued
    <3>1. p \in Nat \ {0} /\ Kept(p)
      BY <1>0, <2>1, ValuedGrows DEF KeptInv
    <3>2. CASE t \in Known /\ m # CoreModel
      <4>1. m \in Paths /\ m[1] \in Entities
        BY <3>2, ModelsAreRight, PathsAreRight
      <4>2. StoredIn(slots[m[1]], m, t, p)
        BY <3>1, <3>2 DEF Kept
      <4>3. StoredIn(slots'[m[1]], m, t, p)
        BY <1>6, <1>7, <3>1, <3>2, <4>1, <4>2
      <4> QED
        BY <1>1, <3>2, <4>3 DEF Kept
    <3>3. CASE ~(t \in Known /\ m # CoreModel)
      BY <1>1, <1>2, <3>1, <3>3 DEF Kept
    <3> QED
      BY <3>2, <3>3
  <2>2. CASE p = pos + 1
    <3>1. t = s /\ m = k
      BY <1>1, <1>2, <2>2 DEF s, k
    <3>2. StoredIn(slots'[m[1]], m, t, p)
      BY <1>6, <1>7, <2>2, <3>1
    <3>3. t \in Known /\ m # CoreModel
      BY <1>3, <3>1 DEF s, k
    <3> QED
      BY <1>1, <3>2, <3>3 DEF Kept
  <2> QED
    BY <1>0, <2>1, <2>2, ValuedGrows
<1>13. StoredInv'
  <2>1. \A p, m, t : IsOf(p, m, t) => IsOf(p, m, t)'
    BY <1>0, StoredStaysRead
  <2>2. pos + 1 \in Valued' /\ doc'[pos + 1].section = s /\ Profile[s].model = k
    <3>1. pos + 1 \in 1 .. pos + 1
      BY <1>1
    <3>2. pos + 1 \in Valued'
      BY <1>1, <3>1 DEF EntitySection, HasValue, Valued
    <3> QED
      BY <1>1, <1>2, <3>2 DEF k, s
  <2>3. ASSUME NEW f \in Entities, NEW q \in Paths, NEW t \in Known, NEW p \in Nat \ {0},
               q[1] = f, StoredIn(slots'[f], q, t, p)
        PROVE  IsOf(p, q, t)'
    <3>1. CASE f # e
      BY <3>1, <1>7, <2>1, <2>3 DEF StoredInv
    <3>2. CASE f = e
      <4>1. OnlyAdds(slots[e], new, k, s, pos + 1)
        BY <1>4 DEF Gained
      <4>2. StoredIn(slots[e], q, t, p) \/ (q = k /\ t = s /\ p = pos + 1)
        BY <3>2, <4>1, <1>7, <2>3 DEF OnlyAdds
      <4> QED
        <5>1. CASE StoredIn(slots[e], q, t, p)
          BY <3>2, <5>1, <1>5, <2>1, <2>3 DEF StoredInv
        <5>2. CASE q = k /\ t = s /\ p = pos + 1
          BY <2>2, <5>2 DEF IsOf
        <5> QED
          BY <4>2, <5>1, <5>2
    <3> QED
      BY <3>1, <3>2
  <2> QED
    BY <1>2, <2>1, <2>3 DEF StoredInv
<1> QED
  BY <1>0, <1>9, <1>11, <1>12, <1>13, TablesStay

(***************************************************************************)
(* So does making the tables.                                              *)
(***************************************************************************)
LEMMA BodyStays ==
  ASSUME IInv, UNCHANGED <<doc, pos, extracted>>
  PROVE  /\ GroupInv' /\ KeptInv' /\ StoredInv'
         /\ \A m : Built(m)' = Built(m) /\ Parsed(m)' = Parsed(m)
<1>1. UNCHANGED <<doc, pos, core, slots, index, last, unknown, errors>>
  BY DEF extracted
<1>2. GroupInv'
  BY <1>1 DEF IInv, GroupInv
<1>3. KeptInv'
  <2>1. Valued' = Valued
    BY <1>1 DEF Valued
  <2> QED
    BY <1>1, <2>1 DEF IInv, KeptInv, Kept
<1>4. StoredInv'
  <2>1. Valued' = Valued
    BY <1>1 DEF Valued
  <2> QED
    BY <1>1, <2>1 DEF IInv, StoredInv, IsOf
<1>5. ASSUME NEW m PROVE Built(m)' = Built(m)
  BY <1>1 DEF Built, Table, NewRow, RawCell, ChildRow, UpToChild, Children
<1>6. ASSUME NEW m PROVE Parsed(m)' = Parsed(m)
  BY <1>5 DEF Parsed
<1> QED
  BY <1>2, <1>3, <1>4, <1>5, <1>6

LEMMA BuildSectionTablesIsKept ==
  ASSUME IInv, BuildSectionTables PROVE IInv'
<1>1. UNCHANGED <<doc, pos, extracted>> /\ pc' = "parse"
      /\ UNCHANGED <<doc, pos, core, slots, index, last, unknown, errors>>
  BY DEF BuildSectionTables, extracted
<1>2. GroupInv' /\ KeptInv' /\ StoredInv' /\ \A m : Built(m)' = Built(m)
  BY <1>1, BodyStays
<1>3. quarantine' \subseteq Models \cup {<<"unknown", "unknown">>, <<"core", "core">>}
  BY DEF BuildSectionTables
<1>4. TypeInv'
  BY <1>1, <1>3 DEF IInv, TypeInv
<1>5. TablesInv'
  <2>1. tables' = [m \in Models |-> Built(m)']
    BY <1>2 DEF BuildSectionTables, Built
  <2>2. /\ unknown # {} => <<"unknown", "unknown">> \in quarantine'
        /\ errors # {} => <<"core", "core">> \in quarantine'
    BY DEF BuildSectionTables
  <2> QED
    BY <1>1, <2>1, <2>2 DEF TablesInv
<1> QED
  BY <1>2, <1>4, <1>5 DEF IInv

LEMMA ApplyColumnParsersIsKept ==
  ASSUME IInv, ApplyColumnParsers PROVE IInv'
<1>1. UNCHANGED <<doc, pos, extracted, quarantine>> /\ pc = "parse" /\ pc' = "validate"
      /\ UNCHANGED <<doc, pos, core, slots, index, last, unknown, errors>>
  BY DEF ApplyColumnParsers, extracted
<1>2. GroupInv' /\ KeptInv' /\ StoredInv' /\ \A m : Parsed(m)' = Parsed(m)
  BY <1>1, BodyStays
<1>3. TypeInv'
  BY <1>1 DEF IInv, TypeInv
<1>4. tables = [m \in Models |-> Built(m)]
  BY <1>1 DEF IInv, TablesInv
<1>5. tables' = [m \in Models |-> Parsed(m)]
  <2>1. tables' = [m \in Models |-> {Parse(m, row) : row \in tables[m]}]
    BY DEF ApplyColumnParsers, Parse
  <2>2. \A m \in Models : tables[m] = Built(m)
    BY <1>4
  <2> QED
    BY <2>1, <2>2 DEF Parsed
<1>6. TablesInv'
  BY <1>1, <1>2, <1>5 DEF IInv, TablesInv
<1> QED
  BY <1>2, <1>3, <1>6 DEF IInv

LEMMA ApplyPydanticValidationIsKept ==
  ASSUME IInv, ApplyPydanticValidation PROVE IInv'
<1>1. UNCHANGED <<doc, pos, extracted>> /\ pc = "validate" /\ pc' = "done"
      /\ UNCHANGED <<doc, pos, core, slots, index, last, unknown, errors>>
  BY DEF ApplyPydanticValidation, extracted
<1>2. GroupInv' /\ KeptInv' /\ StoredInv' /\ \A m : Parsed(m)' = Parsed(m)
  BY <1>1, BodyStays
<1>3. \A m \in Models : tables[m] = Parsed(m)
  BY <1>1 DEF IInv, TablesInv
<1>4. quarantine' = quarantine \cup {m \in Models : \E row \in tables[m] : ~Valid(row)}
  BY DEF ApplyPydanticValidation
<1>5. TypeInv'
  BY <1>1, <1>4 DEF IInv, TypeInv
<1>6. tables' = [m \in Models |-> {row \in Parsed(m) : Valid(row)}]
  BY <1>3 DEF ApplyPydanticValidation
<1>7. \A m \in Models : \A row \in Parsed(m) : Valid(row) \/ m \in quarantine'
  BY <1>3, <1>4
<1>8. TablesInv'
  BY <1>1, <1>2, <1>4, <1>6, <1>7 DEF IInv, TablesInv, Valid
<1> QED
  BY <1>2, <1>5, <1>8 DEF IInv

LEMMA NextIsKept == IInv /\ [Next]_vars => IInv'
<1> SUFFICES ASSUME IInv, [Next]_vars PROVE IInv'
  OBVIOUS
<1>1. CASE SkipEmpty
  BY <1>1, SkipEmptyIsKept
<1>2. CASE UnknownSection
  BY <1>2, UnknownSectionIsKept
<1>3. CASE CoreSection
  BY <1>3, CoreSectionIsKept
<1>4. CASE EntitySection
  BY <1>4, EntitySectionIsKept
<1>5. CASE BuildSectionTables
  BY <1>5, BuildSectionTablesIsKept
<1>6. CASE ApplyColumnParsers
  BY <1>6, ApplyColumnParsersIsKept
<1>7. CASE ApplyPydanticValidation
  BY <1>7, ApplyPydanticValidationIsKept
<1>8. CASE UNCHANGED vars
  <2>1. UNCHANGED <<doc, pos, extracted>> /\ UNCHANGED <<pc, tables, quarantine>>
        /\ UNCHANGED <<doc, pos, core, slots, index, last, unknown, errors>>
    BY <1>8 DEF vars, extracted
  <2>2. GroupInv' /\ KeptInv' /\ StoredInv' /\ \A m : Built(m)' = Built(m) /\ Parsed(m)' = Parsed(m)
    BY <2>1, BodyStays
  <2>3. TypeInv'
    BY <2>1 DEF IInv, TypeInv
  <2>4. TablesInv'
    BY <2>1, <2>2 DEF IInv, TablesInv, Valid
  <2> QED
    BY <2>2, <2>3, <2>4 DEF IInv
<1> QED
  BY <1>1, <1>2, <1>3, <1>4, <1>5, <1>6, <1>7, <1>8 DEF Next

LEMMA InvariantHolds == Spec => []IInv
<1>1. Init => IInv
  BY InitIsKept
<1>2. IInv /\ [Next]_vars => IInv'
  BY NextIsKept
<1> QED
  BY <1>1, <1>2, PTL DEF Spec

\* Units keep the order of the body (raw_section_extractor.py:251-279): in any
\* body, all values of an occurrence come before those of the next one, the
\* values of a child before those of the next child, and the sections of a unit
\* ascend.
THEOREM OrderIsAlwaysKept == Spec => []OrderIsKept
<1>1. IInv => OrderIsKept
  <2> SUFFICES ASSUME IInv, NEW e \in Entities, NEW i \in DOMAIN slots[e], NEW j \in DOMAIN slots[e]
               PROVE
                 LET Blocks(x) == BlocksOf(slots[e][x].core) \cup ChildBlocks(slots[e][x]) IN
                 /\ i < j => \A p \in Blocks(i), q \in Blocks(j) : p < q
                 /\ FieldsAscend(slots[e][i].core)
                 /\ \A k \in Paths : \A x, y \in DOMAIN slots[e][i].kids[k] :
                      LET kids == slots[e][i].kids[k] IN
                      /\ x < y => \A p \in BlocksOf(kids[x]), q \in BlocksOf(kids[y]) : p < q
                      /\ FieldsAscend(kids[x])
    BY DEF OrderIsKept
  <2>1. ListOK(slots[e], pos)
    BY DEF IInv, GroupInv
  <2>2. SlotOK(slots[e][i])
    BY <2>1 DEF ListOK
  <2>3. i < j => \A p \in SlotBlocks(slots[e][i]), q \in SlotBlocks(slots[e][j]) : p < q
    BY <2>1 DEF ListOK
  <2> QED
    BY <2>2, <2>3 DEF SlotOK, KidsOK, SlotBlocks
<1> QED
  BY <1>1, InvariantHolds, PTL

\* No occurrence and no child is made of nothing (raw_section_extractor.py:192-203,
\* 257-276): the counters never run ahead of what is stored.
THEOREM NoUnitIsEmpty == Spec => []NoEmptyUnit
<1>1. IInv => NoEmptyUnit
  <2> SUFFICES ASSUME IInv, NEW e \in Entities, NEW i \in DOMAIN slots[e]
               PROVE  /\ BlocksOf(slots[e][i].core) \cup ChildBlocks(slots[e][i]) # {}
                      /\ \A k \in Paths : \A j \in DOMAIN slots[e][i].kids[k] :
                           BlocksOf(slots[e][i].kids[k][j]) # {}
    BY DEF NoEmptyUnit
  <2>1. ListOK(slots[e], pos)
    BY DEF IInv, GroupInv
  <2> QED
    BY <2>1 DEF ListOK, SlotOK, KidsOK, SlotBlocks
<1> QED
  BY <1>1, InvariantHolds, PTL

(***************************************************************************)
(* Rows.                                                                   *)
(***************************************************************************)
IsRow(row) == row = [ordinal |-> row.ordinal, parent |-> row.parent,
                     errors |-> row.errors, cells |-> row.cells]

RowWith(new, row, c, e) ==
  /\ IsRow(new) /\ new.cells = c /\ new.errors = e
  /\ new.ordinal = row.ordinal /\ new.parent = row.parent

LEMMA RowIsReplaced ==
  ASSUME NEW row, IsRow(row), NEW c, NEW e, NEW new, new = [row EXCEPT !.cells = c, !.errors = e]
  PROVE  RowWith(new, row, c, e)
<1>1. row = [ordinal |-> row.ordinal, parent |-> row.parent,
             errors |-> row.errors, cells |-> row.cells]
  BY DEF IsRow
<1>2. new = [ordinal |-> row.ordinal, parent |-> row.parent, errors |-> e, cells |-> c]
  BY <1>1
<1> QED
  BY <1>2 DEF RowWith, IsRow

\* A row after the parsers of its columns.
InPlace(row, c) ==
  IF Profile[c.section].parser = "none" THEN Returns(row.cells[c].value)
  ELSE CallParser(Profile[c.section].parser, row.cells[c].value)

LEMMA RowIsParsedInPlace ==
  ASSUME NEW row, IsRow(row)
  PROVE  LET new == ParseInPlace(row) IN
         /\ IsRow(new) /\ new.ordinal = row.ordinal /\ new.parent = row.parent
         /\ DOMAIN new.cells = DOMAIN row.cells
         /\ \A c \in DOMAIN row.cells : new.cells[c] = ParsedCell(row.cells[c], InPlace(row, c))
         /\ new.errors = {c \in DOMAIN row.cells : InPlace(row, c).error}
<1> DEFINE new == ParseInPlace(row)
           cells == [c \in DOMAIN row.cells |-> ParsedCell(row.cells[c], InPlace(row, c))]
           errs == {c \in DOMAIN row.cells : InPlace(row, c).error}
<1>1. new = [row EXCEPT !.cells = cells, !.errors = errs]
  BY DEF ParseInPlace, InPlace
<1> HIDE DEF new, cells, errs
<1>2. /\ IsRow(new) /\ new.cells = cells /\ new.errors = errs
      /\ new.ordinal = row.ordinal /\ new.parent = row.parent
  <2>1. RowWith(new, row, cells, errs)
    BY <1>1, RowIsReplaced, Zenon
  <2> QED
    BY <2>1 DEF RowWith
<1> QED
  BY <1>2 DEF new, cells, errs

\* A row after the parsers of derived columns.
SourcesOf(row) == {c \in DOMAIN row.cells : DOMAIN DerivedFrom(c) # {}}
DerivedOf(row) == UNION {DOMAIN DerivedFrom(c) : c \in SourcesOf(row)}
Derives(row, d) == CallParser(DerivedFrom(d)[d], row.cells[Source(d.section)].value)

LEMMA RowIsDerived ==
  ASSUME NEW row, IsRow(row)
  PROVE  LET new == ParseDerived(row) IN
         /\ IsRow(new) /\ new.ordinal = row.ordinal /\ new.parent = row.parent
         /\ DOMAIN new.cells = (DOMAIN row.cells \ SourcesOf(row)) \cup DerivedOf(row)
         /\ \A c \in DOMAIN row.cells :
              c \notin SourcesOf(row) /\ c \notin DerivedOf(row) => new.cells[c] = row.cells[c]
         /\ \A d \in DerivedOf(row) :
              new.cells[d] = ParsedCell(row.cells[Source(d.section)], Derives(row, d))
         /\ new.errors = row.errors \cup {d \in DerivedOf(row) : Derives(row, d).error}
<1> DEFINE new == ParseDerived(row)
           cells == [c \in (DOMAIN row.cells \ SourcesOf(row)) \cup DerivedOf(row) |->
                       IF c \in DerivedOf(row)
                         THEN ParsedCell(row.cells[Source(c.section)], Derives(row, c))
                         ELSE row.cells[c]]
           errs == row.errors \cup {d \in DerivedOf(row) : Derives(row, d).error}
<1>1. new = [row EXCEPT !.cells = cells, !.errors = errs]
  <2>1. new = [row EXCEPT !.cells = cells,
                          !.errors = @ \cup {d \in DerivedOf(row) : Derives(row, d).error}]
    BY DEF ParseDerived, SourcesOf, DerivedOf, Derives
  <2> HIDE DEF cells
  <2> QED
    BY <2>1 DEF IsRow
<1> HIDE DEF new, cells, errs
<1>2. /\ IsRow(new) /\ new.cells = cells /\ new.errors = errs
      /\ new.ordinal = row.ordinal /\ new.parent = row.parent
  <2>1. RowWith(new, row, cells, errs)
    BY <1>1, RowIsReplaced, Zenon
  <2> QED
    BY <2>1 DEF RowWith
<1> QED
  BY <1>2 DEF new, cells, errs

\* A row after the computed columns.
OutputsOf(m) == {spec.column : spec \in {spec \in Computed : spec.model = m}}

LEMMA RowIsComputed ==
  ASSUME NEW m, NEW row, IsRow(row)
  PROVE  LET new == Compute(m, row) IN
         /\ IsRow(new) /\ new.ordinal = row.ordinal /\ new.parent = row.parent
         /\ DOMAIN new.cells = DOMAIN row.cells \cup OutputsOf(m)
         /\ \A c \in DOMAIN row.cells : c \notin OutputsOf(m) => new.cells[c] = row.cells[c]
         /\ row.errors \subseteq new.errors
         /\ new.errors \subseteq row.errors \cup OutputsOf(m)
<1> DEFINE new == Compute(m, row)
           SpecOf(c) == CHOOSE spec \in {spec \in Computed : spec.model = m} : spec.column = c
           Cells(c) == SourceCells(row, SpecOf(c))
           Result(c) == CallComputed(SpecOf(c).fn, [i \in DOMAIN Cells(c) |-> Cells(c)[i].value])
           Cell(c) == [from |-> UNION {Cells(c)[i].from : i \in DOMAIN Cells(c)},
                       value |-> Result(c).value]
           cells == [c \in DOMAIN row.cells \cup OutputsOf(m) |->
                       IF c \in OutputsOf(m) THEN Cell(c) ELSE row.cells[c]]
           errs == row.errors \cup {c \in OutputsOf(m) : Result(c).error}
<1>1. new = [row EXCEPT !.cells = cells,
                        !.errors = @ \cup {c \in OutputsOf(m) : Result(c).error}]
  BY DEF Compute, OutputsOf
<1> HIDE DEF new, Cell, Result, Cells, SpecOf
<1>2. new = [row EXCEPT !.cells = cells, !.errors = errs]
  <2> HIDE DEF cells
  <2> QED
    BY <1>1 DEF IsRow
<1> HIDE DEF cells, errs
<1>3. /\ IsRow(new) /\ new.cells = cells /\ new.errors = errs
      /\ new.ordinal = row.ordinal /\ new.parent = row.parent
  <2>1. RowWith(new, row, cells, errs)
    BY <1>2, RowIsReplaced, Zenon
  <2> QED
    BY <2>1 DEF RowWith
<1>4. /\ DOMAIN cells = DOMAIN row.cells \cup OutputsOf(m)
      /\ \A c \in DOMAIN row.cells : c \notin OutputsOf(m) => cells[c] = row.cells[c]
  BY DEF cells
<1>5. row.errors \subseteq errs /\ errs \subseteq row.errors \cup OutputsOf(m)
  BY DEF errs
<1> QED
  BY <1>3, <1>4, <1>5 DEF new

\* The rows of the tables as they are built.
IsNewRow(m, row) ==
  /\ IsRow(row) /\ row.errors = {}
  /\ row.ordinal \in Nat \ {0} /\ row.parent \in Nat
  /\ DOMAIN row.cells = {Source(s) : s \in SectionsOf(m)}

LEMMA NewRowsAreRows ==
  ASSUME NEW m, NEW fields, NEW ordinal \in Nat \ {0}, NEW parent \in Nat
  PROVE  /\ IsNewRow(m, NewRow(m, fields, ordinal, parent))
         /\ NewRow(m, fields, ordinal, parent).ordinal = ordinal
         /\ NewRow(m, fields, ordinal, parent).parent = parent
         /\ \A s \in SectionsOf(m) :
              NewRow(m, fields, ordinal, parent).cells[Source(s)] = RawCell(fields[s])
<1> DEFINE cells == [c \in {Source(s) : s \in SectionsOf(m)} |-> RawCell(fields[c.section])]
           new == NewRow(m, fields, ordinal, parent)
<1>1. new = [ordinal |-> ordinal, parent |-> parent, errors |-> {}, cells |-> cells]
  BY DEF NewRow
<1>2. \A s \in SectionsOf(m) : cells[Source(s)] = RawCell(fields[s])
  <2> SUFFICES ASSUME NEW s \in SectionsOf(m) PROVE cells[Source(s)] = RawCell(fields[s])
    OBVIOUS
  <2>1. Source(s).section = s
    BY DEF Source
  <2> QED
    BY <2>1
<1>3. DOMAIN cells = {Source(s) : s \in SectionsOf(m)}
  OBVIOUS
<1> HIDE DEF cells, new
<1> QED
  BY <1>1, <1>2, <1>3 DEF IsNewRow, IsRow, new

LEMMA ChildrenAreCounted ==
  ASSUME TypeInv, NEW m \in Models, m # CoreModel, ~IsEntity(m)
  PROVE  /\ m[1] \in Entities /\ <<m[1], "core">> # CoreModel
         /\ \A c \in Children(m) :
              /\ c[1] \in DOMAIN slots[m[1]] /\ c[1] \in Nat \ {0}
              /\ Cardinality(UpToChild(m, c)) \in Nat \ {0}
         /\ \A i \in DOMAIN slots[m[1]] : \A j \in DOMAIN slots[m[1]][i].kids[m] :
              <<i, j>> \in Children(m)
<1> DEFINE list == slots[m[1]]
           I == DOMAIN list
           J(i) == DOMAIN list[i].kids[m]
           T(i) == {i} \X J(i)
           S == {T(i) : i \in I}
<1>1. m[1] \in Entities /\ m \in Paths
  BY ModelsAreRight, PathsAreRight DEF Models
<1>2. <<m[1], "core">> # CoreModel
  BY <1>1 DEF Entities, CoreModel
<1>3. list \in Seq(Slot) /\ I = 1 .. Len(list) /\ Len(list) \in Nat
  BY <1>1 DEF TypeInv
<1>4. \A i \in I : list[i] \in Slot
  BY <1>3
<1>5. \A i \in I : list[i].kids[m] \in Seq(Fields)
  BY <1>1, <1>4 DEF Slot
<1>6. \A i \in I : J(i) = 1 .. Len(list[i].kids[m]) /\ Len(list[i].kids[m]) \in Nat
  BY <1>5
<1>7. IsFiniteSet(I)
  BY <1>3, FS_Interval
<1>8. \A i \in I : IsFiniteSet(T(i))
  <2> SUFFICES ASSUME NEW i \in I PROVE IsFiniteSet(T(i))
    OBVIOUS
  <2>1. IsFiniteSet(J(i))
    BY <1>6, FS_Interval
  <2>2. IsFiniteSet({i})
    BY FS_Singleton
  <2> HIDE DEF J, I
  <2> QED
    BY <2>1, <2>2, FS_Product
<1>9. IsFiniteSet(S)
  <2> DEFINE f == [i \in I |-> T(i)]
  <2> HIDE DEF I, T
  <2>1. f \in [I -> S] /\ \A t \in S : \E i \in I : f[i] = t
    OBVIOUS
  <2>2. f \in Surjection(I, S)
    BY <2>1 DEF Surjection
  <2> HIDE DEF f, S
  <2> QED
    BY <2>2, <1>7, FS_Surjection
<1>10. Children(m) = UNION S
  BY DEF Children
<1>11. IsFiniteSet(Children(m))
  <2>1. \A t \in S : IsFiniteSet(t)
    BY <1>8
  <2> HIDE DEF S
  <2> QED
    BY <1>9, <1>10, <2>1, FS_UNION
<1>12. \A i \in I : \A j \in J(i) : <<i, j>> \in Children(m)
  BY <1>10
<1>13. \A c \in Children(m) : c[1] \in I /\ c[2] \in J(c[1])
  BY <1>10
<1>14. ASSUME NEW c \in Children(m) PROVE Cardinality(UpToChild(m, c)) \in Nat \ {0}
  <2>1. c[1] \in Nat /\ c[2] \in Nat
    BY <1>3, <1>6, <1>13
  <2>2. c \in UpToChild(m, c) /\ UpToChild(m, c) \in SUBSET Children(m)
    BY <2>1 DEF UpToChild
  <2>3. IsFiniteSet(UpToChild(m, c))
    BY <1>11, <2>2, FS_Subset
  <2>4. Cardinality(UpToChild(m, c)) \in Nat
    BY <2>3, FS_CardinalityType
  <2>5. Cardinality(UpToChild(m, c)) # 0
    BY <2>2, <2>3, FS_EmptySet
  <2> QED
    BY <2>4, <2>5
<1> QED
  BY <1>1, <1>2, <1>3, <1>12, <1>13, <1>14

LEMMA BuiltRowsAreNew ==
  ASSUME TypeInv, NEW m \in Models, NEW row \in Built(m)
  PROVE  IsNewRow(m, row)
<1>0. row \in Table(m)
  BY DEF Built
<1>1. CASE m = CoreModel
  <2>1. row = NewRow(m, core, 1, 0)
    BY <1>0, <1>1 DEF Table, CoreModel
  <2>2. 1 \in Nat \ {0} /\ 0 \in Nat
    OBVIOUS
  <2> QED
    BY <2>1, <2>2, NewRowsAreRows
<1>2. CASE m # CoreModel /\ IsEntity(m)
  <2>1. PICK i \in DOMAIN slots[m[1]] : row = NewRow(m, slots[m[1]][i].core, i, 0)
    BY <1>0, <1>2 DEF Table, CoreModel
  <2>2. m[1] \in Entities
    BY <1>2, ModelsAreRight DEF Models
  <2>3. i \in Nat \ {0}
    BY <2>2 DEF TypeInv
  <2> QED
    BY <2>1, <2>3, NewRowsAreRows
<1>3. CASE m # CoreModel /\ ~IsEntity(m)
  <2>1. PICK c \in Children(m) : row = ChildRow(m, c, c[1])
    BY <1>0, <1>3 DEF Table, CoreModel
  <2>2. c[1] \in Nat /\ Cardinality(UpToChild(m, c)) \in Nat \ {0}
    BY <1>3, ChildrenAreCounted
  <2> QED
    BY <2>1, <2>2, NewRowsAreRows DEF ChildRow
<1> QED
  BY <1>1, <1>2, <1>3

\* The columns of a new row are those of the sections of its model.
LEMMA ColumnsAreSources ==
  ASSUME NEW s \in Known
  PROVE  /\ Source(s).section = s
         /\ DerivedFrom(Source(s)) = Profile[s].derived
         /\ \A d \in DOMAIN Profile[s].derived :
              d.section = s /\ DerivedFrom(d) = Profile[s].derived /\ d \notin OutputsOf(Profile[s].model)
<1>1. Source(s).section = s
  BY DEF Source
<1>2. \A d \in DOMAIN Profile[s].derived : d.section = s
  BY ConstantsAssumption
<1>3. \A d \in DOMAIN Profile[s].derived : d \notin OutputsOf(Profile[s].model)
  BY ConstantsAssumption DEF OutputsOf
<1> QED
  BY <1>1, <1>2, <1>3 DEF DerivedFrom

\* Parsed rows keep their ordinals and their parents, and their errors are of
\* columns they have.
LEMMA ParsedRowsAreRows ==
  ASSUME NEW m \in Models, NEW row, IsNewRow(m, row)
  PROVE  /\ Parse(m, row).ordinal = row.ordinal /\ Parse(m, row).parent = row.parent
         /\ Parse(m, row).errors \subseteq DOMAIN Parse(m, row).cells
<1> DEFINE r1 == ParseInPlace(row)
           r2 == ParseDerived(r1)
           r3 == Compute(m, r2)
<1>0. IsRow(row)
  BY DEF IsNewRow
<1>1. /\ IsRow(r1) /\ r1.ordinal = row.ordinal /\ r1.parent = row.parent
      /\ DOMAIN r1.cells = DOMAIN row.cells
      /\ r1.errors = {c \in DOMAIN row.cells : InPlace(row, c).error}
  BY <1>0, RowIsParsedInPlace
<1> HIDE DEF r1
<1>2. /\ IsRow(r2) /\ r2.ordinal = r1.ordinal /\ r2.parent = r1.parent
      /\ DOMAIN r2.cells = (DOMAIN r1.cells \ SourcesOf(r1)) \cup DerivedOf(r1)
      /\ r2.errors = r1.errors \cup {d \in DerivedOf(r1) : Derives(r1, d).error}
  BY <1>1, RowIsDerived
<1> HIDE DEF r2
<1>3. /\ r3.ordinal = r2.ordinal /\ r3.parent = r2.parent
      /\ DOMAIN r3.cells = DOMAIN r2.cells \cup OutputsOf(m)
      /\ r3.errors \subseteq r2.errors \cup OutputsOf(m)
  BY <1>2, RowIsComputed
<1>4. \A c \in r1.errors : c \notin SourcesOf(r1)
  <2> SUFFICES ASSUME NEW c \in r1.errors, c \in SourcesOf(r1) PROVE FALSE
    OBVIOUS
  <2>1. PICK s \in SectionsOf(m) : c = Source(s)
    BY <1>1 DEF IsNewRow
  <2>2. s \in Known /\ c.section = s /\ DOMAIN Profile[s].derived # {}
    BY <2>1, ColumnsAreSources DEF SectionsOf, SourcesOf
  <2>3. Profile[s].parser = "none"
    BY <2>2, ConstantsAssumption
  <2>4. InPlace(row, c).error = FALSE
    BY <2>2, <2>3 DEF InPlace, Returns
  <2> QED
    BY <1>1, <2>4
<1>5. r2.errors \subseteq DOMAIN r2.cells
  BY <1>1, <1>2, <1>4
<1>6. r3.errors \subseteq DOMAIN r3.cells
  BY <1>3, <1>5
<1>7. Parse(m, row) = r3
  BY DEF Parse, r1, r2
<1> QED
  BY <1>1, <1>2, <1>3, <1>6, <1>7

\* The types of the variables; the ordinal of a row counts from one, and its
\* errors are of columns that it has (spark_table_builder.py:269-288, 627-640).
THEOREM TypesAreCorrect == Spec => []TypeOK
<1>1. IInv => TypeOK
  <2> SUFFICES ASSUME IInv PROVE TypeOK
    OBVIOUS
  <2>1. DOMAIN tables = Models
    BY DEF IInv, TypeInv, TablesInv
  <2>2. ASSUME NEW m \in Models, NEW row \in tables[m]
        PROVE  /\ row.ordinal \in Nat \ {0} /\ row.parent \in Nat
               /\ row.errors \subseteq DOMAIN row.cells
    <3>1. CASE row \in Built(m)
      <4>1. IsNewRow(m, row)
        BY <3>1, BuiltRowsAreNew DEF IInv
      <4> QED
        BY <4>1 DEF IsNewRow
    <3>2. CASE row \in Parsed(m)
      <4>1. PICK r \in Built(m) : row = Parse(m, r)
        BY <3>2 DEF Parsed
      <4>2. IsNewRow(m, r)
        BY <4>1, BuiltRowsAreNew DEF IInv
      <4>3. /\ row.ordinal = r.ordinal /\ row.parent = r.parent
            /\ row.errors \subseteq DOMAIN row.cells
        BY <4>1, <4>2, ParsedRowsAreRows
      <4> QED
        BY <4>2, <4>3 DEF IsNewRow
    <3>3. row \in Built(m) \/ row \in Parsed(m)
      <4>1. pc = "parse" => row \in Built(m)
        BY DEF IInv, TablesInv
      <4>2. pc = "validate" => row \in Parsed(m)
        BY DEF IInv, TablesInv
      <4>3. pc = "done" => row \in Parsed(m)
        BY DEF IInv, TablesInv
      <4>4. pc # "read"
        BY DEF IInv, TablesInv
      <4> QED
        BY <4>1, <4>2, <4>3, <4>4 DEF IInv, TypeInv
    <3> QED
      BY <3>1, <3>2, <3>3
  <2> QED
    BY <2>1, <2>2 DEF IInv, TypeInv, TypeOK
<1> QED
  BY <1>1, InvariantHolds, PTL

\* Every child has a parent (spark_table_builder.py:161-169): whatever lists the
\* grouping makes, the occurrence a row of a child table names is a row of the
\* entity's table, or was refused and the notice is quarantined.
THEOREM ChildrenHaveParents == Spec => []ChildHasParent
<1>1. IInv => ChildHasParent
  <2> SUFFICES ASSUME IInv, pc = "done", NEW m \in Models, ~IsEntity(m), <<m[1], "core">> \in Models,
                      NEW row \in tables[m]
               PROVE  \/ \E occ \in tables[<<m[1], "core">>] : occ.ordinal = row.parent
                      \/ <<m[1], "core">> \in quarantine
    BY DEF ChildHasParent
  <2> DEFINE e == m[1]
             k == <<e, "core">>
  <2>1. tables = [q \in Models |-> {r \in Parsed(q) : Valid(r)}]
        /\ \A q \in Models : \A r \in Parsed(q) : Valid(r) \/ q \in quarantine
    BY DEF IInv, TablesInv
  <2>2. PICK r \in Built(m) : row = Parse(m, r)
    BY <2>1 DEF Parsed
  <2>3. m # CoreModel /\ errors = {} /\ r \in Table(m)
    BY <2>2 DEF Built, IsEntity, CoreModel
  <2>4. PICK c \in Children(m) : r = ChildRow(m, c, c[1])
    BY <2>3 DEF Table, CoreModel
  <2>5. /\ e \in Entities /\ k # CoreModel
        /\ c[1] \in DOMAIN slots[e] /\ c[1] \in Nat \ {0}
        /\ Cardinality(UpToChild(m, c)) \in Nat \ {0}
    BY <2>3, ChildrenAreCounted DEF IInv
  <2>6. r.parent = c[1]
    BY <2>4 DEF ChildRow, NewRow
  <2>7. row.parent = c[1]
    BY <2>2, <2>6, BuiltRowsAreNew, ParsedRowsAreRows DEF IInv
  <2> DEFINE o == NewRow(k, slots[e][c[1]].core, c[1], 0)
  <2>8. o \in Built(k)
    <3>1. IsEntity(k) /\ k[1] = e
      BY DEF IsEntity
    <3> QED
      BY <2>3, <2>5, <3>1 DEF Built, Table, CoreModel
  <2>9. o.ordinal = c[1]
    BY DEF NewRow
  <2> HIDE DEF o
  <2>10. Parse(k, o) \in Parsed(k) /\ Parse(k, o).ordinal = c[1]
    BY <2>8, <2>9, BuiltRowsAreNew, ParsedRowsAreRows DEF IInv, Parsed
  <2> QED
    BY <2>1, <2>7, <2>10
<1> QED
  BY <1>1, InvariantHolds, PTL

(***************************************************************************)
(* Nothing is lost.                                                        *)
(***************************************************************************)
\* A parser returns something, or it fails.
LEMMA ParsersReturn ==
  ASSUME NEW fn \in CommonParsers, NEW raw
  PROVE  \/ CommonParser(fn, raw) = Fails
         \/ \E v : CommonParser(fn, raw) = Returns(v)
<1>1. ParseDateFromText(raw) = Fails \/ \E v : ParseDateFromText(raw) = Returns(v)
  BY DEF ParseDateFromText
<1>2. ParseNumber(raw) = Fails \/ \E v : ParseNumber(raw) = Returns(v)
  BY DEF ParseNumber
<1>3. \E v : ParseCurrencyCode(raw) = Returns(v)
  BY DEF ParseCurrencyCode
<1>4. \E v : ParseNationalId(raw) = Returns(v)
  BY DEF ParseNationalId
<1>5. \E v : ParseDurationStartDate(raw) = Returns(v)
  BY DEF ParseDurationStartDate
<1>6. \E v : ParseDurationEndDate(raw) = Returns(v)
  BY DEF ParseDurationEndDate
<1>7. \E v : ParseDurationDaysFromRange(raw) = Returns(v)
  BY DEF ParseDurationDaysFromRange
<1>8. \E v : ParseChangeLabel(raw) = Returns(v)
  BY DEF ParseChangeLabel
<1>9. \E v : ParseChangeBefore(raw) = Returns(v)
  BY DEF ParseChangeBefore
<1>10. \E v : ParseChangeAfter(raw) = Returns(v)
  BY DEF ParseChangeAfter
<1> QED
  BY <1>1, <1>2, <1>3, <1>4, <1>5, <1>6, <1>7, <1>8, <1>9, <1>10 DEF CommonParsers, CommonParser

\* A cell with a value, or an error of its row, and the blocks it comes from.
Shown(row, p) ==
  \E c \in DOMAIN row.cells : p \in row.cells[c].from /\ (row.cells[c].value # Null \/ c \in row.errors)

\* The row of a value still shows it when its columns are parsed.
LEMMA ParsersShow ==
  ASSUME NEW s \in Known, NEW row, IsNewRow(Profile[s].model, row), NEW raw \in Raws, NEW p,
         row.cells[Source(s)] = [from |-> {p}, value |-> raw],
         ~Rejected(s, raw), ~Replaced(s)
  PROVE  Shown(Parse(Profile[s].model, row), p)
<1> DEFINE m == Profile[s].model
           col == Source(s)
           r1 == ParseInPlace(row)
           r2 == ParseDerived(r1)
           r3 == Compute(m, r2)
<1>0. raw # Null
  BY ConstantsAssumption
<1>1. IsRow(row) /\ col \in DOMAIN row.cells
  BY DEF IsNewRow, SectionsOf
<1>2. /\ IsRow(r1) /\ DOMAIN r1.cells = DOMAIN row.cells
      /\ r1.cells[col] = ParsedCell(row.cells[col], InPlace(row, col))
      /\ r1.errors = {c \in DOMAIN row.cells : InPlace(row, c).error}
  BY <1>1, RowIsParsedInPlace
<1> HIDE DEF r1
<1>3. /\ IsRow(r2)
      /\ DOMAIN r2.cells = (DOMAIN r1.cells \ SourcesOf(r1)) \cup DerivedOf(r1)
      /\ \A c \in DOMAIN r1.cells :
           c \notin SourcesOf(r1) /\ c \notin DerivedOf(r1) => r2.cells[c] = r1.cells[c]
      /\ \A d \in DerivedOf(r1) :
           r2.cells[d] = ParsedCell(r1.cells[Source(d.section)], Derives(r1, d))
      /\ r2.errors = r1.errors \cup {d \in DerivedOf(r1) : Derives(r1, d).error}
  BY <1>2, RowIsDerived
<1> HIDE DEF r2
<1>4. /\ DOMAIN r3.cells = DOMAIN r2.cells \cup OutputsOf(m)
      /\ \A c \in DOMAIN r2.cells : c \notin OutputsOf(m) => r3.cells[c] = r2.cells[c]
      /\ r2.errors \subseteq r3.errors
  BY <1>3, RowIsComputed
<1>5. Parse(m, row) = r3
  BY DEF Parse, r1, r2
<1> HIDE DEF r3
<1>6. ASSUME NEW c \in DOMAIN r2.cells, c \notin OutputsOf(m), p \in r2.cells[c].from,
             r2.cells[c].value # Null \/ c \in r2.errors
      PROVE  Shown(r3, p)
  BY <1>4, <1>6 DEF Shown
<1>7. CASE DOMAIN Profile[s].derived = {}
  <2>1. col \notin SourcesOf(r1)
    BY <1>7, ColumnsAreSources DEF SourcesOf
  <2>2. col \notin DerivedOf(r1)
    <3> SUFFICES ASSUME NEW c \in SourcesOf(r1), col \in DOMAIN DerivedFrom(c) PROVE FALSE
      BY DEF DerivedOf
    <3>1. PICK t \in Known : c = Source(t)
      BY <1>2 DEF SourcesOf, IsNewRow, SectionsOf
    <3>2. col.section = t /\ col.section = s
      BY <3>1, ColumnsAreSources
    <3> QED
      BY <1>7, <3>1, <3>2, ColumnsAreSources
  <2>3. col \notin OutputsOf(m)
    BY DEF Replaced, OutputsOf
  <2>4. /\ col \in DOMAIN r2.cells /\ r2.cells[col] = r1.cells[col]
        /\ r1.errors \subseteq r2.errors
    BY <1>1, <1>2, <1>3, <2>1, <2>2
  <2> DEFINE result == InPlace(row, col)
  <2>5. result = IF Profile[s].parser = "none" THEN Returns(raw)
                 ELSE CommonParser(Profile[s].parser, raw)
    BY <1>0, ColumnsAreSources DEF InPlace, CallParser
  <2>6. result # Returns(Null)
    <3>1. CASE Profile[s].parser = "none"
      BY <1>0, <2>5, <3>1 DEF Returns
    <3>2. CASE Profile[s].parser \in StrictParsers
      <4>1. Profile[s].parser # "none"
        BY <3>2 DEF StrictParsers
      <4> QED
        BY <2>5, <3>2, <4>1, ConstantsAssumption
    <3>3. CASE Profile[s].parser \in CommonParsers \ StrictParsers
      <4>1. CallParser(Profile[s].parser, raw) # Returns(Null)
        BY <1>7, <3>3 DEF Rejected
      <4>2. Profile[s].parser # "none"
        BY <3>3 DEF CommonParsers
      <4> QED
        BY <1>0, <2>5, <4>1, <4>2 DEF CallParser
    <3> QED
      BY <3>1, <3>2, <3>3, ConstantsAssumption
  <2>7. result = Fails \/ \E v : result = Returns(v)
    <3>1. CASE Profile[s].parser = "none"
      BY <2>5, <3>1
    <3>2. CASE Profile[s].parser \in CommonParsers
      BY <2>5, <3>2, ParsersReturn
    <3> QED
      BY <3>1, <3>2, ConstantsAssumption
  <2> HIDE DEF result
  <2>8. result.value # Null \/ result.error
    BY <2>6, <2>7 DEF Returns, Fails
  <2>9. r1.cells[col] = [from |-> {p}, value |-> result.value]
    BY <1>2 DEF ParsedCell, result
  <2>10. result.error => col \in r1.errors
    BY <1>1, <1>2 DEF result
  <2> QED
    BY <1>5, <1>6, <2>3, <2>4, <2>8, <2>9, <2>10
<1>8. CASE DOMAIN Profile[s].derived # {}
  <2>1. PICK d \in DOMAIN Profile[s].derived : CallParser(Profile[s].derived[d], raw) # Returns(Null)
    BY <1>8 DEF Rejected
  <2>2. /\ d.section = s /\ DerivedFrom(d) = Profile[s].derived /\ d \notin OutputsOf(m)
        /\ DerivedFrom(col) = Profile[s].derived
    BY ColumnsAreSources
  <2>3. col \in SourcesOf(r1) /\ d \in DerivedOf(r1)
    BY <1>1, <1>2, <1>8, <2>2 DEF SourcesOf, DerivedOf
  <2>4. r1.cells[col] = [from |-> {p}, value |-> raw]
    <3>1. Profile[s].parser = "none"
      BY <1>8, ConstantsAssumption
    <3>2. InPlace(row, col) = Returns(raw)
      BY <3>1, ColumnsAreSources DEF InPlace
    <3> QED
      BY <1>2, <3>2 DEF ParsedCell, Returns
  <2> DEFINE result == Derives(r1, d)
  <2>5. result = CommonParser(Profile[s].derived[d], raw) /\ result # Returns(Null)
    BY <1>0, <2>1, <2>2, <2>4 DEF Derives, CallParser
  <2>6. result = Fails \/ \E v : result = Returns(v)
    <3>1. Profile[s].derived[d] \in CommonParsers
      BY ConstantsAssumption
    <3> HIDE DEF result
    <3> QED
      BY <2>5, <3>1, ParsersReturn
  <2> HIDE DEF result
  <2>7. result.value # Null \/ result.error
    <3>1. result # Returns(Null)
      BY <2>5
    <3> QED
      BY <2>6, <3>1 DEF Returns, Fails
  <2>8. r2.cells[d] = [from |-> {p}, value |-> result.value]
    <3>1. Source(d.section) = col
      BY <2>2
    <3>2. r2.cells[d] = ParsedCell(r1.cells[col], result)
      BY <1>3, <2>2, <2>3, <3>1 DEF result
    <3> QED
      BY <2>4, <3>2 DEF ParsedCell
  <2>9. d \in DOMAIN r2.cells /\ (result.error => d \in r2.errors)
    BY <1>3, <2>3 DEF result
  <2> QED
    BY <1>5, <1>6, <2>2, <2>7, <2>8, <2>9
<1> QED
  BY <1>7, <1>8

\* The row a stored value is in.
LEMMA StoredValuesAreBuilt ==
  ASSUME TypeInv, errors = {}, NEW p \in Nat \ {0}, doc[p].section \in Known, Kept(p)
  PROVE  LET s == doc[p].section
             m == Profile[s].model
         IN  \E row \in Built(m) : row.cells[Source(s)] = [from |-> {p}, value |-> doc[p].raw]
<1> DEFINE s == doc[p].section
           m == Profile[s].model
<1>1. s \in SectionsOf(m) /\ m \in Models /\ m \in Paths
  BY ModelsAreRight, PathsAreRight DEF SectionsOf
<1>2. RawCell(p) = [from |-> {p}, value |-> doc[p].raw]
  BY DEF RawCell
<1>3. \A fields : \A ordinal, parent :
        fields[s] = p => NewRow(m, fields, ordinal, parent).cells[Source(s)] = RawCell(p)
  <2> SUFFICES ASSUME NEW fields, NEW ordinal, NEW parent, fields[s] = p
               PROVE  NewRow(m, fields, ordinal, parent).cells[Source(s)] = RawCell(p)
    OBVIOUS
  <2>1. Source(s).section = s
    BY ColumnsAreSources
  <2> HIDE DEF s, m
  <2> QED
    BY <1>1, <2>1 DEF NewRow
<1>4. Built(m) = Table(m)
  BY DEF Built
<1> SUFFICES \E row \in Table(m) : row.cells[Source(s)] = RawCell(p)
  BY <1>2, <1>4
<1>5. CASE m = CoreModel
  <2>1. core[s] = p
    BY <1>5 DEF Kept
  <2>2. NewRow(m, core, 1, 0) \in Table(m)
    BY <1>5 DEF Table, CoreModel
  <2> HIDE DEF s, m
  <2> QED
    BY <1>3, <2>1, <2>2
<1>6. CASE m # CoreModel /\ IsEntity(m)
  <2>1. StoredIn(slots[m[1]], m, s, p)
    BY <1>6 DEF Kept
  <2> HIDE DEF s, m
  <2>2. PICK i \in DOMAIN slots[m[1]] : slots[m[1]][i].core[s] = p
    BY <1>6, <2>1 DEF StoredIn
  <2>3. NewRow(m, slots[m[1]][i].core, i, 0) \in Table(m)
    BY <1>6 DEF Table, CoreModel
  <2> QED
    BY <1>3, <2>2, <2>3
<1>7. CASE m # CoreModel /\ ~IsEntity(m)
  <2>1. StoredIn(slots[m[1]], m, s, p)
    BY <1>7 DEF Kept
  <2> HIDE DEF s, m
  <2>2. PICK i \in DOMAIN slots[m[1]] :
          \E j \in DOMAIN slots[m[1]][i].kids[m] : slots[m[1]][i].kids[m][j][s] = p
    BY <1>7, <2>1 DEF StoredIn
  <2>3. PICK j \in DOMAIN slots[m[1]][i].kids[m] : slots[m[1]][i].kids[m][j][s] = p
    BY <2>2
  <2>4. <<i, j>> \in Children(m)
    BY <1>1, <1>7, <2>2, <2>3, ChildrenAreCounted
  <2>5. ChildRow(m, <<i, j>>, i) \in Table(m)
    BY <1>7, <2>4 DEF Table, CoreModel
  <2>6. ChildRow(m, <<i, j>>, i) = NewRow(m, slots[m[1]][i].kids[m][j],
                                          Cardinality(UpToChild(m, <<i, j>>)), i)
    BY DEF ChildRow
  <2> QED
    BY <1>3, <2>3, <2>5, <2>6
<1> QED
  BY <1>5, <1>6, <1>7

\* Nothing of a body is lost in silence (raw_section_extractor.py:215-284,
\* spark_table_builder.py:437-651, final_schema_validator.py:204-231): each value
\* is in a cell of its model's table, or an error of its row says that it could
\* not be parsed, or the notice is quarantined, whatever the profile, unless a
\* lenient parser takes it for nothing or a computed column replaces it.
THEOREM NothingIsLost == Spec => []NothingLostSilently
<1>1. IInv => NothingLostSilently
  <2> SUFFICES ASSUME IInv, pc = "done", NEW p \in Valued
               PROVE  LET s == doc[p].section IN
                      IF s \notin Known THEN <<"unknown", "unknown">> \in quarantine
                      ELSE \/ <<"core", "core">> \in quarantine \/ Profile[s].model \in quarantine
                           \/ Rejected(s, doc[p].raw) \/ Replaced(s)
                           \/ InTable(p)
    BY DEF NothingLostSilently
  <2> DEFINE s == doc[p].section
             m == Profile[s].model
             raw == doc[p].raw
  <2>1. /\ unknown # {} => <<"unknown", "unknown">> \in quarantine
        /\ errors # {} => <<"core", "core">> \in quarantine
        /\ tables = [q \in Models |-> {row \in Parsed(q) : Valid(row)}]
        /\ \A q \in Models : \A row \in Parsed(q) : Valid(row) \/ q \in quarantine
    BY DEF IInv, TablesInv
  <2>2. Kept(p) /\ TypeInv
    BY DEF IInv, KeptInv
  <2>3. p \in Nat \ {0} /\ p \in DOMAIN doc
    BY <2>2 DEF Valued, TypeInv
  <2>4. raw \in Raws
    <3>1. doc[p] \in Block
      BY <2>2, <2>3 DEF TypeInv
    <3> QED
      BY <3>1 DEF Block
  <2>5. CASE s \notin Known
    BY <2>1, <2>2, <2>5 DEF Kept
  <2>6. CASE s \in Known /\ errors = {} /\ ~Rejected(s, raw) /\ ~Replaced(s) /\ m \notin quarantine
    <3>1. m \in Models
      BY <2>6, ModelsAreRight
    <3>2. PICK row \in Built(m) : row.cells[Source(s)] = [from |-> {p}, value |-> raw]
      BY <2>2, <2>3, <2>6, StoredValuesAreBuilt
    <3>3. IsNewRow(m, row)
      BY <2>2, <3>1, <3>2, BuiltRowsAreNew
    <3>4. Shown(Parse(m, row), p)
      BY <2>4, <2>6, <3>2, <3>3, ParsersShow
    <3>5. Parse(m, row) \in tables[m]
      BY <2>1, <2>6, <3>1, <3>2 DEF Parsed
    <3>6. InTable(p)
      BY <3>4, <3>5 DEF InTable, Shown
    <3> QED
      BY <2>6, <3>6
  <2> QED
    BY <2>1, <2>5, <2>6
<1> QED
  BY <1>1, InvariantHolds, PTL

(***************************************************************************)
(* The texts of changes.                                                   *)
(***************************************************************************)
LEMMA FirstIsLeast ==
  ASSUME NEW S \in SUBSET Nat, S # {}
  PROVE  First(S) \in S /\ \A j \in S : First(S) <= j
<1>1. PICK n \in S : TRUE
  OBVIOUS
<1> DEFINE T == {i \in S : i <= n}
<1>2. \E i \in T : \A j \in T : i <= j
  <2>1. IsFiniteSet(0 .. n)
    BY FS_Interval
  <2>2. T \in SUBSET (0 .. n) /\ T \in SUBSET Int /\ n \in T
    <3>1. n \in Nat /\ \A i \in S : i \in Nat
      BY <1>1
    <3>2. \A i \in T : i \in 0 .. n /\ i \in Int
      BY <3>1
    <3>3. n \in T
      BY <1>1, <3>1
    <3> HIDE DEF T
    <3> QED
      BY <3>2, <3>3
  <2> HIDE DEF T
  <2>3. IsFiniteSet(T)
    BY <2>1, <2>2, FS_Subset
  <2> QED
    BY <2>2, <2>3, SmallestOfNumbers
<1>3. \E i \in S : \A j \in S : i <= j
  BY <1>1, <1>2
<1> QED
  BY <1>3 DEF First

PartOf(value) == IF value = Null THEN {} ELSE value

LEMMA WordsAreFound ==
  ASSUME NEW raw, IsChange(raw), NEW places \in SUBSET DOMAIN raw.words
  PROVE  PartOf(Words(raw, places)) = places \cap Marks(raw, "word")
<1> DEFINE found == {i \in places : raw.words[i] = "word"}
<1>1. found \in SUBSET DOMAIN raw.words /\ found # Null
  BY DEF IsChange
<1>2. found = places \cap Marks(raw, "word")
  BY DEF Marks
<1>3. Words(raw, places) = IF found = {} THEN Null ELSE found
  BY DEF Words
<1> HIDE DEF found
<1> QED
  BY <1>1, <1>2, <1>3 DEF PartOf

\* The places that each of the three parsers looks at.
LabelPlaces(raw) ==
  IF Marks(raw, "before") = {} THEN DOMAIN raw.words ELSE 1 .. First(Marks(raw, "before")) - 1
Later(raw) == {i \in Marks(raw, "after") : i > First(Marks(raw, "before"))}
BeforePlaces(raw) ==
  IF Marks(raw, "before") = {} THEN {}
  ELSE First(Marks(raw, "before")) .. (IF Later(raw) = {} THEN Len(raw.words)
                                       ELSE First(Later(raw)) - 1)
AfterPlaces(raw) ==
  IF Marks(raw, "after") = {} THEN {} ELSE First(Marks(raw, "after")) .. Len(raw.words)

LEMMA PlacesCoverChange ==
  ASSUME NEW raw, IsChange(raw)
  PROVE  /\ LabelPlaces(raw) \in SUBSET DOMAIN raw.words
         /\ BeforePlaces(raw) \in SUBSET DOMAIN raw.words
         /\ AfterPlaces(raw) \in SUBSET DOMAIN raw.words
         /\ DOMAIN raw.words = LabelPlaces(raw) \cup BeforePlaces(raw) \cup AfterPlaces(raw)
<1> DEFINE n == Len(raw.words)
           B == Marks(raw, "before")
           A == Marks(raw, "after")
           L == Later(raw)
<1>1. DOMAIN raw.words = 1 .. n /\ n \in Nat
  BY DEF IsChange
<1>2. B \in SUBSET (1 .. n) /\ A \in SUBSET (1 .. n) /\ L \in SUBSET A
  BY <1>1 DEF Marks, Later
<1>3. B # {} => First(B) \in B /\ First(B) \in 1 .. n
  BY <1>2, FirstIsLeast
<1>4. A # {} => First(A) \in 1 .. n /\ \A i \in A : First(A) <= i
  BY <1>2, FirstIsLeast
<1>5. L # {} => First(L) \in L
  BY <1>2, FirstIsLeast
<1>6. B # {} /\ L # {} => First(L) \in 1 .. n /\ First(A) <= First(L) /\ First(L) > First(B) /\ A # {}
  BY <1>2, <1>4, <1>5 DEF Later
<1> HIDE DEF n, B, A, L
<1>7. LabelPlaces(raw) = IF B = {} THEN 1 .. n ELSE 1 .. First(B) - 1
  BY <1>1 DEF LabelPlaces, B
<1>8. BeforePlaces(raw) = IF B = {} THEN {}
                          ELSE First(B) .. (IF L = {} THEN n ELSE First(L) - 1)
  BY DEF BeforePlaces, B, L, n
<1>9. AfterPlaces(raw) = IF A = {} THEN {} ELSE First(A) .. n
  BY DEF AfterPlaces, A, n
<1>10. CASE B = {}
  BY <1>1, <1>4, <1>7, <1>8, <1>9, <1>10
<1>11. CASE B # {} /\ L = {}
  BY <1>1, <1>3, <1>4, <1>7, <1>8, <1>9, <1>11
<1>12. CASE B # {} /\ L # {}
  <2> DEFINE b == First(B)
             a == First(A)
             l == First(L)
  <2>1. b \in 1 .. n /\ a \in 1 .. n /\ l \in 1 .. n /\ a <= l /\ b < l
    BY <1>3, <1>4, <1>6, <1>12
  <2>2. /\ LabelPlaces(raw) = 1 .. b - 1 /\ BeforePlaces(raw) = b .. l - 1
        /\ AfterPlaces(raw) = a .. n
    BY <1>6, <1>7, <1>8, <1>9, <1>12
  <2> HIDE DEF b, a, l
  <2> QED
    BY <1>1, <2>1, <2>2
<1> QED
  BY <1>10, <1>11, <1>12

\* What the parsers of changes return, by the name of the parser.
PlacesOf(fn, raw) ==
  CASE fn = "parse_change_label" -> LabelPlaces(raw)
    [] fn = "parse_change_before" -> BeforePlaces(raw)
    [] fn = "parse_change_after" -> AfterPlaces(raw)

LEMMA ChangesAreWords ==
  ASSUME NEW raw, IsChange(raw), NEW fn \in ChangeParsers
  PROVE  PartOf(CommonParser(fn, raw).value) = PlacesOf(fn, raw) \cap Marks(raw, "word")
<1>0. \A v : Returns(v).value = v
  BY DEF Returns
<1>1. CASE fn = "parse_change_label"
  <2>1. CommonParser(fn, raw).value = Words(raw, LabelPlaces(raw))
    BY <1>0, <1>1 DEF CommonParser, ParseChangeLabel, LabelPlaces
  <2> QED
    BY <1>1, <2>1, PlacesCoverChange, WordsAreFound DEF PlacesOf
<1>2. CASE fn = "parse_change_before"
  <2>1. CASE Marks(raw, "before") = {}
    <3>1. CommonParser(fn, raw).value = Null
      BY <1>0, <1>2, <2>1 DEF CommonParser, ParseChangeBefore
    <3>2. PlacesOf(fn, raw) = {}
      BY <1>2, <2>1 DEF PlacesOf, BeforePlaces
    <3> QED
      BY <3>1, <3>2 DEF PartOf
  <2>2. CASE Marks(raw, "before") # {}
    <3>1. CommonParser(fn, raw).value = Words(raw, BeforePlaces(raw))
      BY <1>0, <1>2, <2>2 DEF CommonParser, ParseChangeBefore, BeforePlaces, Later
    <3> QED
      BY <1>2, <3>1, PlacesCoverChange, WordsAreFound DEF PlacesOf
  <2> QED
    BY <2>1, <2>2
<1>3. CASE fn = "parse_change_after"
  <2>1. CASE Marks(raw, "after") = {}
    <3>1. CommonParser(fn, raw).value = Null
      BY <1>0, <1>3, <2>1 DEF CommonParser, ParseChangeAfter
    <3>2. PlacesOf(fn, raw) = {}
      BY <1>3, <2>1 DEF PlacesOf, AfterPlaces
    <3> QED
      BY <3>1, <3>2 DEF PartOf
  <2>2. CASE Marks(raw, "after") # {}
    <3>1. CommonParser(fn, raw).value = Words(raw, AfterPlaces(raw))
      BY <1>0, <1>3, <2>2 DEF CommonParser, ParseChangeAfter, AfterPlaces
    <3> QED
      BY <1>3, <3>1, PlacesCoverChange, WordsAreFound DEF PlacesOf
  <2> QED
    BY <2>1, <2>2
<1> QED
  BY <1>1, <1>2, <1>3 DEF ChangeParsers

\* With one marker of each kind, in their order, the places are apart.
LEMMA PlacesAreApart ==
  ASSUME NEW raw, IsChange(raw), NEW b \in DOMAIN raw.words, NEW a \in DOMAIN raw.words,
         Marks(raw, "before") = {b}, Marks(raw, "after") = {a}, b < a,
         NEW f \in ChangeParsers, NEW g \in ChangeParsers, f # g
  PROVE  PlacesOf(f, raw) \cap PlacesOf(g, raw) = {}
<1>1. DOMAIN raw.words = 1 .. Len(raw.words) /\ Len(raw.words) \in Nat
  BY DEF IsChange
<1>2. First({b}) = b /\ First({a}) = a
  <2>1. {b} \in SUBSET Nat /\ {a} \in SUBSET Nat
    BY <1>1
  <2> QED
    BY <2>1, FirstIsLeast
<1>3. Later(raw) = {a}
  BY <1>2 DEF Later
<1>4. /\ LabelPlaces(raw) = 1 .. b - 1
      /\ BeforePlaces(raw) = b .. a - 1
      /\ AfterPlaces(raw) = a .. Len(raw.words)
  BY <1>2, <1>3 DEF LabelPlaces, BeforePlaces, AfterPlaces
<1>5. /\ LabelPlaces(raw) \cap BeforePlaces(raw) = {}
      /\ LabelPlaces(raw) \cap AfterPlaces(raw) = {}
      /\ BeforePlaces(raw) \cap AfterPlaces(raw) = {}
  BY <1>1, <1>4
<1> QED
  BY <1>5 DEF PlacesOf, ChangeParsers

\* A cell of a new row is empty or holds a value that was read at its section.
LEMMA CellsAreRead ==
  ASSUME IInv, NEW m \in Models, NEW row \in Built(m), NEW s \in SectionsOf(m)
  PROVE  \/ row.cells[Source(s)] = NoCell
         \/ \E p \in Valued : /\ doc[p].section = s
                              /\ row.cells[Source(s)] = [from |-> {p}, value |-> doc[p].raw]
<1> DEFINE Cell(fields) == RawCell(fields[s])
<1>1. s \in Known /\ Profile[s].model = m /\ Source(s).section = s
  BY ColumnsAreSources DEF SectionsOf
<1>2. \A fields : \A ordinal, parent : NewRow(m, fields, ordinal, parent).cells[Source(s)] = Cell(fields)
  BY <1>1 DEF NewRow
<1>3. ASSUME NEW p, p = 0 \/ IsOf(p, m, s)
      PROVE  \/ RawCell(p) = NoCell
             \/ \E q \in Valued : doc[q].section = s /\ RawCell(p) = [from |-> {q}, value |-> doc[q].raw]
  BY <1>3 DEF RawCell, IsOf
<1> HIDE DEF Cell
<1> SUFFICES \E p : (p = 0 \/ IsOf(p, m, s)) /\ row.cells[Source(s)] = RawCell(p)
  BY <1>3
<1>4. row \in Table(m)
  BY DEF Built
<1>5. \A p, k : p \in Nat \ {0} /\ IsOf(p, k, s) => IsOf(p, m, s)
  BY <1>1 DEF IsOf
<1>6. CASE m = CoreModel
  <2>1. row = NewRow(m, core, 1, 0)
    BY <1>4, <1>6 DEF Table, CoreModel
  <2>2. core[s] = 0 \/ IsOf(core[s], CoreModel, s)
    BY <1>1 DEF IInv, StoredInv
  <2> QED
    BY <1>2, <1>6, <2>1, <2>2 DEF Cell
<1>7. CASE m # CoreModel
  <2>1. m[1] \in Entities /\ m \in Paths
    BY <1>1, <1>7, ModelsAreRight, PathsAreRight
  <2>2. slots[m[1]] \in Seq(Slot)
    BY <2>1 DEF IInv, TypeInv
  <2>3. \A p \in Nat \ {0} : StoredIn(slots[m[1]], m, s, p) => IsOf(p, m, s)
    BY <1>1, <2>1 DEF IInv, StoredInv
  <2>4. CASE IsEntity(m)
    <3>1. PICK i \in DOMAIN slots[m[1]] : row = NewRow(m, slots[m[1]][i].core, i, 0)
      BY <1>4, <1>7, <2>4 DEF Table, CoreModel
    <3> DEFINE p == slots[m[1]][i].core[s]
    <3>2. p \in Nat
      <4>1. slots[m[1]][i] \in Slot
        BY <2>2
      <4>2. slots[m[1]][i].core \in Fields
        BY <4>1 DEF Slot
      <4> QED
        BY <1>1, <4>2 DEF Fields
    <3>3. StoredIn(slots[m[1]], m, s, p)
      BY <2>4 DEF StoredIn
    <3>4. row.cells[Source(s)] = RawCell(p)
      BY <1>2, <3>1 DEF Cell
    <3> HIDE DEF p
    <3> QED
      BY <2>3, <3>2, <3>3, <3>4
  <2>5. CASE ~IsEntity(m)
    <3>1. PICK c \in Children(m) : row = ChildRow(m, c, c[1])
      BY <1>4, <1>7, <2>5 DEF Table, CoreModel
    <3>2. c[1] \in DOMAIN slots[m[1]] /\ c[2] \in DOMAIN slots[m[1]][c[1]].kids[m]
      BY DEF Children
    <3> DEFINE p == slots[m[1]][c[1]].kids[m][c[2]][s]
    <3>3. p \in Nat
      <4>1. slots[m[1]][c[1]] \in Slot
        BY <2>2, <3>2
      <4>2. slots[m[1]][c[1]].kids[m] \in Seq(Fields)
        BY <2>1, <4>1 DEF Slot
      <4>3. slots[m[1]][c[1]].kids[m][c[2]] \in Fields
        BY <3>2, <4>2
      <4> QED
        BY <1>1, <4>3 DEF Fields
    <3>4. StoredIn(slots[m[1]], m, s, p)
      BY <2>5, <3>2 DEF StoredIn
    <3>5. row.cells[Source(s)] = RawCell(p)
      BY <1>2, <3>1 DEF Cell, ChildRow
    <3> HIDE DEF p
    <3> QED
      BY <2>3, <3>3, <3>4, <3>5
  <2> QED
    BY <2>4, <2>5
<1> QED
  BY <1>6, <1>7

\* A derived column of a parsed row.
LEMMA DerivedColumns ==
  ASSUME NEW s \in Known, NEW row, IsNewRow(Profile[s].model, row),
         NEW d \in DOMAIN Profile[s].derived
  PROVE  Parse(Profile[s].model, row).cells[d] =
           ParsedCell(row.cells[Source(s)], CallParser(Profile[s].derived[d], row.cells[Source(s)].value))
<1> DEFINE m == Profile[s].model
           col == Source(s)
           r1 == ParseInPlace(row)
           r2 == ParseDerived(r1)
           r3 == Compute(m, r2)
<1>1. IsRow(row) /\ col \in DOMAIN row.cells
  BY DEF IsNewRow, SectionsOf
<1>2. /\ IsRow(r1) /\ DOMAIN r1.cells = DOMAIN row.cells
      /\ r1.cells[col] = ParsedCell(row.cells[col], InPlace(row, col))
  BY <1>1, RowIsParsedInPlace
<1> HIDE DEF r1
<1>3. /\ IsRow(r2)
      /\ DOMAIN r2.cells = (DOMAIN r1.cells \ SourcesOf(r1)) \cup DerivedOf(r1)
      /\ \A c \in DerivedOf(r1) :
           r2.cells[c] = ParsedCell(r1.cells[Source(c.section)], Derives(r1, c))
  BY <1>2, RowIsDerived
<1> HIDE DEF r2
<1>4. \A c \in DOMAIN r2.cells : c \notin OutputsOf(m) => r3.cells[c] = r2.cells[c]
  BY <1>3, RowIsComputed
<1>5. Parse(m, row) = r3
  BY DEF Parse, r1, r2
<1> HIDE DEF r3
<1>6. /\ d.section = s /\ DerivedFrom(d) = Profile[s].derived /\ d \notin OutputsOf(m)
      /\ DerivedFrom(col) = Profile[s].derived
  BY ColumnsAreSources
<1>7. col \in SourcesOf(r1) /\ d \in DerivedOf(r1) /\ d \in DOMAIN r2.cells
  BY <1>1, <1>2, <1>3, <1>6 DEF SourcesOf, DerivedOf
<1>8. r1.cells[col].from = row.cells[col].from /\ r1.cells[col].value = row.cells[col].value
  <2>1. Profile[s].parser = "none"
    BY ConstantsAssumption
  <2>2. InPlace(row, col) = Returns(row.cells[col].value)
    BY <2>1, ColumnsAreSources DEF InPlace
  <2> QED
    BY <1>2, <2>2 DEF ParsedCell, Returns
<1>9. Source(d.section) = col
  BY <1>6
<1>10. Derives(r1, d) = CallParser(Profile[s].derived[d], row.cells[col].value)
  BY <1>6, <1>8, <1>9 DEF Derives
<1>11. r3.cells[d] = ParsedCell(r1.cells[col], Derives(r1, d))
  BY <1>3, <1>4, <1>6, <1>7, <1>9
<1> QED
  BY <1>5, <1>8, <1>10, <1>11 DEF ParsedCell

\* What is said of a change is kept (common.py:605-652): the label, the old and the
\* new text have every word of it, and each once if it has the two markers once and
\* in their order.
THEOREM ChangesAreKept == Spec => []ChangeTextIsKept
<1>1. IInv => ChangeTextIsKept
  <2> SUFFICES ASSUME IInv, pc = "done", NEW m \in Models, NEW new \in tables[m],
                      NEW s \in SectionsOf(m), NEW c \in ChangeColumns(s), NEW p \in new.cells[c].from
               PROVE  LET raw == doc[p].raw IN
                      /\ Marks(raw, "word") = UNION {PartOf(new.cells[d].value) : d \in ChangeColumns(s)}
                      /\ (\E b, a \in DOMAIN raw.words :
                             /\ Marks(raw, "before") = {b} /\ Marks(raw, "after") = {a} /\ b < a) =>
                           \A d \in ChangeColumns(s) : d # c =>
                             PartOf(new.cells[d].value) \cap PartOf(new.cells[c].value) = {}
    BY DEF ChangeTextIsKept, PartOf
  <2> DEFINE raw == doc[p].raw
             fn(d) == Profile[s].derived[d]
  <2>1. s \in Known /\ Profile[s].model = m
    BY DEF SectionsOf
  <2>2. PICK row \in Built(m) : new = Parse(m, row)
    BY DEF IInv, TablesInv, Parsed
  <2>3. IsNewRow(m, row)
    BY BuiltRowsAreNew DEF IInv
  <2> DEFINE cell == row.cells[Source(s)]
  <2>4. \A d \in ChangeColumns(s) : new.cells[d] = ParsedCell(cell, CallParser(fn(d), cell.value))
    BY <2>1, <2>2, <2>3, DerivedColumns DEF ChangeColumns
  <2>5. p \in cell.from
    <3>1. new.cells[c] = ParsedCell(cell, CallParser(fn(c), cell.value))
      BY <2>4
    <3>2. new.cells[c].from = cell.from
      BY <3>1 DEF ParsedCell
    <3> QED
      BY <3>2
  <2>6. p \in Valued /\ doc[p].section = s /\ cell = [from |-> {p}, value |-> raw]
    <3>1. cell # NoCell
      BY <2>5 DEF NoCell
    <3>2. PICK q \in Valued : doc[q].section = s /\ cell = [from |-> {q}, value |-> doc[q].raw]
      BY <3>1, CellsAreRead
    <3> QED
      BY <2>5, <3>2
  <2>7. raw \in Raws /\ IsChange(raw)
    <3>1. doc \in Documents /\ doc \in Seq(Block) /\ p \in DOMAIN doc
      BY <2>6 DEF IInv, TypeInv, Valued
    <3>2. doc[p] \in Block
      BY <3>1
    <3>3. ChangeColumns(doc[p].section) # {} /\ doc[p].section \in Known
      BY <2>1, <2>6
    <3>4. IsChange(raw)
      BY <3>1, <3>3, ConstantsAssumption
    <3> QED
      BY <3>2, <3>4 DEF Block
  <2>8. \A d \in ChangeColumns(s) : fn(d) \in ChangeParsers
    BY DEF ChangeColumns
  <2>9. \A d \in ChangeColumns(s) : new.cells[d].value = CommonParser(fn(d), raw).value
    <3>1. raw # Null
      BY <2>7, ConstantsAssumption
    <3>2. cell.value = raw
      BY <2>6
    <3> HIDE DEF cell, raw, fn
    <3>3. ASSUME NEW d \in ChangeColumns(s)
          PROVE  new.cells[d].value = CommonParser(fn(d), raw).value
      <4>1. new.cells[d] = ParsedCell(cell, CommonParser(fn(d), raw))
        BY <2>4, <3>1, <3>2 DEF CallParser
      <4> QED
        BY <4>1 DEF ParsedCell
    <3> QED
      BY <3>3
  <2> HIDE DEF raw, fn, cell
  <2>10. \A d \in ChangeColumns(s) :
           PartOf(new.cells[d].value) = PlacesOf(fn(d), raw) \cap Marks(raw, "word")
    BY <2>7, <2>8, <2>9, ChangesAreWords
  <2>11. /\ \A f \in ChangeParsers : \E d \in ChangeColumns(s) : fn(d) = f
         /\ \A d, e \in ChangeColumns(s) : fn(d) = fn(e) => d = e
    BY <2>1, ConstantsAssumption DEF fn
  <2>12. Marks(raw, "word") = UNION {PartOf(new.cells[d].value) : d \in ChangeColumns(s)}
    <3>1. \A i \in Marks(raw, "word") : \E f \in ChangeParsers : i \in PlacesOf(f, raw)
      <4>1. /\ PlacesOf("parse_change_label", raw) = LabelPlaces(raw)
            /\ PlacesOf("parse_change_before", raw) = BeforePlaces(raw)
            /\ PlacesOf("parse_change_after", raw) = AfterPlaces(raw)
        BY DEF PlacesOf
      <4>2. \A i \in Marks(raw, "word") : i \in DOMAIN raw.words
        BY DEF Marks
      <4> QED
        BY <2>7, <4>1, <4>2, PlacesCoverChange DEF ChangeParsers
    <3>2. \A i \in Marks(raw, "word") : \E d \in ChangeColumns(s) : i \in PartOf(new.cells[d].value)
      BY <2>10, <2>11, <3>1
    <3>3. \A d \in ChangeColumns(s) : PartOf(new.cells[d].value) \subseteq Marks(raw, "word")
      BY <2>10
    <3> QED
      BY <3>2, <3>3
  <2>13. ASSUME NEW b \in DOMAIN raw.words, NEW a \in DOMAIN raw.words,
                Marks(raw, "before") = {b}, Marks(raw, "after") = {a}, b < a,
                NEW d \in ChangeColumns(s), d # c
         PROVE  PartOf(new.cells[d].value) \cap PartOf(new.cells[c].value) = {}
    <3>1. fn(d) # fn(c)
      BY <2>11, <2>13
    <3>2. PlacesOf(fn(d), raw) \cap PlacesOf(fn(c), raw) = {}
      BY <2>7, <2>8, <2>13, <3>1, PlacesAreApart
    <3> QED
      BY <2>10, <3>2
  <2> QED
    BY <2>12, <2>13 DEF raw
<1> QED
  BY <1>1, InvariantHolds, PTL

(***************************************************************************)
(* The calendar.                                                           *)
(***************************************************************************)
LEMMA YearsFollow ==
  ASSUME NEW y \in Int
  PROVE  /\ DaysBeforeYear(y) \in Int
         /\ DaysBeforeYear(y + 1) = DaysBeforeYear(y) + 365 + (IF LeapYear(y) THEN 1 ELSE 0)
<1>1. y \div 4 - (y - 1) \div 4 = IF y % 4 = 0 THEN 1 ELSE 0
  OBVIOUS
<1>2. y \div 100 - (y - 1) \div 100 = IF y % 100 = 0 THEN 1 ELSE 0
  OBVIOUS
<1>3. y \div 400 - (y - 1) \div 400 = IF y % 400 = 0 THEN 1 ELSE 0
  OBVIOUS
<1>4. /\ y % 400 = 0 => y % 100 = 0
      /\ y % 100 = 0 => y % 4 = 0
  OBVIOUS
<1>5. y + 1 - 1 = y
  OBVIOUS
<1> QED
  BY <1>1, <1>2, <1>3, <1>4, <1>5 DEF DaysBeforeYear, LeapYear

LEMMA YearsAscend ==
  ASSUME NEW x \in Int, NEW y \in Int, x < y
  PROVE  DaysBeforeYear(x + 1) <= DaysBeforeYear(y)
BY DEF DaysBeforeYear

\* The first day of a month.
FirstDay(y, m) == Ordinal(DateOf(y, m, 1))

LEMMA MonthsFollow ==
  ASSUME NEW y \in Int
  PROVE  /\ \A m \in 1 .. 12 : FirstDay(y, m) \in Int /\ MonthRange(y, m) \in 28 .. 31
         /\ \A m \in 1 .. 11 : FirstDay(y, m + 1) = FirstDay(y, m) + MonthRange(y, m)
         /\ FirstDay(y, 1) = DaysBeforeYear(y) + 1
         /\ FirstDay(y, 12) + MonthRange(y, 12) = DaysBeforeYear(y + 1) + 1
<1> DEFINE leap == IF LeapYear(y) THEN 1 ELSE 0
           of == DaysBeforeYear(y)
<1>1. of \in Int /\ leap \in {0, 1} /\ DaysBeforeYear(y + 1) = of + 365 + leap
  BY YearsFollow
<1>2. \A m \in 1 .. 12 : FirstDay(y, m) = of + DaysBeforeMonth[m] + 1 + (IF m > 2 THEN leap ELSE 0)
  BY <1>1 DEF FirstDay, Ordinal, DateOf
<1>3. MonthRange(y, 2) = 28 + leap
  BY DEF MonthRange
<1>4. \A m \in 1 .. 12 : m # 2 => MonthRange(y, m) = IF m \in {4, 6, 9, 11} THEN 30 ELSE 31
  BY DEF MonthRange
<1>5. \A m \in 1 .. 12 : MonthRange(y, m) \in 28 .. 31
  BY <1>1, <1>3, <1>4
<1>6. \A m \in 1 .. 12 : DaysBeforeMonth[m] \in Int
  BY DEF DaysBeforeMonth
<1>7. \A m \in 1 .. 11 :
        DaysBeforeMonth[m + 1] = DaysBeforeMonth[m] + (IF m = 2 THEN 28 ELSE IF m \in {4, 6, 9, 11} THEN 30 ELSE 31)
  BY DEF DaysBeforeMonth
<1>8. DaysBeforeMonth[1] = 0 /\ DaysBeforeMonth[12] = 334
  BY DEF DaysBeforeMonth
<1> HIDE DEF leap, of
<1>9. ASSUME NEW m \in 1 .. 12
      PROVE  FirstDay(y, m) \in Int
  BY <1>1, <1>2, <1>6
<1>10. ASSUME NEW m \in 1 .. 11
       PROVE  FirstDay(y, m + 1) = FirstDay(y, m) + MonthRange(y, m)
  <2>1. m \in 1 .. 12 /\ m + 1 \in 1 .. 12
    OBVIOUS
  <2>2. FirstDay(y, m) = of + DaysBeforeMonth[m] + 1 + (IF m > 2 THEN leap ELSE 0)
    BY <1>2, <2>1
  <2>3. FirstDay(y, m + 1) = of + DaysBeforeMonth[m + 1] + 1 + (IF m + 1 > 2 THEN leap ELSE 0)
    BY <1>2, <2>1
  <2>4. DaysBeforeMonth[m + 1] = DaysBeforeMonth[m] + (IF m = 2 THEN 28 ELSE IF m \in {4, 6, 9, 11} THEN 30 ELSE 31)
    BY <1>7
  <2>5. DaysBeforeMonth[m] \in Int
    BY <1>6, <2>1
  <2>6. MonthRange(y, m) = IF m = 2 THEN 28 + leap ELSE IF m \in {4, 6, 9, 11} THEN 30 ELSE 31
    BY <1>3, <1>4, <2>1
  <2> QED
    BY <1>1, <2>2, <2>3, <2>4, <2>5, <2>6
<1>11. FirstDay(y, 1) = of + 1
  BY <1>1, <1>2, <1>8
<1>12. FirstDay(y, 12) = of + 335 + leap /\ MonthRange(y, 12) = 31
  BY <1>1, <1>2, <1>4, <1>8
<1>13. FirstDay(y, 12) + MonthRange(y, 12) = DaysBeforeYear(y + 1) + 1
  BY <1>1, <1>12
<1> QED
  BY <1>5, <1>9, <1>10, <1>11, <1>13 DEF of

LEMMA MonthsAscend ==
  ASSUME NEW y \in Int, NEW m \in 1 .. 12, NEW k \in 1 .. 12, m < k
  PROVE  FirstDay(y, m) + MonthRange(y, m) <= FirstDay(y, k)
<1> DEFINE F(i) == FirstDay(y, i)
           R(i) == MonthRange(y, i)
<1>1. \A i \in 1 .. 12 : F(i) \in Int /\ R(i) \in 28 .. 31
  BY MonthsFollow
<1>2. \A i \in 1 .. 11 : F(i + 1) = F(i) + R(i)
  BY MonthsFollow
<1> HIDE DEF F, R
<1>3. /\ F(2) = F(1) + R(1) /\ F(3) = F(2) + R(2) /\ F(4) = F(3) + R(3) /\ F(5) = F(4) + R(4)
      /\ F(6) = F(5) + R(5) /\ F(7) = F(6) + R(6) /\ F(8) = F(7) + R(7) /\ F(9) = F(8) + R(8)
      /\ F(10) = F(9) + R(9) /\ F(11) = F(10) + R(10) /\ F(12) = F(11) + R(11)
  BY <1>2
<1>4. F(m) + R(m) <= F(k)
  BY <1>1, <1>3
<1> QED
  BY <1>4 DEF F, R

LEMMA DaysFollow ==
  ASSUME NEW y \in Int, NEW m \in 1 .. 12, NEW d \in Int
  PROVE  Ordinal(DateOf(y, m, d)) = FirstDay(y, m) + d - 1
<1>1. DaysBeforeYear(y) \in Int /\ DaysBeforeMonth[m] \in Int
  BY YearsFollow DEF DaysBeforeMonth
<1> QED
  BY <1>1 DEF FirstDay, Ordinal, DateOf

\* Day n is in month m of year y.
InYear(n, y) == DaysBeforeYear(y) < n /\ n <= DaysBeforeYear(y + 1)
InMonth(n, y, m) == FirstDay(y, m) <= n /\ n < FirstDay(y, m) + MonthRange(y, m)

LEMMA YearExists ==
  ASSUME NEW n \in Nat \ {0}
  PROVE  \E y \in (n \div 366) .. (n \div 365) + 1 : InYear(n, y)
<1> DEFINE T == {y \in Nat \ {0} : n <= DaysBeforeYear(y + 1)}
<1>1. n \in T
  BY DEF DaysBeforeYear
<1>2. First(T) \in T /\ \A j \in T : First(T) <= j
  BY <1>1, FirstIsLeast
<1> DEFINE y == First(T)
<1>3. y \in Nat \ {0} /\ n <= DaysBeforeYear(y + 1)
  BY <1>2
<1>4. y # 1 => y - 1 \in Nat \ {0} /\ y - 1 + 1 = y /\ ~(n <= DaysBeforeYear(y))
  BY <1>2, <1>3
<1> HIDE DEF y, T
<1>5. DaysBeforeYear(y) < n
  BY <1>3, <1>4 DEF DaysBeforeYear
<1>6. y \in (n \div 366) .. (n \div 365) + 1
  BY <1>3, <1>5 DEF DaysBeforeYear
<1> QED
  BY <1>3, <1>5, <1>6 DEF InYear

LEMMA MonthExists ==
  ASSUME NEW y \in Int, NEW n \in Int, InYear(n, y)
  PROVE  \E m \in 1 .. 12 : InMonth(n, y, m)
<1> DEFINE F(i) == FirstDay(y, i)
           R(i) == MonthRange(y, i)
           b == DaysBeforeYear(y)
           e == DaysBeforeYear(y + 1)
<1>1. \A i \in 1 .. 12 : F(i) \in Int /\ R(i) \in 28 .. 31
  BY MonthsFollow
<1>2. \A i \in 1 .. 11 : F(i + 1) = F(i) + R(i)
  BY MonthsFollow
<1>3. F(1) = b + 1 /\ F(12) + R(12) = e + 1
  BY MonthsFollow
<1>4. b \in Int /\ e \in Int /\ b < n /\ n <= e
  BY YearsFollow DEF InYear
<1> HIDE DEF F, R, b, e
<1>5. /\ F(2) = F(1) + R(1) /\ F(3) = F(2) + R(2) /\ F(4) = F(3) + R(3) /\ F(5) = F(4) + R(4)
      /\ F(6) = F(5) + R(5) /\ F(7) = F(6) + R(6) /\ F(8) = F(7) + R(7) /\ F(9) = F(8) + R(8)
      /\ F(10) = F(9) + R(9) /\ F(11) = F(10) + R(10) /\ F(12) = F(11) + R(11)
  BY <1>2
<1>6. \E m \in 1 .. 12 : F(m) <= n /\ n < F(m) + R(m)
  BY <1>1, <1>3, <1>4, <1>5
<1> QED
  BY <1>6 DEF F, R, InMonth

LEMMA FromOrdinalIs ==
  ASSUME NEW n \in Nat \ {0}
  PROVE  \E y \in Int, m \in 1 .. 12 :
           /\ InYear(n, y) /\ InMonth(n, y, m)
           /\ FromOrdinal(n) = DateOf(y, m, n - FirstDay(y, m) + 1)
<1> DEFINE y == CHOOSE y \in (n \div 366) .. (n \div 365) + 1 :
                  DaysBeforeYear(y) < n /\ n <= DaysBeforeYear(y + 1)
           m == CHOOSE m \in 1 .. 12 : /\ Ordinal(DateOf(y, m, 1)) <= n
                                       /\ n < Ordinal(DateOf(y, m, 1)) + MonthRange(y, m)
<1>1. FromOrdinal(n) = DateOf(y, m, n - FirstDay(y, m) + 1)
  BY DEF FromOrdinal, FirstDay
<1>2. y \in (n \div 366) .. (n \div 365) + 1 /\ InYear(n, y)
  BY YearExists DEF InYear
<1>3. y \in Int
  BY <1>2
<1> HIDE DEF y
<1>4. \E k \in 1 .. 12 : /\ Ordinal(DateOf(y, k, 1)) <= n
                         /\ n < Ordinal(DateOf(y, k, 1)) + MonthRange(y, k)
  BY <1>2, <1>3, MonthExists DEF InMonth, FirstDay
<1>5. m \in 1 .. 12 /\ InMonth(n, y, m)
  BY <1>4 DEF InMonth, FirstDay
<1> QED
  BY <1>1, <1>2, <1>3, <1>5

LEMMA DateIsOfItsDay ==
  ASSUME NEW n \in Nat \ {0}
  PROVE  Ordinal(FromOrdinal(n)) = n
<1>1. PICK y \in Int, m \in 1 .. 12 : FromOrdinal(n) = DateOf(y, m, n - FirstDay(y, m) + 1)
  BY FromOrdinalIs
<1>2. FirstDay(y, m) \in Int
  BY MonthsFollow
<1> DEFINE d == n - FirstDay(y, m) + 1
<1>3. d \in Int /\ FirstDay(y, m) + d - 1 = n
  BY <1>2
<1> HIDE DEF d
<1>4. Ordinal(DateOf(y, m, d)) = FirstDay(y, m) + d - 1
  BY <1>3, DaysFollow
<1> QED
  BY <1>1, <1>3, <1>4 DEF d

\* The day after the last one of a month is the first of the next.
LEMMA MonthsEnd ==
  ASSUME NEW y \in Nat \ {0}, NEW m \in 1 .. 11
  PROVE  FromOrdinal(Ordinal(DateOf(y, m, MonthRange(y, m))) + 1).day = 1
<1> DEFINE n == Ordinal(DateOf(y, m, MonthRange(y, m))) + 1
<1>1. y \in Int /\ m \in 1 .. 12 /\ m + 1 \in 1 .. 12
  OBVIOUS
<1>2. /\ FirstDay(y, m) \in Int /\ MonthRange(y, m) \in 28 .. 31
      /\ FirstDay(y, m + 1) \in Int /\ MonthRange(y, m + 1) \in 28 .. 31
  BY <1>1, MonthsFollow
<1>3. n = FirstDay(y, m + 1)
  <2>1. FirstDay(y, m + 1) = FirstDay(y, m) + MonthRange(y, m)
    BY <1>1, MonthsFollow
  <2>2. Ordinal(DateOf(y, m, MonthRange(y, m))) = FirstDay(y, m) + MonthRange(y, m) - 1
    <3>1. MonthRange(y, m) \in Int
      BY <1>2
    <3> QED
      BY <1>1, <3>1, DaysFollow
  <2> QED
    BY <1>2, <2>1, <2>2
<1> HIDE DEF n
<1>4. InYear(n, y)
  <2>1. FirstDay(y, 1) + MonthRange(y, 1) <= FirstDay(y, m + 1)
    BY <1>1, MonthsAscend
  <2>2. m + 1 = 12 \/ FirstDay(y, m + 1) + MonthRange(y, m + 1) <= FirstDay(y, 12)
    BY <1>1, MonthsAscend
  <2>3. /\ FirstDay(y, 1) = DaysBeforeYear(y) + 1 /\ MonthRange(y, 1) \in 28 .. 31
        /\ FirstDay(y, 12) + MonthRange(y, 12) = DaysBeforeYear(y + 1) + 1
        /\ FirstDay(y, 12) \in Int /\ MonthRange(y, 12) \in 28 .. 31
    BY <1>1, MonthsFollow
  <2>4. DaysBeforeYear(y) \in Int /\ DaysBeforeYear(y + 1) \in Int
    BY <1>1, YearsFollow
  <2>5. FirstDay(y, m + 1) <= FirstDay(y, 12)
    BY <1>2, <2>2, <2>3
  <2> QED
    BY <1>2, <1>3, <2>1, <2>3, <2>4, <2>5 DEF InYear
<1>5. n \in Nat \ {0}
  <2>1. DaysBeforeYear(y) \in Nat
    BY DEF DaysBeforeYear
  <2> QED
    BY <1>2, <1>3, <1>4, <2>1 DEF InYear
<1>6. PICK x \in Int, k \in 1 .. 12 : /\ InYear(n, x) /\ InMonth(n, x, k)
                                      /\ FromOrdinal(n) = DateOf(x, k, n - FirstDay(x, k) + 1)
  BY <1>5, FromOrdinalIs
<1>7. x = y
  <2>1. /\ DaysBeforeYear(y) \in Int /\ DaysBeforeYear(y + 1) \in Int
        /\ DaysBeforeYear(x) \in Int /\ DaysBeforeYear(x + 1) \in Int
    BY <1>1, YearsFollow
  <2>2. x < y => DaysBeforeYear(x + 1) <= DaysBeforeYear(y)
    BY <1>1, YearsAscend
  <2>3. y < x => DaysBeforeYear(y + 1) <= DaysBeforeYear(x)
    BY <1>1, YearsAscend
  <2>4. ~(x < y)
    BY <1>2, <1>3, <1>4, <1>6, <2>1, <2>2 DEF InYear
  <2>5. ~(y < x)
    BY <1>2, <1>3, <1>4, <1>6, <2>1, <2>3 DEF InYear
  <2> QED
    BY <1>1, <2>4, <2>5
<1>8. k = m + 1
  <2>1. FirstDay(y, k) \in Int /\ MonthRange(y, k) \in 28 .. 31
    BY <1>1, MonthsFollow
  <2>2. InMonth(n, y, k)
    BY <1>6, <1>7
  <2>3. k < m + 1 => FirstDay(y, k) + MonthRange(y, k) <= FirstDay(y, m + 1)
    BY <1>1, MonthsAscend
  <2>4. m + 1 < k => FirstDay(y, m + 1) + MonthRange(y, m + 1) <= FirstDay(y, k)
    BY <1>1, MonthsAscend
  <2>5. ~(k < m + 1)
    BY <1>2, <1>3, <2>1, <2>2, <2>3 DEF InMonth
  <2>6. ~(m + 1 < k)
    BY <1>2, <1>3, <2>1, <2>2, <2>4 DEF InMonth
  <2> QED
    BY <1>1, <2>5, <2>6
<1>9. FromOrdinal(n).day = n - n + 1
  BY <1>3, <1>6, <1>7, <1>8 DEF DateOf
<1> QED
  BY <1>2, <1>3, <1>9 DEF n

LEMMA DatesHaveOrdinals ==
  ASSUME NEW d, Exists(d)
  PROVE  Ordinal(d) \in Nat \ {0}
<1>1. d.year \in Int /\ d.year >= 1 /\ d.month \in 1 .. 12
  BY DEF Exists
<1>2. MonthRange(d.year, d.month) \in Int
  <2>1. MonthRange(d.year, d.month) \in 28 .. 31
    BY <1>1, MonthsFollow
  <2> QED
    BY <2>1
<1>3. d.day \in Int /\ d.day >= 1
  BY <1>2 DEF Exists
<1>4. DaysBeforeYear(d.year) \in Nat
  BY <1>1 DEF DaysBeforeYear
<1>5. DaysBeforeMonth[d.month] \in Nat
  BY <1>1 DEF DaysBeforeMonth
<1> QED
  BY <1>1, <1>3, <1>4, <1>5 DEF Ordinal

LEMMA MonthsAreAdded ==
  ASSUME NEW s, Exists(s), NEW n \in Nat, AddCalendarMonths(s, n) # Null
  PROVE  LET e == AddCalendarMonths(s, n) IN
         /\ e.year * 12 + e.month = s.year * 12 + s.month + n
         /\ e.day = s.day \/ (e.day < s.day /\ FromOrdinal(Ordinal(e) + 1).day = 1)
<1> DEFINE total == s.month + n
           year  == s.year + (total - 1) \div 12
           month == ((total - 1) % 12) + 1
           end   == MonthRange(year, month)
<1>1. AddCalendarMonths(s, n) = DateOf(year, month, IF s.day < end THEN s.day ELSE end)
  BY DEF AddCalendarMonths
<1>2. s.year \in Int /\ s.year >= 1 /\ s.month \in 1 .. 12
  BY DEF Exists
<1>3. year \in Nat \ {0} /\ month \in 1 .. 12
  BY <1>2
<1>4. year * 12 + month = s.year * 12 + s.month + n
  BY <1>2
<1>5. s.day \in 1 .. 31
  <2>1. MonthRange(s.year, s.month) \in 28 .. 31
    BY <1>2, MonthsFollow
  <2> QED
    BY <2>1 DEF Exists
<1> HIDE DEF year, month
<1>30. year \in Int
  BY <1>3
<1>6. end \in 28 .. 31
  BY <1>3, <1>30, MonthsFollow
<1>7. CASE s.day < end
  BY <1>1, <1>4, <1>7 DEF DateOf
<1>8. CASE ~(s.day < end)
  <2>1. AddCalendarMonths(s, n) = DateOf(year, month, end)
    BY <1>1, <1>8
  <2>2. CASE s.day = end
    BY <1>4, <2>1, <2>2 DEF DateOf
  <2>3. CASE s.day # end
    <3>1. month # 12
      BY <1>5, <1>6, <1>8, <2>3 DEF MonthRange
    <3>2. month \in 1 .. 11
      BY <1>3, <3>1
    <3>3. FromOrdinal(Ordinal(DateOf(year, month, end)) + 1).day = 1
      BY <1>3, <3>2, MonthsEnd
    <3>4. end < s.day
      BY <1>5, <1>6, <1>8, <2>3
    <3> QED
      BY <1>4, <2>1, <3>3, <3>4 DEF DateOf
  <2> QED
    BY <2>2, <2>3
<1> QED
  BY <1>7, <1>8

\* What is computed of a start and a duration.
LEMMA DurationsMatch ==
  ASSUME NEW arg, NEW raw,
         raw.kind \in {"days", "weeks", "months", "years"} => raw.n \in Nat,
         ComputeDurationDays(arg, raw).value # Null,
         ComputeContractEndDate(arg, raw).value # Null
  PROVE  LET start == IF raw.kind = "range" THEN raw.from ELSE StartDate(arg)
             end == ComputeContractEndDate(arg, raw).value
         IN  /\ Ordinal(end) - Ordinal(start) = ComputeDurationDays(arg, raw).value
             /\ Spans(start, end, raw)
<1> DEFINE s == StartDate(arg)
<1>1. Returns(Null).value = Null /\ Fails.value = Null /\ \A v : Returns(v).value = v
  BY DEF Returns, Fails
<1>2. raw # Null /\ IsDuration(raw)
  BY <1>1 DEF ComputeDurationDays
<1>3. CASE raw.kind = "range"
  <2>1. ComputeContractEndDate(arg, raw).value = raw.to
    BY <1>1, <1>2, <1>3 DEF ComputeContractEndDate
  <2>2. ComputeDurationDays(arg, raw).value = Ordinal(raw.to) - Ordinal(raw.from)
    BY <1>1, <1>2, <1>3 DEF ComputeDurationDays
  <2> QED
    BY <1>3, <2>1, <2>2 DEF Spans
<1>4. ASSUME raw.kind # "range" PROVE s # Null /\ Exists(s)
  <2>1. s # Null
    BY <1>1, <1>2, <1>4 DEF ComputeDurationDays
  <2> QED
    BY <2>1 DEF StartDate
<1>5. CASE raw.kind = "end"
  <2>1. ComputeContractEndDate(arg, raw).value = raw.to
    BY <1>1, <1>2, <1>4, <1>5 DEF ComputeContractEndDate
  <2>2. ComputeDurationDays(arg, raw).value = Ordinal(raw.to) - Ordinal(s)
    BY <1>1, <1>2, <1>4, <1>5 DEF ComputeDurationDays
  <2> QED
    BY <1>5, <2>1, <2>2 DEF Spans
<1>6. CASE raw.kind \in {"days", "weeks"}
  <2> DEFINE l == LengthInDays(raw)
             n == Ordinal(s) + l
  <2>1. l \in Nat
    BY <1>6 DEF LengthInDays
  <2>2. Ordinal(s) \in Nat \ {0}
    BY <1>4, <1>6, DatesHaveOrdinals
  <2>3. ComputeContractEndDate(arg, raw) = IF n > MaxOrdinal THEN Fails ELSE Returns(FromOrdinal(n))
    BY <1>2, <1>4, <1>6 DEF ComputeContractEndDate
  <2>4. ComputeContractEndDate(arg, raw).value = FromOrdinal(n)
    BY <1>1, <2>3
  <2>5. ComputeDurationDays(arg, raw).value = l
    BY <1>1, <1>2, <1>4, <1>6 DEF ComputeDurationDays
  <2> HIDE DEF s, l
  <2>6. n \in Nat \ {0} /\ n - Ordinal(s) = l
    BY <2>1, <2>2
  <2>7. Ordinal(FromOrdinal(n)) = n
    BY <2>6, DateIsOfItsDay
  <2>8. Ordinal(ComputeContractEndDate(arg, raw).value) - Ordinal(s) = ComputeDurationDays(arg, raw).value
    BY <2>4, <2>5, <2>6, <2>7
  <2> QED
    BY <1>6, <2>8 DEF Spans, s
<1>7. CASE raw.kind \in {"months", "years"}
  <2> DEFINE n == LengthInMonths(raw)
             e == AddCalendarMonths(s, n)
  <2>1. n \in Nat
    BY <1>7 DEF LengthInMonths
  <2>2. ComputeContractEndDate(arg, raw).value = e
    BY <1>1, <1>2, <1>4, <1>7 DEF ComputeContractEndDate
  <2>3. ComputeDurationDays(arg, raw).value = Ordinal(e) - Ordinal(s)
    <3>1. ComputeDurationDays(arg, raw) = Returns(IF e = Null THEN Null ELSE Ordinal(e) - Ordinal(s))
      BY <1>2, <1>4, <1>7 DEF ComputeDurationDays
    <3> QED
      BY <1>1, <2>2, <3>1
  <2>4. Exists(s) /\ e # Null
    BY <1>4, <1>7, <2>2
  <2> HIDE DEF s, n
  <2>5. Spans(s, e, raw)
    BY <2>1, <2>4, MonthsAreAdded DEF Spans, n
  <2> QED
    BY <1>7, <2>2, <2>3, <2>5 DEF s
<1> QED
  BY <1>2, <1>3, <1>5, <1>6, <1>7 DEF IsDuration

(***************************************************************************)
(* The columns that are computed of a start and a duration.                *)
(***************************************************************************)
\* A computed column of a row.
Args(row, d) == [i \in DOMAIN d.sources |-> row.cells[d.sources[i]].value]
LEMMA ColumnsAreComputed ==
  ASSUME NEW d \in Computed, NEW row, IsRow(row)
  PROVE  LET new == Compute(d.model, row) IN
         new.cells[d.column] = [from |-> UNION {row.cells[d.sources[i]].from : i \in DOMAIN d.sources},
                                value |-> CallComputed(d.fn, Args(row, d)).value]
<1> DEFINE m == d.model
           new == Compute(m, row)
           SpecOf(c) == CHOOSE spec \in {spec \in Computed : spec.model = m} : spec.column = c
           Cells(c) == SourceCells(row, SpecOf(c))
           Result(c) == CallComputed(SpecOf(c).fn, [i \in DOMAIN Cells(c) |-> Cells(c)[i].value])
           Cell(c) == [from |-> UNION {Cells(c)[i].from : i \in DOMAIN Cells(c)},
                       value |-> Result(c).value]
           cells == [c \in DOMAIN row.cells \cup OutputsOf(m) |->
                       IF c \in OutputsOf(m) THEN Cell(c) ELSE row.cells[c]]
           errs == row.errors \cup {c \in OutputsOf(m) : Result(c).error}
           col == d.column
<1>0. SpecOf(col) = d
  BY ConstantsAssumption
<1>1. new = [row EXCEPT !.cells = cells,
                        !.errors = @ \cup {c \in OutputsOf(m) : Result(c).error}]
  BY DEF Compute, OutputsOf
<1>2. DOMAIN Cells(col) = DOMAIN d.sources
      /\ \A i \in DOMAIN d.sources : Cells(col)[i] = row.cells[d.sources[i]]
  BY <1>0 DEF SourceCells
<1>3. Cell(col) = [from |-> UNION {row.cells[d.sources[i]].from : i \in DOMAIN d.sources},
                   value |-> CallComputed(d.fn, Args(row, d)).value]
  <2> HIDE DEF Cells
  <2>1. {Cells(col)[i].from : i \in DOMAIN Cells(col)} = {row.cells[d.sources[i]].from : i \in DOMAIN d.sources}
    BY <1>2
  <2>2. [i \in DOMAIN Cells(col) |-> Cells(col)[i].value] = Args(row, d)
    BY <1>2 DEF Args
  <2> QED
    BY <1>0, <2>1, <2>2
<1> HIDE DEF new, Cell, Result, Cells, SpecOf
<1>4. new = [row EXCEPT !.cells = cells, !.errors = errs]
  <2> HIDE DEF cells
  <2> QED
    BY <1>1 DEF IsRow
<1>5. col \in OutputsOf(m) /\ cells[col] = Cell(col)
  <2>1. col \in OutputsOf(m)
    BY DEF OutputsOf
  <2> QED
    BY <2>1
<1> HIDE DEF cells, errs
<1>6. RowWith(new, row, cells, errs)
  BY <1>4, RowIsReplaced, Zenon
<1> QED
  BY <1>3, <1>5, <1>6 DEF RowWith, new

\* What the computed columns are made of.
IsPair(d, s, t) ==
  /\ s \in SectionsOf(d.model) /\ t \in SectionsOf(d.model) /\ s # t
  /\ d.sources = <<Source(s), Source(t)>>
  /\ Profile[t].parser = "none" /\ DOMAIN Profile[t].derived = {}
  /\ DOMAIN Profile[s].derived = {}
  /\ \A e \in Computed : e.column # Source(s)

LEMMA PairExists ==
  ASSUME NEW d \in Computed
  PROVE  \E s, t \in Known : IsPair(d, s, t)
<1>1. PICK s \in Known, t \in Known :
        /\ d.sources = <<Source(s), Source(t)>> /\ s # t
        /\ Profile[t].parser = "none" /\ DOMAIN Profile[t].derived = {}
        /\ DOMAIN Profile[s].derived = {}
        /\ \A e \in Computed : e.column # Source(s)
  BY ConstantsAssumption
<1>2. Profile[d.sources[1].section].model = d.model /\ Profile[d.sources[2].section].model = d.model
  <2>1. 1 \in DOMAIN d.sources /\ 2 \in DOMAIN d.sources
    BY <1>1
  <2> QED
    BY <2>1, ConstantsAssumption
<1>3. Profile[s].model = d.model /\ Profile[t].model = d.model
  <2>1. d.sources[1].section = s /\ d.sources[2].section = t
    BY <1>1, ColumnsAreSources
  <2> QED
    BY <1>2, <2>1
<1> QED
  BY <1>1, <1>3 DEF IsPair, SectionsOf

\* What a computed column says, by the cells that its row had when it was built.
PairGives(d, s, t, row) ==
  LET new == Parse(d.model, row)
      start == new.cells[Source(s)]
      text == row.cells[Source(t)]
  IN  /\ start.from = row.cells[Source(s)].from
      /\ new.cells[d.column] = [from |-> start.from \cup text.from,
                                value |-> CallComputed(d.fn, <<start.value, text.value>>).value]

LEMMA PairIsComputed ==
  ASSUME NEW d \in Computed, NEW s \in Known, NEW t \in Known, IsPair(d, s, t),
         NEW row, IsNewRow(d.model, row)
  PROVE  PairGives(d, s, t, row)
<1> DEFINE m == d.model
           r1 == ParseInPlace(row)
           r2 == ParseDerived(r1)
           r3 == Compute(m, r2)
           S == Source(s)
           T == Source(t)
<1>1. IsRow(row) /\ S \in DOMAIN row.cells /\ T \in DOMAIN row.cells
  BY DEF IsNewRow, IsPair
<1>2. /\ IsRow(r1) /\ DOMAIN r1.cells = DOMAIN row.cells
      /\ r1.cells[S] = ParsedCell(row.cells[S], InPlace(row, S))
      /\ r1.cells[T] = ParsedCell(row.cells[T], InPlace(row, T))
  BY <1>1, RowIsParsedInPlace
<1> HIDE DEF r1
<1>3. DerivedFrom(S) = Profile[s].derived /\ DerivedFrom(T) = Profile[t].derived
      /\ S.section = s /\ T.section = t
  BY ColumnsAreSources
<1>4. S \notin SourcesOf(r1) /\ T \notin SourcesOf(r1)
  BY <1>3 DEF SourcesOf, IsPair
<1>5. S \notin DerivedOf(r1) /\ T \notin DerivedOf(r1)
  <2>1. ASSUME NEW c \in SourcesOf(r1)
        PROVE  S \notin DOMAIN DerivedFrom(c) /\ T \notin DOMAIN DerivedFrom(c)
    <3>1. PICK u \in SectionsOf(m) : c = Source(u)
      BY <1>2 DEF IsNewRow, SourcesOf
    <3>2. u \in Known
      BY DEF SectionsOf
    <3>3. DerivedFrom(c) = Profile[u].derived /\ \A e \in DOMAIN Profile[u].derived : e.section = u
      BY <3>1, <3>2, ColumnsAreSources
    <3> QED
      BY <1>3, <3>3 DEF IsPair
  <2> QED
    BY <2>1 DEF DerivedOf
<1>6. /\ IsRow(r2) /\ S \in DOMAIN r2.cells
      /\ r2.cells[S] = r1.cells[S] /\ r2.cells[T] = r1.cells[T]
  BY <1>1, <1>2, <1>4, <1>5, RowIsDerived
<1> HIDE DEF r2
<1>7. r3.cells[S] = r2.cells[S]
  <2>1. S \notin OutputsOf(m)
    BY DEF OutputsOf, IsPair
  <2> QED
    BY <1>6, <2>1, RowIsComputed
<1>8. r2.cells[T].value = row.cells[T].value /\ r2.cells[T].from = row.cells[T].from
  <2>1. InPlace(row, T) = Returns(row.cells[T].value)
    BY <1>3 DEF InPlace, IsPair
  <2> QED
    BY <1>2, <1>6, <2>1 DEF ParsedCell, Returns
<1>9. r2.cells[S].from = row.cells[S].from
  BY <1>2, <1>6 DEF ParsedCell
<1>10. r3.cells[d.column] =
         [from |-> UNION {r2.cells[d.sources[i]].from : i \in DOMAIN d.sources},
          value |-> CallComputed(d.fn, Args(r2, d)).value]
  BY <1>6, ColumnsAreComputed
<1>11. d.sources = <<S, T>>
  BY DEF IsPair
<1>12. Args(r2, d) = <<r2.cells[S].value, r2.cells[T].value>>
  BY <1>11 DEF Args
<1>13. UNION {r2.cells[d.sources[i]].from : i \in DOMAIN d.sources} = r2.cells[S].from \cup r2.cells[T].from
  <2>1. DOMAIN d.sources = {1, 2} /\ d.sources[1] = S /\ d.sources[2] = T
    BY <1>11
  <2> QED
    BY <2>1
<1>14. Parse(m, row) = r3
  BY DEF Parse, r1, r2
<1> HIDE DEF r3
<1> QED
  BY <1>7, <1>8, <1>9, <1>10, <1>12, <1>13, <1>14 DEF PairGives

\* Where a row has both, the duration in days leads from the start to the end date,
\* and a duration of months or years ends in the month it says, on the day of the
\* month it began or on the last one (common.py:283-289, 339-422).
THEOREM DurationsAreRight == Spec => []DurationMatchesEndDate
<1>1. IInv => DurationMatchesEndDate
  <2> SUFFICES ASSUME IInv, pc = "done", NEW d \in Computed, NEW e \in Computed,
                      d.fn = "compute_duration_days", e.fn = "compute_contract_end_date",
                      NEW new \in tables[d.model],
                      new.cells[d.column].value # Null, new.cells[e.column].value # Null
               PROVE  LET text == TextOf(new, e.fn)
                          start == StartOf(new, text)
                          end == new.cells[e.column].value
                      IN  /\ Ordinal(end) - Ordinal(start) = new.cells[d.column].value
                          /\ Spans(start, end, text)
    BY DEF DurationMatchesEndDate
  <2> DEFINE m == d.model
  <2>1. e.model = m /\ e.sources = d.sources /\ \A spec \in Computed : spec.sources = e.sources
    BY ConstantsAssumption
  <2>2. PICK s \in Known, t \in Known : IsPair(e, s, t)
    BY PairExists
  <2>3. IsPair(d, s, t)
    BY <2>1, <2>2 DEF IsPair
  <2>4. m \in Models
    BY ConstantsAssumption
  <2>5. PICK row \in Built(m) : new = Parse(m, row)
    BY <2>4 DEF IInv, TablesInv, Parsed
  <2>6. IsNewRow(m, row)
    BY <2>4, BuiltRowsAreNew DEF IInv
  <2> DEFINE arg == new.cells[Source(s)].value
             raw == row.cells[Source(t)].value
             from == new.cells[Source(s)].from
  <2>7. /\ from = row.cells[Source(s)].from
        /\ new.cells[d.column] = [from |-> from \cup row.cells[Source(t)].from,
                                  value |-> CallComputed(d.fn, <<arg, raw>>).value]
        /\ new.cells[e.column] = [from |-> from \cup row.cells[Source(t)].from,
                                  value |-> CallComputed(e.fn, <<arg, raw>>).value]
    <3>1. PairGives(d, s, t, row)
      BY <2>3, <2>6, PairIsComputed
    <3>2. PairGives(e, s, t, row)
      BY <2>1, <2>2, <2>6, PairIsComputed
    <3> QED
      BY <2>1, <2>5, <3>1, <3>2 DEF PairGives
  <2> HIDE DEF arg, raw, from
  <2>8. /\ new.cells[d.column].value = ComputeDurationDays(arg, raw).value
        /\ new.cells[e.column].value = ComputeContractEndDate(arg, raw).value
    <3>1. /\ new.cells[d.column].value = CallComputed(d.fn, <<arg, raw>>).value
          /\ new.cells[e.column].value = CallComputed(e.fn, <<arg, raw>>).value
      BY <2>7
    <3>2. Returns(Null).value = Null
      BY DEF Returns
    <3> QED
      BY <3>1, <3>2 DEF CallComputed, ComputedParser
  <2>9. raw # Null
    BY <2>8 DEF ComputeDurationDays, Returns
  <2>10. PICK p \in Valued : /\ doc[p].section = t
                             /\ row.cells[Source(t)] = [from |-> {p}, value |-> doc[p].raw]
    <3>1. row.cells[Source(t)] # NoCell
      BY <2>9 DEF NoCell, raw
    <3>2. t \in SectionsOf(m)
      BY <2>3 DEF IsPair
    <3> QED
      BY <2>4, <3>1, <3>2, CellsAreRead
  <2>11. raw = doc[p].raw
    BY <2>10 DEF raw
  <2>12. \A q \in from : doc[q].section = s
    <3>1. s \in SectionsOf(m)
      BY <2>3 DEF IsPair
    <3>2. \/ row.cells[Source(s)] = NoCell
          \/ \E q \in Valued : /\ doc[q].section = s
                               /\ row.cells[Source(s)] = [from |-> {q}, value |-> doc[q].raw]
      BY <2>4, <3>1, CellsAreRead
    <3>3. CASE row.cells[Source(s)] = NoCell
      <4>1. from = {}
        BY <2>7, <3>3 DEF NoCell
      <4> QED
        BY <4>1
    <3>4. ASSUME NEW q \in Valued, doc[q].section = s,
                 row.cells[Source(s)] = [from |-> {q}, value |-> doc[q].raw]
          PROVE  \A x \in from : doc[x].section = s
      <4>1. from = {q}
        BY <2>7, <3>4
      <4> QED
        BY <3>4, <4>1
    <3> QED
      BY <3>2, <3>3, <3>4
  <2>13. TextOf(new, e.fn) = raw
    <3>1. (CHOOSE spec \in Computed : spec.fn = e.fn) = e
      BY ConstantsAssumption
    <3>2. e.sources[2].section = t /\ s # t
      BY <2>2, ColumnsAreSources DEF IsPair
    <3>3. new.cells[e.column].from = from \cup {p}
      BY <2>7, <2>10
    <3>4. (CHOOSE q \in from \cup {p} : doc[q].section = t) = p
      BY <2>10, <2>12, <3>2
    <3> QED
      BY <2>11, <3>1, <3>2, <3>3, <3>4 DEF TextOf
  <2>14. StartOf(new, raw) = IF raw.kind = "range" THEN raw.from ELSE StartDate(arg)
    <3>1. (CHOOSE spec \in Computed : TRUE).sources[1] = Source(s)
      BY <2>1, <2>2 DEF IsPair
    <3> QED
      BY <3>1 DEF StartOf, arg
  <2>15. raw.kind \in {"days", "weeks", "months", "years"} => raw.n \in Nat
    <3>1. doc \in Seq(Block) /\ p \in DOMAIN doc
      BY <2>10 DEF IInv, TypeInv, Valued
    <3>2. doc[p] \in Block
      BY <3>1
    <3>3. raw \in Raws
      BY <2>11, <3>2 DEF Block
    <3> QED
      BY <3>3, ConstantsAssumption
  <2>16. /\ Ordinal(new.cells[e.column].value) - Ordinal(StartOf(new, raw)) = new.cells[d.column].value
         /\ Spans(StartOf(new, raw), new.cells[e.column].value, raw)
    BY <2>8, <2>14, <2>15, DurationsMatch
  <2> QED
    BY <2>13, <2>16
<1> QED
  BY <1>1, InvariantHolds, PTL

(***************************************************************************)
(* Where the grouping puts a value, as a function of what was read: a      *)
(* value starts a new unit if the value before it, in the same unit of the *)
(* parent, has a section that is not below its own.                        *)
(***************************************************************************)
\* V are the blocks with values of one model, R the ones that start the units of
\* its parent, D the body.
Precedes(V, r, q) == r \in V /\ r < q /\ \A x \in V : ~(r < x /\ x < q)
Breaks(D, V, R, q) ==
  \E r \in V : Precedes(V, r, q) /\ D[q].section <= D[r].section /\ \A d \in R : ~(r < d /\ d <= q)

BreaksOf(D, V, R) == {q \in V : Breaks(D, V, R, q)}

\* What belongs to the last unit of the parent, and to that of block p.
Since(S, R) == {q \in S : \A d \in R : d <= q}
UpTo(S, R, p) == {q \in S : q <= p /\ \A d \in R : d <= p => d <= q}

LastIs(D, V, l) ==
  IF V = {} THEN l = 0 ELSE \E q \in V : (\A r \in V : r <= q) /\ l = D[q].section

\* The counters of the model.
Counts(D, V, R, n, l) ==
  n = Cardinality(Since(BreaksOf(D, V, R), R)) /\ LastIs(D, Since(V, R), l)

\* Later blocks do not change what an earlier one is.
LEMMA BreaksStay ==
  ASSUME NEW n \in Nat, NEW V \in SUBSET (1 .. n), NEW R \in SUBSET (1 .. n), NEW D
  PROVE  /\ \A q \in 1 .. n + 1 : Breaks(D, V \cup {n + 1}, R, q) <=> Breaks(D, V, R, q)
         /\ \A q \in 1 .. n : Breaks(D, V, R \cup {n + 1}, q) <=> Breaks(D, V, R, q)
<1>1. \A x \in V : x \in Nat /\ x < n + 1
  OBVIOUS
<1>2. \A q \in 1 .. n + 1 : q \in Nat /\ ~(n + 1 < q)
  OBVIOUS
<1>3. ASSUME NEW q \in 1 .. n + 1, NEW r
      PROVE  Precedes(V \cup {n + 1}, r, q) <=> Precedes(V, r, q)
  BY <1>1, <1>2 DEF Precedes
<1>4. \A q \in 1 .. n + 1 : Breaks(D, V \cup {n + 1}, R, q) <=> Breaks(D, V, R, q)
  <2> SUFFICES ASSUME NEW q \in 1 .. n + 1
               PROVE  Breaks(D, V \cup {n + 1}, R, q) <=> Breaks(D, V, R, q)
    OBVIOUS
  <2>1. \A r : Precedes(V, r, q) => r \in V
    BY DEF Precedes
  <2> QED
    BY <1>3, <2>1, Zenon DEF Breaks
<1>5. \A q \in 1 .. n : ~(n + 1 <= q)
  OBVIOUS
<1>6. \A q \in 1 .. n : Breaks(D, V, R \cup {n + 1}, q) <=> Breaks(D, V, R, q)
  BY <1>5, Zenon DEF Breaks
<1> QED
  BY <1>4, <1>6

LEMMA UpToStays ==
  ASSUME NEW n \in Nat, NEW B \in SUBSET (1 .. n), NEW R \in SUBSET (1 .. n), NEW p \in 1 .. n
  PROVE  /\ UpTo(B \cup {n + 1}, R, p) = UpTo(B, R, p)
         /\ UpTo(B, R \cup {n + 1}, p) = UpTo(B, R, p)
<1>1. p < n + 1 /\ ~(n + 1 <= p)
  OBVIOUS
<1> QED
  BY <1>1, Zenon DEF UpTo

LEMMA LastIsSince ==
  ASSUME NEW n \in Nat, NEW B \in SUBSET (1 .. n + 1), NEW R \in SUBSET (1 .. n)
  PROVE  UpTo(B, R, n + 1) = Since(B, R)
<1>1. (\A q \in B : q <= n + 1) /\ \A d \in R : d <= n + 1
  OBVIOUS
<1>2. \A q \in B : q \in UpTo(B, R, n + 1) <=> q \in Since(B, R)
  BY <1>1, Zenon DEF UpTo, Since
<1> QED
  BY <1>2, Zenon DEF UpTo, Since

LEMMA SinceGrows ==
  ASSUME NEW n \in Nat, NEW B, NEW R \in SUBSET (1 .. n)
  PROVE  Since(B \cup {n + 1}, R) = Since(B, R) \cup {n + 1}
<1>1. \A d \in R : d <= n + 1
  OBVIOUS
<1> QED
  BY <1>1, Zenon DEF Since

LEMMA NothingIsSince ==
  ASSUME NEW n \in Nat, NEW B \in SUBSET (1 .. n), NEW R
  PROVE  Since(B, R \cup {n + 1}) = {}
<1>1. \A q \in B : ~(n + 1 <= q)
  OBVIOUS
<1> QED
  BY <1>1 DEF Since

\* The test of the code is the one of the definition.
LEMMA BreakIsAgain ==
  ASSUME NEW n \in Nat, NEW V \in SUBSET (1 .. n), NEW R \in SUBSET (1 .. n), NEW D,
         \A q \in 1 .. n + 1 : D[q].section \in Nat \ {0},
         NEW l, LastIs(D, Since(V, R), l)
  PROVE  Breaks(D, V, R, n + 1) <=> l # 0 /\ D[n + 1].section <= l
<1>1. \A x \in V : x \in 1 .. n + 1 /\ x \in Nat /\ x < n + 1
  OBVIOUS
<1>2. \A d \in R : d \in Nat /\ d <= n + 1
  OBVIOUS
<1>3. ASSUME NEW r \in V, Precedes(V, r, n + 1), \A d \in R : ~(r < d /\ d <= n + 1)
      PROVE  l = D[r].section /\ l # 0
  <2>1. \A x \in V : x <= r
    BY <1>1, <1>3 DEF Precedes
  <2>2. \A d \in R : d <= r
    BY <1>1, <1>2, <1>3
  <2>3. r \in Since(V, R)
    BY <2>2 DEF Since
  <2>4. PICK q \in Since(V, R) : (\A x \in Since(V, R) : x <= q) /\ l = D[q].section
    BY <2>3 DEF LastIs
  <2>5. q \in V /\ r <= q
    BY <2>3, <2>4 DEF Since
  <2>6. q = r
    BY <2>1, <2>5, <1>1
  <2> QED
    BY <2>4, <2>6, <1>1
<1>4. ASSUME l # 0
      PROVE  \E r \in V : /\ Precedes(V, r, n + 1) /\ l = D[r].section
                          /\ \A d \in R : ~(r < d /\ d <= n + 1)
  <2>1. PICK q \in Since(V, R) : (\A x \in Since(V, R) : x <= q) /\ l = D[q].section
    BY <1>4 DEF LastIs
  <2>2. q \in V /\ \A d \in R : d <= q
    BY <2>1 DEF Since
  <2>3. ASSUME NEW x \in V PROVE ~(q < x)
    <3>1. SUFFICES ASSUME q < x PROVE FALSE
      OBVIOUS
    <3>2. \A d \in R : d <= x
      BY <2>2, <3>1, <1>1, <1>2
    <3>3. x \in Since(V, R)
      BY <3>2 DEF Since
    <3> QED
      BY <2>1, <2>2, <3>1, <3>3, <1>1
  <2>4. Precedes(V, q, n + 1)
    BY <2>2, <2>3, <1>1 DEF Precedes
  <2>5. \A d \in R : ~(q < d /\ d <= n + 1)
    BY <2>2, <1>1, <1>2
  <2> QED
    BY <2>1, <2>2, <2>4, <2>5
<1> QED
  BY <1>3, <1>4 DEF Breaks

\* The counters after a value of the model, and after a new unit of its parent.
Advanced(D, V, R, n, c, l) ==
  LET again == l # 0 /\ D[n + 1].section <= l IN
  /\ BreaksOf(D, V \cup {n + 1}, R) =
       IF again THEN BreaksOf(D, V, R) \cup {n + 1} ELSE BreaksOf(D, V, R)
  /\ Counts(D, V \cup {n + 1}, R, IF again THEN c + 1 ELSE c, D[n + 1].section)

LEMMA CountsAdvance ==
  ASSUME NEW n \in Nat, NEW V \in SUBSET (1 .. n), NEW R \in SUBSET (1 .. n), NEW D,
         \A q \in 1 .. n + 1 : D[q].section \in Nat \ {0},
         NEW c \in Nat, NEW l, Counts(D, V, R, c, l)
  PROVE  Advanced(D, V, R, n, c, l)
<1> DEFINE again == l # 0 /\ D[n + 1].section <= l
           W == V \cup {n + 1}
           B == BreaksOf(D, V, R)
<1>1. Breaks(D, V, R, n + 1) <=> again
  BY BreakIsAgain DEF Counts
<1>2. \A q \in W : q \in 1 .. n + 1
  OBVIOUS
<1>3. \A q \in W : Breaks(D, W, R, q) <=> Breaks(D, V, R, q)
  BY <1>2, BreaksStay
<1>4. n + 1 \notin V
  OBVIOUS
<1> HIDE DEF again
<1>5. BreaksOf(D, W, R) = IF again THEN B \cup {n + 1} ELSE B
  BY <1>1, <1>3, <1>4, Zenon DEF BreaksOf
<1>6. B \in SUBSET (1 .. n)
  BY DEF BreaksOf
<1> HIDE DEF W, B
<1>7. Since(B \cup {n + 1}, R) = Since(B, R) \cup {n + 1}
  BY SinceGrows, Zenon
<1>8. n + 1 \notin Since(B, R) /\ IsFiniteSet(Since(B, R)) /\ c = Cardinality(Since(B, R))
  <2>1. Since(B, R) \in SUBSET (1 .. n) /\ n + 1 \notin 1 .. n
    BY <1>6 DEF Since
  <2>2. IsFiniteSet(1 .. n)
    BY FS_Interval
  <2> QED
    BY <2>1, <2>2, FS_Subset DEF Counts, B
<1>9. Cardinality(Since(B, R) \cup {n + 1}) = c + 1
  BY <1>8, FS_AddElement
<1>10. LastIs(D, Since(W, R), D[n + 1].section)
  <2>1. Since(W, R) = Since(V, R) \cup {n + 1}
    BY SinceGrows, Zenon DEF W
  <2>2. \A r \in Since(V, R) \cup {n + 1} : r <= n + 1
    <3>1. \A r \in Since(V, R) : r \in 1 .. n
      BY DEF Since
    <3> QED
      BY <3>1
  <2>3. n + 1 \in Since(W, R)
    BY <2>1
  <2> QED
    BY <2>1, <2>2, <2>3 DEF LastIs
<1>11. Counts(D, W, R, IF again THEN c + 1 ELSE c, D[n + 1].section)
  BY <1>5, <1>7, <1>8, <1>9, <1>10 DEF Counts
<1> QED
  BY <1>5, <1>11 DEF Advanced, again, W, B

\* A new unit of the parent clears them.
LEMMA CountsReset ==
  ASSUME NEW n \in Nat, NEW V \in SUBSET (1 .. n), NEW R \in SUBSET (1 .. n), NEW D
  PROVE  /\ BreaksOf(D, V, R \cup {n + 1}) = BreaksOf(D, V, R)
         /\ Counts(D, V, R \cup {n + 1}, 0, 0)
<1>1. BreaksOf(D, V, R \cup {n + 1}) = BreaksOf(D, V, R)
  <2>1. \A q \in V : Breaks(D, V, R \cup {n + 1}, q) <=> Breaks(D, V, R, q)
    BY BreaksStay
  <2> QED
    BY <2>1, Zenon DEF BreaksOf
<1>2. BreaksOf(D, V, R) \in SUBSET (1 .. n)
  BY DEF BreaksOf
<1>3. Since(BreaksOf(D, V, R), R \cup {n + 1}) = {} /\ Since(V, R \cup {n + 1}) = {}
  BY <1>2, NothingIsSince, Zenon
<1> QED
  BY <1>1, <1>3, FS_EmptySet DEF Counts, LastIs

(***************************************************************************)
(* The places of all values of an entity.  V has the blocks read of each   *)
(* model.                                                                  *)
(***************************************************************************)
NewUnits(e, D, V) == BreaksOf(D, V[<<e, "core">>], {})
Resets(k, D, V) == IF IsEntity(k) THEN {} ELSE NewUnits(k[1], D, V)
BreaksAt(k, D, V) == BreaksOf(D, V[k], Resets(k, D, V))
\* The slot of block p, and its place in the list of child k.
SlotOf(e, D, V, p) == Cardinality(UpTo(NewUnits(e, D, V), {}, p)) + 1
KidOf(k, D, V, p) == Cardinality(UpTo(BreaksAt(k, D, V), Resets(k, D, V), p)) + 1

PlacesOK(e, D, V, list, idx, lst) ==
  /\ \A k \in Paths : k[1] = e =>
       /\ Counts(D, V[k], Resets(k, D, V), idx[k], lst[k])
       /\ \A p \in V[k] : At(list, k, D[p].section, p, SlotOf(e, D, V, p), KidOf(k, D, V, p))
  /\ list # << >> => \E k \in Paths : k[1] = e /\ V[k] # {}

\* The starts of units and the counters after another value of model k.
NextIndex(m, k, idx, again) ==
  IF again /\ m = k THEN idx[m] + 1 ELSE IF again /\ m \in Descendants(k) THEN 0 ELSE idx[m]

NextLast(m, k, s, lst, again) ==
  IF m = k THEN s ELSE IF again /\ m \in Descendants(k) THEN 0 ELSE lst[m]

UnitsAfter(m, e, k, n, D, V, W, idx, lst) ==
  LET again == Again(lst, k, D[n + 1].section) IN
  /\ Resets(m, D, V) \in SUBSET (1 .. n) /\ BreaksAt(m, D, V) \in SUBSET (1 .. n)
  /\ Resets(m, D, W) = IF again /\ m \in Descendants(k) THEN Resets(m, D, V) \cup {n + 1}
                        ELSE Resets(m, D, V)
  /\ BreaksAt(m, D, W) = IF again /\ m = k THEN BreaksAt(m, D, V) \cup {n + 1}
                          ELSE BreaksAt(m, D, V)
  /\ NewUnits(e, D, V) \in SUBSET (1 .. n)
  /\ NewUnits(e, D, W) = IF again /\ IsEntity(k) THEN NewUnits(e, D, V) \cup {n + 1}
                         ELSE NewUnits(e, D, V)
  /\ Counts(D, W[m], Resets(m, D, W), NextIndex(m, k, idx, again),
            NextLast(m, k, D[n + 1].section, lst, again))

LEMMA BreaksAdvance ==
  ASSUME NEW e \in Entities, NEW k \in Paths, k[1] = e, NEW n \in Nat, NEW D,
         \A q \in 1 .. n + 1 : D[q].section \in Nat \ {0},
         NEW V \in [Paths -> SUBSET (1 .. n)], NEW W, W = [V EXCEPT ![k] = @ \cup {n + 1}],
         NEW idx \in [Paths -> Nat], NEW lst,
         \A m \in Paths : m[1] = e => Counts(D, V[m], Resets(m, D, V), idx[m], lst[m]),
         NEW m \in Paths, m[1] = e
  PROVE  UnitsAfter(m, e, k, n, D, V, W, idx, lst)
<1> DEFINE c == <<e, "core">>
           again == Again(lst, k, D[n + 1].section)
           more == lst[k] # 0 /\ D[n + 1].section <= lst[k]
<1>1. /\ c \in Paths /\ c[1] = e /\ IsEntity(c)
      /\ \A q \in Paths : q[1] = e => (IsEntity(q) <=> q = c)
      /\ \A q \in Paths : q \in Descendants(k) <=> k = c /\ q[1] = e /\ q # c
  <2>1. c \in Paths /\ c[1] = e /\ IsEntity(c)
    BY PathsOfEntities
  <2>2. \A q \in Paths : q[1] = e /\ IsEntity(q) => q = c
    BY PathsAreRight DEF IsEntity, EntityOf
  <2>3. \A q \in Paths : q \in Descendants(k) <=> k = c /\ q[1] = e /\ q # c
    BY <2>1, <2>2 DEF Descendants, IsEntity
  <2> QED
    BY <2>1, <2>2, <2>3
<1>2. again <=> more
  BY DEF Again
<1>3. W[k] = V[k] \cup {n + 1} /\ \A q \in Paths \ {k} : W[q] = V[q]
  OBVIOUS
<1> HIDE DEF c, again
<1>4. \A q \in Paths : V[q] \in SUBSET (1 .. n)
  OBVIOUS
<1>5. NewUnits(e, D, V) = BreaksOf(D, V[c], {}) /\ NewUnits(e, D, W) = BreaksOf(D, W[c], {})
  BY DEF NewUnits, c
<1>6. ASSUME NEW q \in Paths, NEW R PROVE BreaksOf(D, V[q], R) \in SUBSET (1 .. n)
  BY <1>4 DEF BreaksOf
<1>7. NewUnits(e, D, V) \in SUBSET (1 .. n)
  BY <1>1, <1>5, <1>6
<1>8. ASSUME NEW q \in Paths, q[1] = e
      PROVE  Resets(q, D, V) \in SUBSET (1 .. n) /\ BreaksAt(q, D, V) \in SUBSET (1 .. n)
  BY <1>6, <1>7, <1>8 DEF Resets, BreaksAt
<1>9. /\ BreaksOf(D, W[k], Resets(k, D, V)) =
           IF more THEN BreaksAt(k, D, V) \cup {n + 1} ELSE BreaksAt(k, D, V)
      /\ Counts(D, W[k], Resets(k, D, V), IF more THEN idx[k] + 1 ELSE idx[k], D[n + 1].section)
  <2>1. V[k] \in SUBSET (1 .. n) /\ Resets(k, D, V) \in SUBSET (1 .. n) /\ idx[k] \in Nat
    BY <1>8
  <2>2. Counts(D, V[k], Resets(k, D, V), idx[k], lst[k])
    OBVIOUS
  <2>3. Advanced(D, V[k], Resets(k, D, V), n, idx[k], lst[k])
    BY <2>1, <2>2, CountsAdvance
  <2> QED
    BY <1>3, <2>3 DEF Advanced, BreaksAt
<1> HIDE DEF more
<1>10. NewUnits(e, D, W) = IF again /\ IsEntity(k) THEN NewUnits(e, D, V) \cup {n + 1}
                          ELSE NewUnits(e, D, V)
  <2>1. CASE k = c
    <3>1. Resets(k, D, V) = {} /\ IsEntity(k)
      BY <2>1, <1>1 DEF Resets
    <3>2. BreaksAt(k, D, V) = NewUnits(e, D, V)
      BY <2>1, <3>1, <1>5 DEF BreaksAt
    <3> QED
      BY <2>1, <3>1, <3>2, <1>2, <1>5, <1>9
  <2>2. CASE k # c
    BY <2>2, <1>1, <1>3, <1>5
  <2> QED
    BY <2>1, <2>2
<1>11. Resets(m, D, W) = IF again /\ m \in Descendants(k) THEN Resets(m, D, V) \cup {n + 1}
                         ELSE Resets(m, D, V)
  BY <1>1, <1>10 DEF Resets
<1>12. CASE m = k
  <2>1. m \notin Descendants(k)
    BY <1>1, <1>12
  <2>2. Resets(m, D, W) = Resets(m, D, V)
    BY <2>1, <1>11
  <2> QED
    BY <1>2, <1>7, <1>8, <1>9, <1>10, <1>11, <1>12, <2>1, <2>2 DEF BreaksAt, again, UnitsAfter, NextIndex, NextLast
<1>13. CASE m # k /\ ~(again /\ m \in Descendants(k))
  <2>1. Resets(m, D, W) = Resets(m, D, V) /\ W[m] = V[m]
    BY <1>3, <1>11, <1>13
  <2>2. Counts(D, V[m], Resets(m, D, V), idx[m], lst[m])
    OBVIOUS
  <2> QED
    BY <1>7, <1>8, <1>10, <1>11, <1>13, <2>1, <2>2 DEF BreaksAt, again, UnitsAfter, NextIndex, NextLast
<1>14. CASE m # k /\ again /\ m \in Descendants(k)
  <2>1. Resets(m, D, W) = Resets(m, D, V) \cup {n + 1} /\ W[m] = V[m]
    BY <1>3, <1>11, <1>14
  <2>2. V[m] \in SUBSET (1 .. n) /\ Resets(m, D, V) \in SUBSET (1 .. n)
    BY <1>8
  <2>3. /\ BreaksOf(D, V[m], Resets(m, D, V) \cup {n + 1}) = BreaksOf(D, V[m], Resets(m, D, V))
        /\ Counts(D, V[m], Resets(m, D, V) \cup {n + 1}, 0, 0)
    BY <2>2, CountsReset
  <2> QED
    BY <1>7, <1>8, <1>10, <1>11, <1>14, <2>1, <2>3 DEF BreaksAt, again, UnitsAfter, NextIndex, NextLast
<1> QED
  BY <1>12, <1>13, <1>14

ValueComes(e, k, n, D, V, W) ==
  /\ e \in Entities /\ k \in Paths /\ k[1] = e /\ n \in Nat
  /\ \A q \in 1 .. n + 1 : D[q].section \in Nat \ {0}
  /\ V \in [Paths -> SUBSET (1 .. n)] /\ W = [V EXCEPT ![k] = @ \cup {n + 1}]
  /\ \A m \in Paths : \A p \in V[m] : D[p].section \in Known

CountersFollow(e, k, s, idx, lst, nidx, nlst) ==
  /\ idx \in [Paths -> Nat]
  /\ \A m \in Paths : m[1] = e =>
       /\ nidx[m] = NextIndex(m, k, idx, Again(lst, k, s))
       /\ nlst[m] = NextLast(m, k, s, lst, Again(lst, k, s))

\* A value of model k is where the counters are, the others are where they were.
LEMMA PlacesAdvance ==
  ASSUME NEW e, NEW k, NEW n, NEW D, NEW V, NEW W,
         NEW idx, NEW lst, NEW nidx, NEW nlst, NEW list, NEW new,
         ValueComes(e, k, n, D, V, W),
         CountersFollow(e, k, D[n + 1].section, idx, lst, nidx, nlst),
         PlacesOK(e, D, V, list, idx, lst),
         At(new, k, D[n + 1].section, n + 1, nidx[<<e, "core">>] + 1, nidx[k] + 1),
         PlacesKept(list, new)
  PROVE  PlacesOK(e, D, W, new, nidx, nlst)
<1> SUFFICES ASSUME e \in Entities, k \in Paths, k[1] = e, n \in Nat,
                    \A q \in 1 .. n + 1 : D[q].section \in Nat \ {0},
                    V \in [Paths -> SUBSET (1 .. n)], W = [V EXCEPT ![k] = @ \cup {n + 1}],
                    \A m \in Paths : \A p \in V[m] : D[p].section \in Known,
                    idx \in [Paths -> Nat],
                    \A m \in Paths : m[1] = e =>
                      /\ nidx[m] = NextIndex(m, k, idx, Again(lst, k, D[n + 1].section))
                      /\ nlst[m] = NextLast(m, k, D[n + 1].section, lst, Again(lst, k, D[n + 1].section))
             PROVE  PlacesOK(e, D, W, new, nidx, nlst)
  BY Zenon DEF ValueComes, CountersFollow
<1> DEFINE c == <<e, "core">>
           again == Again(lst, k, D[n + 1].section)
<1>1. c \in Paths /\ c[1] = e /\ IsEntity(c) /\ k \notin Descendants(k)
      /\ \A q \in Paths : q \in Descendants(k) => ~IsEntity(q)
  <2>1. c \in Paths /\ c[1] = e /\ IsEntity(c)
    BY PathsOfEntities
  <2> QED
    BY <2>1 DEF Descendants, IsEntity
<1>2. ASSUME NEW m \in Paths, m[1] = e PROVE UnitsAfter(m, e, k, n, D, V, W, idx, lst)
  <2>1. \A q \in Paths : q[1] = e => Counts(D, V[q], Resets(q, D, V), idx[q], lst[q])
    BY DEF PlacesOK
  <2> QED
    BY <1>2, <2>1, BreaksAdvance
<1>3. W[k] = V[k] \cup {n + 1} /\ \A q \in Paths \ {k} : W[q] = V[q]
  OBVIOUS
<1> HIDE DEF c, again
<1>4. ASSUME NEW m \in Paths, m[1] = e
      PROVE  Counts(D, W[m], Resets(m, D, W), nidx[m], nlst[m])
  BY <1>2, <1>4 DEF UnitsAfter
<1>5. NewUnits(e, D, V) \in SUBSET (1 .. n)
      /\ NewUnits(e, D, W) \in {NewUnits(e, D, V), NewUnits(e, D, V) \cup {n + 1}}
  BY <1>1, <1>2 DEF UnitsAfter
<1>6. ASSUME NEW m \in Paths, m[1] = e, NEW p \in V[m]
      PROVE  At(new, m, D[p].section, p, SlotOf(e, D, W, p), KidOf(m, D, W, p))
  <2>1. p \in 1 .. n /\ p \in Nat \ {0} /\ D[p].section \in Known
    <3>1. V[m] \in SUBSET (1 .. n)
      OBVIOUS
    <3> QED
      BY <3>1
  <2>2. UpTo(NewUnits(e, D, W), {}, p) = UpTo(NewUnits(e, D, V), {}, p)
    <3> DEFINE B == NewUnits(e, D, V)
               R == {}
    <3>1. B \in SUBSET (1 .. n) /\ R \in SUBSET (1 .. n)
      BY <1>5
    <3> HIDE DEF B, R
    <3>2. UpTo(B \cup {n + 1}, R, p) = UpTo(B, R, p)
      BY <2>1, <3>1, UpToStays
    <3> QED
      BY <1>5, <3>2 DEF B, R
  <2>3. UpTo(BreaksAt(m, D, W), Resets(m, D, W), p) = UpTo(BreaksAt(m, D, V), Resets(m, D, V), p)
    <3> DEFINE B == BreaksAt(m, D, V)
               R == Resets(m, D, V)
    <3>1. B \in SUBSET (1 .. n) /\ R \in SUBSET (1 .. n)
          /\ \/ BreaksAt(m, D, W) = B /\ Resets(m, D, W) = R
             \/ BreaksAt(m, D, W) = B \cup {n + 1} /\ Resets(m, D, W) = R
             \/ BreaksAt(m, D, W) = B /\ Resets(m, D, W) = R \cup {n + 1}
      BY <1>1, <1>2, <1>6 DEF UnitsAfter
    <3> HIDE DEF B, R
    <3>2. UpTo(B \cup {n + 1}, R, p) = UpTo(B, R, p) /\ UpTo(B, R \cup {n + 1}, p) = UpTo(B, R, p)
      BY <2>1, <3>1, UpToStays
    <3> QED
      BY <3>1, <3>2 DEF B, R
  <2>4. At(list, m, D[p].section, p, SlotOf(e, D, V, p), KidOf(m, D, V, p))
    BY <1>6 DEF PlacesOK
  <2>5. At(new, m, D[p].section, p, SlotOf(e, D, V, p), KidOf(m, D, V, p))
    BY <2>1, <2>4 DEF PlacesKept
  <2> QED
    BY <2>2, <2>3, <2>5 DEF SlotOf, KidOf
<1>7. SlotOf(e, D, W, n + 1) = nidx[c] + 1
  <2>1. NewUnits(e, D, W) \in SUBSET (1 .. n + 1) /\ {} \in SUBSET (1 .. n)
    <3>1. \A q \in 1 .. n : q \in 1 .. n + 1
      OBVIOUS
    <3>2. n + 1 \in 1 .. n + 1
      OBVIOUS
    <3> QED
      BY <1>5, <3>1, <3>2
  <2>2. UpTo(NewUnits(e, D, W), {}, n + 1) = Since(NewUnits(e, D, W), {})
    BY <2>1, LastIsSince
  <2>3. Resets(c, D, W) = {} /\ NewUnits(e, D, W) = BreaksOf(D, W[c], {})
    BY <1>1 DEF Resets, NewUnits, c
  <2>4. nidx[c] = Cardinality(Since(NewUnits(e, D, W), {}))
    BY <1>1, <1>4, <2>3 DEF Counts
  <2> QED
    BY <2>2, <2>4 DEF SlotOf
<1>8. KidOf(k, D, W, n + 1) = nidx[k] + 1
  <2>1. Resets(k, D, W) \in SUBSET (1 .. n) /\ BreaksAt(k, D, W) \in SUBSET (1 .. n + 1)
    <3>1. \A q \in 1 .. n : q \in 1 .. n + 1
      OBVIOUS
    <3>2. n + 1 \in 1 .. n + 1
      OBVIOUS
    <3>3. /\ Resets(k, D, V) \in SUBSET (1 .. n) /\ BreaksAt(k, D, V) \in SUBSET (1 .. n)
          /\ Resets(k, D, W) = Resets(k, D, V)
          /\ BreaksAt(k, D, W) \in {BreaksAt(k, D, V), BreaksAt(k, D, V) \cup {n + 1}}
      BY <1>1, <1>2 DEF UnitsAfter
    <3> QED
      BY <3>1, <3>2, <3>3
  <2>2. UpTo(BreaksAt(k, D, W), Resets(k, D, W), n + 1) = Since(BreaksAt(k, D, W), Resets(k, D, W))
    BY <2>1, LastIsSince
  <2>3. nidx[k] = Cardinality(Since(BreaksAt(k, D, W), Resets(k, D, W)))
    BY <1>4 DEF Counts, BreaksAt
  <2> QED
    BY <2>2, <2>3 DEF KidOf
<1>9. ASSUME NEW m \in Paths, m[1] = e, NEW p \in W[m]
      PROVE  At(new, m, D[p].section, p, SlotOf(e, D, W, p), KidOf(m, D, W, p))
  <2>1. p \in V[m] \/ (m = k /\ p = n + 1)
    <3>1. W[m] = IF m = k THEN V[m] \cup {n + 1} ELSE V[m]
      BY <1>3
    <3> QED
      BY <1>9, <3>1, Zenon
  <2>2. CASE m = k /\ p = n + 1
    BY <2>2, <1>7, <1>8 DEF c
  <2> QED
    BY <2>1, <2>2, <1>6, <1>9
<1>10. W[k] # {}
  BY <1>3
<1> QED
  BY <1>4, <1>9, <1>10 DEF PlacesOK

(***************************************************************************)
(* Every value is where the body says it belongs.                          *)
(***************************************************************************)
ReadOf == [k \in Paths |-> ValuedOf(k)]
PlacesInv == \A e \in Entities : PlacesOK(e, doc, ReadOf, slots[e], index, last)

LEMMA ReadIsBelow ==
  ASSUME TypeInv
  PROVE  /\ pos \in Nat /\ ReadOf \in [Paths -> SUBSET (1 .. pos)]
         /\ \A k \in Paths : ReadOf[k] = ValuedOf(k)
         /\ \A k \in Paths : \A p \in ReadOf[k] : doc[p].section \in Known
  BY DEF ReadOf, ValuedOf, Valued, TypeInv, SectionsOf

\* What is read of each model after the next heading.
LEMMA ReadGrows ==
  ASSUME TypeInv, NextHeading, NEW k \in Paths
  PROVE  ValuedOf(k)' = IF HasValue /\ Section \in SectionsOf(k) THEN ValuedOf(k) \cup {pos + 1}
                        ELSE ValuedOf(k)
<1>1. doc' = doc /\ pos' = pos + 1 /\ pos \in Nat /\ Section = doc[pos + 1].section
  BY HeadingsAdvance
<1>2. 1 .. pos + 1 = (1 .. pos) \cup {pos + 1}
  BY <1>1
<1>3. ValuedOf(k)' = {p \in (1 .. pos) \cup {pos + 1} :
                        SectionValue(doc[p]) # {} /\ doc[p].section \in SectionsOf(k)}
  BY <1>1, <1>2 DEF ValuedOf, Valued
<1>4. ValuedOf(k) = {p \in 1 .. pos : SectionValue(doc[p]) # {} /\ doc[p].section \in SectionsOf(k)}
  BY DEF ValuedOf, Valued
<1>5. (SectionValue(doc[pos + 1]) # {} /\ doc[pos + 1].section \in SectionsOf(k)) <=>
        (HasValue /\ Section \in SectionsOf(k))
  BY <1>1 DEF HasValue
<1> QED
  BY <1>3, <1>4, <1>5

LEMMA PlacesAgree ==
  ASSUME NEW e \in Entities, NEW D, NEW V, NEW W, NEW list,
         NEW idx, NEW lst, NEW nidx, NEW nlst,
         \A k \in Paths : k[1] = e => W[k] = V[k] /\ nidx[k] = idx[k] /\ nlst[k] = lst[k],
         PlacesOK(e, D, V, list, idx, lst)
  PROVE  PlacesOK(e, D, W, list, nidx, nlst)
<1>1. NewUnits(e, D, W) = NewUnits(e, D, V)
  BY PathsOfEntities DEF NewUnits
<1>2. ASSUME NEW k \in Paths, k[1] = e
      PROVE  Resets(k, D, W) = Resets(k, D, V) /\ BreaksAt(k, D, W) = BreaksAt(k, D, V)
  <2>1. Resets(k, D, W) = Resets(k, D, V)
    BY <1>1, <1>2 DEF Resets
  <2> QED
    BY <1>2, <2>1 DEF BreaksAt
<1>3. ASSUME NEW k \in Paths, k[1] = e, NEW p
      PROVE  SlotOf(e, D, W, p) = SlotOf(e, D, V, p) /\ KidOf(k, D, W, p) = KidOf(k, D, V, p)
  BY <1>1, <1>2, <1>3 DEF SlotOf, KidOf
<1> QED
  BY <1>2, <1>3 DEF PlacesOK

LEMMA PlacesBegin == Init => PlacesInv
<1> SUFFICES ASSUME Init, NEW e \in Entities PROVE PlacesOK(e, doc, ReadOf, slots[e], index, last)
  BY DEF PlacesInv
<1>1. slots[e] = << >> /\ \A k \in Paths : index[k] = 0 /\ last[k] = 0 /\ ReadOf[k] = {}
  BY DEF Init, ReadOf, ValuedOf, Valued
<1>2. ASSUME NEW R PROVE Since({}, R) = {}
  BY DEF Since
<1>3. ASSUME NEW R PROVE BreaksOf(doc, {}, R) = {}
  BY DEF BreaksOf
<1>4. ASSUME NEW R PROVE Counts(doc, {}, R, 0, 0)
  BY <1>2, <1>3, FS_EmptySet DEF Counts, LastIs
<1> QED
  BY <1>1, <1>4 DEF PlacesOK

LEMMA PlacesAreKept ==
  ASSUME IInv, PlacesInv, [Next]_vars PROVE PlacesInv'
<1> SUFFICES ASSUME NEW f \in Entities
             PROVE  PlacesOK(f, doc', ReadOf', slots'[f], index', last')
  BY DEF PlacesInv
<1>1. PlacesOK(f, doc, ReadOf, slots[f], index, last)
  BY DEF PlacesInv
<1>2. TypeInv /\ GroupInv
  BY DEF IInv
<1>3. CASE UNCHANGED <<doc, pos, slots, index, last>>
  BY <1>1, <1>3 DEF ReadOf, ValuedOf, Valued
<1>4. CASE /\ NextHeading /\ UNCHANGED <<slots, index, last>>
           /\ \/ ~HasValue \/ Section \notin Known \/ Model = CoreModel
  <2>1. doc' = doc
    BY <1>2, <1>4, HeadingsAdvance
  <2>2. ASSUME NEW k \in Paths, k[1] = f PROVE ReadOf'[k] = ReadOf[k]
    <3>1. k # CoreModel
      BY <2>2 DEF CoreModel, Entities
    <3>2. ~(HasValue /\ Section \in SectionsOf(k))
      BY <1>4, <3>1 DEF SectionsOf, Model
    <3>3. ValuedOf(k)' = ValuedOf(k)
      BY <1>2, <1>4, <3>2, ReadGrows
    <3> QED
      BY <3>3 DEF ReadOf
  <2> QED
    BY <1>1, <1>4, <2>1, <2>2, PlacesAgree
<1>5. CASE EntitySection
  <2> DEFINE k == Model
             e == k[1]
             s == Section
             n == pos
             V == ReadOf
             W == ReadOf'
  <2>0. NextHeading /\ HasValue
    BY <1>5 DEF EntitySection
  <2>1. /\ s \in Known /\ k \in Paths /\ k # CoreModel /\ e \in Entities
        /\ \E new : /\ slots' = [slots EXCEPT ![e] = new]
                    /\ Gained(e, k, s, n, slots[e], new, index', last')
    BY <1>2, <1>5, EntityIsGrouped
  <2>2. PICK new : /\ slots' = [slots EXCEPT ![e] = new]
                   /\ Gained(e, k, s, n, slots[e], new, index', last')
    BY <2>1
  <2>3. doc' = doc /\ s = doc[n + 1].section /\ n + 1 \in DOMAIN doc /\ n \in Nat
    BY <1>2, <2>0, HeadingsAdvance
  <2>4. /\ V \in [Paths -> SUBSET (1 .. n)]
        /\ \A q \in Paths : V[q] = ValuedOf(q)
        /\ \A q \in Paths : \A p \in V[q] : doc[p].section \in Known
    BY <1>2, ReadIsBelow
  <2>5. W = [V EXCEPT ![k] = @ \cup {n + 1}]
    <3>1. \A q \in Paths : s \in SectionsOf(q) <=> q = k
      BY <2>1 DEF SectionsOf, Model
    <3>2. \A q \in Paths : ValuedOf(q)' = IF q = k THEN ValuedOf(q) \cup {n + 1} ELSE ValuedOf(q)
      BY <1>2, <2>0, <3>1, ReadGrows
    <3>3. W = [q \in Paths |-> ValuedOf(q)']
      BY DEF ReadOf
    <3>4. V = [q \in Paths |-> ValuedOf(q)]
      BY DEF ReadOf
    <3> HIDE DEF V, W, k, n
    <3> QED
      BY <3>2, <3>3, <3>4
  <2>6. slots \in [Entities -> Seq(Slot)] /\ index \in [Paths -> Nat]
    BY <1>2 DEF TypeInv
  <2>7. \A q \in Paths :
          /\ index'[q] = NextIndex(q, k, index, Again(last, k, s))
          /\ last'[q] = NextLast(q, k, s, last, Again(last, k, s))
    BY <1>2, <1>5, CountersAdvance DEF NextIndex, NextLast, Repeats, Again
  <2>8. \A q \in 1 .. n + 1 : doc[q].section \in Nat \ {0}
    <3>1. doc \in Seq(Block) /\ \A q \in 1 .. n + 1 : q \in DOMAIN doc
      BY <1>2, <2>3 DEF TypeInv
    <3>2. \A q \in 1 .. n + 1 : doc[q] \in Block
      BY <3>1
    <3>3. Numbers \subseteq Nat \ {0}
      BY ConstantsAssumption
    <3> QED
      BY <3>2, <3>3 DEF Block
  <2> HIDE DEF k, e, s, n, V, W
  <2>9. CASE f = e
    <3>1. /\ At(new, k, doc[n + 1].section, n + 1, index'[<<e, "core">>] + 1, index'[k] + 1)
          /\ PlacesKept(slots[e], new)
      BY <2>2, <2>3 DEF Gained
    <3>2. k[1] = e
      BY DEF e
    <3>3. PlacesOK(e, doc, V, slots[e], index, last)
      BY <1>1, <2>9 DEF V
    <3>4. \A m \in Paths : m[1] = e =>
            /\ index'[m] = NextIndex(m, k, index, Again(last, k, doc[n + 1].section))
            /\ last'[m] = NextLast(m, k, doc[n + 1].section, last, Again(last, k, doc[n + 1].section))
      BY <2>3, <2>7
    <3>5. PlacesOK(e, doc, W, new, index', last')
      <4>1. e \in Entities /\ k \in Paths /\ n \in Nat
        BY <2>1, <2>3
      <4>2. V \in [Paths -> SUBSET (1 .. n)] /\ index \in [Paths -> Nat]
        BY <2>4, <2>6
      <4>3. \A m \in Paths : \A p \in V[m] : doc[p].section \in Known
        BY <2>4
      <4> QED
        <5>1. ValueComes(e, k, n, doc, V, W)
          BY <2>5, <2>8, <3>2, <4>1, <4>2, <4>3, Zenon DEF ValueComes
        <5>2. CountersFollow(e, k, doc[n + 1].section, index, last, index', last')
          BY <3>4, <4>2, Zenon DEF CountersFollow
        <5> QED
          BY <5>1, <5>2, <3>1, <3>3, PlacesAdvance
    <3> QED
      BY <2>1, <2>2, <2>3, <2>6, <2>9, <3>5 DEF W
  <2>10. CASE f # e
    <3>1. ASSUME NEW q \in Paths, q[1] = f
          PROVE  W[q] = V[q] /\ index'[q] = index[q] /\ last'[q] = last[q]
      <4>1. q # k /\ q \notin Descendants(k)
        BY <2>10, <3>1 DEF Descendants, e
      <4> QED
        BY <2>4, <2>5, <2>7, <4>1 DEF NextIndex, NextLast
    <3>2. PlacesOK(f, doc, V, slots[f], index, last)
      BY <1>1 DEF V
    <3>3. PlacesOK(f, doc, W, slots[f], index', last')
      BY <3>1, <3>2, PlacesAgree
    <3> QED
      BY <2>1, <2>2, <2>3, <2>6, <2>10, <3>3 DEF W
  <2> QED
    BY <2>9, <2>10
<1> QED
  BY <1>3, <1>4, <1>5 DEF Next, vars, extracted, SkipEmpty, UnknownSection, CoreSection, CoreModel,
     BuildSectionTables, ApplyColumnParsers, ApplyPydanticValidation

\* In any body, ascending or not: a value is in the slot, and at the place of its
\* child, that the breaks before it say (raw_section_extractor.py:251-279).
THEOREM ValuesAreInPlace == Spec => []PlacesInv
<1>1. Init => PlacesInv
  BY PlacesBegin
<1>2. IInv /\ PlacesInv /\ [Next]_vars => PlacesInv'
  BY PlacesAreKept
<1> QED
  BY <1>1, <1>2, InvariantHolds, PTL DEF Spec

(***************************************************************************)
(* Bodies whose parts begin with their first section.                      *)
(***************************************************************************)
\* The largest of V below q.
LEMMA PreviousExists ==
  ASSUME NEW V \in SUBSET Nat, NEW q \in Nat, NEW x \in V, x < q
  PROVE  \E r \in V : Precedes(V, r, q) /\ x <= r
<1> DEFINE T == {y \in V : y < q}
           S == {q - y : y \in T}
<1>1. \A y \in T : y \in Nat /\ q - y \in Nat
  OBVIOUS
<1>2. x \in T /\ \A y \in T : y \in V /\ y < q
  OBVIOUS
<1>3. \A y \in V : y < q => y \in T
  OBVIOUS
<1> HIDE DEF T
<1>4. S \in SUBSET Nat /\ S # {}
  BY <1>1, <1>2
<1>5. First(S) \in S /\ \A j \in S : First(S) <= j
  BY <1>4, FirstIsLeast
<1>6. PICK r \in T : First(S) = q - r
  BY <1>5
<1>7. \A y \in T : y <= r
  <2> SUFFICES ASSUME NEW y \in T PROVE y <= r
    OBVIOUS
  <2>1. q - r <= q - y
    BY <1>5, <1>6
  <2> QED
    BY <2>1, <1>1
<1>8. ASSUME NEW y \in V PROVE ~(r < y /\ y < q)
  BY <1>1, <1>3, <1>7
<1>9. Precedes(V, r, q)
  BY <1>2, <1>8 DEF Precedes
<1> QED
  BY <1>2, <1>7, <1>9

LEMMA LargestIsBelow ==
  ASSUME NEW S \in SUBSET Nat, NEW p \in Nat, \E b \in S : b <= p
  PROVE  LET b == LargestBelow(S, p) IN
         b \in S /\ b <= p /\ \A c \in S : c <= p => c <= b
<1>1. PICK x \in S : x <= p
  OBVIOUS
<1>2. x < p + 1 /\ p + 1 \in Nat
  BY <1>1
<1>3. PICK r \in S : Precedes(S, r, p + 1) /\ x <= r
  BY <1>2, PreviousExists
<1>4. r <= p /\ \A c \in S : c <= p => c <= r
  BY <1>3 DEF Precedes
<1> QED
  BY <1>4 DEF LargestBelow

\* All but the first.
NotFirst(X) == {q \in X : \E b \in X : b < q}

LEMMA FirstIsOneMore ==
  ASSUME NEW n \in Nat, NEW X \in SUBSET (1 .. n), X # {}
  PROVE  Cardinality(X) = Cardinality(NotFirst(X)) + 1
<1> DEFINE f == First(X)
<1>1. X \in SUBSET Nat
  OBVIOUS
<1>2. f \in X /\ \A j \in X : f <= j
  BY <1>1, FirstIsLeast
<1> HIDE DEF f
<1>3. NotFirst(X) = X \ {f}
  <2>1. ASSUME NEW q \in X PROVE (\E b \in X : b < q) <=> q # f
    <3>1. f <= q /\ f \in Nat /\ q \in Nat
      BY <1>1, <1>2
    <3>2. q # f => f < q
      BY <3>1
    <3>3. q = f => \A b \in X : ~(b < q)
      BY <1>1, <1>2
    <3> QED
      BY <1>2, <3>2, <3>3
  <2> QED
    BY <2>1 DEF NotFirst
<1>4. IsFiniteSet(X)
  <2>1. IsFiniteSet(1 .. n)
    BY FS_Interval
  <2> QED
    BY <2>1, FS_Subset
<1>5. Cardinality(X) \in Nat
  BY <1>4, FS_CardinalityType
<1>6. Cardinality(X \ {f}) = Cardinality(X) - 1
  BY <1>2, <1>4, FS_RemoveElement
<1> QED
  BY <1>3, <1>5, <1>6

\* The blocks S of V have the first section.
AreStarts(S, V, f) ==
  S = {p \in V : doc[p].section = f} /\ \A p \in V : f \in Nat /\ doc[p].section \in Nat /\ f <= doc[p].section

\* Then the breaks are the starts but the first, and with FirstIsOneMore a break
\* less is a unit more.
LEMMA PartsAreUnits ==
  ASSUME NEW n \in Nat, NEW V \in SUBSET (1 .. n), NEW S, NEW f, AreStarts(S, V, f), Ascends(V, S)
  PROVE  BreaksOf(doc, V, {}) = NotFirst(S)
<1>1. \A x \in V : x \in Nat
  OBVIOUS
<1>2. \A x \in S : x \in V /\ x \in Nat /\ doc[x].section = f
  BY <1>1 DEF AreStarts
<1>3. ASSUME NEW q \in V, Breaks(doc, V, {}, q)
      PROVE  q \in S /\ \E b \in S : b < q
  <2>1. PICK r \in V : Precedes(V, r, q) /\ doc[q].section <= doc[r].section
    BY <1>3 DEF Breaks
  <2>2. r < q /\ ~(doc[r].section < doc[q].section)
    BY <2>1 DEF Precedes, AreStarts
  <2>3. PICK b \in S : r < b /\ b <= q
    BY <2>2 DEF Ascends
  <2>4. b = q
    BY <2>1, <2>3, <1>1, <1>2 DEF Precedes
  <2>5. PICK c \in S : c <= r
    BY DEF Ascends
  <2> QED
    BY <2>2, <2>3, <2>4, <2>5, <1>1, <1>2
<1>4. ASSUME NEW q \in S, NEW b \in S, b < q
      PROVE  q \in V /\ Breaks(doc, V, {}, q)
  <2>1. V \in SUBSET Nat
    BY <1>1
  <2>2. PICK r \in V : Precedes(V, r, q) /\ b <= r
    BY <1>2, <1>4, <2>1, PreviousExists
  <2>3. doc[q].section <= doc[r].section
    BY <1>2 DEF AreStarts
  <2> QED
    BY <1>2, <2>2, <2>3 DEF Breaks
<1> QED
  BY <1>3, <1>4 DEF BreaksOf, NotFirst

\* Of the starts of a child, those of its part up to p but the first.
NotFirstFrom(S, F, p) == {q \in S : F <= q /\ q <= p /\ \E b \in S : F <= b /\ b < q}
IsLargest(P, F, p) == F \in P /\ F <= p /\ \A c \in P : c <= p => c <= F
\* Each value of a child comes after a start in its part.
IsWithin(V, S, P) ==
  \A p \in V : \E b \in S, c \in P : c <= b /\ b <= p /\ \A d \in P : ~(b < d /\ d <= p)

IsInPart(n, V, S, f, P, F, p) ==
  /\ n \in Nat /\ V \in SUBSET (1 .. n) /\ P \in SUBSET (1 .. n)
  /\ AreStarts(S, V, f) /\ Ascends(V, S \cup P) /\ IsWithin(V, S, P)
  /\ p \in V /\ IsLargest(P, F, p)

\* The same of a child, from the start F of its part on.
LEMMA ChildrenAreUnits ==
  ASSUME NEW n, NEW V, NEW S, NEW f, NEW P, NEW F, NEW p, IsInPart(n, V, S, f, P, F, p)
  PROVE  UpTo(BreaksOf(doc, V, NotFirst(P)), NotFirst(P), p) = NotFirstFrom(S, F, p)
<1> DEFINE R == NotFirst(P)
<1> USE DEF IsInPart
<1>0. F \in P /\ F <= p /\ \A c \in P : c <= p => c <= F
  BY DEF IsLargest
<1>1. (\A x \in V : x \in Nat) /\ (\A x \in P : x \in Nat)
  OBVIOUS
<1>2. \A x \in S : x \in V /\ x \in Nat /\ doc[x].section = f
  BY <1>1 DEF AreStarts
<1>3. R \subseteq P /\ \A d \in P : d \in R \/ \A b \in P : d <= b
  BY <1>1 DEF NotFirst
<1> HIDE DEF R
<1>4. ASSUME NEW q \in V, Breaks(doc, V, R, q), q <= p, \A d \in R : d <= p => d <= q
      PROVE  q \in S /\ F <= q /\ \E b \in S : F <= b /\ b < q
  <2>1. F <= q
    <3>1. PICK b \in S, c \in P : c <= b /\ b <= q
      BY DEF IsWithin
    <3> QED
      BY <1>0, <1>1, <1>2, <1>3, <1>4, <3>1
  <2>2. PICK r \in V : Precedes(V, r, q) /\ doc[q].section <= doc[r].section
                       /\ \A d \in R : ~(r < d /\ d <= q)
    BY <1>4 DEF Breaks
  <2>3. PICK b \in S, c \in P : c <= b /\ b <= r /\ \A d \in P : ~(b < d /\ d <= r)
    BY DEF IsWithin
  <2>4. \A d \in P : ~(r < d /\ d <= q)
    BY <1>1, <1>2, <1>3, <2>2, <2>3
  <2>5. r < q /\ ~(doc[r].section < doc[q].section)
    <3>1. doc[r].section \in Nat /\ doc[q].section \in Nat
      BY DEF AreStarts
    <3> QED
      BY <2>2, <3>1 DEF Precedes
  <2>6. PICK x \in S \cup P : r < x /\ x <= q
    BY <2>5 DEF Ascends
  <2>7. x \in S
    BY <2>4, <2>6
  <2>8. x = q
    BY <2>2, <2>6, <2>7, <1>1, <1>2 DEF Precedes
  <2>9. F <= r
    BY <1>0, <1>1, <2>1, <2>4
  <2>10. F <= b
    BY <1>0, <1>1, <1>2, <2>3, <2>9
  <2>11. b < q
    BY <1>1, <1>2, <2>3, <2>5
  <2> QED
    BY <2>1, <2>7, <2>8, <2>10, <2>11
<1>5. ASSUME NEW q \in S, F <= q, q <= p, NEW b \in S, F <= b, b < q
      PROVE  q \in V /\ Breaks(doc, V, R, q) /\ \A d \in R : d <= p => d <= q
  <2>1. V \in SUBSET Nat
    BY <1>1
  <2>2. PICK r \in V : Precedes(V, r, q) /\ b <= r
    BY <1>2, <1>5, <2>1, PreviousExists
  <2>3. doc[q].section <= doc[r].section
    BY <1>2 DEF AreStarts
  <2>4. \A d \in R : d <= p => d <= F
    BY <1>0, <1>3
  <2>5. \A d \in R : d <= p => d <= q
    BY <1>0, <1>1, <1>2, <1>3, <1>5, <2>4
  <2>6. \A d \in R : ~(r < d /\ d <= q)
    BY <1>0, <1>1, <1>2, <1>3, <1>5, <2>2, <2>4
  <2> QED
    BY <1>2, <2>2, <2>3, <2>5, <2>6 DEF Breaks
<1> QED
  BY <1>2, <1>4, <1>5 DEF BreaksOf, UpTo, NotFirstFrom, R

LEMMA StartsAreFirst ==
  ASSUME TypeInv, NEW m \in Models
  PROVE  AreStarts(Starts(m), ValuedOf(m), FirstSection(m))
<1>1. SectionsOf(m) \in SUBSET Nat /\ SectionsOf(m) # {}
  BY ModelsAreRight DEF SectionsOf, Models
<1>2. FirstSection(m) = First(SectionsOf(m))
  BY DEF FirstSection, First
<1>3. FirstSection(m) \in Nat /\ \A t \in SectionsOf(m) : t \in Nat /\ FirstSection(m) <= t
  BY <1>1, <1>2, FirstIsLeast
<1>4. \A p \in ValuedOf(m) : doc[p].section \in SectionsOf(m)
  BY DEF ValuedOf
<1> QED
  BY <1>3, <1>4 DEF AreStarts, Starts

\* The conditions of PartsAreOccurrences, and what it says the number of
\* occurrences is.
PartsAscend(e) ==
  <<e, "core">> \in Models /\ Ascends(ValuedOf(<<e, "core">>), Starts(<<e, "core">>))

ChildAscends(e, k) ==
  /\ k \in Models /\ k[1] = e /\ k # <<e, "core">>
  /\ IsWithin(ValuedOf(k), Starts(k), Starts(<<e, "core">>))
  /\ Ascends(ValuedOf(k), Starts(k) \cup Starts(<<e, "core">>))

NothingOf(e) == \A k \in Paths : k[1] = e => ValuedOf(k) = {}
OccurrencesOf(e) ==
  LET parts == Starts(<<e, "core">>) IN
  IF NothingOf(e) THEN 0 ELSE IF parts = {} THEN 1 ELSE Cardinality(parts)

\* The starts of a child from the start of its part on.
OwnOf(e, k, p) == {b \in Starts(k) : b >= LargestBelow(Starts(<<e, "core">>), p)}

LEMMA OccurrencesAreCounted ==
  ASSUME IInv, PlacesInv, NEW e \in Entities, PartsAscend(e)
  PROVE  Len(slots[e]) = OccurrencesOf(e)
<1> DEFINE c == <<e, "core">>
           parts == Starts(c)
<1>0. c \in Models /\ Ascends(ValuedOf(c), parts)
  BY DEF PartsAscend
<1>1. TypeInv /\ PlacesOK(e, doc, ReadOf, slots[e], index, last) /\ Current(e, slots[e], index, last)
  BY DEF IInv, PlacesInv, GroupInv
<1>2. pos \in Nat /\ \A k \in Paths : ReadOf[k] = ValuedOf(k) /\ ValuedOf(k) \in SUBSET (1 .. pos)
  BY <1>1, ReadIsBelow
<1>3. c \in Paths /\ c[1] = e /\ IsEntity(c)
  BY PathsOfEntities
<1>4. slots[e] \in Seq(Slot)
  BY <1>1 DEF TypeInv
<1>5. CASE NothingOf(e)
  <2>1. slots[e] = << >>
    BY <1>1, <1>2, <1>5 DEF PlacesOK, NothingOf
  <2> QED
    BY <1>5, <2>1 DEF OccurrencesOf
<1>6. CASE ~NothingOf(e)
  <2>1. PICK k \in Paths : k[1] = e /\ ValuedOf(k) # {}
    BY <1>6 DEF NothingOf
  <2>2. PICK p \in ValuedOf(k) : TRUE
    BY <2>1
  <2>3. \E x : x \in DOMAIN slots[e]
    BY <1>1, <1>2, <2>1, <2>2 DEF PlacesOK, At
  <2>4. slots[e] # << >>
    BY <2>3
  <2>5. Len(slots[e]) = index[c] + 1
    BY <1>1, <2>4 DEF Current
  <2> DEFINE B == BreaksOf(doc, ValuedOf(c), {})
  <2>6. index[c] = Cardinality(B)
    <3>1. Counts(doc, ValuedOf(c), {}, index[c], last[c])
      BY <1>1, <1>2, <1>3 DEF PlacesOK, Resets
    <3>2. Since(B, {}) = B
      BY DEF Since
    <3> QED
      BY <3>1, <3>2 DEF Counts
  <2>7. B = NotFirst(parts)
    <3>1. AreStarts(parts, ValuedOf(c), FirstSection(c))
      BY <1>0, <1>1, StartsAreFirst
    <3> QED
      BY <1>0, <1>2, <1>3, <3>1, PartsAreUnits
  <2>8. OccurrencesOf(e) = IF parts = {} THEN 1 ELSE Cardinality(parts)
    BY <1>6, Zenon DEF OccurrencesOf
  <2>9. parts \in SUBSET (1 .. pos)
    BY <1>2, <1>3 DEF Starts
  <2> HIDE DEF parts, B
  <2>10. CASE parts = {}
    <3>1. B = {}
      BY <2>7, <2>10 DEF NotFirst
    <3>2. Cardinality(B) = 0
      BY <3>1, FS_EmptySet
    <3> QED
      BY <2>5, <2>6, <2>8, <2>10, <3>2
  <2>11. CASE parts # {}
    <3>1. Cardinality(parts) = Cardinality(NotFirst(parts)) + 1
      BY <1>2, <2>9, <2>11, FirstIsOneMore
    <3>2. Cardinality(parts) = Cardinality(B) + 1
      BY <2>7, <3>1
    <3> QED
      BY <2>5, <2>6, <2>8, <2>11, <3>2
  <2> QED
    BY <2>10, <2>11
<1> QED
  BY <1>5, <1>6

\* The slot of a value that has a start of a part before it.
LEMMA PartIsSlot ==
  ASSUME IInv, PlacesInv, NEW e \in Entities, PartsAscend(e),
         NEW p \in Nat, \E b \in Starts(<<e, "core">>) : b <= p
  PROVE  SlotOf(e, doc, ReadOf, p) = UnitOf(Starts(<<e, "core">>), p)
<1> DEFINE c == <<e, "core">>
           parts == Starts(c)
           X == {b \in parts : b <= p}
<1>0. c \in Models /\ Ascends(ValuedOf(c), parts)
  BY DEF PartsAscend
<1>1. TypeInv
  BY DEF IInv
<1>2. pos \in Nat /\ \A k \in Paths : ReadOf[k] = ValuedOf(k) /\ ValuedOf(k) \in SUBSET (1 .. pos)
  BY <1>1, ReadIsBelow
<1>3. c \in Paths
  BY PathsOfEntities
<1>4. NewUnits(e, doc, ReadOf) = NotFirst(parts)
  <2>1. AreStarts(parts, ValuedOf(c), FirstSection(c))
    BY <1>0, <1>1, StartsAreFirst
  <2>2. BreaksOf(doc, ValuedOf(c), {}) = NotFirst(parts)
    <3> DEFINE V == ValuedOf(c)
               f == FirstSection(c)
    <3>1. pos \in Nat /\ V \in SUBSET (1 .. pos) /\ AreStarts(parts, V, f) /\ Ascends(V, parts)
      BY <1>0, <1>2, <1>3, <2>1
    <3> HIDE DEF V, parts, f
    <3>2. BreaksOf(doc, V, {}) = NotFirst(parts)
      BY <3>1, PartsAreUnits
    <3> QED
      BY <3>2 DEF V
  <2> QED
    BY <1>2, <1>3, <2>2 DEF NewUnits
<1>5. parts \in SUBSET (1 .. pos) /\ \A b \in parts : b \in Nat
  <2>1. parts \in SUBSET (1 .. pos)
    BY <1>2, <1>3 DEF Starts
  <2> HIDE DEF parts
  <2> QED
    BY <1>2, <2>1
<1> HIDE DEF parts
<1>6. UpTo(NewUnits(e, doc, ReadOf), {}, p) = NotFirst(X)
  <2>1. \A q : q \in X <=> q \in parts /\ q <= p
    OBVIOUS
  <2> HIDE DEF X
  <2>2. UpTo(NewUnits(e, doc, ReadOf), {}, p) = {q \in parts : q <= p /\ \E b \in parts : b < q}
    BY <1>4 DEF UpTo, NotFirst
  <2>3. ASSUME NEW q \in parts, q <= p, NEW b \in parts, b < q PROVE b <= p
    BY <1>5, <2>3
  <2>4. \A q \in parts : q <= p => ((\E b \in parts : b < q) <=> \E b \in X : b < q)
    BY <2>1, <2>3
  <2> QED
    BY <2>1, <2>2, <2>4 DEF NotFirst
<1>7. X \in SUBSET (1 .. pos) /\ X # {}
  BY <1>5 DEF parts
<1> HIDE DEF X
<1>8. Cardinality(X) = Cardinality(NotFirst(X)) + 1
  BY <1>2, <1>7, FirstIsOneMore
<1> QED
  BY <1>6, <1>8 DEF SlotOf, UnitOf, X, parts

\* The place of a value in the list of its child.
LEMMA ChildIsKid ==
  ASSUME IInv, PlacesInv, NEW e \in Entities, PartsAscend(e),
         NEW k, ChildAscends(e, k), NEW p \in ValuedOf(k)
  PROVE  /\ \E b \in Starts(<<e, "core">>) : b <= p
         /\ KidOf(k, doc, ReadOf, p) = UnitOf(OwnOf(e, k, p), p)
<1> DEFINE c == <<e, "core">>
           parts == Starts(c)
           S == Starts(k)
           V == ValuedOf(k)
           F == LargestBelow(parts, p)
           own == {b \in S : b >= F}
           X == {b \in own : b <= p}
           R == Resets(k, doc, ReadOf)
<1>0. /\ c \in Models /\ Ascends(ValuedOf(c), parts)
      /\ k \in Models /\ k[1] = e /\ k # c
  BY DEF PartsAscend, ChildAscends
<1>1. TypeInv
  BY DEF IInv
<1>2. pos \in Nat /\ \A q \in Paths : ReadOf[q] = ValuedOf(q) /\ ValuedOf(q) \in SUBSET (1 .. pos)
  BY <1>1, ReadIsBelow
<1>3. c \in Paths /\ k \in Paths /\ ~IsEntity(k)
  <2>1. c \in Paths /\ k \in Paths
    BY <1>0, PathsAreRight
  <2> QED
    BY <1>0, <2>1, PathsAreRight DEF IsEntity, EntityOf
<1>4. R = NotFirst(parts)
  <2>1. AreStarts(parts, ValuedOf(c), FirstSection(c))
    BY <1>0, <1>1, StartsAreFirst
  <2>2. BreaksOf(doc, ValuedOf(c), {}) = NotFirst(parts)
    BY <1>0, <1>2, <1>3, <2>1, PartsAreUnits
  <2> QED
    BY <1>0, <1>2, <1>3, <2>2 DEF Resets, NewUnits
<1>5. AreStarts(S, V, FirstSection(k))
  BY <1>0, <1>1, StartsAreFirst
<1>6. V \in SUBSET (1 .. pos) /\ parts \in SUBSET (1 .. pos) /\ S \in SUBSET (1 .. pos)
  BY <1>2, <1>3 DEF Starts
<1>7. IsWithin(V, S, parts) /\ Ascends(V, S \cup parts) /\ p \in V
  BY DEF ChildAscends
<1>8. BreaksAt(k, doc, ReadOf) = BreaksOf(doc, V, R)
  BY <1>2, <1>3 DEF BreaksAt
<1> DEFINE f == FirstSection(k)
           n == pos
<1> HIDE DEF parts, S, V, R, f, n
<1>9. (\A x \in V : x \in Nat) /\ (\A x \in parts : x \in Nat) /\ \A x \in S : x \in Nat
  BY <1>2, <1>6
<1>10. PICK b \in S, d \in parts : d <= b /\ b <= p /\ \A x \in parts : ~(b < x /\ x <= p)
  BY <1>7 DEF IsWithin
<1>11. \E x \in parts : x <= p
  BY <1>7, <1>9, <1>10
<1>12. F \in parts /\ F <= p /\ \A x \in parts : x <= p => x <= F
  <2>1. parts \in SUBSET Nat /\ p \in Nat
    BY <1>7, <1>9
  <2> QED
    BY <1>11, <2>1, LargestIsBelow
<1> HIDE DEF F
<1>13. F <= b
  BY <1>9, <1>10, <1>12
<1>14. UpTo(BreaksOf(doc, V, R), R, p) = NotFirstFrom(S, F, p)
  <2>1. n \in Nat /\ V \in SUBSET (1 .. n) /\ parts \in SUBSET (1 .. n) /\ AreStarts(S, V, f)
    BY <1>2, <1>5, <1>6 DEF n, f
  <2>2. IsLargest(parts, F, p)
    BY <1>12 DEF IsLargest
  <2>3. Ascends(V, S \cup parts) /\ IsWithin(V, S, parts) /\ p \in V
    BY <1>7
  <2>4. R = NotFirst(parts)
    BY <1>4
  <2>5. IsInPart(n, V, S, f, parts, F, p)
    BY <2>1, <2>2, <2>3 DEF IsInPart
  <2>6. UpTo(BreaksOf(doc, V, NotFirst(parts)), NotFirst(parts), p) = NotFirstFrom(S, F, p)
    BY <2>5, ChildrenAreUnits
  <2> QED
    BY <2>4, <2>6, Zenon
<1>15. NotFirstFrom(S, F, p) = NotFirst(X)
  <2>1. p \in Nat /\ F \in Nat
    BY <1>7, <1>9, <1>12
  <2>2. \A x \in S : x \in X <=> F <= x /\ x <= p
    BY <1>9, <2>1
  <2>3. \A x \in X : x \in S
    OBVIOUS
  <2> HIDE DEF X
  <2>4. ASSUME NEW q \in S, F <= q, q <= p, NEW x \in S, F <= x, x < q PROVE q \in X /\ x \in X
    BY <1>9, <2>1, <2>2, <2>4
  <2> QED
    BY <2>2, <2>3, <2>4 DEF NotFirst, NotFirstFrom
<1>16. X \in SUBSET (1 .. pos) /\ X # {}
  <2>1. b \in X
    BY <1>9, <1>10, <1>12, <1>13
  <2> QED
    BY <1>6, <2>1
<1> HIDE DEF X
<1>17. Cardinality(X) = Cardinality(NotFirst(X)) + 1
  BY <1>2, <1>16, FirstIsOneMore
<1>18. KidOf(k, doc, ReadOf, p) = UnitOf(own, p)
  BY <1>8, <1>14, <1>15, <1>17 DEF KidOf, UnitOf, X, R
<1> QED
  BY <1>11, <1>18 DEF parts, S, F, OwnOf

\* PartsAreOccurrences, of one entity and at any stage.
PartsOf(e) ==
  LET of     == [k \in {m \in Models : m[1] = e} \cup {<<e, "core">>} |-> ValuedOf(k)]
      values == of[<<e, "core">>]
      parts  == Starts(<<e, "core">>)
      From(p) == LargestBelow(parts, p)
  IN
  <<e, "core">> \in Models /\ Ascends(values, parts) =>
    /\ Len(slots[e]) = (IF \A k \in DOMAIN of : of[k] = {} THEN 0
                        ELSE IF parts = {} THEN 1 ELSE Cardinality(parts))
    /\ \A p \in values : slots[e][UnitOf(parts, p)].core[doc[p].section] = p
    /\ \A k \in DOMAIN of \ {<<e, "core">>} :
         IsWithin(of[k], Starts(k), parts) /\ Ascends(of[k], Starts(k) \cup parts) =>
           \A p \in of[k] :
             LET own == {b \in Starts(k) : b >= From(p)} IN
             slots[e][UnitOf(parts, p)].kids[k][UnitOf(own, p)][doc[p].section] = p

\* What the grouping is for (raw_section_extractor.py:251-279): where every part of
\* a body begins with the first section of the entity, and every child of a part
\* with that of the child, part n of the body is occurrence n, and its child m is
\* child m of that occurrence, in bodies of any length.
THEOREM PartsAreKept == Spec => []PartsAreOccurrences
<1>1. ASSUME IInv, PlacesInv, NEW e \in Entities PROVE PartsOf(e)
  <2> DEFINE c == <<e, "core">>
             of == [k \in {m \in Models : m[1] = e} \cup {c} |-> ValuedOf(k)]
             parts == Starts(c)
             own(k, p) == {b \in Starts(k) : b >= LargestBelow(parts, p)}
             i(p) == UnitOf(parts, p)
             j(k, p) == UnitOf(own(k, p), p)
  <2> SUFFICES ASSUME c \in Models, Ascends(ValuedOf(c), parts)
               PROVE  /\ Len(slots[e]) = (IF \A k \in DOMAIN of : of[k] = {} THEN 0
                                          ELSE IF parts = {} THEN 1 ELSE Cardinality(parts))
                      /\ \A p \in of[c] : slots[e][i(p)].core[doc[p].section] = p
                      /\ \A k \in DOMAIN of \ {c} :
                           IsWithin(of[k], Starts(k), parts) /\ Ascends(of[k], Starts(k) \cup parts) =>
                             \A p \in of[k] : slots[e][i(p)].kids[k][j(k, p)][doc[p].section] = p
    BY DEF PartsOf
  <2>1. /\ c \in Paths /\ c[1] = e /\ IsEntity(c) /\ c \in DOMAIN of
        /\ \A k \in DOMAIN of : k \in Paths /\ k[1] = e /\ of[k] = ValuedOf(k)
        /\ \A k \in Paths : k[1] = e => k \in DOMAIN of
        /\ \A k \in DOMAIN of \ {c} : k \in Models /\ k # c /\ ~IsEntity(k)
    <3>1. c \in Paths /\ c[1] = e /\ IsEntity(c)
      BY PathsOfEntities
    <3>2. \A k \in Paths : k[1] = e /\ IsEntity(k) => k = c
      BY PathsAreRight DEF IsEntity, EntityOf
    <3>3. \A k \in Paths : k[1] = e => k \in Models \/ k = c
      BY DEF Paths
    <3> QED
      BY <3>1, <3>2, <3>3, PathsAreRight
  <2>2. PlacesOK(e, doc, ReadOf, slots[e], index, last) /\ TypeInv
    BY <1>1 DEF PlacesInv, IInv
  <2>3. pos \in Nat /\ \A k \in Paths : ReadOf[k] = ValuedOf(k) /\ ValuedOf(k) \in SUBSET (1 .. pos)
    BY <2>2, ReadIsBelow
  <2>4. ASSUME NEW k \in Paths, k[1] = e, NEW p \in ValuedOf(k)
        PROVE  At(slots[e], k, doc[p].section, p, SlotOf(e, doc, ReadOf, p), KidOf(k, doc, ReadOf, p))
               /\ p \in Nat
    BY <2>2, <2>3, <2>4 DEF PlacesOK
  <2>5. PartsAscend(e)
    BY DEF PartsAscend
  <2>6. ASSUME NEW p \in Nat, \E b \in parts : b <= p
        PROVE  SlotOf(e, doc, ReadOf, p) = i(p)
    BY <1>1, <2>5, <2>6, PartIsSlot
  <2> HIDE DEF c, of
  <2>7. Len(slots[e]) = IF \A k \in DOMAIN of : of[k] = {} THEN 0
                        ELSE IF parts = {} THEN 1 ELSE Cardinality(parts)
    <3>1. (\A k \in DOMAIN of : of[k] = {}) <=> NothingOf(e)
      BY <2>1 DEF NothingOf
    <3>2. Len(slots[e]) = OccurrencesOf(e)
      BY <1>1, <2>5, OccurrencesAreCounted
    <3> QED
      BY <3>1, <3>2, Zenon DEF c, OccurrencesOf
  <2>8. ASSUME NEW p \in of[c] PROVE slots[e][i(p)].core[doc[p].section] = p
    <3>1. p \in ValuedOf(c) /\ p \in Nat
      <4>1. p \in ValuedOf(c)
        BY <2>1, <2>8
      <4> QED
        BY <2>1, <2>4, <4>1
    <3>2. \E b \in parts : b <= p
      BY <3>1 DEF Ascends
    <3>3. SlotOf(e, doc, ReadOf, p) = i(p)
      BY <2>6, <3>1, <3>2
    <3> QED
      BY <2>1, <2>4, <3>1, <3>3 DEF At
  <2>9. ASSUME NEW k \in DOMAIN of \ {c}, IsWithin(of[k], Starts(k), parts),
               Ascends(of[k], Starts(k) \cup parts), NEW p \in of[k]
        PROVE  slots[e][i(p)].kids[k][j(k, p)][doc[p].section] = p
    <3>1. k \in Models /\ k \in Paths /\ k[1] = e /\ k # c /\ ~IsEntity(k) /\ of[k] = ValuedOf(k)
      BY <2>1
    <3>2. ChildAscends(e, k) /\ p \in ValuedOf(k)
      BY <2>9, <3>1 DEF ChildAscends, c
    <3>3. (\E b \in parts : b <= p) /\ KidOf(k, doc, ReadOf, p) = UnitOf(OwnOf(e, k, p), p)
      BY <1>1, <2>5, <3>2, ChildIsKid DEF c
    <3>4. j(k, p) = UnitOf(OwnOf(e, k, p), p)
      BY Zenon DEF OwnOf, c
    <3>5. At(slots[e], k, doc[p].section, p, SlotOf(e, doc, ReadOf, p), KidOf(k, doc, ReadOf, p)) /\ p \in Nat
      BY <2>4, <3>1, <3>2
    <3>6. SlotOf(e, doc, ReadOf, p) = i(p)
      BY <2>6, <3>3, <3>5
    <3> QED
      BY <3>1, <3>3, <3>4, <3>5, <3>6 DEF At
  <2> QED
    BY <2>7, <2>8, <2>9
<1>2. IInv /\ PlacesInv => PartsAreOccurrences
  BY <1>1, Zenon DEF PartsAreOccurrences, PartsOf, IsWithin
<1> QED
  BY <1>2, InvariantHolds, ValuesAreInPlace, PTL
=============================================================================
