-------------------------- MODULE PersistenceProofs --------------------------
(***************************************************************************)
(* Proofs about Persistence for any keys, values, deadlines and number of  *)
(* saves: the types, that saves take turns unless one is late, and that    *)
(* what is loaded comes from one save.                                     *)
(***************************************************************************)
EXTENDS Persistence, SequenceTheorems, FiniteSetTheorems,
        WellFoundedInduction, TLAPS

\* The parts of TypeOK a save, the loop and the file touch; the file is said
\* to be a sequence here.
DataOK ==
    /\ strings \in [Keys -> Items]
    /\ now \in 0..MaxTime
    /\ writes \in 0..MaxWrites /\ timeouts \in 0..MaxTimeouts /\ crashes \in 0..MaxCrashes
LoopOK ==
    /\ program \in {"up", "stopping", "down"}
    /\ loop \in {"off", "turn", "wait"}
    /\ awaited \in Saves \cup {NoSave}
    /\ awaited # NoSave <=> loop = "wait"
SavesOK ==
    /\ stage \in [Saves -> {"idle", "copy", "open", "write"}]
    /\ snap \in [Saves -> [Keys -> Items]]
    /\ todo \in [Saves -> SUBSET Keys]
    /\ line \in [Saves -> Nat \ {0}]
    /\ late \in SUBSET Busy
DiskOK ==
    /\ file \in Seq(Lines)
    /\ source \in [Keys -> Items]
    /\ mixed \in BOOLEAN

\* A save that is in time is the one the loop waits for.
InTurn == Busy \ late \subseteq {awaited}

Inv == DataOK /\ LoopOK /\ SavesOK /\ DiskOK /\ InTurn

-----------------------------------------------------------------------------
\* Items there are.
LEMMA ItemType ==
    /\ Absent \in Items
    /\ Nothing \in [Keys -> Items]
    /\ \A v \in Texts : Item(v) \in Items
BY DEF Absent, Items, Item, Nothing

\* An item that is there has a text.
LEMMA ItemValue ==
    ASSUME NEW i \in Items, i.in
    PROVE  i.value \in Texts
<1>1. i # Absent
  BY DEF Absent
<1> QED
  BY <1>1 DEF Items

\* The lines a save writes.
LEMMA LineType ==
    /\ StringsLine \in Lines /\ RestLine \in Lines /\ Hole \in Lines
    /\ \A k \in Keys, v \in Texts : ItemLine(k, v) \in Lines
BY DEF Lines

\* A line with the kind of an item is one.
LEMMA ItemLines ==
    ASSUME NEW l \in Lines, l.kind = "item"
    PROVE  \E k \in Keys, v \in Texts : l = ItemLine(k, v)
BY DEF Lines, StringsLine, RestLine, Hole, ItemLine

\* A set of line numbers that is not empty has a last one: of the sets of the
\* numbers from a member on, one is smallest.
LEMMA LastOne ==
    ASSUME NEW n \in Nat, NEW S \in SUBSET (1..n), S # {}
    PROVE  \E i \in S : \A j \in S : j <= i
<1> DEFINE From(i) == {j \in S : j >= i}
           T == {From(i) : i \in S}
           Smaller == StrictSubsetOrdering(S)
<1>1. IsFiniteSet(S)
  <2>1. IsFiniteSet(1..n)
    BY FS_Interval
  <2> QED
    BY <2>1, FS_Subset
<1>2. IsWellFoundedOn(Smaller, SUBSET S)
  BY <1>1, FS_FiniteSubsetsOfFinite, FS_StrictSubsetOrderingWellFounded
<1>3. T \subseteq SUBSET S /\ T # {}
  OBVIOUS
<1>4. \E x \in T : \A y \in T : <<y, x>> \notin Smaller
  <2> HIDE DEF T, Smaller
  <2> QED
    BY <1>2, <1>3, WFMin
<1>5. PICK i \in S : \A j \in S : <<From(j), From(i)>> \notin Smaller
  BY <1>4
<1>6. ASSUME NEW j \in S, j > i PROVE FALSE
  <2>1. From(j) \subseteq From(i) /\ i \in From(i) /\ i \notin From(j)
    <3>1. \A l \in S : l \in Nat
      OBVIOUS
    <3>2. i \in From(i) /\ i \notin From(j)
      BY <1>6, <3>1
    <3>3. ASSUME NEW l \in From(j) PROVE l \in From(i)
      BY <1>6, <3>1, <3>3
    <3> QED
      BY <3>2, <3>3
  <2>2. <<From(j), From(i)>> \in Smaller
    <3> HIDE DEF From
    <3>1. From(j) \in SUBSET S /\ From(i) \in SUBSET S
      BY DEF From
    <3> QED
      BY <2>1, <3>1 DEF StrictSubsetOrdering
  <2> QED
    BY <1>5, <2>2
<1> QED
  BY <1>6

\* A line reads as a pair of key and value.
LEMMA ReadsType ==
    ASSUME NEW k \in Keys, NEW v \in Texts
    PROVE  LET r == Reads[<<k, v>>] IN
           r[1] \in Keys /\ r[2] \in Texts /\ r = <<r[1], r[2]>>
<1>1. Reads[<<k, v>>] \in Keys \X Texts
  BY PersistenceAssumption
<1> QED
  BY <1>1

\* What a file is loaded to is a map of strings.
LEMMA LoadedType ==
    ASSUME NEW f \in Seq(Lines)
    PROVE  Loaded(f) \in [Keys -> Items]
<1> SUFFICES ASSUME NEW k \in Keys, LinesOf(f, k) # {}
             PROVE  Item(ReadValue(f, CHOOSE i \in LinesOf(f, k) :
                                         \A j \in LinesOf(f, k) : j <= i))
                       \in Items
  BY ItemType DEF Loaded
<1>1. LinesOf(f, k) \subseteq 1..Len(f) /\ Len(f) \in Nat
  BY DEF LinesOf
<1> DEFINE last == CHOOSE i \in LinesOf(f, k) : \A j \in LinesOf(f, k) : j <= i
<1>2. last \in LinesOf(f, k)
  BY <1>1, LastOne
<1>3. f[last] \in Lines /\ f[last].kind = "item"
  BY <1>1, <1>2 DEF LinesOf
<1>4. PICK k1 \in Keys, v \in Texts : f[last] = ItemLine(k1, v)
  BY <1>3, ItemLines
<1>5. ReadValue(f, last) \in Texts
  BY <1>4, ReadsType DEF ItemLine, ReadValue
<1> QED
  BY <1>5, ItemType

\* Writing a line leaves a file.
LEMMA PutType ==
    ASSUME file \in Seq(Lines), NEW p \in Nat \ {0}, NEW l \in Lines
    PROVE  Put(p, l) \in Seq(Lines)
<1>1. CASE p <= Len(file)
  BY <1>1 DEF Put
<1>2. CASE p > Len(file)
  <2> DEFINE gap == [i \in 1..(p - 1 - Len(file)) |-> Hole]
  <2>1. gap \in Seq(Lines)
    BY <1>2, LineType, IsASeq
  <2>2. file \o gap \in Seq(Lines) /\ <<l>> \in Seq(Lines)
    BY <2>1, ConcatProperties
  <2>3. (file \o gap) \o <<l>> \in Seq(Lines)
    BY <2>2, ConcatProperties
  <2> QED
    BY <1>2, <2>3 DEF Put
<1> QED
  BY <1>1, <1>2

\* So does the end of the process.
LEMMA CutType ==
    ASSUME NEW f \in Seq(Lines), NEW g \in CutShort(f)
    PROVE  g \in Seq(Lines)
<1>1. CASE g = f
  BY <1>1
<1>2. CASE f # <<>> /\ g = SubSeq(f, 1, Len(f) - 1)
  BY <1>2, SubSeqProperties
<1>3. CASE f # <<>> /\ f[Len(f)].kind = "item" /\ g = [f EXCEPT ![Len(f)].value = Cut]
  <2>1. f[Len(f)] \in Lines
    BY <1>3
  <2>2. PICK k \in Keys, v \in Texts : f[Len(f)] = ItemLine(k, v)
    BY <1>3, <2>1, ItemLines
  <2>3. [f[Len(f)] EXCEPT !.value = Cut] = ItemLine(k, Cut)
    BY <2>2 DEF ItemLine
  <2>4. ItemLine(k, Cut) \in Lines
    BY LineType, PersistenceAssumption
  <2> QED
    BY <1>3, <2>3, <2>4
<1> QED
  BY <1>1, <1>2, <1>3 DEF CutShort

-----------------------------------------------------------------------------
LEMMA InitInv == Init => Inv
<1> SUFFICES ASSUME Init PROVE Inv
  OBVIOUS
<1>1. DataOK
  BY ItemType, PersistenceAssumption DEF Init, DataOK
<1>2. LoopOK
  BY DEF Init, LoopOK
<1>3. SavesOK
  BY ItemType DEF Init, SavesOK
<1>4. DiskOK
  BY ItemType, EmptySeq DEF Init, DiskOK
<1>5. InTurn
  BY DEF Init, InTurn, Busy
<1> QED
  BY <1>1, <1>2, <1>3, <1>4, <1>5 DEF Inv

\* Saves that nothing happens to stay as they are.
LEMMA SavesStay ==
    ASSUME SavesOK, UNCHANGED <<saving, late>>
    PROVE  SavesOK' /\ Busy' = Busy
BY DEF SavesOK, saving, Busy

\* A save that ends is neither busy nor late any more.
LEMMA EndsInv ==
    ASSUME Inv, NEW s \in Saves, Ends(s)
    PROVE  SavesOK' /\ Busy' \ late' = (Busy \ late) \ {s}
<1>1. Busy' = Busy \ {s}
  BY DEF Inv, SavesOK, Ends, Busy
<1>2. SavesOK'
  BY <1>1, ItemType DEF Inv, SavesOK, Ends
<1> QED
  BY <1>1, <1>2 DEF Ends

\* The clients and time.
LEMMA ClientInv ==
    ASSUME Inv,
           \/ \E k \in Keys : \/ \E v \in Values : Set(k, v)
                              \/ \E d \in Deadlines : Expire(k, d)
                              \/ Sweep(k)
           \/ Tick
    PROVE  Inv'
<1>1. ASSUME NEW k \in Keys, NEW i \in Items, Change(k, i),
             writes' \in 0..MaxWrites
      PROVE  Inv'
  <2>1. DataOK'
    BY <1>1 DEF Inv, DataOK, Change
  <2>2. SavesOK' /\ InTurn'
    BY <1>1, SavesStay DEF Inv, InTurn, Change, looping
  <2>3. LoopOK' /\ DiskOK'
    BY <1>1 DEF Inv, LoopOK, DiskOK, Change, looping, disk
  <2> QED
    BY <2>1, <2>2, <2>3 DEF Inv
<1>2. writes < MaxWrites => writes + 1 \in 0..MaxWrites
  BY PersistenceAssumption DEF Inv, DataOK
<1>3. ASSUME NEW k \in Keys, NEW v \in Values, Set(k, v) PROVE Inv'
  BY <1>1, <1>2, <1>3, ItemType, PersistenceAssumption DEF Set, Inv, DataOK
<1>4. ASSUME NEW k \in Keys, NEW d \in Deadlines, Expire(k, d) PROVE Inv'
  <2>1. strings[k] \in Items /\ strings[k].in
    BY <1>4 DEF Expire, Inv, DataOK
  <2>2. [strings[k] EXCEPT !.expires = TRUE, !.expiry = d] \in Items
    BY <2>1 DEF Items, Absent
  <2>3. writes' \in 0..MaxWrites
    <3>1. writes < MaxWrites /\ writes' = writes + 1
      BY <1>4 DEF Expire
    <3> QED
      BY <1>2, <3>1
  <2>4. Change(k, [strings[k] EXCEPT !.expires = TRUE, !.expiry = d])
    BY <1>4 DEF Expire
  <2> QED
    BY <1>1, <2>2, <2>3, <2>4
<1>5. ASSUME NEW k \in Keys, Sweep(k) PROVE Inv'
  BY <1>1, <1>5, ItemType DEF Sweep, Inv, DataOK
<1>6. ASSUME Tick PROVE Inv'
  <2>1. DataOK'
    BY <1>6, PersistenceAssumption DEF Inv, DataOK, Tick
  <2>2. SavesOK' /\ InTurn'
    BY <1>6, SavesStay DEF Inv, InTurn, Tick, looping
  <2>3. LoopOK' /\ DiskOK'
    BY <1>6 DEF Inv, LoopOK, DiskOK, Tick, looping, disk
  <2> QED
    BY <2>1, <2>2, <2>3 DEF Inv
<1> QED
  BY <1>3, <1>4, <1>5, <1>6

\* The loop.  A save is begun when none is in time.
LEMMA LoopInv ==
    ASSUME Inv,
           StartAuto \/ StopAuto \/ Joined \/ LoopStep \/ TimesOut
    PROVE  Inv'
<1>1. ASSUME UNCHANGED <<data, timeouts, crashes>> PROVE DataOK'
  BY <1>1 DEF Inv, DataOK, data
<1>2. ASSUME UNCHANGED disk PROVE DiskOK'
  BY <1>2 DEF Inv, DiskOK, disk
<1>3. NoSave \notin Saves
  BY PersistenceAssumption
<1>4. ASSUME StartAuto \/ StopAuto \/ Joined \/ LoopEnds PROVE Inv'
  <2>1. LoopOK' /\ awaited' = awaited
    BY <1>4 DEF StartAuto, StopAuto, Joined, LoopEnds, Inv, LoopOK
  <2>2. SavesOK' /\ Busy' = Busy /\ late' = late
    BY <1>4, SavesStay DEF StartAuto, StopAuto, Joined, LoopEnds, Inv
  <2>3. DataOK' /\ DiskOK'
    BY <1>1, <1>2, <1>4 DEF StartAuto, StopAuto, Joined, LoopEnds
  <2> QED
    BY <2>1, <2>2, <2>3 DEF Inv, InTurn
<1>5. ASSUME NEW s \in Saves, Launch(s) PROVE Inv'
  <2>1. awaited = NoSave /\ Busy \subseteq late
    BY <1>3, <1>5 DEF Launch, Inv, LoopOK, InTurn, Busy
  <2>2. LoopOK'
    BY <1>3, <1>5 DEF Launch, Inv, LoopOK
  <2>3. Busy' = Busy \cup {s}
    BY <1>5 DEF Launch, Inv, SavesOK, Busy
  <2>4. SavesOK'
    BY <1>5, <2>3, ItemType DEF Launch, Inv, SavesOK
  <2>5. InTurn'
    BY <1>5, <2>1, <2>3 DEF Launch, InTurn
  <2> QED
    BY <1>1, <1>2, <1>5, <2>2, <2>4, <2>5 DEF Launch, Inv
<1>6. ASSUME Ready PROVE Inv'
  <2>1. LoopOK'
    BY <1>6 DEF Ready, Inv, LoopOK
  <2>2. SavesOK' /\ Busy' = Busy /\ late' = late
    BY <1>6, SavesStay DEF Ready, Inv
  <2>3. awaited \notin Busy
    BY <1>6 DEF Ready, Busy
  <2>4. InTurn'
    BY <2>2, <2>3 DEF Inv, InTurn
  <2> QED
    BY <1>1, <1>2, <1>6, <2>1, <2>2, <2>4 DEF Ready, Inv
<1>7. ASSUME TimesOut PROVE Inv'
  <2>1. LoopOK'
    BY <1>7 DEF TimesOut, Inv, LoopOK
  <2>2. awaited \in Busy /\ Busy' = Busy
    BY <1>3, <1>7 DEF TimesOut, Busy, Inv, LoopOK, saving
  <2>3. SavesOK'
    BY <1>7, <2>2 DEF TimesOut, Inv, SavesOK, saving
  <2>4. InTurn'
    BY <1>7, <2>2 DEF TimesOut, Inv, InTurn
  <2>5. DataOK'
    BY <1>7, PersistenceAssumption DEF TimesOut, Inv, DataOK, data
  <2> QED
    BY <1>2, <1>7, <2>1, <2>3, <2>4, <2>5 DEF TimesOut, Inv
<1> QED
  BY <1>4, <1>5, <1>6, <1>7 DEF LoopStep

\* The steps of a save, which stays busy until it ends.
LEMMA SaveInv ==
    ASSUME Inv, NEW s \in Saves, SaveStep(s)
    PROVE  Inv'
<1>1. DataOK' /\ LoopOK' /\ awaited' = awaited
  BY DEF SaveStep, Copy, Open, OpenFails, WriteHeader, WriteString, WriteRest,
         Inv, DataOK, LoopOK, data, looping
<1>2. snap[s] \in [Keys -> Items] /\ line[s] \in Nat \ {0}
  BY DEF Inv, SavesOK
<1>3. CASE Copy(s)
  <2>1. PICK k \in todo[s] :
          /\ snap' = [snap EXCEPT ![s][k] = strings[k]]
          /\ todo' = [todo EXCEPT ![s] = @ \ {k}]
          /\ stage' = [stage EXCEPT ![s] = IF todo[s] = {k} THEN "open" ELSE "copy"]
    BY <1>3 DEF Copy
  <2>2. k \in Keys /\ strings[k] \in Items
    BY DEF Inv, SavesOK, DataOK
  <2>3. Busy' = Busy
    BY <1>3, <2>1 DEF Copy, Inv, SavesOK, Busy
  <2>4. snap' \in [Saves -> [Keys -> Items]]
    BY <1>2, <2>1, <2>2 DEF Inv, SavesOK
  <2>5. SavesOK'
    BY <1>3, <2>1, <2>3, <2>4 DEF Copy, Inv, SavesOK
  <2>6. DiskOK' /\ InTurn'
    BY <1>1, <1>3, <2>3 DEF Copy, Inv, DiskOK, InTurn, disk
  <2> QED
    BY <1>1, <2>5, <2>6 DEF Inv
<1>4. CASE Open(s)
  <2>1. Busy' = Busy
    BY <1>4 DEF Open, Inv, SavesOK, Busy
  <2>2. SavesOK'
    BY <1>4, <2>1 DEF Open, Inv, SavesOK
  <2>3. DiskOK'
    BY <1>2, <1>4 DEF Open, Inv, DiskOK
  <2>4. InTurn'
    BY <1>1, <1>4, <2>1 DEF Open, Inv, InTurn
  <2> QED
    BY <1>1, <2>2, <2>3, <2>4 DEF Inv
<1>5. CASE OpenFails(s)
  <2>1. DiskOK'
    BY <1>5 DEF OpenFails, Inv, DiskOK, disk
  <2> QED
    BY <1>1, <1>5, <2>1, EndsInv DEF OpenFails, Inv, InTurn
<1>6. CASE WriteHeader(s)
  <2>1. file' \in Seq(Lines)
    BY <1>2, <1>6, PutType, LineType DEF WriteHeader, Inv, DiskOK
  <2>2. DiskOK'
    BY <1>6, <2>1 DEF WriteHeader, Inv, DiskOK
  <2>3. Busy' = Busy
    BY <1>6 DEF WriteHeader, Busy
  <2>4. SavesOK'
    BY <1>2, <1>6, <2>3 DEF WriteHeader, Advance, Inv, SavesOK
  <2>5. InTurn'
    BY <1>1, <1>6, <2>3 DEF WriteHeader, Inv, InTurn
  <2> QED
    BY <1>1, <2>2, <2>4, <2>5 DEF Inv
<1>7. CASE WriteString(s)
  <2>1. PICK k \in todo[s] :
          /\ todo' = [todo EXCEPT ![s] = @ \ {k}]
          /\ IF IsSaved(snap[s][k])
             THEN file' = Put(line[s], ItemLine(k, snap[s][k].value)) /\ Advance(s)
             ELSE UNCHANGED <<file, line>>
    BY <1>7 DEF WriteString
  <2>2. k \in Keys /\ snap[s][k] \in Items
    BY <1>2 DEF Inv, SavesOK
  <2>3. IsSaved(snap[s][k]) => snap[s][k].value \in Texts
    BY <2>2, ItemValue DEF IsSaved
  <2>4. file' \in Seq(Lines)
    BY <1>2, <2>1, <2>2, <2>3, PutType, LineType DEF Inv, DiskOK
  <2>5. DiskOK'
    BY <1>7, <2>4 DEF WriteString, Inv, DiskOK
  <2>6. line' \in [Saves -> Nat \ {0}]
    BY <1>2, <2>1 DEF Advance, Inv, SavesOK
  <2>7. Busy' = Busy
    BY <1>7 DEF WriteString, Busy
  <2>8. SavesOK'
    BY <1>7, <2>1, <2>6, <2>7 DEF WriteString, Inv, SavesOK
  <2>9. InTurn'
    BY <1>1, <1>7, <2>7 DEF WriteString, Inv, InTurn
  <2> QED
    BY <1>1, <2>5, <2>8, <2>9 DEF Inv
<1>8. CASE WriteRest(s)
  <2>1. file' \in Seq(Lines)
    BY <1>2, <1>8, PutType, LineType DEF WriteRest, Inv, DiskOK
  <2>2. DiskOK'
    BY <1>8, <2>1 DEF WriteRest, Inv, DiskOK
  <2> QED
    BY <1>1, <1>8, <2>2, EndsInv DEF WriteRest, Inv, InTurn
<1> QED
  BY <1>3, <1>4, <1>5, <1>6, <1>7, <1>8 DEF SaveStep

\* The end of the process and the start of the next one.
LEMMA ProcessInv ==
    ASSUME Inv, Crash \/ Boot
    PROVE  Inv'
<1>1. CASE Crash
  <2>1. DataOK'
    BY <1>1, ItemType, PersistenceAssumption DEF Crash, Inv, DataOK
  <2>2. LoopOK'
    BY <1>1 DEF Crash, LoopOK
  <2>3. Busy' = {}
    BY <1>1 DEF Crash, Busy
  <2>4. SavesOK'
    BY <1>1, <2>3, ItemType DEF Crash, SavesOK
  <2>5. DiskOK'
    BY <1>1, CutType DEF Crash, Inv, DiskOK
  <2> QED
    BY <2>1, <2>2, <2>3, <2>4, <2>5 DEF Inv, InTurn
<1>2. CASE Boot
  <2>1. DataOK'
    BY <1>2, LoadedType, ItemType DEF Boot, Inv, DataOK, DiskOK
  <2>2. LoopOK'
    BY <1>2 DEF Boot, Inv, LoopOK
  <2>3. SavesOK' /\ InTurn'
    BY <1>2, SavesStay DEF Boot, Inv, InTurn
  <2>4. DiskOK'
    BY <1>2 DEF Boot, Inv, DiskOK, disk
  <2> QED
    BY <2>1, <2>2, <2>3, <2>4 DEF Inv
<1> QED
  BY <1>1, <1>2

\* All of it, in every step.
LEMMA NextInv == Inv /\ [Next]_vars => Inv'
<1> SUFFICES ASSUME Inv, [Next]_vars PROVE Inv'
  OBVIOUS
<1>1. CASE UNCHANGED vars
  <2>1. SavesOK' /\ Busy' = Busy
    BY <1>1, SavesStay DEF Inv, vars
  <2> QED
    BY <1>1, <2>1
    DEF vars, Inv, DataOK, LoopOK, DiskOK, InTurn, data, looping, disk
<1>2. CASE Next
  BY <1>2, ClientInv, LoopInv, SaveInv, ProcessInv DEF Next
<1> QED
  BY <1>1, <1>2

\* The invariant holds of the manager, its clients and its file.
THEOREM Invariant == Spec => []Inv
BY InitInv, NextInv, PTL DEF Spec

\* Every variable has its type, whatever is saved, cut short or loaded back.
THEOREM TypeCorrect == Spec => []TypeOK
<1>1. Inv => TypeOK
  BY DEF Inv, DataOK, LoopOK, SavesOK, DiskOK, TypeOK
<1> QED
  BY <1>1, Invariant, PTL

\* Of the saves in time there is never more than one, and none once
\* stopAutoPersistence has returned.
THEOREM Turns == Spec => []SavesInTurn
<1>1. ASSUME Inv PROVE SavesInTurn
  <2>1. Cardinality(Busy \ late) <= 1
    <3>1. IsFiniteSet({awaited}) /\ Cardinality({awaited}) = 1
      BY FS_Singleton
    <3>2. Busy \ late \in SUBSET {awaited}
      BY <1>1 DEF Inv, InTurn
    <3>3. Cardinality(Busy \ late) <= Cardinality({awaited})
      BY <3>1, <3>2, FS_Subset
    <3> QED
      BY <3>1, <3>3
  <2>2. loop = "off" => Busy \subseteq late
    BY <1>1, PersistenceAssumption DEF Inv, InTurn, LoopOK, Busy
  <2> QED
    BY <2>1, <2>2 DEF SavesInTurn
<1> QED
  BY <1>1, Invariant, PTL

-----------------------------------------------------------------------------
(***************************************************************************)
(* What is in the file, while the save that opened it last writes alone.   *)
(***************************************************************************)

\* There is a line for the string that was copied under k.
Has(k) == \E i \in DOMAIN file : file[i] = ItemLine(k, source[k].value)

\* The header, lines for strings that were copied, the rest; only a file
\* nobody writes any more has the rest, or a line cut short at its end.
LinesFit ==
    \A i \in DOMAIN file :
        \/ i = 1 /\ file[i] = StringsLine
        \/ /\ i > 1
           /\ \E k \in Keys :
                 /\ source[k].in
                 /\ \/ file[i] = ItemLine(k, source[k].value)
                    \/ file[i] = ItemLine(k, Cut) /\ i = Len(file) /\ Writing = {}
        \/ i > 1 /\ i = Len(file) /\ file[i] = RestLine /\ Writing = {}

\* The writer is at the end of the file, and has written what it is done with.
WriterFits ==
    \A s \in Writing :
        /\ source = snap[s] /\ line[s] = Len(file) + 1
        /\ line[s] = 1 => todo[s] = Keys
        /\ \A k \in Keys \ todo[s] : source[k].in /\ ~source[k].expires => Has(k)

RestFits == Complete => \A k \in Keys : source[k].in /\ ~source[k].expires => Has(k)

OneWriter == \A s, u \in Writing : s = u

FileFits == ~mixed => LinesFit /\ WriterFits /\ RestFits /\ OneWriter

\* A save that has not opened the file begins at its first line.
FirstLine == \A s \in Saves \ Writing : line[s] = 1

FileInv == FirstLine /\ FileFits

\* The three kinds of lines.
LEMMA Kinds ==
    /\ StringsLine.kind = "strings" /\ RestLine.kind = "rest" /\ Hole.kind = "hole"
    /\ \A k, v : /\ ItemLine(k, v).kind = "item"
                 /\ ItemLine(k, v).key = k /\ ItemLine(k, v).value = v
BY DEF StringsLine, RestLine, Hole, ItemLine

\* A line that is written at the end of the file is added to it.
LEMMA PutAtEnd ==
    ASSUME file \in Seq(Lines), NEW l \in Lines
    PROVE  LET f == Put(Len(file) + 1, l) IN
           /\ f \in Seq(Lines) /\ Len(f) = Len(file) + 1
           /\ \A i \in 1..Len(file) : f[i] = file[i]
           /\ f[Len(file) + 1] = l
<1> DEFINE f == Put(Len(file) + 1, l)
           gap == [i \in 1..(Len(file) + 1 - 1 - Len(file)) |-> Hole]
<1>1. gap = <<>>
  <2>1. Len(file) \in Nat
    OBVIOUS
  <2>2. Len(file) + 1 - 1 - Len(file) = 0
    BY <2>1
  <2> QED
    BY <2>2
<1>2. f = (file \o gap) \o <<l>>
  <2>1. ~(Len(file) + 1 <= Len(file))
    OBVIOUS
  <2> QED
    BY <2>1 DEF Put
<1>3. f = file \o <<l>>
  BY <1>1, <1>2, ConcatEmptySeq
<1>4. <<l>> \in Seq(Lines) /\ Len(<<l>>) = 1 /\ <<l>>[1] = l
  OBVIOUS
<1>5. /\ f \in Seq(Lines) /\ Len(f) = Len(file) + 1
      /\ \A i \in 1..(Len(file) + 1) :
            f[i] = IF i <= Len(file) THEN file[i] ELSE <<l>>[i - Len(file)]
  <2> HIDE DEF f
  <2> QED
    BY <1>3, <1>4, ConcatProperties
<1> QED
  BY <1>4, <1>5

\* The lines between the first one and another.
LEMMA Between ==
    ASSUME NEW n \in Nat, NEW i \in 1..n, NEW j \in 2..(i - 1)
    PROVE  j \in 1..n /\ j # 1 /\ j # n
OBVIOUS

\* What FileFits says of loading.
LEMMA FitsIsOneSave ==
    ASSUME Inv, FileFits, Odd = {}
    PROVE  FileIsOneSave
<1> DEFINE back == Loaded(file)
           L(k) == LinesOf(file, k)
           last(k) == CHOOSE i \in L(k) : \A j \in L(k) : j <= i
<1> SUFFICES ASSUME ~mixed
             PROVE  /\ \A k \in Keys :
                          back[k].in => \E o \in Keys :
                             /\ source[o].in
                             /\ \/ <<k, back[k].value>> = ReadsAs(source, o)
                                \/ <<k, back[k].value>> = Reads[<<o, Cut>>] /\ ~Complete
                    /\ Complete =>
                          \A o \in Keys :
                             source[o].in /\ ~source[o].expires => back[ReadsAs(source, o)[1]].in
  BY DEF FileIsOneSave
<1>1. LinesFit /\ RestFits
  BY DEF FileFits
<1>2. file \in Seq(Lines) /\ Len(file) \in Nat /\ DOMAIN file = 1..Len(file)
  BY DEF Inv, DiskOK
<1>3. \A k \in Keys : back[k] = IF L(k) = {} THEN Absent ELSE Item(ReadValue(file, last(k)))
  BY DEF Loaded
<1>4. \A k \in Keys : L(k) = {} => ~back[k].in
  BY <1>3 DEF Absent
<1>5. ASSUME NEW k \in Keys, L(k) # {}
      PROVE  back[k].in /\ back[k].value = ReadValue(file, last(k))
  <2>1. \A v : Item(v).in /\ Item(v).value = v
    BY DEF Item
  <2>2. back[k] = Item(ReadValue(file, last(k)))
    BY <1>3, <1>5
  <2> HIDE DEF back, last
  <2> QED
    BY <2>1, <2>2
<1>6. ASSUME NEW k \in Keys, L(k) # {}
      PROVE  \E o \in Keys :
                /\ source[o].in
                /\ \/ <<k, ReadValue(file, last(k))>> = ReadsAs(source, o)
                   \/ <<k, ReadValue(file, last(k))>> = Reads[<<o, Cut>>] /\ ~Complete
  <2>1. L(k) \subseteq 1..Len(file)
    BY <1>2 DEF LinesOf
  <2>2. PICK i \in L(k) : i = last(k)
    BY <1>2, <1>6, <2>1, LastOne
  <2>3. i \in DOMAIN file /\ file[i].kind = "item" /\ ReadKey(file, i) = k
    BY <2>2 DEF LinesOf
  <2>4. PICK o \in Keys :
           /\ source[o].in
           /\ \/ file[i] = ItemLine(o, source[o].value)
              \/ file[i] = ItemLine(o, Cut) /\ i = Len(file)
    BY <1>1, <2>3, Kinds DEF LinesFit
  <2>5. source[o].value \in Texts /\ Cut \in Texts
    BY <2>4, ItemValue, PersistenceAssumption DEF Inv, DiskOK
  <2>6. CASE file[i] = ItemLine(o, source[o].value)
    <3>1. ReadKey(file, i) = ReadsAs(source, o)[1] /\ ReadValue(file, i) = ReadsAs(source, o)[2]
      BY <2>6, Kinds DEF ReadKey, ReadValue, ReadsAs
    <3>2. ReadsAs(source, o) = <<ReadsAs(source, o)[1], ReadsAs(source, o)[2]>>
      BY <2>5, ReadsType DEF ReadsAs
    <3>3. <<k, ReadValue(file, i)>> = ReadsAs(source, o)
      BY <2>3, <3>1, <3>2
    <3> QED
      BY <2>2, <2>4, <3>3
  <2>7. CASE file[i] = ItemLine(o, Cut) /\ i = Len(file)
    <3>1. ~Complete
      BY <2>3, <2>7 DEF Complete
    <3>2. ReadKey(file, i) = Reads[<<o, Cut>>][1] /\ ReadValue(file, i) = Reads[<<o, Cut>>][2]
      BY <2>7, Kinds DEF ReadKey, ReadValue
    <3>3. <<k, ReadValue(file, i)>> = Reads[<<o, Cut>>]
      BY <2>3, <2>5, <3>2, ReadsType
    <3> QED
      BY <2>2, <2>4, <3>1, <3>3
  <2> QED
    BY <2>4, <2>6, <2>7
<1>7. ASSUME Complete, NEW o \in Keys, source[o].in, ~source[o].expires
      PROVE  back[ReadsAs(source, o)[1]].in
  <2>1. PICK i \in DOMAIN file : file[i] = ItemLine(o, source[o].value)
    BY <1>1, <1>7 DEF RestFits, Has
  <2>2. i > 1 /\ i \in 1..Len(file)
    BY <1>1, <1>2, <2>1, Kinds DEF LinesFit
  <2>3. \A j \in DOMAIN file : file[j].kind # "hole"
    BY <1>1, Kinds DEF LinesFit
  <2>4. Clear(file, i)
    BY <1>2, <2>2, <2>3 DEF Clear
  <2>5. \A j \in DOMAIN file : file[j].kind = "item" => ~IsHeader(file, j)
    BY DEF IsHeader
  <2>6. InStrings(file, i)
    <3>1. 1 \in DOMAIN file /\ file[1] = StringsLine
      BY <1>1, <1>2, <2>2 DEF LinesFit
    <3>2. IsHeader(file, 1) /\ file[1].kind = "strings"
      BY <3>1, Kinds DEF IsHeader, Clear
    <3>3. \A j \in 2..(i - 1) : j \in DOMAIN file /\ j # 1 /\ j # Len(file)
      <4>1. ASSUME NEW j \in 2..(i - 1)
            PROVE  j \in 1..Len(file) /\ j # 1 /\ j # Len(file)
        BY <1>2, <2>2, Between
      <4> QED
        BY <1>2, <4>1
    <3>4. \A j \in 2..(i - 1) : file[j].kind = "item"
      BY <1>1, <3>3, Kinds DEF LinesFit
    <3>5. \A j \in (1 + 1)..(i - 1) : ~IsHeader(file, j)
      BY <2>5, <3>3, <3>4
    <3>6. 1 \in 1..(i - 1)
      BY <2>2
    <3> QED
      BY <3>2, <3>5, <3>6 DEF InStrings
  <2>7. ReadKey(file, i) = ReadsAs(source, o)[1]
    BY <2>1, Kinds DEF ReadKey, ReadsAs
  <2>8. i \in L(ReadsAs(source, o)[1])
    BY <2>1, <2>4, <2>5, <2>6, <2>7, Kinds DEF LinesOf
  <2>9. ReadsAs(source, o)[1] \in Keys
    BY <1>7, ItemValue, ReadsType DEF ReadsAs, Inv, DiskOK
  <2> QED
    BY <1>5, <2>8, <2>9
<1> QED
  BY <1>4, <1>5, <1>6, <1>7

\* A file that nobody touches, and a writer that does nothing.
LEMMA FileStays ==
    ASSUME FileInv, UNCHANGED disk, Writing' = Writing,
           \A s \in Writing : /\ snap'[s] = snap[s] /\ line'[s] = line[s]
                              /\ todo'[s] = todo[s],
           \A s \in Saves \ Writing : line'[s] = 1
    PROVE  FileInv'
<1>1. FirstLine'
  BY DEF FirstLine
<1>2. \A k : Has(k)' <=> Has(k)
  BY DEF Has, disk
<1>3. ASSUME ~mixed PROVE (LinesFit /\ WriterFits /\ RestFits /\ OneWriter)'
  <2>1. LinesFit /\ WriterFits /\ RestFits /\ OneWriter
    BY <1>3 DEF FileInv, FileFits
  <2>2. LinesFit' /\ OneWriter'
    BY <2>1 DEF LinesFit, OneWriter, disk
  <2>3. RestFits'
    BY <1>2, <2>1 DEF RestFits, Complete, disk
  <2>4. WriterFits'
    BY <1>2, <2>1 DEF WriterFits, disk
  <2> QED
    BY <2>2, <2>3, <2>4
<1> QED
  BY <1>1, <1>3 DEF FileInv, FileFits, disk

\* Steps that neither begin nor end a save leave it all as it is.
LEMMA SavingStays ==
    ASSUME FileInv, UNCHANGED <<saving, disk>>
    PROVE  FileInv'
<1>1. Writing' = Writing
  BY DEF Writing, saving
<1> QED
  BY <1>1, FileStays DEF saving, FileInv, FirstLine

LEMMA LaunchFile ==
    ASSUME Inv, FileInv, NEW s \in Saves, Launch(s) \/ Copy(s) \/ OpenFails(s)
    PROVE  FileInv'
<1>1. s \notin Writing
  BY DEF Launch, Copy, OpenFails, Writing
<1>2. Writing' = Writing
  BY <1>1 DEF Launch, Copy, OpenFails, Ends, Writing, Inv, SavesOK
<1>3. UNCHANGED disk
  BY DEF Launch, Copy, OpenFails
<1>4. \A u \in Writing : /\ snap'[u] = snap[u] /\ line'[u] = line[u]
                         /\ todo'[u] = todo[u]
  BY <1>1 DEF Launch, Copy, OpenFails, Ends, Writing, Inv, SavesOK
<1>5. \A u \in Saves \ Writing : line'[u] = 1
  BY DEF Launch, Copy, OpenFails, Ends, Inv, SavesOK, FileInv, FirstLine
<1> QED
  BY <1>2, <1>3, <1>4, <1>5, FileStays

\* A file that has just been emptied.
LEMMA OpenFile ==
    ASSUME Inv, FileInv, NEW s \in Saves, Open(s)
    PROVE  FileInv'
<1>1. Writing' = Writing \cup {s}
  BY DEF Open, Writing, Inv, SavesOK
<1>2. line[s] = 1 /\ line' = line
  BY DEF Open, Writing, FileInv, FirstLine
<1>3. FirstLine'
  BY <1>1, <1>2 DEF FileInv, FirstLine
<1>4. file' = <<>> /\ source' = snap[s] /\ snap' = snap /\ todo'[s] = Keys
  BY DEF Open, Inv, SavesOK
<1>5. ASSUME ~mixed' PROVE (LinesFit /\ WriterFits /\ RestFits /\ OneWriter)'
  <2>1. Writing' = {s}
    BY <1>1, <1>5 DEF Open
  <2>2. LinesFit' /\ RestFits'
    BY <1>4 DEF LinesFit, RestFits, Complete
  <2>3. WriterFits'
    BY <1>2, <1>4, <2>1 DEF WriterFits
  <2> QED
    BY <2>1, <2>2, <2>3 DEF OneWriter
<1> QED
  BY <1>3, <1>5 DEF FileInv, FileFits

\* While there is a writer, the file is its header and whole lines.
LEMMA WholeLines ==
    ASSUME LinesFit, Writing # {}
    PROVE  \A i \in DOMAIN file :
              \/ i = 1 /\ file[i] = StringsLine
              \/ i > 1 /\ \E k \in Keys : source[k].in /\ file[i] = ItemLine(k, source[k].value)
BY DEF LinesFit

\* The only writer adds a line, and goes on or ends.
LEMMA AddLine ==
    ASSUME Inv, ~mixed, FileInv, NEW s \in Writing, NEW l \in Lines,
           file' = Put(line[s], l), UNCHANGED <<source, mixed>>
    PROVE  /\ file' \in Seq(Lines) /\ Len(file') = Len(file) + 1
           /\ DOMAIN file' = 1..(Len(file) + 1) /\ Len(file) \in Nat
           /\ \A i \in DOMAIN file : i \in DOMAIN file' /\ file'[i] = file[i]
           /\ file'[Len(file) + 1] = l
           /\ \A k : Has(k) => Has(k)'
           /\ line[s] = Len(file) + 1 /\ source = snap[s]
           /\ Writing = {s}
<1>1. WriterFits /\ OneWriter
  BY DEF FileInv, FileFits
<1>2. line[s] = Len(file) + 1 /\ source = snap[s]
  BY <1>1 DEF WriterFits
<1>3. file \in Seq(Lines) /\ Len(file) \in Nat /\ DOMAIN file = 1..Len(file)
  BY DEF Inv, DiskOK
<1>4. /\ file' \in Seq(Lines) /\ Len(file') = Len(file) + 1
      /\ \A i \in 1..Len(file) : file'[i] = file[i]
      /\ file'[Len(file) + 1] = l
  <2> DEFINE f == Put(Len(file) + 1, l)
  <2>1. file' = f
    BY <1>2
  <2>2. /\ f \in Seq(Lines) /\ Len(f) = Len(file) + 1
        /\ \A i \in 1..Len(file) : f[i] = file[i]
        /\ f[Len(file) + 1] = l
    BY <1>3, PutAtEnd
  <2> HIDE DEF f
  <2> QED
    BY <2>1, <2>2
<1>5. DOMAIN file' = 1..(Len(file) + 1)
  BY <1>4
<1>6. \A i \in DOMAIN file : i \in DOMAIN file' /\ file'[i] = file[i]
  BY <1>3, <1>4, <1>5
<1>7. \A k : Has(k) => Has(k)'
  BY <1>6 DEF Has
<1>8. Writing = {s}
  BY <1>1 DEF OneWriter
<1> QED
  BY <1>2, <1>3, <1>4, <1>5, <1>6, <1>7, <1>8

LEMMA HeaderFile ==
    ASSUME Inv, FileInv, NEW s \in Saves, WriteHeader(s)
    PROVE  FileInv'
<1>1. Writing' = Writing /\ s \in Writing
  BY DEF WriteHeader, Writing
<1>2. FirstLine'
  BY <1>1 DEF WriteHeader, Advance, FileInv, FirstLine, Inv, SavesOK
<1>3. ASSUME ~mixed' PROVE (LinesFit /\ WriterFits /\ RestFits /\ OneWriter)'
  <2>1. /\ ~mixed /\ UNCHANGED <<source, mixed, snap, todo>>
        /\ file' = Put(line[s], StringsLine) /\ line[s] = 1
    BY <1>3 DEF WriteHeader
  <2>2. /\ Len(file') = Len(file) + 1 /\ DOMAIN file' = 1..(Len(file) + 1)
        /\ Len(file) \in Nat
        /\ file'[Len(file) + 1] = StringsLine
        /\ line[s] = Len(file) + 1 /\ source = snap[s] /\ Writing = {s}
    BY <1>1, <2>1, AddLine, LineType
  <2>3. Len(file) = 0 /\ DOMAIN file' = {1} /\ file'[1] = StringsLine /\ Len(file') = 1
    <3>1. Len(file) = 0
      BY <2>1, <2>2
    <3>2. DOMAIN file' = 1..(0 + 1) /\ Len(file') = 0 + 1 /\ file'[0 + 1] = StringsLine
      BY <2>2, <3>1
    <3> QED
      BY <3>1, <3>2
  <2>4. LinesFit' /\ RestFits' /\ OneWriter'
    BY <1>1, <2>2, <2>3, Kinds DEF LinesFit, RestFits, Complete, OneWriter
  <2>5. line'[s] = 2
    BY <2>1 DEF WriteHeader, Advance, Inv, SavesOK
  <2>6. todo[s] = Keys
    BY <1>1, <2>1 DEF FileInv, FileFits, WriterFits
  <2>7. WriterFits'
    <3>1. Writing' = {s} /\ source' = snap'[s]
      BY <1>1, <2>1, <2>2
    <3>2. line'[s] = Len(file') + 1
      BY <2>3, <2>5
    <3>3. Keys \ todo'[s] = {} /\ line'[s] # 1
      BY <2>1, <2>5, <2>6
    <3> QED
      BY <3>1, <3>2, <3>3 DEF WriterFits
  <2> QED
    BY <2>4, <2>7
<1> QED
  BY <1>2, <1>3 DEF FileInv, FileFits

LEMMA StringFile ==
    ASSUME Inv, FileInv, NEW s \in Saves, WriteString(s)
    PROVE  FileInv'
<1>1. Writing' = Writing /\ s \in Writing
  BY DEF WriteString, Writing
<1>2. PICK k \in todo[s] :
        /\ todo' = [todo EXCEPT ![s] = @ \ {k}]
        /\ IF IsSaved(snap[s][k])
           THEN file' = Put(line[s], ItemLine(k, snap[s][k].value)) /\ Advance(s)
           ELSE UNCHANGED <<file, line>>
  BY DEF WriteString
<1>3. k \in Keys /\ snap[s] \in [Keys -> Items] /\ snap[s][k] \in Items
  BY DEF Inv, SavesOK
<1>4. FirstLine'
  BY <1>1, <1>2 DEF Advance, FileInv, FirstLine, Inv, SavesOK
<1>5. todo'[s] = todo[s] \ {k} /\ line[s] > 1 /\ UNCHANGED <<source, mixed, snap>>
  BY <1>2 DEF WriteString, Inv, SavesOK
<1>6. ASSUME ~mixed' PROVE (LinesFit /\ WriterFits /\ RestFits /\ OneWriter)'
  <2>1. LinesFit /\ WriterFits /\ RestFits /\ OneWriter /\ ~mixed
    BY <1>5, <1>6 DEF FileInv, FileFits
  <2>2. Writing = {s} /\ OneWriter'
    BY <1>1, <2>1 DEF OneWriter
  <2>3. /\ source = snap[s] /\ line[s] = Len(file) + 1
        /\ \A j \in Keys \ todo[s] : source[j].in /\ ~source[j].expires => Has(j)
    BY <1>1, <2>1 DEF WriterFits
  <2>4. CASE ~IsSaved(snap[s][k])
    <3>1. UNCHANGED <<file, line, source>> /\ \A j : Has(j)' <=> Has(j)
      BY <1>2, <1>5, <2>4 DEF Has
    <3>2. LinesFit' /\ RestFits'
      BY <1>1, <2>1, <3>1 DEF LinesFit, RestFits, Complete
    <3>3. ~(source[k].in /\ ~source[k].expires)
      BY <2>3, <2>4 DEF IsSaved
    <3>4. WriterFits'
      BY <1>1, <1>5, <2>2, <2>3, <3>1, <3>3 DEF WriterFits
    <3> QED
      BY <2>2, <3>2, <3>4
  <2>5. CASE IsSaved(snap[s][k])
    <3> DEFINE l == ItemLine(k, source[k].value)
    <3>1. source[k].in /\ source[k].value \in Texts
      BY <1>3, <2>3, <2>5, ItemValue DEF IsSaved
    <3>2. file' = Put(line[s], l) /\ line'[s] = line[s] + 1 /\ l \in Lines
      BY <1>2, <1>3, <2>3, <2>5, <3>1, LineType DEF Advance, Inv, SavesOK
    <3>3. /\ Len(file') = Len(file) + 1 /\ DOMAIN file' = 1..(Len(file) + 1)
          /\ Len(file) \in Nat
          /\ \A i \in DOMAIN file : i \in DOMAIN file' /\ file'[i] = file[i]
          /\ file'[Len(file) + 1] = l
          /\ \A j : Has(j) => Has(j)'
      BY <1>1, <1>5, <2>1, <3>2, AddLine
    <3>4. DOMAIN file = 1..Len(file)
      BY DEF Inv, DiskOK
    <3>5. \A i \in DOMAIN file' :
             \/ i \in DOMAIN file /\ file'[i] = file[i]
             \/ i > 1 /\ i = Len(file') /\ file'[i] = l
      BY <1>5, <2>3, <3>3, <3>4
    <3>6. LinesFit'
      BY <1>1, <1>3, <1>5, <2>1, <3>1, <3>5, WholeLines DEF LinesFit
    <3>7. RestFits'
      BY <3>3, Kinds DEF RestFits, Complete
    <3>8. Has(k)'
      BY <1>5, <3>3 DEF Has
    <3>9. WriterFits'
      BY <1>1, <1>5, <2>2, <2>3, <3>2, <3>3, <3>8 DEF WriterFits
    <3> QED
      BY <2>2, <3>6, <3>7, <3>9
  <2> QED
    BY <2>4, <2>5
<1> QED
  BY <1>4, <1>6 DEF FileInv, FileFits

LEMMA RestFile ==
    ASSUME Inv, FileInv, NEW s \in Saves, WriteRest(s)
    PROVE  FileInv'
<1>1. Writing' = Writing \ {s} /\ s \in Writing
  BY DEF WriteRest, Ends, Writing, Inv, SavesOK
<1>2. FirstLine'
  BY <1>1 DEF WriteRest, Ends, FileInv, FirstLine, Inv, SavesOK
<1>3. ASSUME ~mixed' PROVE (LinesFit /\ WriterFits /\ RestFits /\ OneWriter)'
  <2>1. /\ ~mixed /\ UNCHANGED <<source, mixed>> /\ todo[s] = {}
        /\ file' = Put(line[s], RestLine) /\ line[s] > 1
    BY <1>3 DEF WriteRest
  <2>2. LinesFit /\ WriterFits
    BY <2>1 DEF FileInv, FileFits
  <2>3. /\ Len(file') = Len(file) + 1 /\ DOMAIN file' = 1..(Len(file) + 1)
        /\ Len(file) \in Nat
        /\ \A i \in DOMAIN file : i \in DOMAIN file' /\ file'[i] = file[i]
        /\ file'[Len(file) + 1] = RestLine
        /\ \A j : Has(j) => Has(j)'
        /\ line[s] = Len(file) + 1 /\ Writing = {s}
    BY <1>1, <2>1, AddLine, LineType
  <2>4. Writing' = {}
    BY <1>1, <2>3
  <2>5. DOMAIN file = 1..Len(file)
    BY DEF Inv, DiskOK
  <2>6. \A i \in DOMAIN file' :
           \/ i \in DOMAIN file /\ file'[i] = file[i]
           \/ i > 1 /\ i = Len(file') /\ file'[i] = RestLine
    BY <2>1, <2>3, <2>5
  <2>7. LinesFit'
    BY <1>1, <2>1, <2>2, <2>4, <2>6, WholeLines DEF LinesFit
  <2>8. \A k \in Keys : source[k].in /\ ~source[k].expires => Has(k)'
    BY <1>1, <2>1, <2>2, <2>3 DEF WriterFits
  <2>9. RestFits'
    BY <2>1, <2>8 DEF RestFits
  <2> QED
    BY <2>4, <2>7, <2>9 DEF WriterFits, OneWriter
<1> QED
  BY <1>2, <1>3 DEF FileInv, FileFits

LEMMA CrashFile ==
    ASSUME Inv, FileInv, Crash
    PROVE  FileInv'
<1>1. Writing' = {} /\ UNCHANGED <<source, mixed>> /\ file' \in CutShort(file)
  BY DEF Crash, Writing
<1>2. FirstLine'
  BY <1>1 DEF Crash, FirstLine
<1>3. ASSUME ~mixed' PROVE (LinesFit /\ WriterFits /\ RestFits /\ OneWriter)'
  <2>1. LinesFit /\ RestFits
    BY <1>1, <1>3 DEF FileInv, FileFits
  <2>2. WriterFits' /\ OneWriter'
    BY <1>1 DEF WriterFits, OneWriter
  <2>3. file \in Seq(Lines) /\ Len(file) \in Nat /\ DOMAIN file = 1..Len(file)
    BY DEF Inv, DiskOK
  <2>4. CASE file' = file
    <3>1. LinesFit'
      BY <1>1, <2>1, <2>4 DEF LinesFit
    <3>2. RestFits'
      BY <1>1, <2>1, <2>4 DEF RestFits, Complete, Has
    <3> QED
      BY <2>2, <3>1, <3>2
  <2>5. CASE Writing # {} /\ file # <<>> /\ file' = SubSeq(file, 1, Len(file) - 1)
    <3>1. Len(file) >= 1
      BY <2>3, <2>5
    <3>2. /\ Len(file') = Len(file) - 1 /\ DOMAIN file' = 1..(Len(file) - 1)
          /\ \A i \in 1..(Len(file) - 1) : file'[i] = file[i]
      BY <2>3, <2>5, <3>1
    <3>3. \A i \in DOMAIN file' : i \in DOMAIN file /\ file'[i] = file[i]
      BY <2>3, <3>1, <3>2
    <3>4. LinesFit'
      BY <1>1, <2>1, <2>5, <3>3, WholeLines DEF LinesFit
    <3>5. \A i \in DOMAIN file' : file'[i].kind # "rest"
      BY <2>1, <2>5, <3>3, WholeLines, Kinds
    <3>6. ~Complete'
      <4>1. CASE Len(file') = 0
        BY <3>2, <4>1 DEF Complete
      <4>2. CASE Len(file') # 0
        BY <2>3, <3>2, <3>5, <4>2 DEF Complete
      <4> QED
        BY <4>1, <4>2
    <3> QED
      BY <2>2, <3>4, <3>6 DEF RestFits
  <2>6. CASE /\ Writing # {} /\ file # <<>> /\ file[Len(file)].kind = "item"
             /\ file' = [file EXCEPT ![Len(file)].value = Cut]
    <3>1. Len(file) \in DOMAIN file
      BY <2>3, <2>6
    <3>2. PICK k \in Keys : /\ source[k].in /\ Len(file) > 1
                            /\ file[Len(file)] = ItemLine(k, source[k].value)
      BY <2>1, <2>6, <3>1, WholeLines, Kinds
    <3>3. file'[Len(file)] = ItemLine(k, Cut)
      BY <2>6, <3>1, <3>2 DEF ItemLine
    <3>4. DOMAIN file' = DOMAIN file /\ Len(file') = Len(file)
      BY <2>3, <2>6
    <3>5. \A i \in DOMAIN file : i # Len(file) => file'[i] = file[i]
      BY <2>6
    <3>6. LinesFit'
      BY <1>1, <2>1, <2>6, <3>2, <3>3, <3>4, <3>5, WholeLines DEF LinesFit
    <3>7. ~Complete'
      BY <3>3, <3>4, Kinds DEF Complete
    <3> QED
      BY <2>2, <3>6, <3>7 DEF RestFits
  <2> QED
    BY <1>1, <2>4, <2>5, <2>6 DEF CutShort
<1> QED
  BY <1>2, <1>3 DEF FileInv, FileFits

LEMMA InitFile == Init => FileInv
BY DEF Init, FileInv, FirstLine, FileFits, LinesFit, WriterFits, RestFits, Complete,
       OneWriter, Writing

LEMMA NextFile == Inv /\ FileInv /\ [Next]_vars => FileInv'
<1> SUFFICES ASSUME Inv, FileInv, [Next]_vars PROVE FileInv'
  OBVIOUS
<1>1. CASE UNCHANGED vars
  BY <1>1, SavingStays DEF vars
<1>2. ASSUME NEW k \in Keys, NEW i, Change(k, i) PROVE FileInv'
  BY <1>2, SavingStays DEF Change
<1>3. CASE \E k \in Keys : \/ \E v \in Values : Set(k, v)
                           \/ \E d \in Deadlines : Expire(k, d)
                           \/ Sweep(k)
  BY <1>2, <1>3 DEF Set, Expire, Sweep
<1>4. CASE Tick \/ StartAuto \/ StopAuto \/ Joined \/ LoopEnds \/ Ready \/ TimesOut \/ Boot
  BY <1>4, SavingStays
  DEF Tick, StartAuto, StopAuto, Joined, LoopEnds, Ready, TimesOut, Boot
<1>5. CASE \E s \in Saves : Launch(s) \/ SaveStep(s)
  BY <1>5, LaunchFile, OpenFile, HeaderFile, StringFile, RestFile DEF SaveStep
<1>6. CASE Crash
  BY <1>6, CrashFile
<1> QED
  BY <1>1, <1>3, <1>4, <1>5, <1>6 DEF Next, LoopStep

\* Wherever the process ends, what is loaded comes from one save, the last
\* one begun, as its lines read back, if saves did not overlap and no line
\* reads like a header.
THEOREM OneSave == Odd = {} => (Spec => []FileIsOneSave)
<1> SUFFICES ASSUME Odd = {} PROVE Spec => []FileIsOneSave
  OBVIOUS
<1>1. Init => Inv /\ FileInv
  BY InitInv, InitFile
<1>2. Inv /\ FileInv /\ [Next]_vars => (Inv /\ FileInv)'
  BY NextInv, NextFile
<1>3. Inv /\ FileInv => FileIsOneSave
  BY FitsIsOneSave DEF FileInv
<1> QED
  BY <1>1, <1>2, <1>3, PTL DEF Spec

=============================================================================
