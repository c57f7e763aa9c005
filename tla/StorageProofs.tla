---------------------------- MODULE StorageProofs ----------------------------
(***************************************************************************)
(* Proofs about Storage, for any keys, values, increments, deadlines and   *)
(* number width.                                                           *)
(***************************************************************************)
EXTENDS Storage, SequenceTheorems, TLAPS

\* Arithmetic that wraps stays within the signed range it wraps to.
LEMMA WrapSigned ==
    ASSUME NEW half \in Nat \ {0}, NEW n \in Int
    PROVE  Wrap(n, half) \in Signed(half)
<1>1. (n + half) % (2 * half) \in 0..(2 * half - 1)
  OBVIOUS
<1> QED BY <1>1 DEF Wrap, Signed

\* What the bodies need to know of an item that is there.
LEMMA ItemParts ==
    ASSUME NEW c, IsCell(c), NEW y \in Types, c[y].in
    PROVE  c[y] \in [in : {TRUE}, value : Values(y), has : BOOLEAN, at : Signed(HalfTime)]
<1>1. c[y] \in Items(y)
  BY DEF IsCell
<1>2. Absent.in = FALSE
  BY DEF Absent
<1> QED BY <1>1, <1>2 DEF Items

\* Removing what has expired (remove_expired) leaves a well-formed cell.
LEMMA SweepCell ==
    ASSUME NEW c, IsCell(c), NEW t
    PROVE  IsCell(Sweep(c, t))
BY DEF IsCell, Sweep, Items

\* The ways the bodies change a cell.
LEMMA ItemCell ==
    ASSUME NEW c, IsCell(c), NEW y \in Types, NEW i \in Items(y)
    PROVE  IsCell([c EXCEPT ![y] = i])
BY DEF IsCell

\* An item stored anew is well formed.
LEMMA PutCell ==
    ASSUME NEW c, IsCell(c), NEW y \in Types, NEW v \in Values(y)
    PROVE  IsCell(Put(c, y, v))
<1>1. Fresh(v) \in Items(y)
  BY CommandsAssumption DEF Fresh, Items, Signed
<1> QED BY <1>1, ItemCell DEF Put

\* So is what remains after an erase.
LEMMA DropCell ==
    ASSUME NEW c, IsCell(c), NEW y \in Types
    PROVE  IsCell(Drop(c, y))
<1>1. Absent \in Items(y)
  BY DEF Items
<1> QED BY <1>1, ItemCell DEF Drop

\* An item that exists is updated in place and keeps its deadline.
LEMMA UpdateCell ==
    ASSUME NEW c, IsCell(c), NEW y \in Types, c[y].in, NEW v \in Values(y)
    PROVE  IsCell(Update(c, y, v))
<1>1. [c[y] EXCEPT !.value = v] \in Items(y)
  BY ItemParts DEF Items
<1>2. IsCell([c EXCEPT ![y] = [c[y] EXCEPT !.value = v]])
  BY <1>1, ItemCell
<1>3. Update(c, y, v) = [c EXCEPT ![y] = [c[y] EXCEPT !.value = v]]
  BY DEF Update
<1> QED BY <1>2, <1>3, Zenon

\* Either of the two, as operator[] has it.
LEMMA StoreCell ==
    ASSUME NEW c, IsCell(c), NEW y \in Types, NEW v \in Values(y)
    PROVE  IsCell(Store(c, y, v))
BY PutCell, UpdateCell DEF Store

\* Setting a deadline changes nothing else of an item.
LEMMA PostponeCell ==
    ASSUME NEW c, IsCell(c), NEW y \in Types, c[y].in, NEW at \in Signed(HalfTime)
    PROVE  IsCell(Postpone(c, y, at))
<1>1. [c[y] EXCEPT !.has = TRUE, !.at = at] \in Items(y)
  BY ItemParts DEF Items
<1> QED BY <1>1, ItemCell DEF Postpone

-----------------------------------------------------------------------------
(* Every body maps a cell to a cell. *)

\* The four names of types.
LEMMA TypeNames == "string" \in Types /\ "hash" \in Types /\ "list" \in Types /\ "set" \in Types
BY DEF Types

\* What the string map holds: texts and printed counters.
LEMMA StringValues == Values("string") = Texts \cup {Dec(n) : n \in Signed(HalfRange)}
BY DEF Values

\* What the hash map holds: hashes with at least one field.
LEMMA HashValues == Values("hash") = UNION {[F -> Texts] : F \in (SUBSET Fields) \ {{}}}
BY DEF Values

\* What the list map holds: sequences of texts, empty ones included.
LEMMA ListValues == Values("list") = Seq(Texts)
BY DEF Values

\* What the set map holds: sets with at least one member.
LEMMA SetValues == Values("set") = (SUBSET Texts) \ {{}}
BY DEF Values

\* SET leaves a well-formed cell.
LEMMA SetToCell ==
    ASSUME NEW c, IsCell(c), NEW v \in Texts
    PROVE  IsCell(SetTo(c, v).cell)
<1>1. v \in Values("string")
  BY StringValues
<1> QED BY <1>1, PutCell, TypeNames DEF SetTo, Result

\* INCRBY does, whether the text parses, does not, or the sum wraps.
LEMMA IncrByCell ==
    ASSUME NEW c, IsCell(c), NEW d \in Signed(HalfRange)
    PROVE  IsCell(IncrBy(c, d).cell)
<1> DEFINE s == c["string"]
           n == Wrap(s.value.n + d, HalfRange)
<1>1. CASE s.in /\ s.value.parses
  <2>1. s.value \in Values("string")
    BY <1>1, ItemParts, TypeNames
  <2>2. \A i \in Signed(HalfRange) : Dec(i).n \in Int
    BY DEF Dec, Signed
  <2>3. s.value.n \in Int
    BY <2>1, <2>2, StringValues, StorageAssumption
  <2>4. n \in Signed(HalfRange)
    BY <2>3, WrapSigned, CommandsAssumption DEF Signed
  <2>5. Dec(n) \in Values("string")
    BY <2>4, StringValues
  <2>6. IncrBy(c, d).cell = Update(c, "string", Dec(n))
    BY <1>1 DEF IncrBy, Result
  <2> HIDE DEF n
  <2> QED BY <1>1, <2>5, <2>6, UpdateCell, TypeNames
<1>2. CASE ~(s.in /\ s.value.parses)
  <2>1. Dec(d) \in Values("string")
    BY StringValues
  <2>2. IncrBy(c, d).cell = Put(c, "string", Dec(d))
    BY <1>2 DEF IncrBy, Result
  <2> QED BY <2>1, <2>2, PutCell, TypeNames
<1> QED BY <1>1, <1>2

\* HSET does: no hash is ever without a field.
LEMMA HSetCell ==
    ASSUME NEW c, IsCell(c), NEW f \in Fields, NEW v \in Texts
    PROVE  IsCell(HSet(c, f, v).cell)
<1> DEFINE new == WithField(FieldsOf(c), f, v)
<1>1. \E F \in SUBSET Fields : FieldsOf(c) \in [F -> Texts]
  <2>1. CASE c["hash"].in
    <3>1. c["hash"].value \in Values("hash")
      BY <2>1, ItemParts, TypeNames
    <3> QED BY <2>1, <3>1, HashValues DEF FieldsOf
  <2>2. CASE ~c["hash"].in
    <3>1. FieldsOf(c) \in [{} -> Texts]
      BY <2>2 DEF FieldsOf
    <3> QED BY <3>1
  <2> QED BY <2>1, <2>2
<1>2. PICK F \in SUBSET Fields : FieldsOf(c) \in [F -> Texts]
  BY <1>1
<1>3. new \in [{f} \cup F -> Texts]
  BY <1>2 DEF WithField
<1>4. {f} \cup F \in (SUBSET Fields) \ {{}}
  <2>1. {f} \cup F \subseteq Fields
    BY <1>2
  <2>2. {f} \cup F # {}
    OBVIOUS
  <2> QED BY <2>1, <2>2
<1>5. new \in Values("hash")
  BY <1>3, <1>4, HashValues
<1> HIDE DEF new
<1> QED BY <1>5, StoreCell, TypeNames DEF HSet, Result, new

\* A list that does not exist reads as a sequence.
LEMMA ValuesOfSeq ==
    ASSUME NEW c, IsCell(c)
    PROVE  ValuesOf(c) \in Seq(Texts)
<1>1. CASE c["list"].in
  <2>1. c["list"].value \in Values("list")
    BY <1>1, ItemParts, TypeNames
  <2> QED BY <1>1, <2>1, ListValues DEF ValuesOf
<1>2. CASE ~c["list"].in
  BY <1>2 DEF ValuesOf
<1> QED BY <1>1, <1>2

\* LPUSH leaves a well-formed cell.
LEMMA LPushCell ==
    ASSUME NEW c, IsCell(c), NEW vs \in Seq(Texts)
    PROVE  IsCell(LPush(c, vs).cell)
<1>1. vs \o ValuesOf(c) \in Seq(Texts)
  BY ValuesOfSeq
<1>2. vs \o ValuesOf(c) \in Values("list")
  BY <1>1, ListValues
<1> QED BY <1>2, StoreCell, TypeNames DEF LPush, Result

\* RPOP does, and may leave an empty list.
LEMMA RPopCell ==
    ASSUME NEW c, IsCell(c)
    PROVE  IsCell(RPop(c).cell)
<1> DEFINE vs == ValuesOf(c)
           rest == SubSeq(vs, 1, Len(vs) - 1)
<1>1. CASE vs # <<>>
  <2>1. c["list"].in
    BY <1>1 DEF ValuesOf
  <2>2. rest \in Seq(Texts)
    BY <1>1, ValuesOfSeq
  <2>3. rest \in Values("list")
    BY <2>2, ListValues
  <2>4. RPop(c).cell = Update(c, "list", rest)
    BY <1>1 DEF RPop, Result
  <2> HIDE DEF rest
  <2> QED BY <2>1, <2>3, <2>4, UpdateCell, TypeNames
<1>2. CASE vs = <<>>
  BY <1>2 DEF RPop, Result
<1> QED BY <1>1, <1>2

\* A set that does not exist reads as a set of texts.
LEMMA MembersOfSet ==
    ASSUME NEW c, IsCell(c)
    PROVE  MembersOf(c) \subseteq Texts
<1>1. CASE c["set"].in
  <2>1. c["set"].value \in Values("set")
    BY <1>1, ItemParts, TypeNames
  <2> QED BY <1>1, <2>1, SetValues DEF MembersOf
<1>2. CASE ~c["set"].in
  BY <1>2 DEF MembersOf
<1> QED BY <1>1, <1>2

\* SADD leaves a well-formed cell: it is given at least one member.
LEMMA SAddCell ==
    ASSUME NEW c, IsCell(c), NEW ms \in Seq(Texts), ms # <<>>
    PROVE  IsCell(SAdd(c, ms).cell)
<1> DEFINE new == MembersOf(c) \cup Elements(ms)
<1>1. \A i \in DOMAIN ms : ms[i] \in Texts
  OBVIOUS
<1>2. 1 \in DOMAIN ms
  OBVIOUS
<1>3. Elements(ms) \subseteq Texts /\ ms[1] \in Elements(ms)
  BY <1>1, <1>2 DEF Elements
<1>4. new \in Values("set")
  BY <1>3, MembersOfSet, SetValues
<1>5. SAdd(c, ms).cell = Store(c, "set", new)
  BY DEF SAdd, Result
<1> HIDE DEF new
<1> QED BY <1>4, <1>5, StoreCell, TypeNames

\* SREM does: the last member takes the set with it.
LEMMA SRemCell ==
    ASSUME NEW c, IsCell(c), NEW ms
    PROVE  IsCell(SRem(c, ms).cell)
<1> DEFINE left == MembersOf(c) \ Elements(ms)
<1>1. CASE left = {}
  <2>1. SRem(c, ms).cell = Drop(c, "set")
    BY <1>1 DEF SRem, Result
  <2> QED BY <2>1, DropCell, TypeNames
<1>2. CASE left # {}
  <2>1. c["set"].in
    BY <1>2 DEF MembersOf
  <2>2. left \in Values("set")
    BY <1>2, MembersOfSet, SetValues
  <2>3. SRem(c, ms).cell = Update(c, "set", left)
    BY <1>2 DEF SRem, Result
  <2> HIDE DEF left
  <2> QED BY <2>1, <2>2, <2>3, UpdateCell, TypeNames
<1> QED BY <1>1, <1>2

\* The map expire and ttl settle on.
LEMMA FirstExists ==
    ASSUME NEW c, IsCell(c), c # NoItems
    PROVE  \E i \in 1..4 : IsFirst(c, i)
<1>1. \E y \in Types : c[y] # Absent
  BY DEF IsCell, NoItems
<1>2. \E y \in Types : c[y].in
  BY <1>1 DEF IsCell, Items
<1>3. \E i \in 1..4 : c[Order[i]].in
  BY <1>2 DEF Types, Order
<1> QED BY <1>3 DEF IsFirst

\* The type EXPIRE and TTL pick is one under which the key has an item.
LEMMA FirstType ==
    ASSUME NEW c, IsCell(c), c # NoItems
    PROVE  LET y == Order[CHOOSE i \in 1..4 : IsFirst(c, i)]
           IN  y \in Types /\ c[y].in
<1>1. PICK i \in 1..4 : i = (CHOOSE j \in 1..4 : IsFirst(c, j)) /\ IsFirst(c, i)
  BY FirstExists
<1>2. \A j \in 1..4 : Order[j] \in Types
  BY DEF Order, Types
<1>3. c[Order[i]].in
  BY <1>1 DEF IsFirst
<1> QED BY <1>1, <1>2, <1>3

\* EXPIRE leaves a well-formed cell, its deadline wrapped.
LEMMA ExpireCell ==
    ASSUME NEW c, IsCell(c), NEW s \in Int, NEW t \in Int
    PROVE  IsCell(Expire(c, s, t).cell)
<1> DEFINE at == Wrap(t + s * TicksPerSecond, HalfTime)
           y == Order[CHOOSE i \in 1..4 : IsFirst(c, i)]
<1>1. at \in Signed(HalfTime)
  BY WrapSigned, CommandsAssumption
<1>2. CASE c = NoItems
  BY <1>2 DEF Expire, Result
<1>3. CASE c # NoItems
  <2>1. y \in Types /\ c[y].in
    BY <1>3, FirstType
  <2>2. Expire(c, s, t).cell = Postpone(c, y, at)
    BY <1>3 DEF Expire, Result
  <2> HIDE DEF y, at
  <2> QED BY <1>1, <2>1, <2>2, PostponeCell
<1> QED BY <1>2, <1>3

\* TTL does, the expired item it meets removed.
LEMMA TtlCell ==
    ASSUME NEW c, IsCell(c), NEW t
    PROVE  IsCell(Ttl(c, t).cell)
<1> DEFINE y == Order[CHOOSE i \in 1..4 : IsFirst(c, i)]
<1>1. \/ Ttl(c, t).cell = c
      \/ c # NoItems /\ Ttl(c, t).cell = Drop(c, y)
  BY DEF Ttl, Result
<1>2. c # NoItems => y \in Types
  BY FirstType
<1> HIDE DEF y
<1> QED BY <1>1, <1>2, DropCell

-----------------------------------------------------------------------------
(* Type correctness *)

\* A body that leaves its cell well formed leaves the store so.
LEMMA ApplyTyped ==
    ASSUME TypeOK, NEW c, NEW k \in Keys, NEW r, Apply(c, k, r), IsCell(r.cell)
    PROVE  TypeOK'
<1>1. data' = [data EXCEPT ![k] = r.cell] /\ now' = now
  BY DEF Apply
<1>2. \A j \in Keys : data'[j] = IF j = k THEN r.cell ELSE data[j]
  BY <1>1 DEF TypeOK
<1>3. data' = [j \in Keys |-> data'[j]]
  BY <1>1 DEF TypeOK
<1>4. \A j \in Keys : IsCell(data'[j])
  BY <1>2 DEF TypeOK
<1> QED BY <1>1, <1>3, <1>4 DEF TypeOK, IsCell

\* Every call keeps the types.
LEMMA CallTyped ==
    ASSUME TypeOK, NEW k \in Keys, Call(k)
    PROVE  TypeOK'
<1> USE StorageAssumption
<1>1. IsCell(data[k]) /\ IsCell(Swept(k)) /\ now \in Int
  BY SweepCell DEF TypeOK, Swept
<1>2. 1 \in Signed(HalfRange) /\ -1 \in Signed(HalfRange)
  BY CommandsAssumption DEF Signed
<1>3. ASSUME NEW v \in Texts, Set(k, v) PROVE TypeOK'
  BY <1>1, <1>3, SetToCell, ApplyTyped DEF Set
<1>4. CASE Incr(k) \/ Decr(k) \/ \E d \in Steps : IncrByStep(k, d)
  BY <1>1, <1>2, <1>4, IncrByCell, ApplyTyped DEF Incr, Decr, IncrByStep
<1>5. ASSUME NEW f \in Fields, NEW v \in Texts, HSetField(k, f, v) PROVE TypeOK'
  BY <1>1, <1>5, HSetCell, ApplyTyped DEF HSetField
<1>6. ASSUME NEW vs \in Batches, LPushValues(k, vs) \/ SAddMembers(k, vs) \/ SRemMembers(k, vs)
      PROVE  TypeOK'
  BY <1>1, <1>6, LPushCell, SAddCell, SRemCell, ApplyTyped
     DEF LPushValues, SAddMembers, SRemMembers
<1>7. CASE RPopValue(k)
  BY <1>1, <1>7, RPopCell, ApplyTyped DEF RPopValue
<1>8. ASSUME NEW s \in Spans, ExpireKey(k, s) PROVE TypeOK'
  BY <1>1, <1>8, ExpireCell, ApplyTyped DEF ExpireKey
<1>9. CASE TtlOf(k)
  BY <1>1, <1>9, TtlCell, ApplyTyped DEF TtlOf
<1>10. ASSUME NEW c, NEW r, Apply(c, k, r), r.cell = Swept(k) PROVE TypeOK'
  BY <1>1, <1>10, ApplyTyped
<1>11. CASE GetKey(k) \/ HGetAllFields(k) \/ SMembersOf(k) \/ SCardOf(k)
  BY <1>10, <1>11 DEF GetKey, HGetAllFields, SMembersOf, SCardOf, Get, HGetAll, SMembers, SCard,
     Result
<1>12. ASSUME NEW f, HGetField(k, f) \/ SIsMemberOf(k, f) PROVE TypeOK'
  BY <1>10, <1>12 DEF HGetField, SIsMemberOf, HGet, SIsMember, Result
<1>13. ASSUME NEW i, NEW j, LRangeOf(k, i, j) PROVE TypeOK'
  BY <1>10, <1>13 DEF LRangeOf, LRange, Result
<1> QED BY <1>3, <1>4, <1>5, <1>6, <1>7, <1>8, <1>9, <1>11, <1>12, <1>13 DEF Call

\* The empty store is well typed ...
LEMMA InitTyped == Init => TypeOK
<1> SUFFICES ASSUME Init PROVE TypeOK
  OBVIOUS
<1>1. IsCell(NoItems)
  BY DEF IsCell, NoItems, Items
<1> QED BY <1>1, StorageAssumption DEF Init, TypeOK

\* ... and every step keeps it so.
LEMMA NextTyped == TypeOK /\ [Next]_vars => TypeOK'
<1>1. ASSUME TypeOK, UNCHANGED vars PROVE TypeOK'
  BY <1>1 DEF TypeOK, vars, IsCell
<1>2. ASSUME TypeOK, Tick PROVE TypeOK'
  BY <1>2, StorageAssumption DEF TypeOK, Tick, IsCell
<1> QED BY <1>1, <1>2, CallTyped DEF Next

\* No sequence of calls confuses the maps, drives a counter out of the range of
\* long long or leaves an empty hash or set behind.
THEOREM TypeCorrect == Spec => []TypeOK
<1> QED BY InitTyped, NextTyped, PTL DEF Spec

-----------------------------------------------------------------------------
(* The lazy store implements the eager one, for careful clients. *)

Live == [k \in Keys |-> Swept(k)]

\* Only one type is the first.
LEMMA IsFirstUnique ==
    ASSUME NEW c, NEW i \in 1..4, NEW j \in 1..4, IsFirst(c, i), IsFirst(c, j)
    PROVE  i = j
BY DEF IsFirst

\* Removing what has expired now and again later is removing it later.
LEMMA SweepTwice ==
    ASSUME NEW c, IsCell(c), NEW t \in Int, NEW u \in Int, t <= u
    PROVE  Sweep(Sweep(c, t), u) = Sweep(c, u)
<1>1. \A y \in Types : c[y] \in Items(y)
  BY DEF IsCell
<1>2. ASSUME NEW y \in Types
      PROVE  IsExpired(c[y], t) => IsExpired(c[y], u)
  <2> SUFFICES ASSUME IsExpired(c[y], t) PROVE IsExpired(c[y], u)
    OBVIOUS
  <2>1. c[y].at \in Signed(HalfTime)
    <3>1. c[y].in
      BY DEF IsExpired
    <3> QED BY <3>1, ItemParts
  <2> QED BY <2>1, CommandsAssumption DEF IsExpired, Signed
<1>3. ~IsExpired(Absent, u)
  BY DEF IsExpired, Absent
<1> QED BY <1>2, <1>3 DEF Sweep

\* TTL answers the same whether or not expired items were swept first, if none
\* of them hides an item of another map.
LEMMA TtlAgrees ==
    ASSUME NEW c, IsCell(c), NEW t \in Int,
           \A i, j \in 1..4 :
              i < j /\ IsExpired(c[Order[i]], t) => ~Sweep(c, t)[Order[j]].in
    PROVE  /\ Ttl(c, t).reply = Ttl(Sweep(c, t), t).reply
           /\ Sweep(Ttl(c, t).cell, t) = Sweep(Ttl(Sweep(c, t), t).cell, t)
<1> DEFINE s == Sweep(c, t)
           i == CHOOSE n \in 1..4 : IsFirst(c, n)
           y == Order[i]
<1>1. Sweep(s, t) = s
  BY SweepTwice
<1>2. s = [z \in Types |-> IF IsExpired(c[z], t) THEN Absent ELSE c[z]]
  BY DEF Sweep
<1>3. Absent.in = FALSE /\ \A z \in Types : NoItems[z] = Absent
  BY DEF Absent, NoItems
<1>4. CASE c = NoItems
  <2>1. s = NoItems
    BY <1>2, <1>3, <1>4 DEF NoItems
  <2> QED BY <1>4, <2>1
<1>5. CASE c # NoItems
  <2>1. y \in Types /\ c[y].in
    BY <1>5, FirstType
  <2>2. i \in 1..4 /\ IsFirst(c, i)
    <3>1. \E j \in 1..4 : IsFirst(c, j)
      BY <1>5, FirstExists
    <3> QED BY <3>1
  <2>3. \A j \in 1..4 : Order[j] \in Types
    BY DEF Order, Types
  <2>4. \A z \in Types : \E j \in 1..4 : z = Order[j]
    BY DEF Order, Types
  <2>5. CASE IsExpired(c[y], t)
    <3>1. \A j \in 1..4 : ~s[Order[j]].in
      <4>1. ASSUME NEW j \in 1..4, j < i PROVE ~s[Order[j]].in
        <5>1. Order[j] \in Types /\ ~c[Order[j]].in
          <6> HIDE DEF s, i
          <6> QED BY <2>2, <2>3, <4>1 DEF IsFirst
        <5> QED BY <1>2, <1>3, <5>1
      <4>2. ~s[y].in
        BY <1>2, <1>3, <2>1, <2>5
      <4>3. ASSUME NEW j \in 1..4, i < j PROVE ~s[Order[j]].in
        BY <2>2, <2>5, <4>3
      <4> HIDE DEF s, i
      <4>4. \A j \in 1..4 : j < i \/ j = i \/ i < j
        BY <2>2
      <4> QED BY <4>1, <4>2, <4>3, <4>4
    <3>2. \A z \in Types : ~s[z].in
      BY <2>4, <3>1
    <3>3. s = NoItems
      <4>1. IsCell(s)
        BY SweepCell
      <4>2. \A z \in Types : s[z] = Absent
        BY <3>2, <4>1 DEF IsCell, Items
      <4> QED BY <4>1, <4>2 DEF IsCell, NoItems
    <3>4. Ttl(c, t) = Result(Drop(c, y), "number", -2)
      <4>1. c[y].has
        BY <2>5 DEF IsExpired
      <4> QED BY <1>5, <2>5, <4>1 DEF Ttl
    <3>5. Ttl(s, t) = Result(s, "number", -2)
      BY <3>3 DEF Ttl
    <3>6. Sweep(Drop(c, y), t) = s
      <4> HIDE DEF y
      <4>1. ~IsExpired(Absent, t)
        BY DEF IsExpired, Absent
      <4> QED BY <2>1, <2>5, <4>1 DEF Sweep, Drop, IsCell
    <3>7. /\ Ttl(c, t).cell = Drop(c, y) /\ Ttl(c, t).reply = <<"number", -2>>
          /\ Ttl(s, t).cell = s /\ Ttl(s, t).reply = <<"number", -2>>
      BY <3>4, <3>5 DEF Result
    <3> HIDE DEF y, s
    <3> QED BY <1>1, <3>6, <3>7 DEF s
  <2>6. CASE ~IsExpired(c[y], t)
    <3>1. s[y] = c[y]
      BY <1>2, <2>1, <2>6
    <3>2. IsFirst(s, i)
      <4>1. ASSUME NEW j \in 1..(i - 1) PROVE ~s[Order[j]].in
        <5>1. j \in 1..4 /\ ~c[Order[j]].in
          <6> HIDE DEF i
          <6> QED BY <2>2, <4>1 DEF IsFirst
        <5> QED BY <1>2, <1>3, <2>3, <5>1
      <4>2. s[Order[i]].in
        BY <2>1, <3>1
      <4> QED BY <4>1, <4>2 DEF IsFirst
    <3>3. i = CHOOSE j \in 1..4 : IsFirst(s, j)
      <4>1. PICK j \in 1..4 : j = (CHOOSE n \in 1..4 : IsFirst(s, n)) /\ IsFirst(s, j)
        BY <2>2, <3>2
      <4>2. i = j
        BY <2>2, <3>2, <4>1, IsFirstUnique
      <4> QED BY <4>1, <4>2
    <3>4. s # NoItems
      BY <1>3, <2>1, <3>1
    <3> DEFINE R(d) == IF ~c[y].has THEN Result(d, "number", -1)
                       ELSE Result(d, "number", Seconds(Wrap(c[y].at - t, HalfTime)))
    <3>5. Ttl(c, t) = R(c)
      BY <1>5, <2>6 DEF Ttl
    <3>6. Ttl(s, t) = R(s)
      <4>1. Order[CHOOSE j \in 1..4 : IsFirst(s, j)] = y
        BY <3>3
      <4> HIDE DEF s, y, i
      <4> QED BY <2>6, <3>1, <3>4, <4>1 DEF Ttl
    <3>7. R(c).cell = c /\ R(s).cell = s /\ R(c).reply = R(s).reply
      <4> HIDE DEF s, y
      <4> QED BY DEF Result
    <3> HIDE DEF R, s
    <3> QED BY <1>1, <3>5, <3>6, <3>7 DEF s
  <2> QED BY <2>5, <2>6
<1> QED BY <1>4, <1>5

\* The two modules share StoreCommands, so they mean the same by its operators.
LEMMA SameCommands ==
    /\ \A c, t : Eager!Sweep(c, t) = Sweep(c, t)
    /\ Eager!NoItems = NoItems
    /\ \A c, v : Eager!SetTo(c, v) = SetTo(c, v)
    /\ \A c : Eager!Get(c) = Get(c) /\ Eager!HGetAll(c) = HGetAll(c) /\ Eager!RPop(c) = RPop(c)
    /\ \A c, d : Eager!IncrBy(c, d) = IncrBy(c, d)
    /\ \A c, f, v : Eager!HSet(c, f, v) = HSet(c, f, v)
    /\ \A c, f : Eager!HGet(c, f) = HGet(c, f) /\ Eager!SIsMember(c, f) = SIsMember(c, f)
    /\ \A c, vs : /\ Eager!LPush(c, vs) = LPush(c, vs)
                  /\ Eager!SAdd(c, vs) = SAdd(c, vs)
                  /\ Eager!SRem(c, vs) = SRem(c, vs)
    /\ \A c, i, j : Eager!LRange(c, i, j) = LRange(c, i, j)
    /\ \A c : Eager!SMembers(c) = SMembers(c) /\ Eager!SCard(c) = SCard(c)
    /\ \A c, s, t : Eager!Expire(c, s, t) = Expire(c, s, t)
    /\ \A c, t : Eager!Ttl(c, t) = Ttl(c, t)
<1> USE DEF Eager!Result, Result, Eager!Put, Put, Eager!Update, Update, Eager!Store, Store,
        Eager!Drop, Drop, Eager!Fresh, Fresh, Eager!Absent, Absent, Eager!Dec, Dec,
        Eager!Wrap, Wrap, Eager!IsExpired, IsExpired, Eager!NoItems, NoItems, Eager!Types, Types,
        Eager!Order, Order
<1>1. \A c, t : Eager!Sweep(c, t) = Sweep(c, t)
  BY DEF Eager!Sweep, Sweep
<1>2. Eager!NoItems = NoItems
  OBVIOUS
<1>3. \A c, v : Eager!SetTo(c, v) = SetTo(c, v)
  BY DEF Eager!SetTo, SetTo
<1>4. \A c : Eager!Get(c) = Get(c) /\ Eager!HGetAll(c) = HGetAll(c) /\ Eager!RPop(c) = RPop(c)
  BY DEF Eager!Get, Get, Eager!HGetAll, HGetAll, Eager!FieldsOf, FieldsOf, Eager!RPop, RPop,
     Eager!ValuesOf, ValuesOf
<1>5. \A c, d : Eager!IncrBy(c, d) = IncrBy(c, d)
  BY DEF Eager!IncrBy, IncrBy
<1>6. \A c, f, v : Eager!HSet(c, f, v) = HSet(c, f, v)
  BY DEF Eager!HSet, HSet, Eager!FieldsOf, FieldsOf, Eager!WithField, WithField
<1>7. \A c, f : Eager!HGet(c, f) = HGet(c, f) /\ Eager!SIsMember(c, f) = SIsMember(c, f)
  BY DEF Eager!HGet, HGet, Eager!FieldsOf, FieldsOf, Eager!SIsMember, SIsMember,
     Eager!MembersOf, MembersOf
<1>8. \A c, vs : /\ Eager!LPush(c, vs) = LPush(c, vs)
                 /\ Eager!SAdd(c, vs) = SAdd(c, vs)
                 /\ Eager!SRem(c, vs) = SRem(c, vs)
  BY DEF Eager!LPush, LPush, Eager!ValuesOf, ValuesOf, Eager!SAdd, SAdd, Eager!SRem, SRem,
     Eager!MembersOf, MembersOf, Eager!Elements, Elements, Eager!Cardinality, Cardinality
<1>9. \A c, i, j : Eager!LRange(c, i, j) = LRange(c, i, j)
  BY DEF Eager!LRange, LRange, Eager!ValuesOf, ValuesOf, Eager!Slice, Slice, Eager!Clamp, Clamp
<1>10. \A c : Eager!SMembers(c) = SMembers(c) /\ Eager!SCard(c) = SCard(c)
  BY DEF Eager!SMembers, SMembers, Eager!SCard, SCard, Eager!MembersOf, MembersOf, Eager!Cardinality, Cardinality
<1>11. \A c, s, t : Eager!Expire(c, s, t) = Expire(c, s, t)
  BY DEF Eager!Expire, Expire, Eager!IsFirst, IsFirst, Eager!Postpone, Postpone
<1>12. \A c, t : Eager!Ttl(c, t) = Ttl(c, t)
  BY DEF Eager!Ttl, Ttl, Eager!IsFirst, IsFirst, Eager!Seconds, Seconds
<1> QED BY <1>1, <1>2, <1>3, <1>4, <1>5, <1>6, <1>7, <1>8, <1>9, <1>10, <1>11, <1>12

\* A call that changes data as the eager call changes Live.
LEMMA AnswerStep ==
    ASSUME TypeOK, NEW c, NEW k \in Keys, NEW r, Apply(c, k, r),
           NEW e, e.reply = r.reply, Sweep(e.cell, now) = Sweep(r.cell, now)
    PROVE  Eager!Answer(k, e)
<1>1. data' = [data EXCEPT ![k] = r.cell] /\ now' = now /\ reply' = r.reply
  BY DEF Apply
<1>2. \A j \in Keys : data'[j] = IF j = k THEN r.cell ELSE data[j]
  BY <1>1 DEF TypeOK
<1>3. \A j \in Keys : Swept(j)' = IF j = k THEN Sweep(e.cell, now) ELSE Swept(j)
  BY <1>1, <1>2 DEF Swept
<1>4. [j \in Keys |-> Swept(j)]' = [[j \in Keys |-> Swept(j)] EXCEPT ![k] = Sweep(e.cell, now)]
  BY <1>3
<1> QED BY <1>1, <1>4, SameCommands DEF Eager!Answer

\* A call on the lazy maps is the same call, with the same answer, on the eager store.
LEMMA CallRefines ==
    ASSUME TypeOK, Clients = "careful", NEW k \in Keys, Call(k)
    PROVE  Eager!Call(k)
<1> DEFINE s == Swept(k)
<1>1. Live[k] = s
  BY DEF Live
<1>2. ASSUME NEW c, NEW r, Apply(c, k, r) PROVE Eager!Answer(k, r)
  BY <1>2, AnswerStep
<1>3. \A c, r : Apply(c, k, r) => Eager!Answer(k, r)
  BY <1>2
<1> HIDE DEF s
<1>4. CASE \E v \in Texts : Set(k, v)
  BY <1>1, <1>3, <1>4, SameCommands DEF Set, s, Live, Eager!Call
<1>5. CASE GetKey(k) \/ HGetAllFields(k) \/ RPopValue(k) \/ SMembersOf(k) \/ SCardOf(k)
  BY <1>1, <1>3, <1>5, SameCommands
     DEF GetKey, HGetAllFields, RPopValue, SMembersOf, SCardOf, s, Live, Eager!Call
<1>6. CASE Incr(k) \/ Decr(k) \/ \E d \in Steps : IncrByStep(k, d)
  <2>1. \E d \in Steps \cup {1, -1} : Eager!Answer(k, IncrBy(s, d))
    BY <1>3, <1>6 DEF Incr, Decr, IncrByStep, s
  <2> QED BY <1>1, <2>1, SameCommands DEF Live, Eager!Call
<1>7. CASE \E f \in Fields, v \in Texts : HSetField(k, f, v)
  BY <1>1, <1>3, <1>7, SameCommands DEF HSetField, s, Live, Eager!Call
<1>8. CASE \E f \in Fields : HGetField(k, f)
  BY <1>1, <1>3, <1>8, SameCommands DEF HGetField, s, Live, Eager!Call
<1>9. CASE \E vs \in Batches : LPushValues(k, vs) \/ SAddMembers(k, vs) \/ SRemMembers(k, vs)
  BY <1>1, <1>3, <1>9, SameCommands DEF LPushValues, SAddMembers, SRemMembers, s, Live, Eager!Call
<1>10. CASE \E i, j \in Indices : LRangeOf(k, i, j)
  BY <1>1, <1>3, <1>10, SameCommands DEF LRangeOf, s, Live, Eager!Call
<1>11. CASE \E m \in Texts : SIsMemberOf(k, m)
  BY <1>1, <1>3, <1>11, SameCommands DEF SIsMemberOf, s, Live, Eager!Call
<1>12. CASE \E x \in Spans : ExpireKey(k, x)
  <2>1. PICK x \in Spans : Apply("expire", k, Expire(s, x, now))
    BY <1>12 DEF ExpireKey, Careful, s
  <2> QED BY <1>1, <1>3, <2>1, SameCommands DEF Live, Eager!Call
<1>13. CASE TtlOf(k)
  <2>1. /\ IsCell(data[k]) /\ now \in Int
        /\ \A i, j \in 1..4 :
              i < j /\ IsExpired(data[k][Order[i]], now) => ~Sweep(data[k], now)[Order[j]].in
    BY <1>13 DEF TtlOf, Careful, TypeOK, Swept
  <2>2. /\ Ttl(data[k], now).reply = Ttl(s, now).reply
        /\ Sweep(Ttl(data[k], now).cell, now) = Sweep(Ttl(s, now).cell, now)
    BY <2>1, TtlAgrees DEF s, Swept
  <2>3. Eager!Answer(k, Ttl(s, now))
    BY <1>13, <2>2, AnswerStep DEF TtlOf
  <2> QED BY <1>1, <2>3, SameCommands DEF Live, Eager!Call
<1> QED BY <1>4, <1>5, <1>6, <1>7, <1>8, <1>9, <1>10, <1>11, <1>12, <1>13 DEF Call

\* Time passing for the lazy maps is time passing for the eager store.
LEMMA TickRefines ==
    ASSUME TypeOK, Tick
    PROVE  Eager!Tick
<1>1. \A k \in Keys : Sweep(data[k], now + 1) = Sweep(Sweep(data[k], now), now + 1)
  BY SweepTwice DEF TypeOK
<1>2. [k \in Keys |-> Swept(k)]' = [k \in Keys |-> Sweep(Swept(k), now + 1)]
  BY <1>1 DEF Tick, Swept
<1> QED BY <1>2, SameCommands DEF Tick, Eager!Tick

\* Both stores start empty.
LEMMA InitRefines == Init => Eager!Init
<1> SUFFICES ASSUME Init PROVE Eager!Init
  OBVIOUS
<1>1. \A t : Sweep(NoItems, t) = NoItems
  BY DEF Sweep, NoItems, IsExpired, Absent
<1> QED BY <1>1, SameCommands DEF Init, Eager!Init, Swept

\* For careful clients expiry on access cannot be told from expiry on time.
THEOREM LazyIsEager == Clients = "careful" => (Spec => ImplementsExpiringStore)
<1> SUFFICES ASSUME Clients = "careful" PROVE Spec => Eager!Spec
  BY DEF ImplementsExpiringStore
<1>1. TypeOK /\ [Next]_vars => [Eager!Next]_(Eager!vars)
  <2>1. CASE UNCHANGED vars
    BY <2>1 DEF vars, Eager!vars, Swept
  <2>2. CASE TypeOK /\ Tick
    BY <2>2, TickRefines DEF Eager!Next
  <2>3. CASE TypeOK /\ \E k \in Keys : Call(k)
    BY <2>3, CallRefines DEF Eager!Next
  <2> QED BY <2>1, <2>2, <2>3 DEF Next
<1> QED BY <1>1, InitRefines, TypeCorrect, PTL DEF Spec, Eager!Spec

-----------------------------------------------------------------------------
(* Positions in lists *)

\* A position in the list is where the clamp leaves it.
LEMMA ClampInRange ==
    ASSUME NEW n \in Nat \ {0}, NEW i, InRange(i, n)
    PROVE  LET p == IF i < 0 THEN n + i ELSE i
           IN  p \in 0..(n - 1) /\ Clamp(p, n) = p
BY DEF InRange, Clamp

\* LRANGE's two positions, each from either end of the list, for lists and
\* positions of any size (lrange).
THEOREM RangesAreSlices == Spec => []RangeIsSlice
<1>1. TypeOK => RangeIsSlice
  <2> SUFFICES ASSUME TypeOK, NEW k \in Keys, data[k]["list"].in,
                      NEW i \in Indices, NEW j \in Indices,
                      InRange(i, Len(data[k]["list"].value)), InRange(j, Len(data[k]["list"].value))
               PROVE  LET s == data[k]["list"].value
                          n == Len(s)
                          place(x) == IF x < 0 THEN n + x ELSE x
                      IN  /\ Len(Slice(s, i, j)) = (IF place(j) < place(i) THEN 0
                                                    ELSE place(j) - place(i) + 1)
                          /\ \A x \in DOMAIN Slice(s, i, j) : Slice(s, i, j)[x] = s[place(i) + x]
    BY DEF RangeIsSlice
  <2> DEFINE s == data[k]["list"].value
             n == Len(s)
             a == IF i < 0 THEN n + i ELSE i
             b == IF j < 0 THEN n + j ELSE j
  <2>1. s \in Seq(Texts)
    BY TypeNames, ItemParts, ListValues DEF TypeOK
  <2>2. n \in Nat \ {0}
    BY <2>1 DEF InRange
  <2>3. a \in 0..(n - 1) /\ Clamp(a, n) = a /\ b \in 0..(n - 1) /\ Clamp(b, n) = b
    BY <2>2, ClampInRange
  <2>4. Slice(s, i, j) = SubSeq(s, a + 1, b + 1)
    BY <2>2, <2>3 DEF Slice
  <2> HIDE DEF s, n, a, b
  <2>5. \A x \in (a + 1)..(b + 1) : s[x] \in Texts
    BY <2>1, <2>2, <2>3 DEF n
  <2>6. /\ Len(SubSeq(s, a + 1, b + 1)) = IF b < a THEN 0 ELSE b - a + 1
        /\ \A x \in 1..Len(SubSeq(s, a + 1, b + 1)) : SubSeq(s, a + 1, b + 1)[x] = s[a + x]
        /\ DOMAIN SubSeq(s, a + 1, b + 1) = 1..Len(SubSeq(s, a + 1, b + 1))
    <3> DEFINE m == a + 1
               p == b + 1
    <3>1. m \in Int /\ p \in Int /\ \A x \in m..p : s[x] \in Texts
      BY <2>2, <2>3, <2>5
    <3> HIDE DEF m, p
    <3>2. /\ Len(SubSeq(s, m, p)) = IF m <= p THEN p - m + 1 ELSE 0
          /\ \A x \in 1..(p - m + 1) : SubSeq(s, m, p)[x] = s[m + x - 1]
          /\ SubSeq(s, m, p) \in Seq(Texts)
      BY <3>1, SubSeqProperties
    <3>3. DOMAIN SubSeq(s, m, p) = 1..Len(SubSeq(s, m, p))
      BY <3>2
    <3> QED BY <2>2, <2>3, <3>2, <3>3 DEF m, p
  <2> QED BY <2>4, <2>6 DEF a, b, n, s
<1> QED BY <1>1, TypeCorrect, PTL

-----------------------------------------------------------------------------
(* Deadlines *)

\* What is in both cells has the same deadline in both.
Keeps(c, d) ==
    \A y \in Types : c[y].in /\ d[y].in => d[y].has = c[y].has /\ d[y].at = c[y].at

\* The bodies that store under a key that may be there already.
LEMMA StoreKeeps ==
    ASSUME NEW c, IsCell(c), NEW y \in Types, NEW v
    PROVE  Keeps(c, Store(c, y, v)) /\ (c[y].in => Keeps(c, Update(c, y, v)))
<1>1. CASE c[y].in
  <2>1. \A z \in Types : Update(c, y, v)[z] = IF z = y THEN [c[y] EXCEPT !.value = v] ELSE c[z]
    BY DEF IsCell, Update
  <2>2. c[y] \in [in : {TRUE}, value : Values(y), has : BOOLEAN, at : Signed(HalfTime)]
    BY <1>1, ItemParts
  <2>3. [c[y] EXCEPT !.value = v].has = c[y].has /\ [c[y] EXCEPT !.value = v].at = c[y].at
    BY <2>2
  <2>4. Keeps(c, Update(c, y, v))
    BY <2>1, <2>3 DEF Keeps
  <2> QED BY <1>1, <2>4 DEF Store
<1>2. CASE ~c[y].in
  <2>1. \A z \in Types \ {y} : Put(c, y, v)[z] = c[z]
    BY DEF IsCell, Put
  <2> QED BY <1>2, <2>1 DEF Keeps, Store
<1> QED BY <1>1, <1>2

LEMMA DropKeeps ==
    ASSUME NEW c, IsCell(c), NEW y \in Types
    PROVE  Keeps(c, Drop(c, y))
<1>1. \A z \in Types : Drop(c, y)[z] = IF z = y THEN Absent ELSE c[z]
  BY DEF IsCell, Drop
<1> QED BY <1>1 DEF Keeps, Absent

\* SET and the counters write the string anew; it is the only item they touch.
LEMMA PutKeepsOthers ==
    ASSUME NEW c, IsCell(c), NEW v, NEW y \in Types \ {"string"}
    PROVE  Put(c, "string", v)[y] = c[y]
BY DEF IsCell, Put

\* The step DeadlinesKept speaks of.
KeepsDeadlines ==
    \A k \in Keys, y \in Types :
          (Swept(k)[y].in /\ data'[k][y].in /\ last'.call # "expire")
             => \/ <<data'[k][y].has, data'[k][y].at>> = <<data[k][y].has, data[k][y].at>>
                \/ y = "string" /\ last'.call = "set"
                \/ y = "string" /\ last'.call \in {"incr", "decr", "incrby"}
                                /\ ~data[k][y].value.parses

\* What remove_expired leaves is as it was.
LEMMA SweptIs ==
    ASSUME NEW k \in Keys, NEW y \in Types, Swept(k)[y].in
    PROVE  Swept(k)[y] = data[k][y]
BY DEF Swept, Sweep, Absent

\* A call touches one key; what it does to the others' items is nothing.
LEMMA ApplyKeeps ==
    ASSUME TypeOK, NEW c, NEW k \in Keys, NEW r, Apply(c, k, r),
           \A y \in Types : Swept(k)[y].in /\ r.cell[y].in /\ c # "expire" =>
               \/ r.cell[y].has = data[k][y].has /\ r.cell[y].at = data[k][y].at
               \/ y = "string" /\ c = "set"
               \/ y = "string" /\ c \in {"incr", "decr", "incrby"} /\ ~data[k][y].value.parses
    PROVE  KeepsDeadlines
<1>1. last'.call = c /\ data'[k] = r.cell /\ \A j \in Keys \ {k} : data'[j] = data[j]
  BY DEF Apply, TypeOK
<1> SUFFICES ASSUME NEW j \in Keys, NEW y \in Types,
                    Swept(j)[y].in, data'[j][y].in, last'.call # "expire"
             PROVE  \/ <<data'[j][y].has, data'[j][y].at>> = <<data[j][y].has, data[j][y].at>>
                    \/ y = "string" /\ last'.call = "set"
                    \/ y = "string" /\ last'.call \in {"incr", "decr", "incrby"}
                                    /\ ~data[j][y].value.parses
  BY DEF KeepsDeadlines
<1>2. CASE j = k
  BY <1>1, <1>2
<1>3. CASE j # k
  BY <1>1, <1>3
<1> QED BY <1>2, <1>3

LEMMA KeepingCall ==
    ASSUME TypeOK, NEW c, NEW k \in Keys, NEW r, Apply(c, k, r), Keeps(Swept(k), r.cell)
    PROVE  KeepsDeadlines
<1>1. \A y \in Types : Swept(k)[y].in /\ r.cell[y].in =>
          r.cell[y].has = data[k][y].has /\ r.cell[y].at = data[k][y].at
  BY SweptIs DEF Keeps
<1> QED BY <1>1, ApplyKeeps

LEMMA CounterKeeps ==
    ASSUME TypeOK, NEW k \in Keys, NEW c \in {"incr", "decr", "incrby"}, NEW d,
           Apply(c, k, IncrBy(Swept(k), d))
    PROVE  KeepsDeadlines
<1> DEFINE w == Swept(k)
           r == IncrBy(w, d)
<1>1. IsCell(w) /\ "string" \in Types
  BY SweepCell, TypeNames DEF TypeOK, Swept
<1>2. CASE w["string"].in /\ w["string"].value.parses
  <2>1. r.cell = Update(w, "string", Dec(Wrap(w["string"].value.n + d, HalfRange)))
    BY <1>2 DEF IncrBy, Result
  <2> QED BY <1>1, <1>2, <2>1, StoreKeeps, KeepingCall
<1>3. CASE ~(w["string"].in /\ w["string"].value.parses)
  <2>1. r.cell = Put(w, "string", Dec(d))
    BY <1>3 DEF IncrBy, Result
  <2>2. \A y \in Types \ {"string"} : r.cell[y] = w[y]
    BY <1>1, <2>1, PutKeepsOthers
  <2>3. w["string"].in => ~data[k]["string"].value.parses
    BY <1>1, <1>3, SweptIs
  <2>4. \A y \in Types : w[y].in /\ r.cell[y].in =>
            \/ r.cell[y].has = data[k][y].has /\ r.cell[y].at = data[k][y].at
            \/ y = "string" /\ ~data[k][y].value.parses
    BY <2>2, <2>3, SweptIs
  <2> HIDE DEF w, r
  <2>5. Apply(c, k, r)
    BY DEF w, r
  <2> QED BY <2>4, <2>5, ApplyKeeps DEF w
<1> QED BY <1>2, <1>3

LEMMA CallKeeps ==
    ASSUME TypeOK, NEW k \in Keys, Call(k)
    PROVE  KeepsDeadlines
<1> DEFINE w == Swept(k)
<1>1. IsCell(w) /\ IsCell(data[k])
  BY SweepCell DEF TypeOK, Swept
<1>2. ASSUME NEW v, Set(k, v) PROVE KeepsDeadlines
  <2>1. SetTo(w, v).cell = Put(w, "string", v)
    BY DEF SetTo, Result
  <2>2. \A y \in Types \ {"string"} : Put(w, "string", v)[y] = w[y]
    BY <1>1, PutKeepsOthers
  <2>3. \A y \in Types : w[y].in /\ SetTo(w, v).cell[y].in =>
            \/ /\ SetTo(w, v).cell[y].has = data[k][y].has
               /\ SetTo(w, v).cell[y].at = data[k][y].at
            \/ y = "string"
    BY <2>1, <2>2, SweptIs
  <2> QED BY <1>2, <2>3, ApplyKeeps DEF Set
<1>3. CASE Incr(k) \/ Decr(k) \/ \E d \in Steps : IncrByStep(k, d)
  BY <1>3, CounterKeeps DEF Incr, Decr, IncrByStep
<1>4. ASSUME NEW c, NEW r, Apply(c, k, r), NEW y \in Types, NEW v,
             r.cell = w \/ r.cell = Drop(w, y) \/ r.cell = Store(w, y, v)
             \/ (w[y].in /\ r.cell = Update(w, y, v))
      PROVE  KeepsDeadlines
  <2>1. Keeps(w, w)
    BY DEF Keeps
  <2> QED BY <1>1, <1>4, <2>1, StoreKeeps, DropKeeps, KeepingCall
<1>5. ASSUME NEW f, NEW v, HSetField(k, f, v) PROVE KeepsDeadlines
  <2>1. HSet(w, f, v).cell = Store(w, "hash", WithField(FieldsOf(w), f, v))
    BY DEF HSet, Result
  <2> QED BY <1>4, <1>5, <2>1, TypeNames DEF HSetField
<1>6. ASSUME NEW vs, LPushValues(k, vs) PROVE KeepsDeadlines
  <2>1. LPush(w, vs).cell = Store(w, "list", vs \o ValuesOf(w))
    BY DEF LPush, Result
  <2> QED BY <1>4, <1>6, <2>1, TypeNames DEF LPushValues
<1>7. ASSUME NEW ms, SAddMembers(k, ms) PROVE KeepsDeadlines
  <2>1. SAdd(w, ms).cell = Store(w, "set", MembersOf(w) \cup Elements(ms))
    BY DEF SAdd, Result
  <2> QED BY <1>4, <1>7, <2>1, TypeNames DEF SAddMembers
<1>8. ASSUME NEW ms, SRemMembers(k, ms) PROVE KeepsDeadlines
  <2>1. \/ SRem(w, ms).cell = Drop(w, "set")
        \/ w["set"].in /\ SRem(w, ms).cell = Update(w, "set", MembersOf(w) \ Elements(ms))
    BY DEF SRem, Result, MembersOf
  <2> QED BY <1>4, <1>8, <2>1, TypeNames DEF SRemMembers
<1>9. CASE RPopValue(k)
  <2>1. \/ RPop(w).cell = w
        \/ w["list"].in /\ \E v : RPop(w).cell = Update(w, "list", v)
    BY DEF RPop, Result, ValuesOf
  <2> QED BY <1>4, <1>9, <2>1, TypeNames DEF RPopValue
<1>10. ASSUME NEW s, ExpireKey(k, s) PROVE KeepsDeadlines
  BY <1>10, ApplyKeeps DEF ExpireKey
<1>11. CASE TtlOf(k)
  <2>1. \/ Ttl(data[k], now).cell = data[k]
        \/ \E y \in Types : Ttl(data[k], now).cell = Drop(data[k], y)
    <3> DEFINE y == Order[CHOOSE i \in 1..4 : IsFirst(data[k], i)]
    <3>1. CASE data[k] = NoItems
      BY <3>1 DEF Ttl, Result
    <3>2. CASE data[k] # NoItems
      <4>1. y \in Types
        BY <1>1, <3>2, FirstType
      <4> QED BY <3>2, <4>1 DEF Ttl, Result
    <3> QED BY <3>1, <3>2
  <2>2. \A y \in Types : Swept(k)[y].in => Swept(k)[y] = data[k][y]
    BY SweptIs
  <2>3. \A y \in Types : data[k][y].in /\ Ttl(data[k], now).cell[y].in =>
            /\ Ttl(data[k], now).cell[y].has = data[k][y].has
            /\ Ttl(data[k], now).cell[y].at = data[k][y].at
    BY <1>1, <2>1, DropKeeps DEF Keeps
  <2> QED BY <1>11, <2>2, <2>3, ApplyKeeps DEF TtlOf
<1>12. CASE GetKey(k) \/ HGetAllFields(k) \/ SMembersOf(k) \/ SCardOf(k)
  BY <1>4, <1>12, TypeNames DEF GetKey, HGetAllFields, SMembersOf, SCardOf, Get, HGetAll,
     SMembers, SCard, Result
<1>13. ASSUME NEW f, HGetField(k, f) \/ SIsMemberOf(k, f) PROVE KeepsDeadlines
  BY <1>4, <1>13, TypeNames DEF HGetField, SIsMemberOf, HGet, SIsMember, Result
<1>14. ASSUME NEW i, NEW j, LRangeOf(k, i, j) PROVE KeepsDeadlines
  BY <1>4, <1>14, TypeNames DEF LRangeOf, LRange, Result
<1> QED BY <1>2, <1>3, <1>5, <1>6, <1>7, <1>8, <1>9, <1>10, <1>11, <1>12, <1>13, <1>14 DEF Call

\* No call moves a deadline but EXPIRE, SET, and a counter call on a text that
\* is no number (the item replaced in storage.cpp's incrBy).
THEOREM DeadlinesStay == Spec => DeadlinesKept
<1>1. TypeOK /\ [Next]_vars => [KeepsDeadlines]_vars
  <2>1. CASE TypeOK /\ Tick
    BY <2>1 DEF KeepsDeadlines, Tick
  <2>2. CASE TypeOK /\ \E k \in Keys : Call(k)
    BY <2>2, CallKeeps
  <2> QED BY <2>1, <2>2 DEF Next
<1> QED BY <1>1, TypeCorrect, PTL DEF Spec, DeadlinesKept, KeepsDeadlines
=============================================================================
