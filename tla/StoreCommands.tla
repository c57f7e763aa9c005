---------------------------- MODULE StoreCommands ----------------------------
(***************************************************************************)
(* What each Storage call does to the items of one key, and what it        *)
(* answers: the bodies of the methods of RediCraft-Server/src/storage.cpp. *)
(*                                                                         *)
(* A cell is what the four maps hold for one key.  The bodies are written  *)
(* as functions from a cell to a cell and a reply, so that the code, which *)
(* erases expired items when it comes across them, and the store it stands *)
(* for, where they are gone at once, can share them.                       *)
(***************************************************************************)
EXTENDS Integers, Sequences, FiniteSets

CONSTANTS TicksPerSecond,  \* of the steady clock
          HalfRange,       \* long long is -HalfRange .. HalfRange - 1
          HalfTime,        \* so is the tick count of a time_point, with HalfTime
          Nil              \* no value: "(nil)" on the wire

ASSUME CommandsAssumption ==
    /\ TicksPerSecond \in Nat \ {0}
    /\ HalfRange \in Nat \ {0, 1}
    /\ HalfTime \in Nat \ {0}

\* The maps in the order in which remove_expired, expire and ttl visit them.
Order == <<"string", "hash", "list", "set">>
Types == {"string", "hash", "list", "set"}

\* DataItem, HashItem, ListItem and SetItem: a payload, has_expiry and expiry.
Absent   == [in |-> FALSE, value |-> Nil, has |-> FALSE, at |-> 0]
Fresh(v) == [in |-> TRUE, value |-> v, has |-> FALSE, at |-> 0]
NoItems  == [y \in Types |-> Absent]

\* Two's complement: what the builds do on overflow.
Wrap(n, half) == ((n + half) % (2 * half)) - half

\* A stored text: whether std::stoll reads a number at its start, which one,
\* and what follows it.
Dec(n) == [parses |-> TRUE, n |-> n, tail |-> ""]

\* A reply is tagged with its form.
Result(cell, form, reply) == [cell |-> cell, reply |-> <<form, reply>>]

\* A deadline at or before the epoch of the clock never passes.
IsExpired(item, now) == item.in /\ item.has /\ item.at > 0 /\ now > item.at

\* remove_expired for the key of this cell.
Sweep(cell, now) == [y \in Types |-> IF IsExpired(cell[y], now) THEN Absent ELSE cell[y]]

-----------------------------------------------------------------------------
\* A new item, without deadline; and a new payload for an item that is there.
Put(cell, y, v)    == [cell EXCEPT ![y] = Fresh(v)]
Update(cell, y, v) == [cell EXCEPT ![y].value = v]
\* Mutant: a new item replaces the one that is there.
Store_Replaces(cell, y, v) == Put(cell, y, v)

Store(cell, y, v)  == IF cell[y].in THEN Update(cell, y, v) ELSE Put(cell, y, v)
Drop(cell, y)      == [cell EXCEPT ![y] = Absent]

(* Strings *)

SetTo(cell, v) == Result(Put(cell, "string", v), "done", TRUE)

Get(cell) == Result(cell, "text", cell["string"].value)

\* A value that is no number is replaced, deadline included.
IncrBy(cell, d) ==
    LET s == cell["string"]
        n == Wrap(s.value.n + d, HalfRange)
    IN  IF s.in /\ s.value.parses
        THEN Result(Update(cell, "string", Dec(n)), "number", n)
        ELSE Result(Put(cell, "string", Dec(d)), "number", d)

(* Hashes *)

\* fields[f] = v
WithField(fields, f, v) ==
    [g \in {f} \cup DOMAIN fields |-> IF g = f THEN v ELSE fields[g]]

FieldsOf(cell) == IF cell["hash"].in THEN cell["hash"].value ELSE <<>>

HSet(cell, f, v) == Result(Store(cell, "hash", WithField(FieldsOf(cell), f, v)), "done", TRUE)
HGet(cell, f)    == Result(cell, "text", IF f \in DOMAIN FieldsOf(cell) THEN FieldsOf(cell)[f]
                                         ELSE Nil)
HGetAll(cell)    == Result(cell, "fields", FieldsOf(cell))

(* Lists *)

ValuesOf(cell) == IF cell["list"].in THEN cell["list"].value ELSE <<>>

LPush(cell, vs) ==
    Result(Store(cell, "list", vs \o ValuesOf(cell)), "number", Len(vs) + Len(ValuesOf(cell)))

\* The last value leaves an empty list behind.
RPop(cell) ==
    LET vs == ValuesOf(cell)
    IN  IF vs = <<>> THEN Result(cell, "text", Nil)
        ELSE Result(Update(cell, "list", SubSeq(vs, 1, Len(vs) - 1)), "text", vs[Len(vs)])

Clamp(i, n) == IF i < 0 THEN 0 ELSE IF i > n - 1 THEN n - 1 ELSE i

\* Mutant: negative positions are not taken from the end.
Slice_FromStart(s, start, end) ==
    LET n == Len(s)
    IN  IF n = 0 THEN <<>> ELSE SubSeq(s, Clamp(start, n) + 1, Clamp(end, n) + 1)

\* Positions count from 0, negative ones from the end.
Slice(s, start, end) ==
    LET n == Len(s)
        Position(i) == Clamp(IF i < 0 THEN n + i ELSE i, n)
    IN  IF n = 0 THEN <<>> ELSE SubSeq(s, Position(start) + 1, Position(end) + 1)

LRange(cell, start, end) == Result(cell, "values", Slice(ValuesOf(cell), start, end))

(* Sets *)

MembersOf(cell) == IF cell["set"].in THEN cell["set"].value ELSE {}
Elements(ms)    == {ms[i] : i \in DOMAIN ms}

\* A new set counts every argument, an existing one those it did not have.
SAdd(cell, ms) ==
    Result(Store(cell, "set", MembersOf(cell) \cup Elements(ms)), "number",
           IF cell["set"].in THEN Cardinality(Elements(ms) \ MembersOf(cell)) ELSE Len(ms))

\* Mutant: the emptied set stays.
SRem_KeepsEmpty(cell, ms) ==
    LET left == MembersOf(cell) \ Elements(ms)
    IN  Result(IF cell["set"].in THEN Update(cell, "set", left) ELSE cell, "number",
               Cardinality(MembersOf(cell) \cap Elements(ms)))

\* A set that loses its last member goes.
SRem(cell, ms) ==
    LET left == MembersOf(cell) \ Elements(ms)
    IN  Result(IF left = {} THEN Drop(cell, "set") ELSE Update(cell, "set", left), "number",
               Cardinality(MembersOf(cell) \cap Elements(ms)))

SIsMember(cell, m) == Result(cell, "truth", m \in MembersOf(cell))
SMembers(cell)     == Result(cell, "members", MembersOf(cell))
SCard(cell)        == Result(cell, "number", Cardinality(MembersOf(cell)))

(* Deadlines: both calls stop at the first map that has the key. *)

IsFirst(cell, i) == cell[Order[i]].in /\ \A j \in 1..(i - 1) : ~cell[Order[j]].in

Postpone(cell, y, at) == [cell EXCEPT ![y] = [@ EXCEPT !.has = TRUE, !.at = at]]

Expire(cell, seconds, now) ==
    LET at == Wrap(now + seconds * TicksPerSecond, HalfTime)
    IN  IF cell = NoItems THEN Result(cell, "truth", FALSE)
        ELSE LET y == Order[CHOOSE i \in 1..4 : IsFirst(cell, i)]
             IN  Result(Postpone(cell, y, at), "truth", TRUE)

\* duration_cast to seconds rounds towards zero.
Seconds(ticks) == IF ticks < 0 THEN -((-ticks) \div TicksPerSecond) ELSE ticks \div TicksPerSecond

Ttl(cell, now) ==
    IF cell = NoItems THEN Result(cell, "number", -2)
    ELSE LET y == Order[CHOOSE i \in 1..4 : IsFirst(cell, i)]
             item == cell[y]
         IN  IF ~item.has THEN Result(cell, "number", -1)
             ELSE IF IsExpired(item, now) THEN Result(Drop(cell, y), "number", -2)
             ELSE Result(cell, "number", Seconds(Wrap(item.at - now, HalfTime)))
=============================================================================
