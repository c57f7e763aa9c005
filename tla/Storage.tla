------------------------------- MODULE Storage -------------------------------
(***************************************************************************)
(* RediCraft-Server/src/storage.cpp, call by call: expired items stay in   *)
(* the maps until a call on their key comes across them.                   *)
(*                                                                         *)
(* Calls are atomic here.  That is what a process with a single thread and *)
(* elided locks does (see StorageLocks for the others: with working locks  *)
(* a call that changes data never gets as far as its body).                *)
(***************************************************************************)
EXTENDS StoreCommands

CONSTANTS Keys, StartTime, MaxTime, Texts, Fields, Batches, Steps, Spans, Indices,
          Clients    \* "any", or "careful" (see Careful)

\* The values of a signed machine integer.
Signed(half) == -half..(half - 1)

ASSUME StorageAssumption ==
    /\ StartTime \in Nat /\ MaxTime \in Nat
    /\ \A v \in Texts : v.n \in Int
    /\ Steps \subseteq Signed(HalfRange)
    /\ Spans \subseteq Int
    /\ \A vs \in Batches : vs \in Seq(Texts) /\ vs # <<>>
    /\ Clients \in {"any", "careful"}

VARIABLES data,    \* data[k]: what the four maps hold under k
          now,     \* steady_clock::now()
          reply,   \* what the last call returned
          last     \* the last call, and whether its key had nothing but expired items

vars == <<data, now, reply, last>>

Init ==
    /\ data = [k \in Keys |-> NoItems]
    /\ now = StartTime
    /\ reply = <<"none", Nil>>
    /\ last = [call |-> "none", gone |-> TRUE]

Apply(c, k, r) ==
    /\ data' = [data EXCEPT ![k] = r.cell]
    /\ reply' = r.reply
    /\ last' = [call |-> c, gone |-> Sweep(data[k], now) = NoItems]
    /\ now' = now

\* The cell a method works on after remove_expired(key).
Swept(k) == Sweep(data[k], now)

Set(k, v)           == Apply("set", k, SetTo(Swept(k), v))
\* Mutant: remove_expired is not called first.
GetKey_Unswept(k) == Apply("get", k, Get(data[k]))

GetKey(k)           == Apply("get", k, Get(Swept(k)))
Incr(k)             == Apply("incr", k, IncrBy(Swept(k), 1))
Decr(k)             == Apply("decr", k, IncrBy(Swept(k), -1))
IncrByStep(k, d)    == Apply("incrby", k, IncrBy(Swept(k), d))
HSetField(k, f, v)  == Apply("hset", k, HSet(Swept(k), f, v))
HGetField(k, f)     == Apply("hget", k, HGet(Swept(k), f))
HGetAllFields(k)    == Apply("hgetall", k, HGetAll(Swept(k)))
LPushValues(k, vs)  == Apply("lpush", k, LPush(Swept(k), vs))
RPopValue(k)        == Apply("rpop", k, RPop(Swept(k)))
LRangeOf(k, i, j)   == Apply("lrange", k, LRange(Swept(k), i, j))
SAddMembers(k, ms)  == Apply("sadd", k, SAdd(Swept(k), ms))
SRemMembers(k, ms)  == Apply("srem", k, SRem(Swept(k), ms))
SIsMemberOf(k, m)   == Apply("sismember", k, SIsMember(Swept(k), m))
SMembersOf(k)       == Apply("smembers", k, SMembers(Swept(k)))
SCardOf(k)          == Apply("scard", k, SCard(Swept(k)))

\* expire and ttl do not call remove_expired.  Careful clients ask for neither
\* where an expired item is still in the way: EXPIRE gives such an item a new
\* life, and TTL reports the key gone although another map has it.
Careful(c, k) ==
    Clients = "careful" =>
        IF c = "expire" THEN Swept(k) = data[k]
        ELSE \A i, j \in 1..4 :
                i < j /\ IsExpired(data[k][Order[i]], now) => ~Swept(k)[Order[j]].in

ExpireKey(k, s) == Careful("expire", k) /\ Apply("expire", k, Expire(data[k], s, now))
TtlOf(k)        == Careful("ttl", k) /\ Apply("ttl", k, Ttl(data[k], now))

Tick ==
    /\ now < MaxTime
    /\ now' = now + 1
    /\ UNCHANGED <<data, reply, last>>

Call(k) ==
    \/ \E v \in Texts : Set(k, v)
    \/ GetKey(k) \/ Incr(k) \/ Decr(k)
    \/ \E d \in Steps : IncrByStep(k, d)
    \/ \E f \in Fields, v \in Texts : HSetField(k, f, v)
    \/ \E f \in Fields : HGetField(k, f)
    \/ HGetAllFields(k)
    \/ \E vs \in Batches : LPushValues(k, vs)
    \/ RPopValue(k)
    \/ \E i, j \in Indices : LRangeOf(k, i, j)
    \/ \E ms \in Batches : SAddMembers(k, ms)
    \/ \E ms \in Batches : SRemMembers(k, ms)
    \/ \E m \in Texts : SIsMemberOf(k, m)
    \/ SMembersOf(k) \/ SCardOf(k)
    \/ \E s \in Spans : ExpireKey(k, s)
    \/ TtlOf(k)

Next == Tick \/ \E k \in Keys : Call(k)

Spec == Init /\ [][Next]_vars

-----------------------------------------------------------------------------
(* Properties *)

\* Clients cannot tell the lazy store from one where items are gone at their
\* deadline: same replies, and the items that are not expired are the same.
Eager == INSTANCE ExpiringStore WITH live <- [k \in Keys |-> Swept(k)]
ImplementsExpiringStore == Eager!Spec

Values(y) == CASE y = "string" -> Texts \cup {Dec(n) : n \in Signed(HalfRange)}
               [] y = "hash"   -> UNION {[F -> Texts] : F \in (SUBSET Fields) \ {{}}}
               [] y = "list"   -> Seq(Texts)
               [] y = "set"    -> (SUBSET Texts) \ {{}}
Items(y) == {Absent} \cup
            [in : {TRUE}, value : Values(y), has : BOOLEAN, at : Signed(HalfTime)]
IsCell(c) == c = [y \in Types |-> c[y]] /\ \A y \in Types : c[y] \in Items(y)

\* Every map holds its own kind of value, counters in the range of long long;
\* a list may be empty (rpop leaves it so), a hash or a set never is: srem
\* drops a set with its last member.
TypeOK ==
    /\ data = [k \in Keys |-> data[k]]
    /\ \A k \in Keys : IsCell(data[k])
    /\ now \in Nat

\* A key that is still there keeps its deadline, unless EXPIRE moves it, SET
\* writes it anew, or a counter call replaces a text that is no number.
DeadlinesKept ==
    [][\A k \in Keys, y \in Types :
          (Swept(k)[y].in /\ data'[k][y].in /\ last'.call # "expire")
             => \/ <<data'[k][y].has, data'[k][y].at>> = <<data[k][y].has, data[k][y].at>>
                \/ y = "string" /\ last'.call = "set"
                \/ y = "string" /\ last'.call \in {"incr", "decr", "incrby"}
                                /\ ~data[k][y].value.parses
      ]_vars

\* LRANGE between two positions of the list answers the elements from one to
\* the other, both included, for positive and negative positions alike.
InRange(i, n) == i \in -n..(n - 1)
RangeIsSlice ==
    \A k \in Keys : data[k]["list"].in =>
        LET s == data[k]["list"].value
            n == Len(s)
            place(i) == IF i < 0 THEN n + i ELSE i
        IN  \A i, j \in Indices :
              InRange(i, n) /\ InRange(j, n) =>
                 /\ Len(Slice(s, i, j)) = (IF place(j) < place(i) THEN 0 ELSE place(j) - place(i) + 1)
                 /\ \A x \in DOMAIN Slice(s, i, j) : Slice(s, i, j)[x] = s[place(i) + x]

\* Guide/API_REFERENCE.md:427 says EXPIRE answers 0 if the key does not exist;
\* a key all of whose items have expired does not exist for any other call.
ExpireOfGoneKey ==
    last.call = "expire" /\ last.gone => reply = <<"truth", FALSE>>
=============================================================================
