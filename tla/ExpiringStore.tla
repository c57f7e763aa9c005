---------------------------- MODULE ExpiringStore ----------------------------
(***************************************************************************)
(* The store RediCraft promises its clients: an item whose deadline has    *)
(* passed is gone, from that very tick on, whoever looks.  No call ever    *)
(* meets an expired item, so no call has to look for one.                  *)
(***************************************************************************)
EXTENDS StoreCommands

CONSTANTS Keys, StartTime, MaxTime,
          Texts,          \* values, elements and members clients send
          Fields,         \* field names
          Batches,        \* arguments of LPUSH, SADD and SREM: one value or more
          Steps,          \* increments of INCRBY
          Spans,          \* arguments of EXPIRE
          Indices         \* arguments of LRANGE

VARIABLES live,    \* live[k]: the cell of key k
          now,
          reply    \* of the last call

vars == <<live, now, reply>>

Init ==
    /\ live = [k \in Keys |-> NoItems]
    /\ now = StartTime
    /\ reply = <<"none", Nil>>

\* A call on key k with the given result; EXPIRE may set a deadline in the past.
Answer(k, r) ==
    /\ live' = [live EXCEPT ![k] = Sweep(r.cell, now)]
    /\ reply' = r.reply
    /\ now' = now

Call(k) ==
    \/ \E v \in Texts : Answer(k, SetTo(live[k], v))
    \/ Answer(k, Get(live[k]))
    \/ \E d \in Steps \cup {1, -1} : Answer(k, IncrBy(live[k], d))
    \/ \E f \in Fields, v \in Texts : Answer(k, HSet(live[k], f, v))
    \/ \E f \in Fields : Answer(k, HGet(live[k], f))
    \/ Answer(k, HGetAll(live[k]))
    \/ \E vs \in Batches : Answer(k, LPush(live[k], vs))
    \/ Answer(k, RPop(live[k]))
    \/ \E i, j \in Indices : Answer(k, LRange(live[k], i, j))
    \/ \E ms \in Batches : Answer(k, SAdd(live[k], ms)) \/ Answer(k, SRem(live[k], ms))
    \/ \E m \in Texts : Answer(k, SIsMember(live[k], m))
    \/ Answer(k, SMembers(live[k]))
    \/ Answer(k, SCard(live[k]))
    \/ \E s \in Spans : Answer(k, Expire(live[k], s, now))
    \/ Answer(k, Ttl(live[k], now))

Tick ==
    /\ now < MaxTime
    /\ now' = now + 1
    /\ live' = [k \in Keys |-> Sweep(live[k], now + 1)]
    /\ reply' = reply

Next == Tick \/ \E k \in Keys : Call(k)

Spec == Init /\ [][Next]_vars
=============================================================================
