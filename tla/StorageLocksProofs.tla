------------------------ MODULE StorageLocksProofs ------------------------
(***************************************************************************)
(* Proofs about StorageLocks for any number of threads, any keys and any   *)
(* set of calls.  The strengthening below says which locks a thread holds  *)
(* at each stage; the safety properties of StorageLocks follow from it.    *)
(***************************************************************************)
EXTENDS StorageLocks, TLAPS

Scanners == Mutators \cup Lookups \cup {"ttl"}
Scanning == {"scan", "test", "upgrade", "erase"}

\* A stage belongs to the calls that pass through it, and a call waits for or
\* uses its home lock at its home map.
StageFits ==
    \A t \in Threads :
        /\ stage[t] = "idle" <=> op[t] = NoOp
        /\ stage[t] \in {"enter", "drain"}
              => op[t].call \in Mutators \cup {"expire"}
        /\ stage[t] \in {"enter", "drain"} /\ op[t].call \in Mutators
              => at[t] = Home(op[t].call)
        /\ stage[t] = "share" => op[t].call \in Lookups /\ at[t] = Home(op[t].call)
        /\ stage[t] \in Scanning => op[t].call \in Scanners
        /\ stage[t] = "body"
              => op[t].call \in Mutators \cup Lookups /\ at[t] = Home(op[t].call)
        /\ stage[t] = "touch" => op[t].call = "expire"

\* The item about to be erased is still the expired one that was found.
FoundExpired ==
    \A t \in Threads :
        stage[t] \in {"upgrade", "erase"} => StatusAt(t) = "expired"

\* What had expired when the call began is gone from the maps already scanned
\* and untouched in the others (expire, which never scans, aside).
ScannedClean ==
    \A t \in Threads : \A m \in dead[t] :
        /\ stage[t] \notin {"idle", "body"} /\ op[t].call # "expire"
              => items[m][op[t].key] =
                    IF stage[t] \in Scanning /\ m < at[t] THEN "absent" ELSE "expired"
        /\ stage[t] = "body" => items[m][op[t].key] = "absent"

\* With elided locks none is ever taken.
ElidedIdle == \A t \in Threads, m \in Maps : readers[m][t] = 0 /\ writer[m] = NoThread

ExclusiveAt(t, m) ==
    \/ stage[t] \in {"drain", "touch"} /\ at[t] = m
    \/ stage[t] \in {"scan", "test"} /\ op[t].call \in Mutators /\ Home(op[t].call) = m

HomeShare(t, m) ==
    IF stage[t] \in {"scan", "test", "body"} /\ op[t].call \in Lookups /\ Home(op[t].call) = m
    THEN 1 ELSE 0
ScanShare(t, m) == IF stage[t] = "test" /\ at[t] = m THEN 1 ELSE 0

\* With real locks: who holds what, and a mutator never comes past its own map.
LocksFit ==
    \A t \in Threads :
        /\ \A m \in Maps : writer[m] = t <=> ExclusiveAt(t, m)
        /\ \A m \in Maps : readers[m][t] = HomeShare(t, m) + ScanShare(t, m)
        /\ stage[t] \notin {"upgrade", "erase"}
        /\ stage[t] = "body" => op[t].call \notin Mutators
        /\ stage[t] = "scan" /\ op[t].call \in Mutators => at[t] <= Home(op[t].call)
        /\ stage[t] = "test" /\ op[t].call \in Mutators => at[t] < Home(op[t].call)
        /\ stage[t] = "touch" \/ (stage[t] = "drain" /\ Runtime = "glibc") => NoReaders(at[t])

Inv ==
    /\ TypeOK
    /\ StageFits
    /\ FoundExpired
    /\ ScannedClean
    /\ Elided => ElidedIdle
    /\ ~Elided => LocksFit
    /\ StoreStaysEmpty

-----------------------------------------------------------------------------
\* Every call has its home among the four maps.
LEMMA HomeMap == \A c : Home(c) \in Maps
BY DEF Home, Maps

\* The call of a thread that has none is no call.
LEMMA NoneIsNoCall == "none" \notin Calls
BY CallsAssumption DEF Mutators, Lookups, Walkers

\* A thread within a call has one of the calls and a key.
LEMMA InCallTyped ==
    ASSUME Inv, NEW t \in Threads, stage[t] # "idle"
    PROVE  op[t] \in Ops /\ op[t].call \in Calls /\ op[t].key \in Keys /\ at[t] \in Maps
<1>1. op[t] # NoOp
  BY DEF Inv, StageFits
<1>2. op[t] \in Ops /\ at[t] \in Maps
  BY <1>1 DEF Inv, TypeOK
<1> QED BY <1>2 DEF Ops

\* A writer that enters its map keeps the invariant.
LEMMA EnterExclusiveInv ==
    ASSUME Inv, NEW t \in Threads, EnterExclusive(t)
    PROVE  Inv'
<1> USE HomeMap, NoneIsNoCall, ThreadsAssumption, RuntimeAssumption, CallsAssumption
    DEF Inv, EnterExclusive, Goto, Return, NextBlock, SetWriter, AddReader, MayShare,
        MayEnter, NoReaders, StatusAt, Mutators, Lookups, Walkers, Scanners, Scanning,
        Maps, Stages, Statuses, Ops, NoOp
<1>1. TypeOK'
  BY DEF TypeOK, StageFits, LocksFit, ElidedIdle, HomeShare, ScanShare
<1>2. StageFits'
  BY DEF TypeOK, StageFits
<1>3. FoundExpired'
  BY DEF TypeOK, StageFits, FoundExpired, LocksFit, StoreStaysEmpty
<1>4. ScannedClean'
  BY DEF TypeOK, StageFits, ScannedClean, StoreStaysEmpty
<1>5. Elided => ElidedIdle'
  BY DEF TypeOK, ElidedIdle
<1>6. ~Elided => LocksFit'
  BY DEF TypeOK, StageFits, FoundExpired, LocksFit, StoreStaysEmpty, ExclusiveAt,
         HomeShare, ScanShare
<1>7. StoreStaysEmpty'
  BY DEF TypeOK, StageFits, LocksFit, StoreStaysEmpty
<1> QED BY <1>1, <1>2, <1>3, <1>4, <1>5, <1>6, <1>7 DEF Elided

\* An exclusive lock granted keeps the invariant.
LEMMA GrantExclusiveInv ==
    ASSUME Inv, NEW t \in Threads, GrantExclusive(t)
    PROVE  Inv'
<1> USE HomeMap, NoneIsNoCall, ThreadsAssumption, RuntimeAssumption, CallsAssumption
    DEF Inv, GrantExclusive, Goto, Return, NextBlock, SetWriter, AddReader, MayShare,
        MayEnter, NoReaders, StatusAt, Mutators, Lookups, Walkers, Scanners, Scanning,
        Maps, Stages, Statuses, Ops, NoOp
<1>1. TypeOK'
  BY DEF TypeOK, StageFits, LocksFit, ElidedIdle, HomeShare, ScanShare
<1>2. StageFits'
  BY DEF TypeOK, StageFits
<1>3. FoundExpired'
  BY DEF TypeOK, StageFits, FoundExpired, LocksFit, StoreStaysEmpty
<1>4. ScannedClean'
  BY DEF TypeOK, StageFits, ScannedClean, StoreStaysEmpty
<1>5. Elided => ElidedIdle'
  BY DEF TypeOK, ElidedIdle
<1>6. ~Elided => LocksFit'
  BY DEF TypeOK, StageFits, FoundExpired, LocksFit, StoreStaysEmpty, ExclusiveAt,
         HomeShare, ScanShare
<1>7. StoreStaysEmpty'
  BY DEF TypeOK, StageFits, LocksFit, StoreStaysEmpty
<1> QED BY <1>1, <1>2, <1>3, <1>4, <1>5, <1>6, <1>7 DEF Elided

\* A reader that locks its home map keeps the invariant.
LEMMA ShareHomeInv ==
    ASSUME Inv, NEW t \in Threads, ShareHome(t)
    PROVE  Inv'
<1> USE HomeMap, NoneIsNoCall, ThreadsAssumption, RuntimeAssumption, CallsAssumption
    DEF Inv, ShareHome, Goto, Return, NextBlock, SetWriter, AddReader, MayShare,
        MayEnter, NoReaders, StatusAt, Mutators, Lookups, Walkers, Scanners, Scanning,
        Maps, Stages, Statuses, Ops, NoOp
<1>1. TypeOK'
  BY DEF TypeOK, StageFits, LocksFit, ElidedIdle, HomeShare, ScanShare
<1>2. StageFits'
  BY DEF TypeOK, StageFits
<1>3. FoundExpired'
  BY DEF TypeOK, StageFits, FoundExpired, LocksFit, StoreStaysEmpty
<1>4. ScannedClean'
  BY DEF TypeOK, StageFits, ScannedClean, StoreStaysEmpty
<1>5. Elided => ElidedIdle'
  BY DEF TypeOK, ElidedIdle
<1>6. ~Elided => LocksFit'
  BY DEF TypeOK, StageFits, FoundExpired, LocksFit, StoreStaysEmpty, ExclusiveAt,
         HomeShare, ScanShare
<1>7. StoreStaysEmpty'
  BY DEF TypeOK, StageFits, LocksFit, StoreStaysEmpty
<1> QED BY <1>1, <1>2, <1>3, <1>4, <1>5, <1>6, <1>7 DEF Elided

\* The shared lock of a scan keeps the invariant.
LEMMA ShareScanInv ==
    ASSUME Inv, NEW t \in Threads, ShareScan(t)
    PROVE  Inv'
<1> USE HomeMap, NoneIsNoCall, ThreadsAssumption, RuntimeAssumption, CallsAssumption
    DEF Inv, ShareScan, Goto, Return, NextBlock, SetWriter, AddReader, MayShare,
        MayEnter, NoReaders, StatusAt, Mutators, Lookups, Walkers, Scanners, Scanning,
        Maps, Stages, Statuses, Ops, NoOp
<1>1. TypeOK'
  BY DEF TypeOK, StageFits, LocksFit, ElidedIdle, HomeShare, ScanShare
<1>2. StageFits'
  BY DEF TypeOK, StageFits
<1>3. FoundExpired'
  BY DEF TypeOK, StageFits, FoundExpired, LocksFit, StoreStaysEmpty
<1>4. ScannedClean'
  BY DEF TypeOK, StageFits, ScannedClean, StoreStaysEmpty
<1>5. Elided => ElidedIdle'
  BY DEF TypeOK, ElidedIdle
<1>6. ~Elided => LocksFit'
  BY DEF TypeOK, StageFits, FoundExpired, LocksFit, StoreStaysEmpty, ExclusiveAt,
         HomeShare, ScanShare
<1>7. StoreStaysEmpty'
  BY DEF TypeOK, StageFits, LocksFit, StoreStaysEmpty
<1> QED BY <1>1, <1>2, <1>3, <1>4, <1>5, <1>6, <1>7 DEF Elided

\* A relock that throws keeps the invariant.
LEMMA RelockThrowsInv ==
    ASSUME Inv, NEW t \in Threads, RelockThrows(t)
    PROVE  Inv'
<1> USE HomeMap, NoneIsNoCall, ThreadsAssumption, RuntimeAssumption, CallsAssumption
    DEF Inv, RelockThrows, Goto, Return, NextBlock, SetWriter, AddReader, MayShare,
        MayEnter, NoReaders, StatusAt, Mutators, Lookups, Walkers, Scanners, Scanning,
        Maps, Stages, Statuses, Ops, NoOp
<1>1. TypeOK'
  BY DEF TypeOK, StageFits, LocksFit, ElidedIdle, HomeShare, ScanShare
<1>2. StageFits'
  BY DEF TypeOK, StageFits
<1>3. FoundExpired'
  BY DEF TypeOK, StageFits, FoundExpired, LocksFit, StoreStaysEmpty
<1>4. ScannedClean'
  <2> SUFFICES ASSUME NEW s \in Threads, s # t, NEW m \in dead[s]
               PROVE  /\ stage[s] \notin {"idle", "body"} /\ op[s].call # "expire"
                            => items'[m][op[s].key] =
                                  IF stage[s] \in Scanning /\ m < at[s]
                                  THEN "absent" ELSE "expired"
                      /\ stage[s] = "body" => items'[m][op[s].key] = "absent"
    BY DEF TypeOK, ScannedClean
  <2> QED BY DEF TypeOK, ScannedClean, LocksFit, Elided
<1>5. Elided => ElidedIdle'
  BY DEF TypeOK, ElidedIdle
<1>6. ~Elided => LocksFit'
  BY DEF TypeOK, StageFits, FoundExpired, LocksFit, StoreStaysEmpty, ExclusiveAt,
         HomeShare, ScanShare
<1>7. StoreStaysEmpty'
  BY DEF TypeOK, StageFits, LocksFit, StoreStaysEmpty
<1> QED BY <1>1, <1>2, <1>3, <1>4, <1>5, <1>6, <1>7 DEF Elided

\* A map without an expired item keeps the invariant.
LEMMA TestKeepsInv ==
    ASSUME Inv, NEW t \in Threads, TestKeeps(t)
    PROVE  Inv'
<1> USE HomeMap, NoneIsNoCall, ThreadsAssumption, RuntimeAssumption, CallsAssumption
    DEF Inv, TestKeeps, Goto, Return, NextBlock, SetWriter, AddReader, MayShare,
        MayEnter, NoReaders, StatusAt, Mutators, Lookups, Walkers, Scanners, Scanning,
        Maps, Stages, Statuses, Ops, NoOp
<1>1. TypeOK'
  <2>1. readers' \in [Maps -> [Threads -> 0..2]]
    BY DEF TypeOK, LocksFit, ElidedIdle, HomeShare, ScanShare
  <2>2. /\ op' \in [Threads -> Ops \cup {NoOp}]
        /\ stage' \in [Threads -> Stages]
        /\ at' \in [Threads -> Maps]
        /\ dead' \in [Threads -> SUBSET Maps]
    BY DEF TypeOK
  <2>3. /\ writer' \in [Maps -> Threads \cup {NoThread}]
        /\ items' \in [Maps -> [Keys -> Statuses]]
        /\ terminated' \in BOOLEAN
    BY DEF TypeOK
  <2> QED BY <2>1, <2>2, <2>3 DEF TypeOK
<1>2. StageFits'
  BY DEF TypeOK, StageFits
<1>3. FoundExpired'
  BY DEF TypeOK, StageFits, FoundExpired, LocksFit, StoreStaysEmpty
<1>4. ScannedClean'
  BY DEF TypeOK, StageFits, ScannedClean, StoreStaysEmpty
<1>5. Elided => ElidedIdle'
  BY DEF TypeOK, ElidedIdle
<1>6. ~Elided => LocksFit'
  BY DEF TypeOK, StageFits, FoundExpired, LocksFit, StoreStaysEmpty, ExclusiveAt,
         HomeShare, ScanShare
<1>7. StoreStaysEmpty'
  BY DEF TypeOK, StageFits, LocksFit, StoreStaysEmpty
<1> QED BY <1>1, <1>2, <1>3, <1>4, <1>5, <1>6, <1>7 DEF Elided

\* A map with an expired item keeps the invariant.
LEMMA TestExpiredInv ==
    ASSUME Inv, NEW t \in Threads, TestExpired(t)
    PROVE  Inv'
<1> USE HomeMap, NoneIsNoCall, ThreadsAssumption, RuntimeAssumption, CallsAssumption
    DEF Inv, TestExpired, Goto, Return, NextBlock, SetWriter, AddReader, MayShare,
        MayEnter, NoReaders, StatusAt, Mutators, Lookups, Walkers, Scanners, Scanning,
        Maps, Stages, Statuses, Ops, NoOp
<1>1. TypeOK'
  BY DEF TypeOK, StageFits, LocksFit, ElidedIdle, HomeShare, ScanShare
<1>2. StageFits'
  BY DEF TypeOK, StageFits
<1>3. FoundExpired'
  BY DEF TypeOK, StageFits, FoundExpired, LocksFit, StoreStaysEmpty
<1>4. ScannedClean'
  BY DEF TypeOK, StageFits, ScannedClean, StoreStaysEmpty
<1>5. Elided => ElidedIdle'
  BY DEF TypeOK, ElidedIdle
<1>6. ~Elided => LocksFit'
  <2> SUFFICES ASSUME ~Elided PROVE FALSE
    OBVIOUS
  <2>1. op[t] \in Ops /\ at[t] \in Maps
    BY DEF TypeOK, StageFits
  <2> QED BY <2>1 DEF StoreStaysEmpty
<1>7. StoreStaysEmpty'
  BY DEF TypeOK, StageFits, LocksFit, StoreStaysEmpty
<1> QED BY <1>1, <1>2, <1>3, <1>4, <1>5, <1>6, <1>7 DEF Elided

\* The exclusive lock taken to erase keeps the invariant.
LEMMA UpgradeInv ==
    ASSUME Inv, NEW t \in Threads, Upgrade(t)
    PROVE  Inv'
<1> USE HomeMap, NoneIsNoCall, ThreadsAssumption, RuntimeAssumption, CallsAssumption
    DEF Inv, Upgrade, Goto, Return, NextBlock, SetWriter, AddReader, MayShare,
        MayEnter, NoReaders, StatusAt, Mutators, Lookups, Walkers, Scanners, Scanning,
        Maps, Stages, Statuses, Ops, NoOp
<1>1. TypeOK'
  BY DEF TypeOK, StageFits, LocksFit, ElidedIdle, HomeShare, ScanShare
<1>2. StageFits'
  BY DEF TypeOK, StageFits
<1>3. FoundExpired'
  BY DEF TypeOK, StageFits, FoundExpired, LocksFit, StoreStaysEmpty
<1>4. ScannedClean'
  BY DEF TypeOK, StageFits, ScannedClean, StoreStaysEmpty
<1>5. Elided => ElidedIdle'
  BY DEF TypeOK, ElidedIdle
<1>6. ~Elided => LocksFit'
  BY DEF TypeOK, StageFits, FoundExpired, LocksFit, StoreStaysEmpty, ExclusiveAt,
         HomeShare, ScanShare
<1>7. StoreStaysEmpty'
  BY DEF TypeOK, StageFits, LocksFit, StoreStaysEmpty
<1> QED BY <1>1, <1>2, <1>3, <1>4, <1>5, <1>6, <1>7 DEF Elided

\* The erase keeps the invariant.
LEMMA EraseInv ==
    ASSUME Inv, NEW t \in Threads, Erase(t)
    PROVE  Inv'
<1> USE HomeMap, NoneIsNoCall, ThreadsAssumption, RuntimeAssumption, CallsAssumption
    DEF Inv, Erase, Goto, Return, NextBlock, SetWriter, AddReader, MayShare,
        MayEnter, NoReaders, StatusAt, Mutators, Lookups, Walkers, Scanners, Scanning,
        Maps, Stages, Statuses, Ops, NoOp
<1>1. TypeOK'
  BY DEF TypeOK, StageFits, LocksFit, ElidedIdle, HomeShare, ScanShare
<1>2. StageFits'
  BY DEF TypeOK, StageFits
<1>3. FoundExpired'
  BY DEF TypeOK, StageFits, FoundExpired, LocksFit, StoreStaysEmpty
<1>4. ScannedClean'
  BY DEF TypeOK, StageFits, ScannedClean, StoreStaysEmpty
<1>5. Elided => ElidedIdle'
  BY DEF TypeOK, ElidedIdle
<1>6. ~Elided => LocksFit'
  BY DEF TypeOK, StageFits, FoundExpired, LocksFit, StoreStaysEmpty, ExclusiveAt,
         HomeShare, ScanShare
<1>7. StoreStaysEmpty'
  BY DEF TypeOK, StageFits, LocksFit, StoreStaysEmpty
<1> QED BY <1>1, <1>2, <1>3, <1>4, <1>5, <1>6, <1>7 DEF Elided

\* The body of a mutator keeps the invariant.
LEMMA MutatorBodyInv ==
    ASSUME Inv, NEW t \in Threads, MutatorBody(t)
    PROVE  Inv'
<1> USE HomeMap, NoneIsNoCall, ThreadsAssumption, RuntimeAssumption, CallsAssumption
    DEF Inv, MutatorBody, Goto, Return, NextBlock, SetWriter, AddReader, MayShare,
        MayEnter, NoReaders, StatusAt, Mutators, Lookups, Walkers, Scanners, Scanning,
        Maps, Stages, Statuses, Ops, NoOp, Kept
<1>1. TypeOK'
  BY DEF TypeOK, StageFits, LocksFit, ElidedIdle, HomeShare, ScanShare
<1>2. StageFits'
  BY DEF TypeOK, StageFits
<1>3. FoundExpired'
  BY DEF TypeOK, StageFits, FoundExpired, LocksFit, StoreStaysEmpty
<1>4. ScannedClean'
  <2> SUFFICES ASSUME NEW s \in Threads, s # t, NEW m \in dead[s]
               PROVE  /\ stage[s] \notin {"idle", "body"} /\ op[s].call # "expire"
                            => items'[m][op[s].key] =
                                  IF stage[s] \in Scanning /\ m < at[s]
                                  THEN "absent" ELSE "expired"
                      /\ stage[s] = "body" => items'[m][op[s].key] = "absent"
    BY DEF TypeOK, ScannedClean
  <2> QED BY DEF TypeOK, ScannedClean, LocksFit, Elided
<1>5. Elided => ElidedIdle'
  BY DEF TypeOK, ElidedIdle
<1>6. ~Elided => LocksFit'
  BY DEF TypeOK, StageFits, FoundExpired, LocksFit, StoreStaysEmpty, ExclusiveAt,
         HomeShare, ScanShare
<1>7. StoreStaysEmpty'
  BY DEF TypeOK, StageFits, LocksFit, StoreStaysEmpty
<1> QED BY <1>1, <1>2, <1>3, <1>4, <1>5, <1>6, <1>7 DEF Elided

\* The body of a lookup keeps the invariant.
LEMMA LookupBodyInv ==
    ASSUME Inv, NEW t \in Threads, LookupBody(t)
    PROVE  Inv'
<1> USE HomeMap, NoneIsNoCall, ThreadsAssumption, RuntimeAssumption, CallsAssumption
    DEF Inv, LookupBody, Goto, Return, NextBlock, SetWriter, AddReader, MayShare,
        MayEnter, NoReaders, StatusAt, Mutators, Lookups, Walkers, Scanners, Scanning,
        Maps, Stages, Statuses, Ops, NoOp
<1>1. TypeOK'
  <2>1. readers' \in [Maps -> [Threads -> 0..2]]
    <3>1. CASE Elided
      BY <3>1 DEF TypeOK, Elided
    <3>2. CASE ~Elided
      <4>1. readers[at[t]][t] \in {1, 2}
        BY <3>2 DEF TypeOK, StageFits, LocksFit, HomeShare, ScanShare
      <4> QED BY <3>2, <4>1 DEF TypeOK
    <3> QED BY <3>1, <3>2
  <2>2. /\ op' \in [Threads -> Ops \cup {NoOp}]
        /\ stage' \in [Threads -> Stages]
        /\ at' \in [Threads -> Maps]
        /\ dead' \in [Threads -> SUBSET Maps]
    BY DEF TypeOK
  <2>3. /\ writer' \in [Maps -> Threads \cup {NoThread}]
        /\ items' \in [Maps -> [Keys -> Statuses]]
        /\ terminated' \in BOOLEAN
    BY DEF TypeOK
  <2> QED BY <2>1, <2>2, <2>3 DEF TypeOK
<1>2. StageFits'
  BY DEF TypeOK, StageFits
<1>3. FoundExpired'
  BY DEF TypeOK, StageFits, FoundExpired, LocksFit, StoreStaysEmpty
<1>4. ScannedClean'
  <2> SUFFICES ASSUME NEW s \in Threads, s # t, NEW m \in dead[s]
               PROVE  /\ stage[s] \notin {"idle", "body"} /\ op[s].call # "expire"
                            => items'[m][op[s].key] =
                                  IF stage[s] \in Scanning /\ m < at[s]
                                  THEN "absent" ELSE "expired"
                      /\ stage[s] = "body" => items'[m][op[s].key] = "absent"
    BY DEF TypeOK, ScannedClean
  <2> QED BY DEF TypeOK, ScannedClean, LocksFit, Elided
<1>5. Elided => ElidedIdle'
  BY DEF TypeOK, ElidedIdle
<1>6. ~Elided => LocksFit'
  <2> SUFFICES ASSUME ~Elided PROVE LocksFit'
    OBVIOUS
  <2> USE DEF Elided
  <2>1. ASSUME NEW s \in Threads
        PROVE  /\ \A m \in Maps : writer'[m] = s <=> ExclusiveAt(s, m)'
               /\ stage'[s] \notin {"upgrade", "erase"}
               /\ stage'[s] = "body" => op'[s].call \notin Mutators
               /\ stage'[s] = "scan" /\ op'[s].call \in Mutators => at'[s] <= Home(op'[s].call)
               /\ stage'[s] = "test" /\ op'[s].call \in Mutators => at'[s] < Home(op'[s].call)
    BY DEF TypeOK, StageFits, LocksFit, ExclusiveAt
  <2>2. ASSUME NEW s \in Threads, NEW m \in Maps
        PROVE  readers'[m][s] = HomeShare(s, m)' + ScanShare(s, m)'
    BY DEF TypeOK, StageFits, LocksFit, HomeShare, ScanShare
  <2>3. ASSUME NEW s \in Threads,
               stage'[s] = "touch" \/ (stage'[s] = "drain" /\ Runtime = "glibc")
        PROVE  NoReaders(at[s])'
    <3>1. s # t /\ NoReaders(at[s]) /\ at[s] \in Maps
      BY <2>3 DEF TypeOK, LocksFit
    <3>2. at[s] # at[t]
      BY <3>1 DEF LocksFit, HomeShare, ScanShare, StageFits
    <3> QED BY <3>1, <3>2 DEF TypeOK
  <2> QED BY <2>1, <2>2, <2>3 DEF LocksFit
<1>7. StoreStaysEmpty'
  BY DEF TypeOK, StageFits, LocksFit, StoreStaysEmpty
<1> QED BY <1>1, <1>2, <1>3, <1>4, <1>5, <1>6, <1>7 DEF Elided

\* EXPIRE of an item that exists keeps the invariant.
LEMMA ExpireSetsInv ==
    ASSUME Inv, NEW t \in Threads, ExpireSets(t)
    PROVE  Inv'
<1> USE HomeMap, NoneIsNoCall, ThreadsAssumption, RuntimeAssumption, CallsAssumption
    DEF Inv, ExpireSets, Goto, Return, NextBlock, SetWriter, AddReader, MayShare,
        MayEnter, NoReaders, StatusAt, Mutators, Lookups, Walkers, Scanners, Scanning,
        Maps, Stages, Statuses, Ops, NoOp
<1>1. TypeOK'
  BY DEF TypeOK, StageFits, LocksFit, ElidedIdle, HomeShare, ScanShare
<1>2. StageFits'
  BY DEF TypeOK, StageFits
<1>3. FoundExpired'
  BY DEF TypeOK, StageFits, FoundExpired, LocksFit, StoreStaysEmpty
<1>4. ScannedClean'
  BY DEF TypeOK, StageFits, ScannedClean, StoreStaysEmpty
<1>5. Elided => ElidedIdle'
  BY DEF TypeOK, ElidedIdle
<1>6. ~Elided => LocksFit'
  BY DEF TypeOK, StageFits, FoundExpired, LocksFit, StoreStaysEmpty, ExclusiveAt,
         HomeShare, ScanShare
<1>7. StoreStaysEmpty'
  BY DEF TypeOK, StageFits, LocksFit, StoreStaysEmpty
<1> QED BY <1>1, <1>2, <1>3, <1>4, <1>5, <1>6, <1>7 DEF Elided

\* EXPIRE that looks in the next map, or gives up keeps the invariant.
LEMMA ExpireSkipsInv ==
    ASSUME Inv, NEW t \in Threads, ExpireSkips(t)
    PROVE  Inv'
<1> USE HomeMap, NoneIsNoCall, ThreadsAssumption, RuntimeAssumption, CallsAssumption
    DEF Inv, ExpireSkips, Goto, Return, NextBlock, SetWriter, AddReader, MayShare,
        MayEnter, NoReaders, StatusAt, Mutators, Lookups, Walkers, Scanners, Scanning,
        Maps, Stages, Statuses, Ops, NoOp
<1>1. TypeOK'
  <2>1. readers' \in [Maps -> [Threads -> 0..2]]
    BY DEF TypeOK, LocksFit, ElidedIdle, HomeShare, ScanShare
  <2>2. /\ op' \in [Threads -> Ops \cup {NoOp}]
        /\ stage' \in [Threads -> Stages]
        /\ at' \in [Threads -> Maps]
        /\ dead' \in [Threads -> SUBSET Maps]
    BY DEF TypeOK
  <2>3. /\ writer' \in [Maps -> Threads \cup {NoThread}]
        /\ items' \in [Maps -> [Keys -> Statuses]]
        /\ terminated' \in BOOLEAN
    BY DEF TypeOK
  <2> QED BY <2>1, <2>2, <2>3 DEF TypeOK
<1>2. StageFits'
  BY DEF TypeOK, StageFits
<1>3. FoundExpired'
  BY DEF TypeOK, StageFits, FoundExpired, LocksFit, StoreStaysEmpty
<1>4. ScannedClean'
  BY DEF TypeOK, StageFits, ScannedClean, StoreStaysEmpty
<1>5. Elided => ElidedIdle'
  BY DEF TypeOK, ElidedIdle
<1>6. ~Elided => LocksFit'
  BY DEF TypeOK, StageFits, FoundExpired, LocksFit, StoreStaysEmpty, ExclusiveAt,
         HomeShare, ScanShare
<1>7. StoreStaysEmpty'
  BY DEF TypeOK, StageFits, LocksFit, StoreStaysEmpty
<1> QED BY <1>1, <1>2, <1>3, <1>4, <1>5, <1>6, <1>7 DEF Elided


\* A call that starts keeps the invariant.
LEMMA StartInv ==
    ASSUME Inv, NEW t \in Threads, NEW c \in Calls, NEW k \in Keys, Start(t, c, k)
    PROVE  Inv'
<1> USE HomeMap, NoneIsNoCall, ThreadsAssumption, CallsAssumption
    DEF Inv, Start, FirstStage, Goto, NoReaders, StatusAt, Mutators, Lookups, Walkers,
        Scanners, Scanning, Maps, Stages, Ops, NoOp
<1>1. TypeOK'
  BY DEF TypeOK
<1>2. StageFits'
  BY DEF TypeOK, StageFits
<1>3. FoundExpired'
  BY DEF TypeOK, FoundExpired
<1>4. ScannedClean'
  <2>1. ASSUME NEW m \in dead'[t]
        PROVE  items'[m][op'[t].key] = "expired" /\ ~(stage'[t] = "scan" /\ m < at'[t])
    BY <2>1, c \in Mutators \cup Lookups \cup Walkers DEF TypeOK, Home, SetCalls, ListCalls, HashCalls, StringCalls
  <2> QED BY <2>1 DEF TypeOK, ScannedClean
<1>5. Elided => ElidedIdle'
  BY DEF ElidedIdle
<1>6. ~Elided => LocksFit'
  BY DEF TypeOK, LocksFit, ExclusiveAt, HomeShare, ScanShare
<1>7. StoreStaysEmpty'
  BY DEF StoreStaysEmpty
<1> QED BY <1>1, <1>2, <1>3, <1>4, <1>5, <1>6, <1>7 DEF Elided

\* A deadline that passes keeps the invariant.
LEMMA DeadlinePassesInv ==
    ASSUME Inv, NEW m \in Maps, NEW k \in Keys, DeadlinePasses(m, k)
    PROVE  Inv'
<1> USE DEF Inv, DeadlinePasses, NoReaders, StatusAt, Statuses
<1>1. TypeOK'
  BY DEF TypeOK
<1>2. StageFits'
  BY DEF TypeOK, StageFits
<1>3. FoundExpired'
  BY DEF TypeOK, FoundExpired
<1>4. ScannedClean'
  BY DEF TypeOK, ScannedClean
<1>5. Elided => ElidedIdle'
  BY DEF ElidedIdle
<1>6. ~Elided => LocksFit'
  BY DEF LocksFit, ExclusiveAt, HomeShare, ScanShare
<1>7. StoreStaysEmpty'
  BY DEF StoreStaysEmpty
<1> QED BY <1>1, <1>2, <1>3, <1>4, <1>5, <1>6, <1>7 DEF Elided

-----------------------------------------------------------------------------
\* The invariant holds when the server starts ...
LEMMA InitInv == Init => Inv
<1> SUFFICES ASSUME Init PROVE Inv
  OBVIOUS
<1> USE ThreadsAssumption DEF Init, Maps
<1>1. TypeOK
  <2>1. op \in [Threads -> Ops \cup {NoOp}]
    OBVIOUS
  <2>5. stage \in [Threads -> Stages]
    BY DEF Stages
  <2>6. at \in [Threads -> Maps]
    OBVIOUS
  <2>7. terminated \in BOOLEAN
    OBVIOUS
  <2>2. /\ writer \in [Maps -> Threads \cup {NoThread}]
        /\ dead \in [Threads -> SUBSET Maps]
    OBVIOUS
  <2>3. readers \in [Maps -> [Threads -> 0..2]]
    OBVIOUS
  <2>4. items \in [Maps -> [Keys -> Statuses]]
    BY DEF Statuses
  <2> QED BY <2>1, <2>2, <2>3, <2>4, <2>5, <2>6, <2>7 DEF TypeOK
<1>2. StageFits /\ FoundExpired /\ ScannedClean
  BY DEF StageFits, FoundExpired, ScannedClean, Scanning
<1>3. ElidedIdle /\ StoreStaysEmpty
  BY DEF ElidedIdle, StoreStaysEmpty
<1>4. LocksFit
  BY DEF LocksFit, ExclusiveAt, HomeShare, ScanShare
<1> QED BY <1>1, <1>2, <1>3, <1>4 DEF Inv

\* ... and every step keeps it.
LEMMA NextInv == Inv /\ [Next]_vars => Inv'
<1> SUFFICES ASSUME Inv, [Next]_vars PROVE Inv'
  OBVIOUS
<1>1. CASE UNCHANGED vars
  BY <1>1 DEF vars, Inv, TypeOK, StageFits, FoundExpired, ScannedClean, ElidedIdle, LocksFit,
     ExclusiveAt, HomeShare, ScanShare, StoreStaysEmpty, StatusAt, NoReaders, Elided
<1>2. ASSUME NEW t \in Threads, NEW c \in Calls, NEW k \in Keys, Start(t, c, k)
      PROVE  Inv'
  BY <1>2, StartInv
<1>3. ASSUME NEW t \in Threads, Step(t)
      PROVE  Inv'
  BY <1>3, EnterExclusiveInv, GrantExclusiveInv, ShareHomeInv, ShareScanInv, RelockThrowsInv,
     TestKeepsInv, TestExpiredInv, UpgradeInv, EraseInv, MutatorBodyInv, LookupBodyInv,
     ExpireSetsInv, ExpireSkipsInv DEF Step
<1>4. ASSUME NEW m \in Maps, NEW k \in Keys, DeadlinePasses(m, k)
      PROVE  Inv'
  BY <1>4, DeadlinePassesInv
<1> QED BY <1>1, <1>2, <1>3, <1>4 DEF Next

\* The strengthened invariant holds in every state of the locking protocol.
THEOREM Invariant == Spec => []Inv
<1> QED BY InitInv, NextInv, PTL DEF Spec

\* The state stays well typed: in particular no map is locked shared more than
\* twice by one thread, and no shared_lock is released twice.
THEOREM TypeCorrect == Spec => []TypeOK
<1>1. Inv => TypeOK
  BY DEF Inv
<1> QED BY <1>1, Invariant, PTL

\* Where the locks work, the server never stores anything: every mutator asks
\* for its own lock again in remove_expired before it reaches its body.
THEOREM NothingIsStored == Spec => []StoreStaysEmpty
<1>1. Inv => StoreStaysEmpty
  BY DEF Inv
<1> QED BY <1>1, Invariant, PTL

\* A granted exclusive hold is alone.
THEOREM Exclusion == Spec => []ExclusiveIsAlone
<1>1. Inv => ExclusiveIsAlone
  BY DEF Inv, TypeOK, LocksFit, ExclusiveAt, ExclusiveIsAlone
<1> QED BY <1>1, Invariant, PTL

\* A waiter that is waited for is in remove_expired, and the one it waits for,
\* if that waits as well, is a mutator about to look at an earlier map.
LEMMA WaitsDown ==
    ASSUME Inv, Runtime = "glibc", NEW r \in Threads, NEW s \in Threads, NEW t \in Threads,
           NEW u \in Threads, s # t, t # u,
           WaitsFor(r, s), WaitsFor(s, t), WaitsFor(t, u)
    PROVE  at[t] < at[s]
<1>1. LocksFit
  BY DEF Inv, Elided
<1>2. ASSUME NEW p \in Threads, NEW q \in Threads, NEW x \in Threads, WaitsFor(p, q), WaitsFor(q, x)
      PROVE  stage[q] = "scan"
  <2>1. at[p] \in Maps /\ at[q] \in Maps
    BY DEF Inv, TypeOK
  <2>2. writer[at[p]] = q \/ readers[at[p]][q] > 0
    BY <1>2 DEF WaitsFor
  <2>3. stage[q] \notin {"enter", "share", "upgrade"}
    BY <1>1, <2>1, <2>2 DEF LocksFit, ExclusiveAt, HomeShare, ScanShare
  <2>4. stage[q] # "drain"
    BY <1>1, <1>2, <2>1 DEF LocksFit, NoReaders, WaitsFor
  <2> QED BY <1>2, <2>3, <2>4 DEF WaitsFor
<1>3. /\ stage[s] = "scan" /\ writer[at[s]] = t
      /\ stage[t] = "scan" /\ writer[at[t]] = u
  BY <1>2 DEF WaitsFor
<1>4. at[s] \in Maps /\ at[t] \in Maps
  BY DEF Inv, TypeOK
<1>5. op[t].call \in Mutators /\ Home(op[t].call) = at[s]
  BY <1>1, <1>3, <1>4 DEF LocksFit, ExclusiveAt
<1>6. at[t] <= at[s]
  BY <1>1, <1>3, <1>5 DEF LocksFit
<1> QED BY <1>3, <1>4, <1>6 DEF Maps

\* However many threads there are, none wait in a ring: along a ring the map
\* that is looked at would come ever earlier.
THEOREM NoRing == Spec => []NoCircularWait
<1>1. ASSUME Inv, Runtime = "glibc", NEW S \in SUBSET Threads, S # {},
             \A s \in S : \E t \in S : s # t /\ WaitsFor(s, t)
      PROVE  FALSE
  <2> DEFINE Waited(s) == s \in S /\ \E r \in S : WaitsFor(r, s)
  <2>1. ASSUME NEW s \in S, Waited(s)
        PROVE  \E t \in S : Waited(t) /\ at[t] < at[s]
    <3>1. PICK t \in S : s # t /\ WaitsFor(s, t)
      BY <1>1
    <3>2. PICK u \in S : t # u /\ WaitsFor(t, u)
      BY <1>1
    <3>3. PICK r \in S : WaitsFor(r, s)
      BY <2>1
    <3>4. at[t] < at[s]
      BY <1>1, <3>1, <3>2, <3>3, WaitsDown
    <3> QED BY <3>1, <3>4
  <2>2. PICK s \in S : Waited(s)
    BY <1>1
  <2> HIDE DEF Waited
  <2>3. \A t \in S : at[t] \in 1..4
    BY <1>1 DEF Inv, TypeOK, Maps
  <2>4. \A t \in S : Waited(t) => at[t] > 1
    BY <2>1, <2>3
  <2>5. \A t \in S : Waited(t) => at[t] > 2
    BY <2>1, <2>3, <2>4
  <2>6. \A t \in S : Waited(t) => at[t] > 3
    BY <2>1, <2>3, <2>5
  <2>7. \A t \in S : Waited(t) => at[t] > 4
    BY <2>1, <2>3, <2>6
  <2> QED BY <2>2, <2>3, <2>7
<1>2. Inv => NoCircularWait
  BY <1>1 DEF NoCircularWait
<1> QED BY <1>2, Invariant, PTL

\* Whatever way a call ends, its locks are released.
THEOREM Released == Spec => []IdleHoldsNothing
<1>1. ASSUME Inv, NEW t \in Threads, stage[t] = "idle", NEW m \in Maps
      PROVE  ~Holds(t, m)
  <2>1. CASE Elided
    BY <1>1, <2>1, ThreadsAssumption DEF Inv, ElidedIdle, Holds
  <2>2. CASE ~Elided
    BY <1>1, <2>2 DEF Inv, LocksFit, ExclusiveAt, HomeShare, ScanShare, Holds
  <2> QED BY <2>1, <2>2
<1>2. Inv => IdleHoldsNothing
  BY <1>1 DEF IdleHoldsNothing, InCall
<1> QED BY <1>2, Invariant, PTL

\* A body never sees what had expired under its key when the call began.
THEOREM CleanBody == Spec => []NoStaleBody
<1>1. Inv => NoStaleBody
  BY DEF Inv, ScannedClean, NoStaleBody
<1> QED BY <1>1, Invariant, PTL

\* Only expired items vanish, the removals of srem aside.
THEOREM VanishByExpiry == Spec => OnlyExpiredVanish
<1> DEFINE Vanishing == \A m \in Maps, k \in Keys :
              (items[m][k] # "absent" /\ items'[m][k] = "absent")
                 => \/ items[m][k] = "expired"
                    \/ \E t \in Threads : stage[t] = "body" /\ op[t] = [call |-> "srem", key |-> k]
<1>1. ASSUME Inv, [Next]_vars, NEW m \in Maps, NEW k \in Keys,
             items[m][k] # "absent", items'[m][k] = "absent", items[m][k] # "expired"
      PROVE  \E t \in Threads : stage[t] = "body" /\ op[t] = [call |-> "srem", key |-> k]
  <2>1. items' # items
    BY <1>1
  <2>2. ASSUME NEW t \in Threads, MutatorBody(t)
        PROVE  stage[t] = "body" /\ op[t] = [call |-> "srem", key |-> k]
    <3>1. op[t] \in Ops /\ at[t] \in Maps
      BY <1>1, <2>2, InCallTyped DEF MutatorBody
    <3>2. m = at[t] /\ k = op[t].key
      BY <1>1, <2>2, <3>1 DEF MutatorBody, Inv, TypeOK
    <3>3. "absent" \in Kept(op[t].call, items[m][k])
      BY <1>1, <2>2, <3>1, <3>2 DEF MutatorBody, StatusAt, Inv, TypeOK
    <3>4. op[t].call = "srem"
      BY <1>1, <3>3 DEF Kept
    <3> QED BY <2>2, <3>1, <3>2, <3>4 DEF MutatorBody, Ops
  <2>3. ASSUME NEW t \in Threads, Erase(t)
        PROVE  FALSE
    <3>1. op[t] \in Ops /\ at[t] \in Maps
      BY <1>1, <2>3, InCallTyped DEF Erase
    <3>2. m = at[t] /\ k = op[t].key
      BY <1>1, <2>3, <3>1 DEF Erase, Inv, TypeOK
    <3> QED BY <1>1, <2>3, <3>2 DEF Erase, Inv, FoundExpired, StatusAt
  <2>4. ASSUME NEW t \in Threads, ExpireSets(t)
        PROVE  FALSE
    <3>1. \A n \in Maps, j \in Keys : items'[n][j] = items[n][j] \/ items'[n][j] # "absent"
      BY <2>4 DEF ExpireSets, Inv, TypeOK
    <3> QED BY <1>1, <3>1
  <2>5. ASSUME NEW n \in Maps, NEW j \in Keys, DeadlinePasses(n, j)
        PROVE  FALSE
    BY <1>1, <2>5 DEF DeadlinePasses, Inv, TypeOK
  <2>6. \/ \E t \in Threads : MutatorBody(t) \/ Erase(t) \/ ExpireSets(t)
        \/ \E n \in Maps, j \in Keys : DeadlinePasses(n, j)
    BY <1>1, <2>1 DEF Next, vars, Step, Start, EnterExclusive, GrantExclusive, ShareHome,
       ShareScan, RelockThrows, TestKeeps, TestExpired, Upgrade, LookupBody, ExpireSkips
  <2> QED BY <2>2, <2>3, <2>4, <2>5, <2>6
<1>2. Inv /\ [Next]_vars => [Vanishing]_vars
  BY <1>1
<1> QED BY <1>2, Invariant, PTL DEF Spec, OnlyExpiredVanish
=============================================================================
