--------------------------- MODULE MCStorageLocks ---------------------------
(* Instances of StorageLocks for TLC. *)
EXTENDS StorageLocks

\* One thread can afford every call; with several, one call of each locking
\* pattern and home map stands for its like.
AllCalls     == Mutators \cup Lookups \cup Walkers
SampleCalls  == {"incrby", "hset", "sadd", "get", "lrange", "expire", "ttl"}
ReadAndTouch == {"get", "expire"}
=============================================================================
