SPECIFICATION FairSpec
CONSTANTS
  Threads = {t1, t2, t3}
  Keys = {k1}
  Runtime = "glibc"
  Calls <- SampleCalls
  NoThread = NoThread
  NoKey = NoKey
INVARIANTS
  TypeOK
  ExclusiveIsAlone
  IdleHoldsNothing
  NoCircularWait
  StoreStaysEmpty
PROPERTIES
  CallsComeBack
\* The process may end in std::terminate.
CHECK_DEADLOCK FALSE
