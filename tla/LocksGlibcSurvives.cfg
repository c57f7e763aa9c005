SPECIFICATION Spec
CONSTANTS
  Threads = {t1, t2}
  Keys = {k1}
  Runtime = "glibc"
  Calls <- SampleCalls
  NoThread = NoThread
  NoKey = NoKey
INVARIANTS
  ServerSurvives
CHECK_DEADLOCK FALSE
