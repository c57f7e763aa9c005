SPECIFICATION Spec
CONSTANTS
  Threads = {t1}
  Keys = {k1}
  Runtime = "elided"
  Calls <- AllCalls
  NoThread = NoThread
  NoKey = NoKey
INVARIANTS
  NoStaleBody
PROPERTIES
  OnlyExpiredVanish
