SPECIFICATION Spec
CONSTANTS
  Keys = {k1}
  StartTime = 1
  MaxTime = 3
  TicksPerSecond = 1
  HalfRange = 2
  HalfTime = 4
  Nil = Nil
  A = A
  B = B
  Texts <- SomeTexts
  Fields = {f1}
  Batches <- SomeBatches
  Steps <- SomeSteps
  Spans <- SomeSpans
  Indices <- SomeIndices
  Clients = "careful"
CONSTRAINT Small
INVARIANTS
  TypeOK
  RangeIsSlice
PROPERTIES
  ImplementsExpiringStore
  DeadlinesKept
CHECK_DEADLOCK FALSE
