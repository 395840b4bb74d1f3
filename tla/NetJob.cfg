SPECIFICATION FairSpec
CONSTANTS
  MaxParts = 4
  Abortable = {1, 2}
  Concurrencies = {1, 2}
INVARIANTS OnePlaceEach StartsBounded ConcurrencyRespected
PROPERTIES KeepsPromise JobEnds
CHECK_DEADLOCK FALSE
