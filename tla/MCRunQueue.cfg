\* Four pipelines for two slots: two can wait, so their order matters.  Three workers: two
\* that hold a slot and one that has released its slot and still pumps.
CONSTANTS
  a = a
  b = b
  c = c
  d = d
  s1 = s1
  s2 = s2
  w1 = w1
  w2 = w2
  w3 = w3
  Names <- MCNames
  Callers <- MCCallers
  Workers <- MCWorkers
  Max = 2
  StartFailures = 1
  NoItem = NoItem
SPECIFICATION FairSpec
INVARIANTS TypeOK BoundedRunning OncePerPipeline SlotHasOneOwner NoLostWakeup
PROPERTIES ImplementsPool QueuedNamesRun SlotsComeBack
