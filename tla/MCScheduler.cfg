CONSTANTS
  a = a
  b = b
  hourly = hourly
  daily = daily
  h1 = h1
  h2 = h2
  h3 = h3
  Names <- MCNames
  DemoNames <- MCDemoNames
  Timed <- MCTimed
  Handlers <- MCHandlers
  Free = Free
SPECIFICATION FairSpec
INVARIANTS TypeOK JobsFollowStore SnapshotsAreFollowed
PROPERTIES SavesTakeEffect
