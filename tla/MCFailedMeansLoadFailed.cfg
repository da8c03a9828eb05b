CONSTANTS
  a = a
  b = b
  r1 = r1
  r2 = r2
  Names <- MCNames
  DemoNames <- MCDemoNames
  Runners <- MCRunners
  Max = 1
  NoName = NoName
SPECIFICATION Spec
INVARIANT FailedMeansLoadFailed
