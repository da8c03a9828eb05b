\* The instance of MCExecute.cfg, in up to three attempts.
CONSTANTS
  local = local
  cloud = cloud
  Names <- MCNames
  Tables = {t1}
  Strangers = {"metadata"}
  MaxLoads = 3
  Dest <- MCDest
  Csv <- MCCsv
  Nothing = Nothing
  Handlers = {h1}
SPECIFICATION Spec
INVARIANT RecoveryNeverDuringLoad
