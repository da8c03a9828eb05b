\* Two runs of each of ten pipelines, on pages of two rows; one row may appear
\* or vanish at any time.
CONSTANTS
  Tables <- MCTables
  Default = "main"
  System = {"pg_catalog"}
  Columns <- MCColumns
  Type <- MCType
  None = None
  Rows <- MCRows
  First <- MCFirst
  Hour <- MCHour
  Home <- MCHome
  Today = 2
  Size = 2
  Configs <- MCConfigs
  MaxRuns = 2
  MaxChanges = 1
  Resource <- MCResource
  Null <- MCNull
  Oldest = 30
SPECIFICATION Spec
INVARIANTS TypeOK NothingLost GreenMeansLoaded GreenMeansClean StatsAddUp MessageIsTrue
PROPERTIES RunsEnd
CHECK_DEADLOCK FALSE
