\* A CSV export of one table to a local folder, in up to four attempts - a file
\* that is whole, cut short by the second load and mended by the third, and a
\* retry - next to Parquet loads to S3 without end and one recovery request at a
\* time.
CONSTANTS
  local = local
  cloud = cloud
  Names <- MCNames
  Tables = {t1}
  Strangers = {"metadata"}
  MaxLoads = 4
  Dest <- MCDest
  Csv <- MCCsv
  Nothing = Nothing
  Handlers = {h1}
SPECIFICATION Spec
INVARIANTS TypeOK ExportIsWhole StaleNeverBlocks FormatIsOwn
PROPERTIES ExportsAreKept LoadsMoveOn
