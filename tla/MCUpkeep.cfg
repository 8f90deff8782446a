SPECIFICATION Spec
CONSTANTS
  Workers = {w1, w2}
  Streams = {s1}
  Tokens = {t1}
  Notice = 3
  FirstExpiry = 4
  Renewal = 2
  MonthDays = 2
  Big = 1
  RetentionDays = 2
  DefaultDays = 1
  Buffer = 3
  Keep = 3
  BackupDays = 2
  Hours = 4
  Seasons <- MCSeasons
SYMMETRY Symmetry
INVARIANTS StreamWhole DayCounted RecordsAreNewest MailedOnce LastBackupsKept
PROPERTIES LinesLeaveByAge
CHECK_DEADLOCK FALSE
