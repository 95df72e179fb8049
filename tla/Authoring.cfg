SPECIFICATION FairSpec
CONSTANTS
  Procs = {q1, q2}
  d1 = d1
  d2 = d2
  Paths = {d1, d2}
  Values = {old, v1, v2}
  Old = old
  Foreign = foreign
  Requests <- MCRequests
  Faults = {"stage", "editor", "backup_file", "backup", "publish", "commit", "remove", "restore", "sync", "foreign", "kill"}
  NoProc = NoProc
  NoFile = NoFile
  NoRequest = NoRequest
INVARIANT OriginalsKept
PROPERTY OutcomeIsHonest
PROPERTY NoSilentOverwrite
PROPERTY WriterIsServed
