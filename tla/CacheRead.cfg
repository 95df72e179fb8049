SPECIFICATION Spec
CONSTANTS
  Procs = {q1, q2}
  a1 = a1
  v1 = v1
  v2 = v2
  forged = forged
  Objects = {ob}
  Artifacts = {a1}
  Versions <- MCVersions
  Signed <- MCSigned
  Active <- MCActive
  Exchanges <- MCExchanges
  MaxTxns = 2
  Ops = {"open", "put", "rekey", "inventory", "gc", "import", "export"}
  Faults = {"write", "sync", "kill", "remove"}
  NoProc = NoProc
  NoKey = NoKey
  NoVersion = NoVersion
  NoTxn = NoTxn
  NoExport = NoExport
INVARIANT ExportIsSnapshot
PROPERTY EntriesImmutable
SYMMETRY MCSymmetry
