SPECIFICATION FairSpec
CONSTANTS
  Callers = {c1, c2}
  Observer = Observer
  Owner = Owner
  NoThread = NoThread
  Group = TRUE
  Faults = {"spawn", "steal"}
INVARIANT SignalsOwnChild
INVARIANT NoLostWakeup
INVARIANT NoOrphan
PROPERTY EveryWaitReturns
PROPERTY DropReturns
