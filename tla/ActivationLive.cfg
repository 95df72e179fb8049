SPECIFICATION FairSpec
CONSTANTS
  Procs = {q1, q2}
  pA = pA
  pB = pB
  fKey = fKey
  fKey2 = fKey2
  fTmpl = fTmpl
  uWeb = uWeb
  uDb = uDb
  lCompat = lCompat
  Plans <- MCPlans
  Files <- MCFiles
  Templates <- MCTemplates
  Tree <- MCTree
  Units <- MCUnits
  Actions <- MCActions
  LinkNames <- MCLinkNames
  Links <- MCLinks
  MaxGen = 2
  ExplicitGens = {}
  Faults = {"switch", "switch_sync", "unit"}
  NoProc = NoProc
  NoPlan = NoPlan
INVARIANT MarkerRetriable
PROPERTY EveryActivationReturns
PROPERTY PendingIsCleared
