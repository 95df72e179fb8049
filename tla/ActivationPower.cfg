SPECIFICATION Spec
CONSTANTS
  Procs = {q1}
  pA = pA
  pB = pB
  fKey = fKey
  fKey2 = fKey2
  fTmpl = fTmpl
  uWeb = uWeb
  uDb = uDb
  lCompat = lCompat
  Plans <- MCPlans
  Files <- MCFiles
  Templates <- MCTemplates
  Tree <- MCTree
  Units <- MCUnits
  Actions <- MCActions
  LinkNames <- MCLinkNames
  Links <- MCLinks
  MaxGen = 2
  ExplicitGens = {1}
  Faults = {"stage", "link", "rename", "mark_sync", "switch", "remove", "unit", "clear", "kill", "power"}
  NoProc = NoProc
  NoPlan = NoPlan
INVARIANT CurrentResolves
INVARIANT NoLostActions
