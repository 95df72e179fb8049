-------------------------- MODULE ActivationProofs --------------------------
(***************************************************************************)
(* Proofs about the activation transaction, for every number of            *)
(* activators, plans, files, units and generations.  IndInv is inductive   *)
(* when the fsync after the switch of `current' does not fail; every other *)
(* fault, kills and power losses included, may happen at any step.         *)
(***************************************************************************)
EXTENDS ActivationHistory, FiniteSetTheorems, TLAPS

ProcInv(p) == ControlInv(p) /\ TreeInv(p) /\ MarkerInv(p)
GlobalInv == SnapInv /\ CurrentResolves /\ NoLostActions

-----------------------------------------------------------------------------
(* Facts used by several steps                                             *)

\* IndInv, regrouped: types, one fact per process, facts about the root.
LEMMA IndInvParts ==
  IndInv <=> TypeOK /\ (\A p \in Procs : ProcInv(p)) /\ GlobalInv
BY DEF IndInv, ProcInv, GlobalInv

\* The fields of a changed root, and the states a power loss may leave.
LEMMA ChangeFacts ==
  ASSUME TypeOK,
         NEW n \in SUBSET Gens, NEW t \in [Gens -> SUBSET Files],
         NEW c \in 0..MaxGen, NEW m \in Markers,
         Change(Root(n, t, c, m))
  PROVE  /\ fs' \in Roots
         /\ snaps' \subseteq Roots
         /\ fs'.names = n /\ fs'.tree = t /\ fs'.current = c /\ fs'.marker = m
         /\ fs' \in snaps'
         /\ \A root \in snaps' : root = fs' \/ root \in snaps
<1>1. Root(n, t, c, m) \in Roots
  BY DEF Root, Roots
<1>2. fs' = Root(n, t, c, m) /\ fs' \in Roots
  BY <1>1 DEF Change
<1>3. snaps' = snaps \cup {fs'} \/ snaps' = {fs'}
  BY <1>2 DEF Change
<1>4. /\ snaps' \subseteq Roots /\ fs' \in snaps'
      /\ \A root \in snaps' : root = fs' \/ root \in snaps
  BY <1>2, <1>3 DEF TypeOK
<1>5. fs'.names = n /\ fs'.tree = t /\ fs'.current = c /\ fs'.marker = m
  BY <1>2 DEF Root
<1> QED BY <1>2, <1>4, <1>5

\* A process that is not past the lock says nothing about the root, and one
\* that is keeps its invariant while the root and the units stay the same.
LEMMA Bystander ==
  ASSUME NEW q \in Procs, ProcInv(q),
         pc'[q] = pc[q], plan'[q] = plan[q], next'[q] = next[q],
         staged'[q] = staged[q], num'[q] = num[q],
         lock' = q <=> lock = q,
         lock # q \/ UNCHANGED <<fs, snaps, links, stale>>
  PROVE  ProcInv(q)'
<1>1. CASE lock # q
  <2>1. pc[q] \in {"idle", "lock"}
    BY <1>1 DEF ProcInv, ControlInv
  <2>2. ControlInv(q)'
    BY <1>1, <2>1 DEF ProcInv, ControlInv
  <2>3. TreeInv(q)' /\ MarkerInv(q)'
    BY <2>1 DEF TreeInv, MarkerInv, FullyStaged, Published, Committing,
                HoldsLive, Linked
  <2> QED BY <2>2, <2>3 DEF ProcInv
<1>2. CASE UNCHANGED <<fs, snaps, links, stale>>
  BY <1>2 DEF ProcInv, ControlInv, TreeInv, MarkerInv, FullyStaged, Published,
              Committing, HoldsLive, Linked, HasActions, UnitsFrom
<1> QED BY <1>1, <1>2

\* An idle process that does not hold the lock satisfies its invariant.
LEMMA IdleInv ==
  ASSUME NEW p \in Procs, pc'[p] = "idle", lock' # p, next'[p] = 1
  PROVE  ProcInv(p)'
BY DEF ProcInv, ControlInv, TreeInv, MarkerInv, FullyStaged, Published,
       Committing, HoldsLive, Linked

\* Steps that leave the root and the units alone.
LEMMA GlobalSame ==
  ASSUME GlobalInv, UNCHANGED <<fs, snaps, stale>>
  PROVE  GlobalInv'
BY DEF GlobalInv, SnapInv, CurrentResolves, NoLostActions, Complete, UnitsOf,
       UnitsFrom

\* An fsync of the root.
LEMMA GlobalSync ==
  ASSUME GlobalInv, Sync, UNCHANGED stale
  PROVE  GlobalInv'
<1>1. CurrentResolves' /\ NoLostActions'
  BY DEF Sync, GlobalInv, CurrentResolves, NoLostActions, Complete, UnitsOf,
         UnitsFrom
<1>2. SnapInv'
  BY <1>1 DEF Sync, SnapInv, CurrentResolves, Complete
<1> QED BY <1>1, <1>2 DEF GlobalInv

\* A change that keeps the live tree, made while no unit is owed an action.
LEMMA GlobalChange ==
  ASSUME GlobalInv, stale = {}, UNCHANGED stale,
         fs' \in snaps',
         \A root \in snaps' : root = fs' \/ root \in snaps,
         fs'.current = fs.current,
         fs.current # 0 =>
           /\ fs.current \in fs'.names
           /\ fs'.tree[fs.current] = fs.tree[fs.current]
  PROVE  GlobalInv'
<1>1. CurrentResolves'
  BY DEF GlobalInv, CurrentResolves, Complete
<1>2. NoLostActions'
  BY DEF NoLostActions
<1>3. ASSUME NEW root \in snaps'
      PROVE  /\ Complete(root)
             /\ root.current = fs'.current /\ root.current # 0 =>
                  root.tree[root.current] = fs'.tree[fs'.current]
  <2>1. CASE root = fs'
    BY <1>1, <2>1 DEF CurrentResolves, Complete
  <2>2. CASE root \in snaps
    BY <2>2 DEF GlobalInv, SnapInv
  <2> QED BY <1>3, <2>1, <2>2
<1>4. SnapInv'
  BY <1>3 DEF SnapInv, Complete
<1> QED BY <1>1, <1>2, <1>4 DEF GlobalInv

-----------------------------------------------------------------------------
(* One lemma per group of actions: the step preserves IndInv               *)

\* A step of p preserves IndInv when it preserves the types, p's own invariant
\* and the facts about the root, and either p holds the lock or nothing but its
\* own state changes.
LEMMA Assemble ==
  ASSUME IndInv, NEW p \in Procs, TypeOK', ProcInv(p)', GlobalInv',
         \A q \in Procs \ {p} :
           /\ pc'[q] = pc[q] /\ plan'[q] = plan[q] /\ next'[q] = next[q]
           /\ staged'[q] = staged[q] /\ num'[q] = num[q]
           /\ lock' = q <=> lock = q
           /\ lock # q \/ UNCHANGED <<fs, snaps, links, stale>>
  PROVE  IndInv'
<1>1. ASSUME NEW q \in Procs PROVE ProcInv(q)'
  BY <1>1, IndInvParts, Bystander
<1> QED BY <1>1 DEF IndInv, ProcInv, GlobalInv

\* A step that ends p's activation and leaves the root alone.
LEMMA ReturnStep ==
  ASSUME IndInv, NEW p \in Procs, NEW how \in {"ok", "error"}, lock = p,
         Return(p, how), fs' = fs, stale' = stale, orphans' = orphans,
         links' \subseteq links,
         snaps' = snaps \/ snaps' = {fs}
  PROVE  IndInv'
<1> USE DEF Return, Goto
<1>1. TypeOK'
  BY ConstantAssumption DEF IndInv, TypeOK, Labels
<1>2. ASSUME NEW q \in Procs PROVE ProcInv(q)'
  <2>1. CASE q = p
    BY <2>1, ConstantAssumption, IdleInv DEF IndInv, TypeOK
  <2>2. CASE q # p
    BY <2>2, ConstantAssumption, IndInvParts, Bystander DEF TypeOK
  <2> QED BY <2>1, <2>2
<1>3. GlobalInv'
  BY IndInvParts, GlobalSame, GlobalSync DEF Sync
<1> QED BY <1>1, <1>2, <1>3 DEF IndInv, ProcInv, GlobalInv

\* Every step that ends an activation preserves the invariant: the refusals, the
\* failures that return at once, the successful return and the one that undoes
\* the compatibility links.
LEMMA ReturnSteps ==
  ASSUME IndInv, NEW p \in Procs,
         \/ StageFails(p) \/ CompareFails(p) \/ FinishRefused(p)
         \/ NumberRefused(p) \/ UnitFails(p) \/ ClearPendingFails(p)
         \/ PruneFails(p) \/ Pruned(p) \/ RemoveLinks(p)
  PROVE  IndInv'
<1>1. lock = p
  BY DEF IndInv, ControlInv, StageFails, CompareFails, FinishRefused,
         NumberRefused, UnitFails, ClearPendingFails, PruneFails, Pruned, PruneDone,
         RemoveLinks
<1>2. CASE Pruned(p)
  BY <1>1, <1>2, ReturnStep DEF Pruned, PruneDone, Sync
<1>3. CASE RemoveLinks(p)
  BY <1>1, <1>3, ReturnStep DEF RemoveLinks
<1>4. CASE ~Pruned(p) /\ ~RemoveLinks(p)
  <2>1. Return(p, "error") /\ UNCHANGED <<fs, snaps, links, orphans, stale>>
    BY <1>4 DEF StageFails, CompareFails, FinishRefused, NumberRefused,
                UnitFails, ClearPendingFails, PruneFails
  <2> QED BY <1>1, <2>1, ReturnStep
<1> QED BY <1>2, <1>3, <1>4

\* Waiting for the lock and staging the tree.
LEMMA StagingSteps ==
  ASSUME IndInv, NEW p \in Procs,
         \/ \E pl \in Plans, g \in {0} \cup ExplicitGens : Request(p, pl, g)
         \/ Begin(p) \/ Stage(p) \/ Staged(p) \/ Compare(p)
  PROVE  IndInv'
<1> USE DEF Goto, local
<1>1. GlobalInv'
  BY IndInvParts, GlobalSame DEF Request, Begin, Stage, Staged, Compare
<1>2. TypeOK /\ ProcInv(p)
  BY IndInvParts
<1>3. CASE \E pl \in Plans, g \in {0} \cup ExplicitGens : Request(p, pl, g)
  <2>1. PICK pl \in Plans, g \in {0} \cup ExplicitGens : Request(p, pl, g)
    BY <1>3
  <2>2. TypeOK'
    BY <1>2, <2>1, ConstantAssumption DEF Request, TypeOK, Labels
  <2>3. ProcInv(p)'
    BY <1>2, <2>1 DEF Request, TypeOK, ProcInv, ControlInv, TreeInv, MarkerInv,
         FullyStaged, Published, Committing, HoldsLive, Linked
  <2> QED BY <1>1, <1>2, <2>1, <2>2, <2>3, Assemble DEF Request, TypeOK
<1>4. CASE Begin(p)
  <2>1. TypeOK'
    BY <1>2, <1>4 DEF Begin, TypeOK, Labels
  <2>2. ProcInv(p)'
    BY <1>2, <1>4 DEF Begin, TypeOK, ProcInv, ControlInv, TreeInv, MarkerInv,
         FullyStaged, Published, Committing, HoldsLive, Linked
  <2> QED BY <1>1, <1>2, <1>4, <2>1, <2>2, ConstantAssumption, Assemble
            DEF Begin, TypeOK
<1>5. CASE Stage(p) \/ Staged(p) \/ Compare(p)
  <2>1. lock = p /\ plan[p] \in Plans
    BY <1>2, <1>5 DEF Stage, Staged, Compare, ProcInv, ControlInv
  <2>2. TypeOK'
    <3>1. CASE Stage(p)
      BY <1>2, <2>1, <3>1, ConstantAssumption DEF Stage, TypeOK
    <3>2. CASE Staged(p) \/ Compare(p)
      BY <1>2, <3>2 DEF Staged, Compare, TypeOK, Labels, Roots
    <3> QED BY <1>5, <3>1, <3>2
  <2>3. ProcInv(p)'
    <3>1. CASE Stage(p) \/ Staged(p)
      BY <1>2, <2>1, <3>1 DEF Stage, Staged, TypeOK, ProcInv, ControlInv,
           TreeInv, MarkerInv, FullyStaged, Published, Committing, HoldsLive,
           Linked
    <3>2. CASE Compare(p)
      <4>1. staged[p] = Tree[plan[p]]
        BY <1>2, <3>2 DEF Compare, ProcInv, TreeInv, FullyStaged
      <4>2. Matches(p) => fs.tree[fs.current] = Tree[plan[p]]
        <5>1. HAVE Matches(p)
        <5>2. fs.tree[fs.current] \subseteq Files
          BY <1>2, <5>1, ConstantAssumption DEF Matches, TypeOK, Roots, Gens
        <5>3. IsFiniteSet(fs.tree[fs.current])
          BY <5>2, ConstantAssumption, FS_Subset
        <5> QED BY <4>1, <5>1, <5>3, FS_Subset DEF Matches
      <4> QED BY <1>2, <2>1, <3>2, <4>1, <4>2
                DEF Compare, Matches, TypeOK, ProcInv, ControlInv, TreeInv,
                    MarkerInv, FullyStaged, Published, Committing, HoldsLive,
                    Linked
    <3> QED BY <1>5, <3>1, <3>2
  <2> QED BY <1>1, <1>2, <1>5, <2>1, <2>2, <2>3, Assemble
            DEF Stage, Staged, Compare, TypeOK
<1> QED BY <1>3, <1>4, <1>5

\* Compatibility links, the refusals that undo them, and the choice of a
\* generation number.
LEMMA LinkSteps ==
  ASSUME IndInv, NEW p \in Procs,
         \/ InstallLink(p) \/ LinkFails(p) \/ LinksReady(p)
         \/ FinishUnchanged(p) \/ ChooseNumber(p)
         \/ PublishRefused(p) \/ PublishFails(p)
         \/ SwitchFails(p) \/ DestinationRemoved(p)
  PROVE  IndInv'
<1> USE DEF Goto, local
<1>1. GlobalInv'
  BY IndInvParts, GlobalSame DEF InstallLink, LinkFails, LinksReady,
       FinishUnchanged, ChooseNumber, PublishRefused, PublishFails,
       SwitchFails, DestinationRemoved
<1>2. TypeOK /\ ProcInv(p) /\ GlobalInv
  BY IndInvParts
<1>3. lock = p /\ plan[p] \in Plans
  BY <1>2 DEF InstallLink, LinkFails, LinksReady, FinishUnchanged, ChooseNumber,
       PublishRefused, PublishFails, SwitchFails, DestinationRemoved, ProcInv,
       ControlInv
<1>4. TypeOK'
  <2>1. CASE InstallLink(p)
    BY <1>2, <1>3, <2>1, ConstantAssumption DEF InstallLink, TypeOK
  <2>2. CASE LinkFails(p) \/ LinksReady(p) \/ FinishUnchanged(p)
    BY <1>2, <2>2 DEF LinkFails, LinksReady, FinishUnchanged, TypeOK, Labels
  <2>3. CASE ChooseNumber(p)
    BY <1>2, <2>3, ConstantAssumption DEF ChooseNumber, TypeOK, Labels, Gens
  <2>4. CASE PublishRefused(p) \/ PublishFails(p)
    BY <1>2, <2>4 DEF PublishRefused, PublishFails, TypeOK, Labels
  <2>5. CASE SwitchFails(p) \/ DestinationRemoved(p)
    BY <1>2, <2>5 DEF SwitchFails, DestinationRemoved, AfterRemoval, TypeOK,
                      Labels
  <2> QED BY <2>1, <2>2, <2>3, <2>4, <2>5
<1>5. ProcInv(p)'
  <2> USE DEF TypeOK, ProcInv, ControlInv, TreeInv, MarkerInv, FullyStaged,
              Published, Committing, HoldsLive, Linked
  <2>1. CASE InstallLink(p)
    BY <1>2, <1>3, <2>1 DEF InstallLink, HasActions, UnitsFrom
  <2>2. CASE LinkFails(p)
    BY <1>2, <1>3, <2>2 DEF LinkFails
  <2>3. CASE LinksReady(p)
    BY <1>2, <1>3, <2>3 DEF LinksReady
  <2>4. CASE FinishUnchanged(p)
    BY <1>2, <1>3, <2>4 DEF FinishUnchanged, PendingMatches, GlobalInv,
         NoLostActions, UnitsOf
  <2>5. CASE ChooseNumber(p)
    BY <1>2, <1>3, <2>5 DEF ChooseNumber, GlobalInv, NoLostActions
  <2>6. CASE PublishRefused(p) \/ PublishFails(p)
    BY <1>2, <1>3, <2>6 DEF PublishRefused, PublishFails
  <2>7. CASE SwitchFails(p)
    BY <1>2, <1>3, <2>7 DEF SwitchFails
  <2>8. CASE DestinationRemoved(p)
    BY <1>2, <1>3, <2>8 DEF DestinationRemoved, AfterRemoval
  <2> QED BY <2>1, <2>2, <2>3, <2>4, <2>5, <2>6, <2>7, <2>8
<1> QED BY <1>1, <1>2, <1>3, <1>4, <1>5, Assemble
          DEF InstallLink, LinkFails, LinksReady, FinishUnchanged, ChooseNumber,
              PublishRefused, PublishFails, SwitchFails, DestinationRemoved,
              TypeOK

\* The fsyncs of the runtime root, successful or failed.
LEMMA SyncSteps ==
  ASSUME IndInv, NEW p \in Procs, "switch_sync" \notin Faults,
         \/ PublishSync(p) \/ WritePendingSync(p) \/ SwitchCurrentSync(p)
         \/ UndoPendingSync(p) \/ ClearPendingSync(p)
  PROVE  IndInv'
<1> USE DEF Goto, local
<1>1. TypeOK /\ ProcInv(p) /\ GlobalInv
  BY IndInvParts
<1>2. lock = p /\ plan[p] \in Plans
  BY <1>1 DEF PublishSync, AfterPublish, WritePendingSync, SwitchCurrentSync, UndoPendingSync,
       ClearPendingSync, ProcInv, ControlInv
<1>3. fs' = fs /\ stale' = stale /\ (snaps' = snaps \/ snaps' = {fs})
  BY DEF PublishSync, AfterPublish, WritePendingSync, SwitchCurrentSync, UndoPendingSync,
       ClearPendingSync, Sync
<1>4. GlobalInv'
  BY <1>1, <1>3, GlobalSame, GlobalSync DEF Sync
<1>5. TypeOK'
  BY <1>1, <1>3 DEF PublishSync, AfterPublish, WritePendingSync, SwitchCurrentSync,
       UndoPendingSync, ClearPendingSync, TypeOK, Labels
<1>6. ProcInv(p)'
  <2> USE DEF TypeOK, ProcInv, ControlInv, TreeInv, MarkerInv, FullyStaged,
              Published, Committing, HoldsLive, Linked, Sync
  <2>1. CASE PublishSync(p)
    BY <1>1, <1>2, <2>1 DEF PublishSync, AfterPublish
  <2>2. CASE WritePendingSync(p)
    BY <1>1, <1>2, <2>2 DEF WritePendingSync
  <2>3. CASE SwitchCurrentSync(p)
    <3>1. ~HasActions(plan[p]) => stale = {}
      BY <1>1, <2>3 DEF SwitchCurrentSync, GlobalInv, NoLostActions
    <3>2. stale \subseteq UnitsFrom(plan[p], 1)
      BY <1>1, <2>3 DEF SwitchCurrentSync, GlobalInv, NoLostActions, UnitsOf
    <3>3. /\ pc' = [pc EXCEPT ![p] = IF HasActions(plan[p]) THEN "post" ELSE "prune"]
          /\ UNCHANGED <<plan, num, next, staged, links, lock>>
          /\ pc[p] = "switch_sync"
      BY <2>3 DEF SwitchCurrentSync, Fails
    <3>4. ControlInv(p)' /\ TreeInv(p)'
      BY <1>1, <1>2, <1>3, <3>3
    <3>5. MarkerInv(p)'
      BY <1>1, <1>2, <1>3, <3>1, <3>2, <3>3
    <3> QED BY <3>4, <3>5
  <2>4. CASE UndoPendingSync(p)
    BY <1>1, <1>2, <2>4 DEF UndoPendingSync
  <2>5. CASE ClearPendingSync(p)
    BY <1>1, <1>2, <2>5 DEF ClearPendingSync
  <2> QED BY <2>1, <2>2, <2>3, <2>4, <2>5
<1> QED BY <1>1, <1>2, <1>3, <1>4, <1>5, <1>6, Assemble
          DEF PublishSync, AfterPublish, WritePendingSync, SwitchCurrentSync, UndoPendingSync,
              ClearPendingSync, TypeOK

\* Publication under a fresh number, which is not the live one.
LEMMA PublishStep ==
  ASSUME IndInv, NEW p \in Procs, Publish(p)
  PROVE  IndInv'
<1> USE DEF Goto
<1>1. TypeOK /\ ProcInv(p) /\ GlobalInv
  BY IndInvParts
<1>2. /\ lock = p /\ plan[p] \in Plans /\ num[p] \in Gens
      /\ staged[p] = Tree[plan[p]] /\ fs.marker = NoMarker /\ stale = {}
      /\ next[p] = 1 /\ Links[plan[p]] \subseteq links
  BY <1>1 DEF Publish, ProcInv, ControlInv, TreeInv, MarkerInv, FullyStaged,
       Committing, Linked
<1>3. num[p] # fs.current
  BY <1>1, <1>2, ConstantAssumption DEF Publish, GlobalInv, CurrentResolves,
       Complete, Gens
<1>4. /\ fs' \in Roots /\ snaps' \subseteq Roots
      /\ fs'.names = fs.names \cup {num[p]}
      /\ fs'.tree = [fs.tree EXCEPT ![num[p]] = staged[p]]
      /\ fs'.current = fs.current /\ fs'.marker = fs.marker
      /\ fs' \in snaps'
      /\ \A root \in snaps' : root = fs' \/ root \in snaps
  <2>1. /\ fs.names \cup {num[p]} \in SUBSET Gens
        /\ [fs.tree EXCEPT ![num[p]] = staged[p]] \in [Gens -> SUBSET Files]
        /\ fs.current \in 0..MaxGen /\ fs.marker \in Markers
    BY <1>1, <1>2 DEF TypeOK, Roots
  <2> QED BY <1>1, <2>1, ChangeFacts DEF Publish
<1>5. TypeOK'
  BY <1>1, <1>4 DEF Publish, TypeOK, Labels
<1>6. GlobalInv'
  <2>1. fs.current # 0 =>
          /\ fs.current \in fs'.names
          /\ fs'.tree[fs.current] = fs.tree[fs.current]
    BY <1>1, <1>3, <1>4, ConstantAssumption
       DEF GlobalInv, CurrentResolves, Complete, TypeOK, Roots, Gens
  <2> QED BY <1>1, <1>2, <1>4, <2>1, GlobalChange DEF Publish
<1>7. ProcInv(p)'
  BY <1>1, <1>2, <1>3, <1>4
     DEF Publish, TypeOK, Roots, ProcInv, ControlInv, TreeInv, MarkerInv,
         FullyStaged, Published, Committing, HoldsLive, Linked
<1> QED BY <1>1, <1>2, <1>5, <1>6, <1>7, Assemble DEF Publish, TypeOK

\* The changes of the marker.
LEMMA MarkerSteps ==
  ASSUME IndInv, NEW p \in Procs,
         WritePending(p) \/ UndoPending(p) \/ ClearPending(p)
  PROVE  IndInv'
<1> USE DEF Goto, local
<1>1. TypeOK /\ ProcInv(p) /\ GlobalInv
  BY IndInvParts
<1>2. lock = p /\ plan[p] \in Plans
  BY <1>1 DEF WritePending, UndoPending, ClearPending, ProcInv, ControlInv
<1>3. stale = {}
  <2>1. CASE WritePending(p) \/ UndoPending(p)
    BY <1>1, <2>1 DEF WritePending, UndoPending, ProcInv, MarkerInv, Committing,
         Published
  <2>2. CASE ClearPending(p)
    <3>1. next[p] \in Nat /\ Len(Actions[plan[p]]) \in Nat
      BY <1>1, <1>2, ConstantAssumption DEF TypeOK
    <3>2. next[p]..Len(Actions[plan[p]]) = {}
      BY <2>2, <3>1 DEF ClearPending
    <3> QED BY <1>1, <2>2, <3>2 DEF ClearPending, ProcInv, MarkerInv, UnitsFrom
  <2> QED BY <2>1, <2>2
<1>4. \/ UNCHANGED <<fs, snaps>>
      \/ \E m \in Markers : SetMarker(m)
  <2>1. NoMarker \in Markers
    BY DEF Markers
  <2>2. CASE WritePending(p)
    <3>1. [gen |-> num[p], plan |-> plan[p]] \in Markers
      BY <1>1, <1>2, <2>2 DEF WritePending, ProcInv, TreeInv, Published, Markers
    <3> QED BY <2>2, <3>1 DEF WritePending
  <2> QED BY <2>1, <2>2 DEF UndoPending, ClearPending
<1>5. /\ fs' \in Roots /\ snaps' \subseteq Roots
      /\ fs'.names = fs.names /\ fs'.tree = fs.tree /\ fs'.current = fs.current
      /\ fs' \in snaps'
      /\ \A root \in snaps' : root = fs' \/ root \in snaps
  <2>1. CASE UNCHANGED <<fs, snaps>>
    BY <1>1, <2>1 DEF TypeOK, GlobalInv, SnapInv
  <2>2. CASE \E m \in Markers : SetMarker(m)
    <3>1. PICK m \in Markers : SetMarker(m)
      BY <2>2
    <3>2. fs.names \in SUBSET Gens /\ fs.tree \in [Gens -> SUBSET Files]
          /\ fs.current \in 0..MaxGen
      BY <1>1 DEF TypeOK, Roots
    <3> QED BY <1>1, <3>1, <3>2, ChangeFacts DEF SetMarker
  <2> QED BY <1>4, <2>1, <2>2
<1>6. TypeOK'
  BY <1>1, <1>5 DEF WritePending, UndoPending, ClearPending, TypeOK, Labels
<1>7. GlobalInv'
  BY <1>1, <1>3, <1>5, GlobalChange
     DEF WritePending, UndoPending, ClearPending, GlobalInv, CurrentResolves,
         Complete
<1>8. ProcInv(p)'
  <2>1. ASSUME NEW m, SetMarker(m) PROVE fs'.marker = m
    BY <2>1 DEF SetMarker, Change, Root
  <2> USE DEF TypeOK, ProcInv, ControlInv, TreeInv, MarkerInv, FullyStaged,
              Published, Committing, HoldsLive, Linked
  <2>2. CASE WritePending(p)
    BY <1>1, <1>2, <1>3, <1>5, <2>1, <2>2 DEF WritePending
  <2>3. CASE UndoPending(p)
    BY <1>1, <1>2, <1>3, <1>5, <2>3 DEF UndoPending
  <2>4. CASE ClearPending(p)
    BY <1>1, <1>2, <1>3, <1>5, <2>1, <2>4 DEF ClearPending
  <2> QED BY <2>2, <2>3, <2>4
<1> QED BY <1>1, <1>2, <1>6, <1>7, <1>8, Assemble
          DEF WritePending, UndoPending, ClearPending, TypeOK

\* The switch itself: the new live generation is complete, its marker is in
\* place, and nothing older than the marker can come back.
LEMMA SwitchStep ==
  ASSUME IndInv, NEW p \in Procs, SwitchCurrent(p)
  PROVE  IndInv'
<1> USE DEF Goto, local
<1>1. TypeOK /\ ProcInv(p) /\ GlobalInv
  BY IndInvParts
<1>2. /\ lock = p /\ plan[p] \in Plans /\ num[p] \in Gens
      /\ num[p] \in fs.names /\ fs.tree[num[p]] = Tree[plan[p]]
      /\ num[p] # fs.current /\ snaps = {fs} /\ next[p] = 1
      /\ Links[plan[p]] \subseteq links
      /\ fs.marker = IF HasActions(plan[p])
                     THEN [gen |-> num[p], plan |-> plan[p]] ELSE NoMarker
  BY <1>1 DEF SwitchCurrent, ProcInv, ControlInv, TreeInv, MarkerInv, Published,
       Linked
<1>3. num[p] # 0 /\ num[p] \in 0..MaxGen
  BY <1>2, ConstantAssumption DEF Gens
<1>4. /\ fs' \in Roots /\ snaps' \subseteq Roots
      /\ fs'.names = fs.names /\ fs'.tree = fs.tree
      /\ fs'.current = num[p] /\ fs'.marker = fs.marker
      /\ fs' \in snaps'
      /\ \A root \in snaps' : root = fs' \/ root \in snaps
  <2>1. /\ fs.names \in SUBSET Gens /\ fs.tree \in [Gens -> SUBSET Files]
        /\ fs.marker \in Markers
    BY <1>1 DEF TypeOK, Roots
  <2> QED BY <1>1, <1>3, <2>1, ChangeFacts DEF SwitchCurrent
<1>5. stale' = UnitsOf(plan[p]) /\ UnitsOf(plan[p]) \subseteq Units
  <2>1. Actions[plan[p]] \in Seq(Units)
    BY <1>2, ConstantAssumption
  <2>2. ASSUME NEW j \in 1..Len(Actions[plan[p]])
        PROVE  Actions[plan[p]][j] \in Units
    BY <2>1
  <2> QED BY <2>2 DEF SwitchCurrent, UnitsOf, UnitsFrom
<1>6. ~HasActions(plan[p]) => UnitsOf(plan[p]) = {}
  <2>1. Actions[plan[p]] \in Seq(Units)
    BY <1>2, ConstantAssumption
  <2>2. Len(Actions[plan[p]]) \in Nat
    BY <2>1
  <2>3. ~HasActions(plan[p]) => 1..Len(Actions[plan[p]]) = {}
    BY <2>2 DEF HasActions
  <2> QED BY <2>3 DEF UnitsOf, UnitsFrom
<1>7. TypeOK'
  BY <1>1, <1>4, <1>5 DEF SwitchCurrent, TypeOK, Labels
<1>8. CurrentResolves'
  BY <1>2, <1>4 DEF CurrentResolves, Complete
<1>9. NoLostActions'
  <2>1. CASE HasActions(plan[p])
    <3>1. fs'.marker = [gen |-> num[p], plan |-> plan[p]]
      BY <1>2, <1>4, <2>1
    <3>2. fs'.marker # NoMarker
      BY <1>3, <3>1 DEF NoMarker
    <3> QED BY <1>2, <1>4, <1>5, <3>1, <3>2 DEF NoLostActions, UnitsOf
  <2>2. CASE ~HasActions(plan[p])
    BY <1>5, <1>6, <2>2 DEF NoLostActions
  <2> QED BY <2>1, <2>2
<1>10. SnapInv'
  <2>1. ASSUME NEW root \in snaps'
        PROVE  /\ Complete(root)
               /\ root.current = fs'.current =>
                    /\ root.current # 0 =>
                         root.tree[root.current] = fs'.tree[fs'.current]
                    /\ stale' # {} => root.marker = fs'.marker
    <3>1. CASE root = fs'
      BY <1>8, <3>1 DEF CurrentResolves, Complete
    <3>2. CASE root = fs
      BY <1>1, <1>2, <1>4, <3>2 DEF GlobalInv, CurrentResolves
    <3> QED BY <1>2, <1>4, <2>1, <3>1, <3>2
  <2> QED BY <1>4, <2>1 DEF SnapInv, Complete
<1>11. ProcInv(p)'
  BY <1>1, <1>2, <1>3, <1>4
     DEF SwitchCurrent, TypeOK, ProcInv, ControlInv, TreeInv, MarkerInv,
         FullyStaged, Published, Committing, HoldsLive, Linked
<1>12. GlobalInv'
  BY <1>8, <1>9, <1>10 DEF GlobalInv
<1> QED BY <1>1, <1>2, <1>7, <1>11, <1>12, Assemble DEF SwitchCurrent, TypeOK

\* Removing files of a generation other than the live one.
LEMMA RemovalFacts ==
  ASSUME TypeOK, NEW g \in Gens, RemovalStep(g)
  PROVE  /\ fs' \in Roots /\ snaps' \subseteq Roots
         /\ fs'.current = fs.current /\ fs'.marker = fs.marker
         /\ fs' \in snaps'
         /\ \A root \in snaps' : root = fs' \/ root \in snaps
         /\ \A h \in Gens \ {g} :
              /\ fs'.tree[h] = fs.tree[h]
              /\ h \in fs.names => h \in fs'.names
<1>1. /\ fs.names \in SUBSET Gens /\ fs.tree \in [Gens -> SUBSET Files]
      /\ fs.current \in 0..MaxGen /\ fs.marker \in Markers
  BY DEF TypeOK, Roots
<1>2. CASE \E f \in fs.tree[g] :
             Change(Root(fs.names, [fs.tree EXCEPT ![g] = @ \ {f}], fs.current,
                         fs.marker))
  <2>1. PICK f \in fs.tree[g] :
             Change(Root(fs.names, [fs.tree EXCEPT ![g] = @ \ {f}], fs.current,
                         fs.marker))
    BY <1>2
  <2>2. [fs.tree EXCEPT ![g] = @ \ {f}] \in [Gens -> SUBSET Files]
    BY <1>1
  <2>3. /\ fs' \in Roots /\ snaps' \subseteq Roots
        /\ fs'.names = fs.names /\ fs'.tree = [fs.tree EXCEPT ![g] = @ \ {f}]
        /\ fs'.current = fs.current /\ fs'.marker = fs.marker
        /\ fs' \in snaps'
        /\ \A root \in snaps' : root = fs' \/ root \in snaps
    BY <1>1, <2>1, <2>2, ChangeFacts
  <2> QED BY <1>1, <2>3
<1>3. CASE Change(Root(fs.names \ {g}, fs.tree, fs.current, fs.marker))
  <2>1. fs.names \ {g} \in SUBSET Gens
    BY <1>1
  <2> QED BY <1>1, <1>3, <2>1, ChangeFacts
<1> QED BY <1>2, <1>3 DEF RemovalStep

\* Deleting a file or a directory, of the destination on an error path or of a
\* superseded generation, preserves the invariant.
LEMMA RemovalSteps ==
  ASSUME IndInv, NEW p \in Procs, RemoveDestination(p) \/ Prune(p)
  PROVE  IndInv'
<1> USE DEF local
<1>1. TypeOK /\ ProcInv(p) /\ GlobalInv
  BY IndInvParts
<1>2. lock = p /\ plan[p] \in Plans /\ stale = {}
  BY <1>1 DEF RemoveDestination, Prune, Superseded, ProcInv, ControlInv, MarkerInv, Committing
<1>3. PICK g \in Gens : g # fs.current /\ RemovalStep(g)
  <2>1. CASE RemoveDestination(p)
    BY <1>1, <2>1 DEF RemoveDestination, ProcInv, TreeInv
  <2>2. CASE Prune(p)
    BY <1>1, <2>2 DEF Prune, Superseded, ProcInv, TreeInv, HoldsLive, TypeOK, Roots
  <2> QED BY <2>1, <2>2
<1>4. /\ fs' \in Roots /\ snaps' \subseteq Roots
      /\ fs'.current = fs.current /\ fs'.marker = fs.marker
      /\ fs' \in snaps'
      /\ \A root \in snaps' : root = fs' \/ root \in snaps
      /\ \A h \in Gens \ {g} :
           /\ fs'.tree[h] = fs.tree[h]
           /\ h \in fs.names => h \in fs'.names
  BY <1>1, <1>3, RemovalFacts
<1>5. fs.current # 0 =>
        /\ fs.current \in fs'.names
        /\ fs'.tree[fs.current] = fs.tree[fs.current]
  BY <1>1, <1>3, <1>4, ConstantAssumption
     DEF GlobalInv, CurrentResolves, Complete, TypeOK, Roots, Gens
<1>6. UNCHANGED <<links, orphans, stale, lock, pc, plan, want, staged, num, made,
                  next, result>>
  BY DEF RemoveDestination, Prune, Superseded
<1>7. TypeOK'
  BY <1>1, <1>4, <1>6 DEF TypeOK
<1>8. GlobalInv'
  BY <1>1, <1>2, <1>4, <1>5, <1>6, GlobalChange
<1>9. ProcInv(p)'
  <2>1. pc[p] \in {"rm_dest", "undo_dest", "prune"}
    BY DEF RemoveDestination, Prune, Superseded
  <2> QED BY <1>1, <1>4, <1>5, <1>6, <2>1
            DEF TypeOK, ProcInv, ControlInv, TreeInv, MarkerInv, FullyStaged,
                Published, Committing, HoldsLive, Linked
<1> QED BY <1>2, <1>6, <1>7, <1>8, <1>9, Assemble

\* One service action done.
LEMMA RunUnitStep ==
  ASSUME IndInv, NEW p \in Procs, RunUnit(p)
  PROVE  IndInv'
<1>1. TypeOK /\ ProcInv(p) /\ GlobalInv
  BY IndInvParts
<1>2. lock = p /\ plan[p] \in Plans /\ stale' \subseteq stale
  BY <1>1 DEF RunUnit, ProcInv, ControlInv
<1>3. TypeOK'
  BY <1>1, <1>2 DEF RunUnit, TypeOK
<1>4. GlobalInv'
  BY <1>1, <1>2 DEF RunUnit, GlobalInv, SnapInv, CurrentResolves, NoLostActions,
       Complete, UnitsOf, UnitsFrom
<1>5. stale' \subseteq UnitsFrom(plan[p], next[p] + 1)
  <2>1. next[p] \in Nat
    BY <1>1 DEF TypeOK
  <2>2. Len(Actions[plan[p]]) \in Nat
    BY <1>2, ConstantAssumption
  <2>3. \A j \in next[p]..Len(Actions[plan[p]]) :
          j = next[p] \/ j \in (next[p] + 1)..Len(Actions[plan[p]])
    BY <2>1, <2>2
  <2>4. stale \subseteq UnitsFrom(plan[p], next[p])
    BY <1>1 DEF RunUnit, ProcInv, MarkerInv
  <2> QED BY <2>3, <2>4 DEF RunUnit, UnitsFrom
<1>6. ProcInv(p)'
  <2>1. next'[p] = next[p] + 1
    BY <1>1 DEF RunUnit, TypeOK
  <2> QED BY <1>1, <1>2, <1>5, <2>1
            DEF RunUnit, ProcInv, ControlInv, TreeInv, MarkerInv, FullyStaged,
                Published, Committing, HoldsLive, Linked
<1> QED BY <1>1, <1>2, <1>3, <1>4, <1>6, Assemble DEF RunUnit, TypeOK

\* A killed activator, and a power loss that reverts to an earlier root.
LEMMA CrashSteps ==
  ASSUME IndInv, (\E p \in Procs : Kill(p)) \/ PowerLoss
  PROVE  IndInv'
<1>1. TypeOK /\ GlobalInv
  BY IndInvParts
<1>2. ASSUME NEW p \in Procs, Kill(p) PROVE IndInv'
  <2>1. TypeOK'
    BY <1>1, <1>2, ConstantAssumption DEF Kill, Goto, TypeOK, Labels
  <2>2. ProcInv(p)'
    BY <1>1, <1>2, ConstantAssumption, IdleInv DEF Kill, Goto, TypeOK
  <2>3. GlobalInv'
    BY <1>1, <1>2, GlobalSame DEF Kill
  <2>4. ASSUME NEW q \in Procs \ {p}
        PROVE  /\ pc'[q] = pc[q] /\ plan'[q] = plan[q] /\ next'[q] = next[q]
               /\ staged'[q] = staged[q] /\ num'[q] = num[q]
               /\ lock' = q <=> lock = q
               /\ UNCHANGED <<fs, snaps, links, stale>>
    BY <1>1, <1>2, ConstantAssumption DEF Kill, Goto, TypeOK
  <2> QED BY <2>1, <2>2, <2>3, <2>4, Assemble
<1>3. CASE PowerLoss
  <2>1. PICK root \in snaps :
          /\ fs' = root /\ snaps' = {root}
          /\ stale' = IF root.current = fs.current THEN stale ELSE {}
    BY <1>3 DEF PowerLoss
  <2>2. /\ root \in Roots /\ Complete(root)
        /\ root.current = fs.current =>
             /\ root.current # 0 => root.tree[root.current] = fs.tree[fs.current]
             /\ stale # {} => root.marker = fs.marker
    BY <1>1 DEF TypeOK, GlobalInv, SnapInv
  <2>3. TypeOK'
    BY <1>1, <1>3, <2>1, <2>2, ConstantAssumption DEF PowerLoss, TypeOK, Labels
  <2>4. CurrentResolves' /\ SnapInv'
    BY <2>1, <2>2 DEF CurrentResolves, SnapInv, Complete
  <2>5. NoLostActions'
    <3>1. CASE stale' = {}
      BY <3>1 DEF NoLostActions
    <3>2. CASE stale' # {}
      <4>1. root.current = fs.current /\ stale' = stale
        BY <2>1, <3>2
      <4>2. fs.marker # NoMarker /\ fs.marker.gen = fs.current
            /\ fs.tree[fs.current] = Tree[fs.marker.plan]
            /\ stale \subseteq UnitsOf(fs.marker.plan)
        BY <1>1, <3>2, <4>1 DEF GlobalInv, NoLostActions
      <4>3. fs.current # 0
        BY <1>1, <4>2, ConstantAssumption DEF TypeOK, Roots, Markers, Gens
      <4> QED BY <2>1, <2>2, <3>2, <4>1, <4>2, <4>3
                DEF NoLostActions, UnitsOf, UnitsFrom
    <3> QED BY <3>1, <3>2
  <2>6. ASSUME NEW q \in Procs PROVE ProcInv(q)'
    BY <1>3, ConstantAssumption, IdleInv DEF PowerLoss
  <2> QED BY <2>3, <2>4, <2>5, <2>6 DEF IndInv, ProcInv
<1> QED BY <1>2, <1>3

-----------------------------------------------------------------------------
(* Theorems                                                                *)

\* The initial state satisfies the inductive invariant.
LEMMA IndInvInit == Init => IndInv
<1> SUFFICES ASSUME Init PROVE IndInv
  OBVIOUS
<1>1. fs \in Roots /\ fs.current = 0
  BY ConstantAssumption DEF Init, Root, Roots, Gens, Markers, NoMarker
<1>2. TypeOK
  BY <1>1, ConstantAssumption DEF Init, TypeOK, Labels
<1>3. \A p \in Procs : ProcInv(p)
  BY ConstantAssumption DEF Init, ProcInv, ControlInv, TreeInv, MarkerInv,
       FullyStaged, Published, Committing, HoldsLive, Linked
<1>4. GlobalInv
  BY <1>1 DEF Init, GlobalInv, SnapInv, CurrentResolves, NoLostActions, Complete
<1> QED BY <1>2, <1>3, <1>4, IndInvParts

\* Every step preserves it, provided the fsync after the switch succeeds.
LEMMA IndInvNext ==
  ASSUME "switch_sync" \notin Faults, IndInv, [Next]_vars
  PROVE  IndInv'
<1>1. CASE UNCHANGED vars
  <2>1. TypeOK'
    BY <1>1 DEF vars, IndInv, TypeOK
  <2>2. ASSUME NEW q \in Procs PROVE ProcInv(q)'
    BY <1>1, IndInvParts, Bystander DEF vars
  <2>3. GlobalInv'
    BY <1>1, IndInvParts, GlobalSame DEF vars
  <2> QED BY <2>1, <2>2, <2>3 DEF IndInv, ProcInv, GlobalInv
<1>2. ASSUME NEW p \in Procs,
             \/ \E pl \in Plans, g \in {0} \cup ExplicitGens : Request(p, pl, g)
             \/ Begin(p)
      PROVE  IndInv'
  BY <1>2, StagingSteps
<1>3. ASSUME NEW p \in Procs, Holder(p) PROVE IndInv'
  BY <1>3, StagingSteps, LinkSteps, ReturnSteps, SyncSteps, PublishStep,
     MarkerSteps, SwitchStep, RemovalSteps, RunUnitStep DEF Holder
<1>4. CASE (\E p \in Procs : Kill(p)) \/ PowerLoss
  BY <1>4, CrashSteps
<1> QED BY <1>1, <1>2, <1>3, <1>4 DEF Next

\* IndInv holds in every reachable state of every instance in which the fsync
\* of switch_current does not fail.
THEOREM ActivationInductive ==
  ASSUME "switch_sync" \notin Faults
  PROVE  Spec => []IndInv
<1>1. IndInv /\ [Next]_vars => IndInv'
  BY IndInvNext
<1> QED BY <1>1, IndInvInit, PTL DEF Spec

\* Type correctness of the activation transaction.
THEOREM ActivationTypes ==
  ASSUME "switch_sync" \notin Faults
  PROVE  Spec => []TypeOK
<1>1. IndInv => TypeOK
  BY DEF IndInv
<1> QED BY <1>1, ActivationInductive, PTL

\* `current' always resolves to a complete generation of one plan, whatever
\* steps fail, whichever activators are killed and whenever the power is lost.
THEOREM CurrentAlwaysResolves ==
  ASSUME "switch_sync" \notin Faults
  PROVE  Spec => []CurrentResolves
<1>1. IndInv => CurrentResolves
  BY DEF IndInv
<1> QED BY <1>1, ActivationInductive, PTL

\* A unit that has not been acted on since the switch is always covered by a
\* marker for the live generation.
THEOREM ActionsNeverLost ==
  ASSUME "switch_sync" \notin Faults
  PROVE  Spec => []NoLostActions
<1>1. IndInv => NoLostActions
  BY DEF IndInv
<1> QED BY <1>1, ActivationInductive, PTL

\* What one step may do to the live generation.
LEMMA LiveTreeStep ==
  ASSUME IndInv, Next, fs.current # 0, fs'.current = fs.current
  PROVE  /\ fs'.tree[fs.current] = fs.tree[fs.current]
         /\ fs.current \in fs.names => fs.current \in fs'.names
<1>1. TypeOK /\ GlobalInv /\ \A p \in Procs : ProcInv(p)
  BY IndInvParts
<1>2. ASSUME NEW p \in Procs, Publish(p)
      PROVE  fs' = Root(fs.names \cup {num[p]},
                        [fs.tree EXCEPT ![num[p]] = staged[p]], fs.current,
                        fs.marker)
             /\ num[p] # fs.current
  BY <1>1, <1>2 DEF Publish, Change, GlobalInv, CurrentResolves, Complete
<1>3. ASSUME NEW p \in Procs, RemoveDestination(p) \/ Prune(p)
      PROVE  \E g \in Gens \ {fs.current} : RemovalStep(g)
  BY <1>1, <1>3 DEF RemoveDestination, Prune, Superseded, ProcInv, TreeInv, HoldsLive, TypeOK,
       Roots
<1>4. ASSUME NEW p \in Procs, SwitchCurrent(p)
      PROVE  fs'.current # fs.current
  BY <1>1, <1>4 DEF SwitchCurrent, Change, Root, ProcInv, TreeInv, Published
<1>5. CASE \E m : SetMarker(m)
  BY <1>5 DEF SetMarker, Change, Root
<1>6. CASE \E p \in Procs : Publish(p)
  BY <1>1, <1>2, <1>6, ConstantAssumption DEF Root, TypeOK, Roots, Gens
<1>7. CASE \E g \in Gens \ {fs.current} : RemovalStep(g)
  BY <1>1, <1>7, RemovalFacts, ConstantAssumption DEF TypeOK, Roots, Gens
<1>8. CASE PowerLoss
  BY <1>1, <1>8 DEF PowerLoss, GlobalInv, SnapInv, Complete
<1>9. CASE fs' = fs
  BY <1>9
<1>10. ASSUME NEW p \in Procs, Holder(p)
       PROVE  \/ fs' = fs \/ \E m : SetMarker(m)
              \/ Publish(p) \/ SwitchCurrent(p)
              \/ RemoveDestination(p) \/ Prune(p)
  BY <1>10 DEF Holder, Stage, StageFails, Staged, Compare, CompareFails,
       InstallLink, LinkFails, LinksReady, RemoveLinks, FinishUnchanged,
       FinishRefused, ChooseNumber, NumberRefused, PublishRefused, PublishFails,
       PublishSync, AfterPublish, WritePending, WritePendingSync, SwitchFails,
       SwitchCurrentSync, DestinationRemoved, UndoPending, UndoPendingSync,
       RunUnit, UnitFails, ClearPending, ClearPendingSync, ClearPendingFails,
       PruneFails, Pruned, PruneDone, Sync
<1> QED BY <1>3, <1>4, <1>5, <1>6, <1>7, <1>8, <1>9, <1>10
          DEF Next, Request, Begin, Kill

\* No step of any activator, and no crash, changes the generation that
\* `current' points at while it points there.
THEOREM LiveTreeNeverTouched ==
  ASSUME "switch_sync" \notin Faults
  PROVE  Spec => LiveTreeUntouched
<1>1. IndInv /\ [Next]_vars =>
        [fs.current # 0 /\ fs'.current = fs.current
           => /\ fs'.tree[fs.current] = fs.tree[fs.current]
              /\ fs.current \in fs.names => fs.current \in fs'.names]_vars
  BY LiveTreeStep
<1> QED BY <1>1, ActivationInductive, PTL DEF Spec, LiveTreeUntouched

\* Only the last step of a prune reports success.
LEMMA OkMeansPruned ==
  ASSUME TypeOK, Next, NEW p \in Procs, result[p] # "ok", result'[p] = "ok"
  PROVE  Pruned(p)
<1>1. ASSUME NEW q \in Procs, NEW how, Return(q, how)
      PROVE  p = q /\ how = "ok"
  BY <1>1 DEF Return, TypeOK
<1>2. ASSUME NEW q \in Procs, Holder(q)
      PROVE  \/ result' = result \/ Return(q, "error") \/ Pruned(q)
  BY <1>2 DEF Holder, Stage, StageFails, Staged, Compare, CompareFails,
       InstallLink, LinkFails, LinksReady, RemoveLinks, FinishUnchanged,
       FinishRefused, ChooseNumber, NumberRefused, Publish, PublishRefused,
       PublishFails, PublishSync, AfterPublish, WritePending, WritePendingSync, SwitchCurrent,
       SwitchFails, SwitchCurrentSync, RemoveDestination, DestinationRemoved,
       UndoPending, UndoPendingSync, RunUnit, UnitFails, ClearPending,
       ClearPendingSync, ClearPendingFails, Prune, Superseded, PruneFails
<1>3. ASSUME NEW q \in Procs, Pruned(q) PROVE p = q
  BY <1>1, <1>3 DEF Pruned, PruneDone
<1>4. ~PowerLoss
  BY DEF PowerLoss
<1>5. ASSUME NEW q \in Procs PROVE ~Kill(q)
  BY <1>5 DEF Kill, TypeOK
<1>6. ASSUME NEW q \in Procs, NEW pl, NEW g PROVE ~Request(q, pl, g)
  BY <1>6 DEF Request, TypeOK
<1>7. ASSUME NEW q \in Procs PROVE ~Begin(q)
  BY <1>7 DEF Begin
<1> QED BY <1>1, <1>2, <1>3, <1>4, <1>5, <1>6, <1>7 DEF Next

\* An activation that returns Ok has its plan's files live and durable, and
\* leaves nothing pending, nothing owed and no other generation behind.
THEOREM SuccessIsInstalled ==
  ASSUME "switch_sync" \notin Faults
  PROVE  Spec => SuccessMeansInstalled
<1>1. ASSUME IndInv, Next, NEW p \in Procs, result[p] # "ok", result'[p] = "ok"
      PROVE  /\ fs'.names = {fs'.current}
             /\ fs'.tree[fs'.current] = Tree[plan[p]]
             /\ snaps' = {fs'}
             /\ fs'.marker = NoMarker
             /\ stale' = {}
             /\ Links[plan[p]] \subseteq links'
  <2>1. TypeOK /\ ProcInv(p) /\ GlobalInv
    BY <1>1, IndInvParts
  <2>2. Pruned(p)
    BY <1>1, <2>1, OkMeansPruned
  <2>3. /\ fs.current # 0 /\ num[p] = fs.current
        /\ fs.tree[fs.current] = Tree[plan[p]]
        /\ fs.marker = NoMarker /\ stale = {} /\ Links[plan[p]] \subseteq links
    BY <2>1, <2>2 DEF Pruned, PruneDone, ProcInv, TreeInv, MarkerInv, HoldsLive, Linked
  <2>4. fs.current \in fs.names
    BY <2>1, <2>3 DEF GlobalInv, CurrentResolves, Complete
  <2> QED BY <2>2, <2>3, <2>4 DEF Pruned, PruneDone, Sync
<1>2. IndInv /\ [Next]_vars =>
        [\A p \in Procs : result[p] # "ok" /\ result'[p] = "ok" =>
           /\ fs'.names = {fs'.current}
           /\ fs'.tree[fs'.current] = Tree[plan[p]]
           /\ snaps' = {fs'}
           /\ fs'.marker = NoMarker
           /\ stale' = {}
           /\ Links[plan[p]] \subseteq links']_vars
  BY <1>1
<1> QED BY <1>2, ActivationInductive, PTL DEF Spec, SuccessMeansInstalled

-----------------------------------------------------------------------------
(* Refinement of SecretView                                                *)

\* A change that keeps the live tree is a stutter or makes the view durable.
LEMMA QuietChange ==
  ASSUME GlobalInv, fs' = fs \/ ViewOf(fs') = ViewOf(fs), UNCHANGED stale,
         snaps' = snaps \/ snaps' = snaps \cup {fs'} \/ snaps' = {fs'}
  PROVE  UNCHANGED View!viewVars \/ View!Settle
<1>1. ViewOf(fs') = ViewOf(fs) /\ ViewOf(fs) \in PastViews
  BY DEF GlobalInv, SnapInv, PastViews, ViewOf
<1>2. CASE snaps' = {fs'}
  <2>1. PastViews' = {ViewOf(fs')}
    BY <1>2 DEF PastViews, ViewOf
  <2> QED BY <1>1, <2>1 DEF View!Settle, ViewOf
<1>3. CASE snaps' = snaps \cup {fs'} \/ snaps' = snaps
  <2>1. PastViews' = PastViews
    BY <1>1, <1>3 DEF PastViews, ViewOf
  <2> QED BY <1>1, <2>1 DEF View!viewVars, ViewOf
<1> QED BY <1>2, <1>3

\* Every step of the transaction is a step of SecretView or hidden from it.
LEMMA ViewStep ==
  ASSUME "switch_sync" \notin Faults, IndInv, Next
  PROVE  View!ViewNext \/ UNCHANGED View!viewVars
<1>1. TypeOK /\ GlobalInv /\ \A p \in Procs : ProcInv(p)
  BY IndInvParts
<1>2. ASSUME NEW p \in Procs, SwitchCurrent(p) PROVE View!Switch(plan[p])
  <2>1. /\ stale = {} /\ snaps = {fs} /\ fs.tree[num[p]] = Tree[plan[p]]
        /\ num[p] # 0
    <3>1. pc[p] = "switch" /\ TreeInv(p) /\ MarkerInv(p)
      BY <1>1, <1>2 DEF SwitchCurrent, ProcInv
    <3>2. num[p] \in Gens /\ fs.tree[num[p]] = Tree[plan[p]]
      BY <3>1 DEF TreeInv, Published
    <3>3. stale = {} /\ snaps = {fs}
      BY <3>1 DEF MarkerInv, Published, Committing
    <3> QED BY <3>2, <3>3, ConstantAssumption DEF Gens
  <2>2. fs'.current = num[p] /\ fs'.tree = fs.tree
        /\ (snaps' = snaps \cup {fs'} \/ snaps' = {fs'})
    BY <1>2 DEF SwitchCurrent, Change, Root
  <2>3. ViewOf(fs') = Tree[plan[p]]
    BY <2>1, <2>2 DEF ViewOf
  <2>4. PastViews' = {ViewOf(fs')} \/ PastViews' = PastViews \cup {ViewOf(fs')}
    BY <2>2 DEF PastViews, ViewOf
  <2> QED BY <1>2, <2>1, <2>3, <2>4 DEF View!Switch, SwitchCurrent, ViewOf
<1>3. ASSUME NEW p \in Procs, RunUnit(p) PROVE View!Act
  BY <1>3 DEF RunUnit, View!Act, ViewOf, PastViews
<1>4. CASE PowerLoss
  <2>1. PICK root \in snaps :
          /\ fs' = root /\ snaps' = {root}
          /\ stale' = IF root.current = fs.current THEN stale ELSE {}
    BY <1>4 DEF PowerLoss
  <2>2. PastViews' = {ViewOf(fs')} /\ ViewOf(fs') \in PastViews
    BY <2>1 DEF PastViews, ViewOf
  <2>3. root.current = fs.current => ViewOf(fs') = ViewOf(fs)
    BY <1>1, <2>1 DEF GlobalInv, SnapInv, ViewOf
  <2> QED BY <2>1, <2>2, <2>3 DEF View!Revert, View!ViewNext, ViewOf
<1>5. ASSUME NEW p \in Procs,
             \/ Kill(p) \/ Begin(p)
             \/ \E pl \in Plans, g \in {0} \cup ExplicitGens : Request(p, pl, g)
      PROVE  UNCHANGED View!viewVars
  BY <1>5 DEF Kill, Begin, Request, View!viewVars, ViewOf, PastViews
<1>6. ASSUME NEW p \in Procs, Holder(p), ~SwitchCurrent(p), ~RunUnit(p)
      PROVE  UNCHANGED View!viewVars \/ View!Settle
  <2>1. fs' = fs \/ fs'.current = fs.current
    <3>1. \/ fs' = fs \/ (\E n, t, m : fs' = Root(n, t, fs.current, m))
      BY <1>6 DEF Holder, Stage, StageFails, Staged, Compare, CompareFails,
           InstallLink, LinkFails, LinksReady, RemoveLinks, FinishUnchanged,
           FinishRefused, ChooseNumber, NumberRefused, Publish, PublishRefused,
           PublishFails, PublishSync, AfterPublish, WritePending, WritePendingSync,
           SwitchFails, SwitchCurrentSync, RemoveDestination,
           DestinationRemoved, UndoPending, UndoPendingSync, UnitFails,
           ClearPending, ClearPendingSync, ClearPendingFails, Prune, Superseded, PruneFails,
           Pruned, PruneDone, Sync, SetMarker, RemovalStep, Change
    <3> QED BY <3>1 DEF Root
  <2>2. stale' = stale
        /\ (snaps' = snaps \/ snaps' = snaps \cup {fs'} \/ snaps' = {fs'})
    BY <1>6 DEF Holder, Stage, StageFails, Staged, Compare, CompareFails,
         InstallLink, LinkFails, LinksReady, RemoveLinks, FinishUnchanged,
         FinishRefused, ChooseNumber, NumberRefused, Publish, PublishRefused,
         PublishFails, PublishSync, AfterPublish, WritePending, WritePendingSync, SwitchFails,
         SwitchCurrentSync, RemoveDestination, DestinationRemoved, UndoPending,
         UndoPendingSync, UnitFails, ClearPending, ClearPendingSync,
         ClearPendingFails, Prune, Superseded, PruneFails, Pruned, PruneDone, Sync, SetMarker,
         RemovalStep, Change
  <2>3. fs' = fs \/ ViewOf(fs') = ViewOf(fs)
    BY <2>1, LiveTreeStep DEF ViewOf
  <2> QED BY <1>1, <2>2, <2>3, QuietChange
<1> QED BY <1>2, <1>3, <1>4, <1>5, <1>6, <1>1
          DEF Next, ProcInv, ControlInv, SwitchCurrent, View!ViewNext

\* The activation transaction implements SecretView for every value of the
\* constants in which the fsync after the switch does not fail.
THEOREM ActivationImplementsSecretView ==
  ASSUME "switch_sync" \notin Faults
  PROVE  Spec => ImplementsSecretView
<1>1. Init => View!ViewInit
  BY DEF Init, Root, View!ViewInit, ViewOf, PastViews
<1>2. IndInv /\ [Next]_vars => [View!ViewNext]_View!viewVars
  <2>1. CASE UNCHANGED vars
    BY <2>1 DEF vars, View!viewVars, ViewOf, PastViews
  <2> QED BY <2>1, ViewStep
<1> QED BY <1>1, <1>2, ActivationInductive, PTL
        DEF Spec, ImplementsSecretView, View!ViewSpec

-----------------------------------------------------------------------------
(* A marker can be retried                                                 *)

\* What makes MarkerRetriable inductive: what the marker is at every step of the
\* holder, and the tree it speaks of.  The fsync after the switch may fail here.
RootTypes ==
  /\ fs \in Roots
  /\ lock \in Procs \cup {NoProc}
  /\ pc \in [Procs -> Labels]
  /\ plan \in [Procs -> Plans \cup {NoPlan}]
  /\ want \in [Procs -> 0..MaxGen]
  /\ staged \in [Procs -> SUBSET Files]
  /\ num \in [Procs -> 0..MaxGen]

Retriable ==
  fs.marker # NoMarker =>
    /\ fs.marker.gen = fs.current
    /\ fs.tree[fs.current] = Tree[fs.marker.plan]
    /\ HasActions(fs.marker.plan)

RetryInv(p) ==
  /\ pc[p] \notin {"idle", "lock"} <=> lock = p
  /\ pc[p] # "idle" => plan[p] \in Plans
  /\ pc[p] \in FullyStaged => staged[p] = Tree[plan[p]]
  /\ pc[p] \in Published \cup {"links", "publish", "rm_dest", "switch_sync", "undo_dest"} =>
       num[p] \in Gens
  /\ pc[p] \in {"relink", "finish", "switch_sync", "post"} =>
       num[p] = fs.current /\ fs.current # 0
  /\ pc[p] \in Published \cup {"relink", "finish", "switch_sync", "post"} =>
       fs.tree[num[p]] = Tree[plan[p]]
  /\ pc[p] \in {"mark", "mark_sync", "post"} => HasActions(plan[p])
  /\ pc[p] \in {"stage", "compare", "relink", "finish", "number", "rm_links"} => Retriable
  /\ pc[p] \in {"links", "publish", "publish_sync", "mark", "rm_dest", "undo_sync",
                "clear_sync", "prune"} => fs.marker = NoMarker
  /\ pc[p] \in {"mark_sync", "switch", "switch_sync", "post"} =>
       fs.marker = IF HasActions(plan[p])
                   THEN [gen |-> num[p], plan |-> plan[p]] ELSE NoMarker

RetryIndInv == RootTypes /\ MarkerRetriable /\ \A p \in Procs : RetryInv(p)

\* While p holds the lock, or nothing but its own state changes, the others keep
\* their part.
LEMMA RetryAssemble ==
  ASSUME RetryIndInv, NEW p \in Procs, RootTypes', MarkerRetriable', RetryInv(p)',
         \A q \in Procs \ {p} :
           /\ pc'[q] = pc[q] /\ plan'[q] = plan[q] /\ staged'[q] = staged[q]
           /\ num'[q] = num[q] /\ (lock' = q <=> lock = q)
           /\ lock # q \/ UNCHANGED fs
  PROVE  RetryIndInv'
<1>1. ASSUME NEW q \in Procs \ {p} PROVE RetryInv(q)'
  <2>1. CASE lock # q
    <3>1. pc[q] \in {"idle", "lock"}
      BY <2>1 DEF RetryIndInv, RetryInv
    <3>2. pc'[q] = pc[q] /\ plan'[q] = plan[q] /\ lock' # q /\ (pc[q] # "idle" => plan[q] \in Plans)
      BY <2>1 DEF RetryIndInv, RetryInv
    <3> QED BY <3>1, <3>2 DEF RetryInv, FullyStaged, Published
  <2>2. CASE lock = q /\ UNCHANGED fs
    BY <2>2 DEF RetryIndInv, RetryInv, Retriable, HasActions, FullyStaged, Published
  <2> QED BY <2>1, <2>2
<1> QED BY <1>1 DEF RetryIndInv

\* Every return happens where the marker can be retried or there is none.
LEMMA RetryReturn ==
  ASSUME RetryIndInv, NEW p \in Procs, lock = p, NEW how, Return(p, how), UNCHANGED fs,
         Retriable
  PROVE  RetryIndInv'
<1>1. RootTypes'
  BY ConstantAssumption DEF RetryIndInv, RootTypes, Return, Goto, Labels
<1>2. MarkerRetriable'
  BY DEF MarkerRetriable, Retriable, HasActions
<1>3. pc'[p] = "idle" /\ lock' # p
  BY ConstantAssumption DEF RetryIndInv, RootTypes, Return, Goto
<1>4. RetryInv(p)'
  BY <1>3 DEF RetryInv, FullyStaged, Published
<1>5. \A q \in Procs \ {p} :
        /\ pc'[q] = pc[q] /\ plan'[q] = plan[q] /\ staged'[q] = staged[q]
        /\ num'[q] = num[q] /\ (lock' = q <=> lock = q)
        /\ lock # q \/ UNCHANGED fs
  BY ConstantAssumption DEF RetryIndInv, RootTypes, Return, Goto
<1> QED BY <1>1, <1>2, <1>4, <1>5, RetryAssemble

\* A step of the holder that keeps the lock.
LEMMA RetryHolds ==
  ASSUME RetryIndInv, NEW p \in Procs, lock = p, lock' = p, RootTypes', RetryInv(p)',
         \A q \in Procs \ {p} :
           pc'[q] = pc[q] /\ plan'[q] = plan[q] /\ staged'[q] = staged[q] /\ num'[q] = num[q]
  PROVE  RetryIndInv'
<1>1. MarkerRetriable'
  BY ConstantAssumption DEF MarkerRetriable
<1> QED BY <1>1, RetryAssemble

\* Waiting for the lock, staging, comparing, linking and choosing a number leave
\* the root alone.
LEMMA RetryQuiet ==
  ASSUME RetryIndInv, NEW p \in Procs,
         \/ Stage(p) \/ Staged(p) \/ Compare(p) \/ InstallLink(p) \/ LinkFails(p)
         \/ LinksReady(p) \/ FinishUnchanged(p) \/ ChooseNumber(p) \/ PublishRefused(p)
         \/ PublishFails(p) \/ SwitchFails(p) \/ DestinationRemoved(p) \/ RunUnit(p)
  PROVE  RetryIndInv'
<1> USE DEF Goto, local
<1>1. RootTypes /\ RetryInv(p) /\ lock = p /\ plan[p] \in Plans
  BY DEF RetryIndInv, RetryInv, Stage, Staged, Compare, InstallLink, LinkFails, LinksReady,
         FinishUnchanged, ChooseNumber, PublishRefused, PublishFails, SwitchFails,
         DestinationRemoved, RunUnit
<1>2. lock' = p /\ UNCHANGED <<fs, plan, want>>
  BY <1>1 DEF Stage, Staged, Compare, InstallLink, LinkFails, LinksReady,
         FinishUnchanged, ChooseNumber, PublishRefused, PublishFails, SwitchFails,
         DestinationRemoved, RunUnit
<1>3. \A q \in Procs \ {p} :
        pc'[q] = pc[q] /\ plan'[q] = plan[q] /\ staged'[q] = staged[q] /\ num'[q] = num[q]
  BY <1>1 DEF RootTypes, Stage, Staged, Compare, InstallLink, LinkFails, LinksReady,
         FinishUnchanged, ChooseNumber, PublishRefused, PublishFails, SwitchFails,
         DestinationRemoved, RunUnit
<1>4. RootTypes'
  <2>1. pc' \in [Procs -> Labels]
    BY <1>1 DEF RootTypes, Labels, Stage, Staged, Compare, InstallLink, LinkFails, LinksReady,
         FinishUnchanged, ChooseNumber, PublishRefused, PublishFails, SwitchFails,
         DestinationRemoved, AfterRemoval, RunUnit
  <2>2. staged' \in [Procs -> SUBSET Files]
    <3>1. CASE Stage(p)
      <4>1. PICK f \in Tree[plan[p]] : staged' = [staged EXCEPT ![p] = @ \cup {f}]
        BY <3>1 DEF Stage
      <4>2. f \in Files
        BY <1>1, ConstantAssumption
      <4> QED BY <1>1, <4>1, <4>2 DEF RootTypes
    <3>2. CASE PublishFails(p)
      BY <1>1, <3>2 DEF RootTypes, PublishFails
    <3>3. CASE ~Stage(p) /\ ~PublishFails(p)
      <4>1. UNCHANGED staged
        BY <3>3 DEF Compare, ChooseNumber, Staged, InstallLink, LinkFails, LinksReady,
           FinishUnchanged, PublishRefused, SwitchFails, DestinationRemoved, RunUnit
      <4> QED BY <1>1, <4>1 DEF RootTypes
    <3> QED BY <3>1, <3>2, <3>3
  <2>3. num' \in [Procs -> 0..MaxGen]
    <3>1. CASE Compare(p)
      BY <1>1, <3>1 DEF RootTypes, Roots, Compare
    <3>2. CASE ChooseNumber(p)
      BY <1>1, <3>2, ConstantAssumption DEF RootTypes, Gens, ChooseNumber
    <3>3. CASE ~Compare(p) /\ ~ChooseNumber(p)
      <4>1. UNCHANGED num
        BY <3>3 DEF Stage, PublishFails, Staged, InstallLink, LinkFails, LinksReady,
           FinishUnchanged, PublishRefused, SwitchFails, DestinationRemoved, RunUnit
      <4> QED BY <1>1, <4>1 DEF RootTypes
    <3> QED BY <3>1, <3>2, <3>3
  <2> QED BY <1>1, <1>2, <2>1, <2>2, <2>3 DEF RootTypes
<1> USE DEF FullyStaged, Published, Retriable, HasActions
<1>5. CASE Stage(p) \/ Staged(p) \/ InstallLink(p) \/ RunUnit(p)
  <2>1. RetryInv(p)'
    BY <1>1, <1>2, <1>5 DEF RootTypes, RetryInv, Stage, Staged, InstallLink, RunUnit
  <2> QED BY <1>1, <1>2, <1>3, <1>4, <2>1, RetryHolds
<1>6. CASE Compare(p)
  <2>1. Matches(p) => staged[p] = fs.tree[fs.current]
    <3>1. IsFiniteSet(fs.tree[fs.current]) \/ fs.current = 0
      BY <1>1, ConstantAssumption, FS_Subset DEF RootTypes, Roots, Gens
    <3> QED BY <3>1, FS_Subset DEF Matches
  <2>2. RetryInv(p)'
    BY <1>1, <1>2, <1>6, <2>1 DEF RootTypes, RetryInv, Compare, Matches
  <2> QED BY <1>1, <1>2, <1>3, <1>4, <2>2, RetryHolds
<1>7. CASE LinkFails(p) \/ LinksReady(p) \/ PublishRefused(p) \/ PublishFails(p) \/ SwitchFails(p)
  <2>1. RetryInv(p)'
    BY <1>1, <1>2, <1>7 DEF RootTypes, RetryInv, LinkFails, LinksReady, PublishRefused,
       PublishFails, SwitchFails
  <2> QED BY <1>1, <1>2, <1>3, <1>4, <2>1, RetryHolds
<1>8. CASE FinishUnchanged(p) \/ ChooseNumber(p) \/ DestinationRemoved(p)
  <2>1. RetryInv(p)'
    BY <1>1, <1>2, <1>8 DEF RootTypes, RetryInv, FinishUnchanged, PendingMatches, ChooseNumber,
       DestinationRemoved, AfterRemoval
  <2> QED BY <1>1, <1>2, <1>3, <1>4, <2>1, RetryHolds
<1> QED BY <1>5, <1>6, <1>7, <1>8

\* The steps that change the root or make it durable.
LEMMA RetryChanges ==
  ASSUME RetryIndInv, NEW p \in Procs, "mark_sync" \notin Faults,
         \/ Publish(p) \/ PublishSync(p) \/ WritePending(p) \/ WritePendingSync(p)
         \/ SwitchCurrent(p) \/ SwitchCurrentSync(p) \/ RemoveDestination(p)
         \/ UndoPending(p) \/ UndoPendingSync(p) \/ ClearPending(p)
         \/ ClearPendingSync(p) \/ Prune(p)
  PROVE  RetryIndInv'
<1> USE DEF Goto, local, Change, Root, Fails
<1>1. RootTypes /\ RetryInv(p) /\ lock = p /\ plan[p] \in Plans
  BY DEF RetryIndInv, RetryInv, Publish, PublishSync, WritePending, WritePendingSync,
         SwitchCurrent, SwitchCurrentSync, RemoveDestination, UndoPending, UndoPendingSync,
         ClearPending, ClearPendingSync, Prune
<1>2. lock' = p /\ UNCHANGED <<plan, want, num>>
  BY <1>1 DEF Publish, PublishSync, WritePending, WritePendingSync,
         SwitchCurrent, SwitchCurrentSync, RemoveDestination, UndoPending, UndoPendingSync,
         ClearPending, ClearPendingSync, Prune
<1>3. \A q \in Procs \ {p} :
        pc'[q] = pc[q] /\ plan'[q] = plan[q] /\ staged'[q] = staged[q] /\ num'[q] = num[q]
  BY <1>1 DEF RootTypes, Publish, PublishSync, WritePending, WritePendingSync,
         SwitchCurrent, SwitchCurrentSync, RemoveDestination, UndoPending, UndoPendingSync,
         ClearPending, ClearPendingSync, Prune
<1>4. pc' \in [Procs -> Labels] /\ staged' \in [Procs -> SUBSET Files]
  BY <1>1 DEF RootTypes, Labels, Publish, PublishSync, AfterPublish, WritePending, WritePendingSync,
         SwitchCurrent, SwitchCurrentSync, RemoveDestination, UndoPending, UndoPendingSync,
         ClearPending, ClearPendingSync, Prune
<1>5. SUFFICES fs' \in Roots /\ RetryInv(p)'
  <2>1. fs' \in Roots => RootTypes'
    BY <1>1, <1>2, <1>4 DEF RootTypes
  <2> QED BY <1>1, <1>2, <1>3, <2>1, RetryHolds
<1> USE DEF FullyStaged, Published, Retriable, HasActions
<1>6. CASE Publish(p)
  <2>1. num[p] \in Gens /\ staged[p] \in SUBSET Files
    BY <1>1, <1>6 DEF RootTypes, RetryInv, Publish
  <2>2. fs' \in Roots
    BY <1>1, <1>6, <2>1 DEF RootTypes, Roots, Publish
  <2>3. RetryInv(p)'
    BY <1>1, <1>2, <1>6, <2>1 DEF RootTypes, Roots, RetryInv, Publish
  <2> QED BY <2>2, <2>3
<1>7. CASE PublishSync(p) \/ WritePendingSync(p) \/ SwitchCurrentSync(p)
            \/ UndoPendingSync(p) \/ ClearPendingSync(p)
  <2>1. UNCHANGED fs
    BY <1>7 DEF PublishSync, WritePendingSync, SwitchCurrentSync, UndoPendingSync,
       ClearPendingSync, Sync
  <2>2. RetryInv(p)'
    <3>1. CASE PublishSync(p) \/ WritePendingSync(p)
      BY <1>1, <1>2, <2>1, <3>1 DEF RootTypes, RetryInv, PublishSync, AfterPublish, WritePendingSync
    <3>2. CASE SwitchCurrentSync(p)
      BY <1>1, <1>2, <2>1, <3>2 DEF RootTypes, RetryInv, SwitchCurrentSync
    <3>3. CASE UndoPendingSync(p) \/ ClearPendingSync(p)
      BY <1>1, <1>2, <2>1, <3>3 DEF RootTypes, RetryInv, UndoPendingSync, ClearPendingSync
    <3> QED BY <1>7, <3>1, <3>2, <3>3
  <2> QED BY <1>1, <2>1, <2>2 DEF RootTypes
<1>8. CASE WritePending(p)
  <2>1. num[p] \in Gens
    BY <1>1, <1>8 DEF RetryInv, WritePending
  <2>2. fs' \in Roots
    BY <1>1, <1>8, <2>1 DEF RootTypes, Roots, Markers, WritePending, SetMarker
  <2>3. RetryInv(p)'
    BY <1>1, <1>2, <1>8, <2>1 DEF RootTypes, Roots, RetryInv, WritePending, SetMarker
  <2> QED BY <2>2, <2>3
<1>9. CASE SwitchCurrent(p)
  <2>1. num[p] \in Gens /\ num[p] # 0
    BY <1>1, <1>9 DEF RetryInv, SwitchCurrent, Gens
  <2>2. fs' \in Roots
    BY <1>1, <1>9, ConstantAssumption DEF RootTypes, Roots, SwitchCurrent
  <2>3. RetryInv(p)'
    BY <1>1, <1>2, <1>9, <2>1 DEF RootTypes, Roots, RetryInv, SwitchCurrent
  <2> QED BY <2>2, <2>3
<1>10. CASE UndoPending(p) \/ ClearPending(p)
  <2>1. fs' \in Roots
    BY <1>1, <1>10 DEF RootTypes, Roots, Markers, UndoPending, ClearPending, SetMarker
  <2>2. RetryInv(p)'
    BY <1>1, <1>2, <1>10 DEF RootTypes, Roots, RetryInv, UndoPending, ClearPending, SetMarker
  <2> QED BY <2>1, <2>2
<1>11. CASE RemoveDestination(p) \/ Prune(p)
  <2>1. PICK g \in fs.names : RemovalStep(g)
    BY <1>1, <1>11 DEF RootTypes, Roots, RemoveDestination, Prune, Superseded
  <2>2. fs' \in Roots /\ fs'.marker = fs.marker /\ fs'.current = fs.current
    BY <1>1, <2>1 DEF RootTypes, Roots, RemovalStep
  <2>3. UNCHANGED pc /\ pc[p] \in {"rm_dest", "undo_dest", "prune"}
    BY <1>11 DEF RemoveDestination, Prune
  <2>4. RetryInv(p)'
    BY <1>1, <1>2, <2>2, <2>3 DEF RetryInv
  <2> QED BY <2>2, <2>4
<1> QED BY <1>6, <1>7, <1>8, <1>9, <1>10, <1>11

\* Every step keeps the markers retriable.
LEMMA RetryStep ==
  ASSUME RetryIndInv, [Next]_vars, Faults \cap {"kill", "power", "mark_sync"} = {}
  PROVE  RetryIndInv'
<1>1. CASE UNCHANGED vars
  BY <1>1 DEF vars, RetryIndInv, RootTypes, MarkerRetriable, RetryInv, Retriable, HasActions,
     FullyStaged, Published
<1>2. ~PowerLoss /\ \A p \in Procs : ~Kill(p)
  BY DEF PowerLoss, Kill, Fails
<1>3. ASSUME NEW p \in Procs, NEW pl \in Plans, NEW g \in {0} \cup ExplicitGens, Request(p, pl, g)
      PROVE  RetryIndInv'
  <2>1. RootTypes'
    BY <1>3, ConstantAssumption DEF Request, Goto, RetryIndInv, RootTypes, Labels
  <2>2. MarkerRetriable'
    BY <1>3 DEF Request, RetryIndInv, MarkerRetriable, HasActions
  <2>3. RetryInv(p)'
    BY <1>3 DEF Request, Goto, RetryIndInv, RootTypes, RetryInv, FullyStaged, Published
  <2>4. \A q \in Procs \ {p} :
          /\ pc'[q] = pc[q] /\ plan'[q] = plan[q] /\ staged'[q] = staged[q]
          /\ num'[q] = num[q] /\ (lock' = q <=> lock = q)
          /\ lock # q \/ UNCHANGED fs
    BY <1>3 DEF Request, Goto, RetryIndInv, RootTypes
  <2> QED BY <2>1, <2>2, <2>3, <2>4, RetryAssemble
<1>4. ASSUME NEW p \in Procs, Begin(p)
      PROVE  RetryIndInv'
  <2>1. RootTypes'
    BY <1>4 DEF Begin, Goto, local, RetryIndInv, RootTypes, Labels
  <2>2. MarkerRetriable'
    BY <1>4, ConstantAssumption DEF Begin, MarkerRetriable
  <2>3. RetryInv(p)'
    BY <1>4 DEF Begin, Goto, local, RetryIndInv, RootTypes, RetryInv, FullyStaged, Published,
       MarkerRetriable, Retriable, HasActions
  <2>4. \A q \in Procs \ {p} :
          /\ pc'[q] = pc[q] /\ plan'[q] = plan[q] /\ staged'[q] = staged[q]
          /\ num'[q] = num[q] /\ (lock' = q <=> lock = q)
          /\ lock # q \/ UNCHANGED fs
    BY <1>4, ConstantAssumption DEF Begin, Goto, local, RetryIndInv, RootTypes
  <2> QED BY <2>1, <2>2, <2>3, <2>4, RetryAssemble
<1>5. ASSUME NEW p \in Procs,
             \/ StageFails(p) \/ CompareFails(p) \/ FinishRefused(p)
             \/ NumberRefused(p) \/ UnitFails(p) \/ ClearPendingFails(p)
             \/ PruneFails(p) \/ Pruned(p) \/ RemoveLinks(p)
      PROVE  RetryIndInv'
  <2>1. UNCHANGED fs /\ \E how : Return(p, how)
    BY <1>5 DEF StageFails, CompareFails, FinishRefused, NumberRefused, UnitFails,
       ClearPendingFails, PruneFails, Pruned, Sync, RemoveLinks
  <2>2. pc[p] \in {"stage", "compare", "finish", "number", "rm_links"}
          \/ pc[p] = "post" \/ pc[p] \in {"clear_sync", "prune"}
    BY <1>5 DEF StageFails, CompareFails, FinishRefused, NumberRefused, UnitFails,
       ClearPendingFails, PruneFails, Pruned, RemoveLinks
  <2>3. lock = p
    BY <2>2 DEF RetryIndInv, RetryInv
  <2>4. CASE pc[p] = "post"
    <3>1. /\ fs.marker = [gen |-> num[p], plan |-> plan[p]] /\ num[p] = fs.current
          /\ fs.tree[num[p]] = Tree[plan[p]] /\ HasActions(plan[p])
      BY <2>4 DEF RetryIndInv, RetryInv
    <3>2. Retriable
      BY <3>1 DEF Retriable
    <3> QED BY <2>1, <2>3, <3>2, RetryReturn
  <2>5. CASE pc[p] # "post"
    <3>1. Retriable \/ fs.marker = NoMarker
      BY <2>2, <2>5 DEF RetryIndInv, RetryInv
    <3>2. Retriable
      BY <3>1 DEF Retriable
    <3> QED BY <2>1, <2>3, <3>2, RetryReturn
  <2> QED BY <2>4, <2>5
<1>6. ASSUME NEW p \in Procs, Holder(p)
      PROVE  RetryIndInv'
  BY <1>5, <1>6, RetryQuiet, RetryChanges DEF Holder
<1> QED BY <1>1, <1>2, <1>3, <1>4, <1>6 DEF Next

\* A pending marker can always be cleared by activating the plan it names, for
\* any number of activators, plans and generations, as long as no activator is
\* killed, the power stays on and the fsync of a marker does not fail; any other
\* step, the fsync after the switch included, may fail.
THEOREM MarkersAreRetriable ==
  ASSUME Faults \cap {"kill", "power", "mark_sync"} = {}
  PROVE  Spec => []MarkerRetriable
<1>1. Init => RetryIndInv
  BY ConstantAssumption DEF Init, Root, RetryIndInv, RootTypes, Roots, Markers, Gens, Labels,
     MarkerRetriable, RetryInv, FullyStaged, Published
<1>2. RetryIndInv /\ [Next]_vars => RetryIndInv'
  BY RetryStep
<1>3. RetryIndInv => MarkerRetriable
  BY DEF RetryIndInv
<1> QED BY <1>1, <1>2, <1>3, PTL DEF Spec

-----------------------------------------------------------------------------
(* An aborted activation restores what it found                            *)

\* Nothing is left in a generation that has no name.
GhostFree(root) == \A g \in Gens \ root.names : root.tree[g] = {}
NoGhosts == \A root \in snaps : GhostFree(root)

\* The steps of an activation that may still be undone, and of its undoing.
Undoable == Published \cup {"stage", "compare", "relink", "number", "links", "publish", "rm_dest",
                            "undo_dest", "undo_mark", "undo_sync", "rm_links"}
\* The steps that have not added to the root, or have undone what they added.
Untouched == {"stage", "compare", "relink", "number", "links", "publish", "undo_sync", "rm_links"}

\* The holder has added its generation, or part of it, to what it found.
Added(p) ==
  /\ before.fs \in Roots
  /\ before.fs.marker = NoMarker
  /\ num[p] \notin before.fs.names /\ before.fs.tree[num[p]] = {}
  /\ fs.names \ {num[p]} = before.fs.names
  /\ \A g \in Gens \ {num[p]} : fs.tree[g] = before.fs.tree[g]
  /\ fs.current = before.fs.current

\* What the holder has changed since it began, at every step before its switch.
AbortInv(p) ==
  /\ pc[p] \in {"idle", "lock", "stage", "compare", "number"} => made[p] = {}
  /\ pc[p] \in {"idle", "lock"} => staged[p] = {}
  /\ pc[p] \in Undoable =>
       /\ links = before.links \cup made[p] /\ before.links \cap made[p] = {}
       /\ orphans = before.orphans
  /\ pc[p] \in Untouched => fs = before.fs
  /\ pc[p] \in Published \cup {"rm_dest", "undo_dest"} => Added(p)
  /\ pc[p] = "rm_dest" => fs.marker = NoMarker
  /\ pc[p] = "undo_mark" =>
       /\ before.fs \in Roots /\ before.fs.marker = NoMarker
       /\ fs = [before.fs EXCEPT !.marker = fs.marker]

\* The faults that leave a destination, a marker or a transaction directory behind.
Unrestored == {"rename", "mark_sync", "switch_sync", "remove"}

\* What the root holds after a step is new to the disk, or is among what a power
\* loss could already have left.
LEMMA GhostStep ==
  ASSUME IndInv, NoGhosts, [Next]_vars
  PROVE  NoGhosts'
<1> USE DEF NoGhosts, GhostFree
<1>1. TypeOK /\ fs \in snaps /\ fs \in Roots
  BY DEF IndInv, SnapInv, TypeOK
<1>2. ASSUME snaps' \subseteq snaps PROVE NoGhosts'
  BY <1>2
<1>3. ASSUME NEW n \in SUBSET Gens, NEW t \in [Gens -> SUBSET Files],
             NEW c \in 0..MaxGen, NEW m \in Markers,
             Change(Root(n, t, c, m)), \A g \in Gens \ n : t[g] = {}
      PROVE  NoGhosts'
  BY <1>1, <1>3, ChangeFacts
<1>4. ASSUME NEW m \in Markers, SetMarker(m) PROVE NoGhosts'
  BY <1>1, <1>3, <1>4 DEF SetMarker, Roots
<1>5. ASSUME NEW g \in fs.names, RemovalStep(g) PROVE NoGhosts'
  <2>1. g \in Gens /\ fs.names \in SUBSET Gens /\ fs.tree \in [Gens -> SUBSET Files]
        /\ fs.current \in 0..MaxGen /\ fs.marker \in Markers
    BY <1>1, <1>5 DEF Roots
  <2>2. CASE \E f \in fs.tree[g] :
               Change(Root(fs.names, [fs.tree EXCEPT ![g] = @ \ {f}], fs.current, fs.marker))
    <3>1. PICK f \in fs.tree[g] :
            Change(Root(fs.names, [fs.tree EXCEPT ![g] = @ \ {f}], fs.current, fs.marker))
      BY <2>2
    <3> DEFINE t == [fs.tree EXCEPT ![g] = @ \ {f}]
    <3>2. t \in [Gens -> SUBSET Files]
      BY <2>1
    <3>3. \A k \in Gens \ fs.names : k # g /\ t[k] = fs.tree[k]
      BY <1>5, <2>1
    <3>4. \A k \in Gens \ fs.names : t[k] = {}
      BY <1>1, <3>3
    <3>5. Change(Root(fs.names, t, fs.current, fs.marker))
      BY <3>1
    <3> HIDE DEF t, NoGhosts
    <3> QED BY <1>3, <2>1, <3>2, <3>4, <3>5
  <2>3. CASE fs.tree[g] = {} /\ Change(Root(fs.names \ {g}, fs.tree, fs.current, fs.marker))
    <3>1. \A k \in Gens \ (fs.names \ {g}) : fs.tree[k] = {}
      BY <1>1, <2>3
    <3>2. fs.names \ {g} \in SUBSET Gens
      BY <2>1
    <3> QED BY <1>3, <2>1, <2>3, <3>1, <3>2
  <2> QED BY <1>5, <2>2, <2>3 DEF RemovalStep
<1>6. CASE UNCHANGED vars
  BY <1>6, <1>2 DEF vars
<1>7. CASE PowerLoss
  BY <1>2, <1>7 DEF PowerLoss
<1>8. ASSUME NEW p \in Procs, Publish(p) PROVE NoGhosts'
  <2>1. num[p] \in Gens /\ staged[p] \in SUBSET Files
    BY <1>1, <1>8 DEF Publish, IndInv, TreeInv, TypeOK
  <2>2. fs.names \cup {num[p]} \in SUBSET Gens /\ fs.current \in 0..MaxGen /\ fs.marker \in Markers
        /\ [fs.tree EXCEPT ![num[p]] = staged[p]] \in [Gens -> SUBSET Files]
    BY <1>1, <2>1 DEF Roots
  <2>3. \A g \in Gens \ (fs.names \cup {num[p]}) : [fs.tree EXCEPT ![num[p]] = staged[p]][g] = {}
    BY <1>1 DEF Roots
  <2> QED BY <1>3, <1>8, <2>2, <2>3 DEF Publish
<1>9. ASSUME NEW p \in Procs, WritePending(p) PROVE NoGhosts'
  <2>1. [gen |-> num[p], plan |-> plan[p]] \in Markers
    BY <1>9 DEF WritePending, IndInv, TreeInv, ControlInv, Published, Markers
  <2> QED BY <1>2, <1>4, <1>9, <2>1 DEF WritePending
<1>10. ASSUME NEW p \in Procs, SwitchCurrent(p) PROVE NoGhosts'
  <2>1. num[p] \in 0..MaxGen
    BY <1>1 DEF TypeOK
  <2>2. /\ fs.names \in SUBSET Gens /\ fs.tree \in [Gens -> SUBSET Files] /\ fs.marker \in Markers
        /\ \A g \in Gens \ fs.names : fs.tree[g] = {}
    BY <1>1 DEF Roots
  <2>3. Change(Root(fs.names, fs.tree, num[p], fs.marker))
    BY <1>10 DEF SwitchCurrent
  <2> HIDE DEF NoGhosts
  <2> QED BY <1>3, <2>1, <2>2, <2>3
<1>11. ASSUME NEW p \in Procs, UndoPending(p) \/ ClearPending(p) PROVE NoGhosts'
  BY <1>2, <1>4, <1>11 DEF UndoPending, ClearPending, Markers
<1>12. ASSUME NEW p \in Procs, RemoveDestination(p) \/ Prune(p) PROVE NoGhosts'
  BY <1>5, <1>12 DEF RemoveDestination, Prune, Superseded
<1>13. ASSUME NEW p \in Procs,
              \/ \E pl \in Plans, g \in {0} \cup ExplicitGens : Request(p, pl, g)
              \/ Begin(p) \/ Kill(p)
              \/ Stage(p) \/ StageFails(p) \/ Staged(p) \/ Compare(p) \/ CompareFails(p)
              \/ InstallLink(p) \/ LinkFails(p) \/ LinksReady(p) \/ RemoveLinks(p)
              \/ FinishUnchanged(p) \/ FinishRefused(p) \/ ChooseNumber(p) \/ NumberRefused(p)
              \/ PublishRefused(p) \/ PublishFails(p) \/ SwitchFails(p) \/ DestinationRemoved(p)
              \/ RunUnit(p) \/ UnitFails(p) \/ ClearPendingFails(p) \/ PruneFails(p)
       PROVE  NoGhosts'
  <2>1. snaps' = snaps
    BY <1>13 DEF Request, Begin, Kill, Stage, StageFails, Staged, Compare, CompareFails, InstallLink,
       LinkFails, LinksReady, RemoveLinks, FinishUnchanged, FinishRefused, ChooseNumber, NumberRefused,
       PublishRefused, PublishFails, SwitchFails, DestinationRemoved, RunUnit, UnitFails,
       ClearPendingFails, PruneFails
  <2> QED BY <1>2, <2>1
<1>14. ASSUME NEW p \in Procs,
              \/ PublishSync(p) \/ WritePendingSync(p) \/ SwitchCurrentSync(p)
              \/ UndoPendingSync(p) \/ ClearPendingSync(p) \/ Pruned(p)
       PROVE  NoGhosts'
  <2>1. snaps' = snaps \/ snaps' = {fs}
    BY <1>14 DEF PublishSync, WritePendingSync, SwitchCurrentSync, UndoPendingSync, ClearPendingSync,
       Pruned, Sync
  <2> QED BY <1>1, <1>2, <2>1
<1> QED BY <1>6, <1>7, <1>8, <1>9, <1>10, <1>11, <1>12, <1>13, <1>14 DEF Next, Holder

\* A process that does not hold the lock has staged and made nothing, and the
\* holder keeps its part while the root and what it found stay the same.
LEMMA AbortOthers ==
  ASSUME IndInv, NEW q \in Procs, AbortInv(q),
         pc'[q] = pc[q], made'[q] = made[q], staged'[q] = staged[q], num'[q] = num[q],
         lock # q \/ UNCHANGED <<fs, links, orphans, before>>
  PROVE  AbortInv(q)'
<1>1. CASE lock # q
  <2>1. pc[q] \in {"idle", "lock"}
    BY <1>1 DEF IndInv, ControlInv
  <2> QED BY <2>1 DEF AbortInv, Undoable, Untouched, Published
<1>2. CASE UNCHANGED <<fs, links, orphans, before>>
  BY <1>2 DEF AbortInv, Added
<1> QED BY <1>1, <1>2

\* The activation is over.
LEMMA AbortIdle ==
  ASSUME NEW q \in Procs, pc'[q] = "idle", made'[q] = {}, staged'[q] = {}
  PROVE  AbortInv(q)'
BY DEF AbortInv, Undoable, Untouched, Published

\* The steps of the holder that leave the root alone and do not return.
LEMMA AbortQuiet ==
  ASSUME IndInv, NEW p \in Procs, AbortInv(p), Faults \cap Unrestored = {}, UNCHANGED before,
         \/ Stage(p) \/ Staged(p) \/ Compare(p) \/ InstallLink(p) \/ LinkFails(p)
         \/ LinksReady(p) \/ FinishUnchanged(p) \/ ChooseNumber(p) \/ PublishRefused(p)
         \/ PublishFails(p) \/ SwitchFails(p) \/ RunUnit(p) \/ PublishSync(p)
         \/ WritePendingSync(p) \/ SwitchCurrentSync(p) \/ UndoPendingSync(p) \/ ClearPendingSync(p)
  PROVE  AbortInv(p)'
<1> USE DEF Goto, local, Undoable, Untouched, Published
<1>1. TypeOK /\ MarkerInv(p) /\ ControlInv(p)
  BY DEF IndInv
<1>2. UNCHANGED fs
  BY DEF Stage, Staged, Compare, InstallLink, LinkFails, LinksReady, FinishUnchanged, ChooseNumber,
     PublishRefused, PublishFails, SwitchFails, RunUnit, PublishSync, WritePendingSync,
     SwitchCurrentSync, UndoPendingSync, ClearPendingSync, Sync
<1>3. CASE Stage(p) \/ Staged(p) \/ Compare(p) \/ RunUnit(p)
  BY <1>1, <1>2, <1>3 DEF TypeOK, AbortInv, Added, Stage, Staged, Compare, RunUnit
<1>4. CASE InstallLink(p)
  <2>1. PICK l \in Links[plan[p]] \ links :
          links' = links \cup {l} /\ made' = [made EXCEPT ![p] = @ \cup {l}]
    BY <1>4 DEF InstallLink
  <2>2. made'[p] = made[p] \cup {l} /\ pc[p] \in {"relink", "links"} /\ UNCHANGED <<pc, orphans>>
    BY <1>1, <1>4, <2>1 DEF InstallLink, TypeOK
  <2> QED BY <1>2, <2>1, <2>2 DEF AbortInv
<1>5. CASE LinkFails(p) \/ LinksReady(p) \/ FinishUnchanged(p) \/ ChooseNumber(p) \/ PublishRefused(p)
  BY <1>1, <1>2, <1>5 DEF TypeOK, AbortInv, LinkFails, LinksReady, FinishUnchanged, ChooseNumber,
     PublishRefused
<1>6. CASE PublishFails(p)
  BY <1>6 DEF PublishFails, Fails, Unrestored
<1>7. CASE SwitchFails(p) \/ PublishSync(p) \/ WritePendingSync(p)
  BY <1>1, <1>2, <1>7 DEF TypeOK, MarkerInv, AbortInv, Added, SwitchFails, PublishSync, AfterPublish,
     WritePendingSync, Fails, Unrestored
<1>8. CASE SwitchCurrentSync(p) \/ UndoPendingSync(p) \/ ClearPendingSync(p)
  BY <1>1, <1>2, <1>8 DEF TypeOK, AbortInv, SwitchCurrentSync, UndoPendingSync, ClearPendingSync,
     Fails, Unrestored
<1> QED BY <1>3, <1>4, <1>5, <1>6, <1>7, <1>8

\* Two roots with the same parts.
LEMMA SameRoot ==
  ASSUME NEW a \in Roots, NEW b \in Roots, a.names = b.names, a.current = b.current,
         \A g \in Gens : a.tree[g] = b.tree[g]
  PROVE  a = [b EXCEPT !.marker = a.marker]
<1>1. a.tree = b.tree
  BY DEF Roots
<1> QED BY <1>1 DEF Roots

\* The steps of the holder that change the root, and the end of a removal.
LEMMA AbortChanges ==
  ASSUME IndInv, NoGhosts, NEW p \in Procs, AbortInv(p), Faults \cap Unrestored = {}, UNCHANGED before,
         \/ Publish(p) \/ WritePending(p) \/ SwitchCurrent(p) \/ RemoveDestination(p)
         \/ DestinationRemoved(p) \/ UndoPending(p) \/ ClearPending(p) \/ Prune(p)
  PROVE  AbortInv(p)'
<1> USE DEF Goto, local, Undoable, Untouched, Published
<1>1. TypeOK /\ MarkerInv(p) /\ TreeInv(p) /\ fs \in Roots /\ GhostFree(fs)
  BY DEF IndInv, TypeOK, SnapInv, NoGhosts
<1>2. CASE Publish(p)
  <2>1. num[p] \in Gens /\ num[p] \notin fs.names /\ fs = before.fs /\ fs.marker = NoMarker
    BY <1>1, <1>2 DEF Publish, TreeInv, MarkerInv, AbortInv
  <2>2. fs.tree[num[p]] = {}
    BY <1>1, <2>1 DEF GhostFree
  <2>3. /\ fs'.names = fs.names \cup {num[p]} /\ fs'.current = fs.current
        /\ \A g \in Gens \ {num[p]} : fs'.tree[g] = fs.tree[g]
    BY <1>1, <1>2 DEF Publish, Change, Root, Roots
  <2>4. Added(p)'
    BY <1>1, <1>2, <2>1, <2>2, <2>3 DEF Added, Publish
  <2>5. pc'[p] = "publish_sync"
    BY <1>1, <1>2 DEF Publish, TypeOK
  <2> QED BY <1>2, <2>4, <2>5 DEF AbortInv, Publish
<1>3. CASE WritePending(p)
  <2>1. Added(p) /\ pc[p] = "mark"
    BY <1>3 DEF WritePending, AbortInv
  <2>2. fs'.names = fs.names /\ fs'.tree = fs.tree /\ fs'.current = fs.current
    BY <1>3 DEF WritePending, SetMarker, Change, Root
  <2>3. Added(p)'
    BY <1>3, <2>1, <2>2 DEF Added, WritePending
  <2>4. fs.marker = NoMarker
    BY <1>1, <2>1 DEF MarkerInv
  <2>5. pc'[p] = "mark_sync" \/ (pc'[p] = "rm_dest" /\ fs'.marker = NoMarker)
    <3>1. CASE pc' = [pc EXCEPT ![p] = "mark_sync"]
      BY <1>1, <3>1 DEF TypeOK
    <3>2. CASE pc' = [pc EXCEPT ![p] = "rm_dest"] /\ UNCHANGED fs
      BY <1>1, <2>4, <3>2 DEF TypeOK
    <3> QED BY <1>3, <3>1, <3>2 DEF WritePending
  <2> QED BY <1>3, <2>1, <2>3, <2>5 DEF AbortInv, WritePending
<1>4. CASE SwitchCurrent(p) \/ ClearPending(p) \/ Prune(p)
  BY <1>1, <1>4 DEF TypeOK, AbortInv, SwitchCurrent, ClearPending, Prune
<1>5. CASE RemoveDestination(p)
  <2>1. Added(p) /\ num[p] \in Gens /\ pc[p] \in {"rm_dest", "undo_dest"}
    BY <1>1, <1>5 DEF RemoveDestination, AbortInv, TreeInv
  <2>2. /\ fs'.names \ {num[p]} = fs.names \ {num[p]} /\ fs'.current = fs.current
        /\ \A g \in Gens \ {num[p]} : fs'.tree[g] = fs.tree[g]
        /\ fs'.marker = fs.marker
    <3>1. CASE \E f \in fs.tree[num[p]] :
                 fs' = Root(fs.names, [fs.tree EXCEPT ![num[p]] = @ \ {f}], fs.current, fs.marker)
      BY <1>1, <3>1 DEF Root, Roots
    <3>2. CASE fs' = Root(fs.names \ {num[p]}, fs.tree, fs.current, fs.marker)
      BY <3>2 DEF Root
    <3> QED BY <1>5, <3>1, <3>2 DEF RemoveDestination, RemovalStep, Change
  <2>3. Added(p)'
    BY <1>5, <2>1, <2>2 DEF Added, RemoveDestination
  <2> QED BY <1>5, <2>1, <2>2, <2>3 DEF AbortInv, RemoveDestination
<1>6. CASE DestinationRemoved(p)
  <2>1. Added(p) /\ num[p] \in Gens /\ num[p] \notin fs.names /\ UNCHANGED fs
    BY <1>1, <1>6 DEF DestinationRemoved, AbortInv, TreeInv, Fails, Unrestored
  <2>2. fs.names = before.fs.names /\ \A g \in Gens : fs.tree[g] = before.fs.tree[g]
    BY <1>1, <2>1 DEF Added, GhostFree
  <2>3. fs = [before.fs EXCEPT !.marker = fs.marker]
    BY <1>1, <2>1, <2>2, SameRoot DEF Added
  <2>4. CASE pc[p] = "undo_dest"
    <3>1. pc'[p] = "undo_mark"
      BY <1>1, <1>6, <2>4 DEF DestinationRemoved, AfterRemoval, TypeOK
    <3> QED BY <1>6, <2>1, <2>3, <2>4, <3>1 DEF AbortInv, DestinationRemoved, Added
  <2>5. CASE pc[p] = "rm_dest"
    <3>1. pc'[p] = "rm_links"
      BY <1>1, <1>6, <2>5 DEF DestinationRemoved, AfterRemoval, TypeOK
    <3>2. fs = before.fs
      <4>1. fs.marker = NoMarker /\ before.fs.marker = NoMarker /\ before.fs \in Roots
        BY <2>1, <2>5 DEF AbortInv, Added
      <4> QED BY <2>3, <4>1 DEF Roots
    <3> QED BY <1>6, <2>1, <2>5, <3>1, <3>2 DEF AbortInv, DestinationRemoved
  <2> QED BY <1>6, <2>4, <2>5 DEF DestinationRemoved
<1>7. CASE UndoPending(p)
  <2>1. fs = [before.fs EXCEPT !.marker = fs.marker] /\ before.fs.marker = NoMarker
    BY <1>7 DEF UndoPending, AbortInv
  <2>2. before.fs \in Roots
    BY <1>7 DEF UndoPending, AbortInv
  <2>3. fs' = before.fs
    BY <1>1, <1>7, <2>1, <2>2 DEF UndoPending, SetMarker, Change, Root, Roots
  <2>4. pc'[p] \in {"rm_links", "undo_sync"}
    BY <1>1, <1>7 DEF UndoPending, TypeOK
  <2> QED BY <1>7, <2>3, <2>4 DEF AbortInv, UndoPending
<1> QED BY <1>2, <1>3, <1>4, <1>5, <1>6, <1>7

\* Every step of every activator, with faults that a return can undo.
LEMMA AbortStep ==
  ASSUME IndInv, NoGhosts, \A p \in Procs : AbortInv(p), Faults \cap Unrestored = {},
         HNext \/ UNCHANGED <<vars, before>>
  PROVE  \A p \in Procs : AbortInv(p)'
<1>1. TypeOK
  BY DEF IndInv
<1>2. CASE UNCHANGED <<vars, before>>
  BY <1>2, AbortOthers DEF vars
<1>3. CASE PowerLoss
  <2>1. \A q \in Procs : pc'[q] = "idle" /\ made'[q] = {} /\ staged'[q] = {}
    BY <1>3 DEF PowerLoss
  <2> QED BY <2>1, AbortIdle
<1>4. ASSUME HNext, NEW p \in Procs, NEW pl \in Plans, NEW g \in {0} \cup ExplicitGens, Request(p, pl, g)
      PROVE  \A q \in Procs : AbortInv(q)'
  <2>1. UNCHANGED <<fs, links, orphans, before, made, staged, num>>
    BY <1>4 DEF HNext, Request
  <2>2. AbortInv(p)'
    <3>1. made[p] = {} /\ staged[p] = {} /\ pc'[p] = "lock"
      BY <1>1, <1>4 DEF Request, Goto, AbortInv, TypeOK
    <3> QED BY <2>1, <3>1 DEF AbortInv, Undoable, Untouched, Published
  <2>3. \A q \in Procs \ {p} : AbortInv(q)'
    BY <1>1, <1>4, <2>1, AbortOthers DEF Request, Goto, TypeOK
  <2> QED BY <2>2, <2>3
<1>5. ASSUME HNext, NEW p \in Procs, Begin(p)
      PROVE  \A q \in Procs : AbortInv(q)'
  <2>1. before' = Found /\ UNCHANGED <<fs, links, orphans, made, staged, num>> /\ pc'[p] = "stage"
    BY <1>1, <1>5, ConstantAssumption DEF HNext, Begin, Goto, local, TypeOK
  <2>2. AbortInv(p)'
    <3>1. made[p] = {}
      BY <1>5 DEF Begin, AbortInv
    <3> QED BY <2>1, <3>1 DEF AbortInv, Undoable, Untouched, Published, Found
  <2>3. \A q \in Procs \ {p} : AbortInv(q)'
    BY <1>1, <1>5, <2>1, ConstantAssumption, AbortOthers DEF Begin, Goto, TypeOK
  <2> QED BY <2>2, <2>3
<1>6. ASSUME HNext, NEW p \in Procs, Kill(p)
      PROVE  \A q \in Procs : AbortInv(q)'
  <2>1. pc'[p] = "idle" /\ made'[p] = {} /\ staged'[p] = {}
    BY <1>1, <1>6 DEF Kill, Goto, TypeOK
  <2>2. AbortInv(p)'
    BY <2>1, AbortIdle
  <2>3. ASSUME NEW q \in Procs \ {p} PROVE AbortInv(q)'
    <3>1. pc'[q] = pc[q] /\ made'[q] = made[q] /\ staged'[q] = staged[q] /\ num'[q] = num[q]
      BY <1>1, <1>6 DEF Kill, Goto, TypeOK
    <3>2. CASE lock # q
      BY <3>1, <3>2, AbortOthers
    <3>3. CASE lock = q
      <4>1. pc[p] \in {"idle", "lock"}
        BY <3>3 DEF IndInv, ControlInv
      <4>2. staged[p] = {}
        BY <4>1 DEF AbortInv
      <4>3. UNCHANGED <<fs, links, orphans, before>>
        BY <1>6, <3>3, <4>2, ConstantAssumption DEF Kill, HNext
      <4> QED BY <3>1, <4>3, AbortOthers
    <3> QED BY <3>2, <3>3
  <2> QED BY <2>2, <2>3
<1>7. ASSUME HNext, NEW p \in Procs, Holder(p)
      PROVE  \A q \in Procs : AbortInv(q)'
  <2>1. lock = p
    BY <1>7 DEF Holder, IndInv, ControlInv, Stage, StageFails, Staged, Compare, CompareFails, InstallLink,
       LinkFails, LinksReady, RemoveLinks, FinishUnchanged, FinishRefused, ChooseNumber, NumberRefused,
       Publish, PublishRefused, PublishFails, PublishSync, WritePending, WritePendingSync, SwitchCurrent,
       SwitchFails, SwitchCurrentSync, RemoveDestination, DestinationRemoved, UndoPending,
       UndoPendingSync, RunUnit, UnitFails, ClearPending, ClearPendingSync, ClearPendingFails, Prune,
       PruneFails, Pruned
  <2>2. UNCHANGED before
    BY <1>7, <2>1, ConstantAssumption DEF HNext
  <2> DEFINE Returning == \/ StageFails(p) \/ CompareFails(p) \/ FinishRefused(p)
                          \/ NumberRefused(p) \/ UnitFails(p) \/ ClearPendingFails(p)
                          \/ PruneFails(p) \/ Pruned(p) \/ RemoveLinks(p)
  <2>3. Returning => \E how : Return(p, how)
    BY DEF StageFails, CompareFails, FinishRefused, NumberRefused, UnitFails, ClearPendingFails,
       PruneFails, Pruned, RemoveLinks
  <2>6. AbortInv(p)'
    <3>1. CASE Returning
      <4>1. pc'[p] = "idle" /\ made'[p] = {} /\ staged'[p] = {}
        BY <1>1, <2>3, <3>1 DEF Return, Goto, TypeOK
      <4> QED BY <4>1, AbortIdle
    <3>2. CASE ~Returning
      BY <1>7, <2>2, <3>2, AbortQuiet, AbortChanges DEF Holder
    <3> QED BY <3>1, <3>2
  <2>7. ASSUME NEW q \in Procs \ {p} PROVE AbortInv(q)'
    <3>1. pc'[q] = pc[q] /\ made'[q] = made[q] /\ staged'[q] = staged[q] /\ num'[q] = num[q]
      <4> USE DEF Goto, local, Return
      <4>1. CASE Returning
        BY <1>1, <2>3, <4>1 DEF TypeOK
      <4>2. CASE Stage(p) \/ Staged(p) \/ Compare(p) \/ InstallLink(p) \/ LinkFails(p)
                 \/ LinksReady(p) \/ FinishUnchanged(p) \/ ChooseNumber(p) \/ PublishRefused(p)
                 \/ PublishFails(p) \/ SwitchFails(p) \/ RunUnit(p)
        BY <1>1, <4>2 DEF TypeOK, Stage, Staged, Compare, InstallLink, LinkFails, LinksReady,
           FinishUnchanged, ChooseNumber, PublishRefused, PublishFails, SwitchFails, RunUnit
      <4>3. CASE \/ PublishSync(p) \/ WritePendingSync(p) \/ SwitchCurrentSync(p)
                 \/ UndoPendingSync(p) \/ ClearPendingSync(p) \/ Publish(p) \/ WritePending(p)
                 \/ SwitchCurrent(p) \/ RemoveDestination(p) \/ DestinationRemoved(p)
                 \/ UndoPending(p) \/ ClearPending(p) \/ Prune(p)
        BY <1>1, <4>3 DEF TypeOK, PublishSync, WritePendingSync, SwitchCurrentSync, UndoPendingSync,
           ClearPendingSync, Publish, WritePending, SwitchCurrent, RemoveDestination,
           DestinationRemoved, UndoPending, ClearPending, Prune
      <4> QED BY <1>7, <4>1, <4>2, <4>3 DEF Holder
    <3> QED BY <2>1, <3>1, AbortOthers
  <2> QED BY <2>6, <2>7
<1> QED BY <1>2, <1>3, <1>4, <1>5, <1>6, <1>7 DEF HNext, Next

\* From the removal of the links only its own last step reports an error.
LEMMA ErrorMeansReturned ==
  ASSUME TypeOK, Next, NEW p \in Procs, pc[p] = "rm_links", result[p] # "error", result'[p] = "error"
  PROVE  RemoveLinks(p)
<1>1. ASSUME NEW q \in Procs, NEW how, Return(q, how)
      PROVE  p = q
  BY <1>1 DEF Return, TypeOK
<1>2. ASSUME NEW q \in Procs, Holder(q)
      PROVE  \/ result' = result \/ (\E how : Return(q, how) /\ (pc[q] = "rm_links" => RemoveLinks(q)))
  BY <1>2 DEF Holder, Stage, StageFails, Staged, Compare, CompareFails,
       InstallLink, LinkFails, LinksReady, RemoveLinks, FinishUnchanged,
       FinishRefused, ChooseNumber, NumberRefused, Publish, PublishRefused,
       PublishFails, PublishSync, AfterPublish, WritePending, WritePendingSync, SwitchCurrent,
       SwitchFails, SwitchCurrentSync, RemoveDestination, DestinationRemoved,
       UndoPending, UndoPendingSync, RunUnit, UnitFails, ClearPending,
       ClearPendingSync, ClearPendingFails, Prune, Superseded, PruneFails, Pruned, PruneDone
<1>3. ASSUME NEW q \in Procs, Holder(q) PROVE RemoveLinks(p)
  <2>1. result' # result
    OBVIOUS
  <2>2. PICK how : Return(q, how) /\ (pc[q] = "rm_links" => RemoveLinks(q))
    BY <1>2, <1>3, <2>1
  <2> QED BY <1>1, <2>2
<1>4. ~PowerLoss
  BY DEF PowerLoss
<1>5. ASSUME NEW q \in Procs PROVE ~Kill(q)
  BY <1>5 DEF Kill, TypeOK
<1>6. ASSUME NEW q \in Procs, NEW pl, NEW g PROVE ~Request(q, pl, g)
  BY <1>6 DEF Request, TypeOK
<1>7. ASSUME NEW q \in Procs PROVE ~Begin(q)
  BY <1>7 DEF Begin
<1> QED BY <1>3, <1>4, <1>5, <1>6, <1>7 DEF Next

\* An activation that fails before its switch took effect restores the runtime
\* root, the compatibility links and the transaction directories, for any number
\* of activators, plans, links and generations, under kills and power losses;
\* excepted are the four faults that by themselves leave something behind.
THEOREM AbortAlwaysRestores ==
  ASSUME Faults \cap {"rename", "mark_sync", "switch_sync", "remove"} = {}
  PROVE  HSpec => AbortRestores
<1> DEFINE Recorded == before = [fs |-> before.fs, links |-> before.links, orphans |-> before.orphans]
           Inv == IndInv /\ NoGhosts /\ Recorded /\ \A p \in Procs : AbortInv(p)
           Restores == \A p \in Procs :
             pc[p] = "rm_links" /\ result[p] # "error" /\ result'[p] = "error" => Found' = before
<1>1. Faults \cap Unrestored = {} /\ "switch_sync" \notin Faults
  BY DEF Unrestored
<1>2. HInit => Inv
  <2> SUFFICES ASSUME HInit PROVE Inv
    OBVIOUS
  <2>1. IndInv
    BY IndInvInit DEF HInit
  <2>2. NoGhosts
    BY DEF HInit, Init, NoGhosts, GhostFree, Root
  <2>3. \A p \in Procs : AbortInv(p)
    BY DEF HInit, Init, AbortInv, Undoable, Untouched, Published
  <2>4. Recorded
    BY DEF HInit, Found
  <2> QED BY <2>1, <2>2, <2>3, <2>4
<1>3. Inv /\ [HNext]_<<vars, before>> => Inv'
  <2> SUFFICES ASSUME Inv, [HNext]_<<vars, before>> PROVE Inv'
    OBVIOUS
  <2>1. [Next]_vars
    BY DEF HNext
  <2>2. IndInv'
    BY <1>1, <2>1, IndInvNext
  <2>3. NoGhosts'
    BY <2>1, GhostStep
  <2>4. \A p \in Procs : AbortInv(p)'
    BY <1>1, AbortStep
  <2>5. Recorded'
    BY DEF HNext, Found
  <2> QED BY <2>2, <2>3, <2>4, <2>5
<1>4. Inv /\ [HNext]_<<vars, before>> => [Restores]_<<vars, before>>
  <2> SUFFICES ASSUME Inv, HNext, NEW p \in Procs,
                      pc[p] = "rm_links", result[p] # "error", result'[p] = "error"
               PROVE  Found' = before
    BY Zenon
  <2>1. RemoveLinks(p) /\ lock = p
    BY ErrorMeansReturned DEF HNext, IndInv, ControlInv
  <2>2. /\ fs = before.fs /\ orphans = before.orphans
        /\ links = before.links \cup made[p] /\ before.links \cap made[p] = {}
    BY DEF AbortInv, Undoable, Untouched, Published
  <2>3. fs' = before.fs /\ links' = before.links /\ orphans' = before.orphans
    BY <2>1, <2>2 DEF RemoveLinks
  <2> QED BY <2>3 DEF Found
<1> QED BY <1>2, <1>3, <1>4, PTL DEF HSpec, AbortRestores
=============================================================================
