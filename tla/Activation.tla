----------------------------- MODULE Activation -----------------------------
(***************************************************************************)
(* The activation transaction of nix-seal-runtime: activate() and          *)
(* Generation::commit_and_switch_optional() in                             *)
(* crates/nix-seal-runtime/src/lib.rs.                                     *)
(*                                                                         *)
(* Activator processes contend for the lock of one runtime root.  The      *)
(* holder stages the plaintext tree of its plan in a private transaction   *)
(* directory, renames it to generation-N, records a pending-action marker  *)
(* when the plan has service actions, renames the `current' symlink, runs  *)
(* the service actions, clears the marker and prunes the superseded        *)
(* generations.  Every step is one system call (or a run of calls that     *)
(* change nothing others can see), so a process may be killed, the host    *)
(* may lose power, or a call may fail between any two of them.             *)
(***************************************************************************)
EXTENDS Naturals, Sequences, FiniteSets

CONSTANTS
  Procs,          \* activator processes that share the runtime root
  Plans,          \* canonical plans, identified by their hash
  Files,          \* materialised files: identifier, bytes, owner and mode
  Templates,      \* the files that are rendered from staged secrets
  Tree,           \* Tree[pl]: the files the plan materialises
  Units,          \* service-manager units
  Actions,        \* Actions[pl]: reload units then restart units; <<>> is None
  LinkNames,      \* compatibility symlink destinations outside the root
  Links,          \* Links[pl]: the compatibility symlinks the plan declares
  MaxGen,         \* the largest generation number (u64::MAX in the code)
  ExplicitGens,   \* generation numbers a request may ask for
  Faults,         \* the faults the environment may inject
  NoProc, NoPlan  \* nobody holds the lock; no plan

FaultKinds ==
  {"stage",        \* a decryption, rendering, write or sync_tree error
   "link",         \* a compatibility destination that is refused
   "rename",       \* the rename that publishes the generation
   "publish_sync", \* the fsync after that rename
   "mark",         \* write_pending before its rename
   "mark_sync",    \* write_pending's fsync, after its rename
   "switch",       \* switch_current before its rename
   "switch_sync",  \* switch_current's fsync, after its rename
   "remove",       \* a removal that stops half way
   "unit",         \* a service action that fails or times out
   "clear",        \* clear_pending's fsync, after its unlink
   "kill",         \* the activator process dies
   "power"}        \* the host stops; an un-synced suffix of changes is lost

ASSUME ConstantAssumption ==
  /\ MaxGen \in Nat
  /\ ExplicitGens \subseteq 1..MaxGen
  /\ IsFiniteSet(Files)
  /\ Tree \in [Plans -> SUBSET Files]
  /\ Actions \in [Plans -> Seq(Units)]
  /\ Links \in [Plans -> SUBSET LinkNames]
  /\ Faults \subseteq FaultKinds
  /\ NoProc \notin Procs
  /\ NoPlan \notin Plans

VARIABLES
  fs,       \* the runtime root: published names, their trees, current, marker
  snaps,    \* the states of fs a power loss may leave: all since the last fsync
  links,    \* compatibility symlinks that point at current/<secret>
  orphans,  \* files in transaction directories no process owns any more
  stale,    \* units of the live plan not acted on since `current' switched
  lock,     \* holder of .activate.lock
  pc,       \* pc[p]: the next step of activator p
  plan,     \* plan[p]: the plan p activates
  want,     \* want[p]: its explicit generation number, 0 for the next free one
  staged,   \* staged[p]: the files in p's transaction directory
  num,      \* num[p]: the generation p publishes or confirms
  made,     \* made[p]: the compatibility symlinks p created
  next,     \* next[p]: index of the next service action
  result    \* result[p]: how p's last activation returned

local == <<plan, want, staged, num, made, next>>
vars == <<fs, snaps, links, orphans, stale, lock, pc, plan, want, staged, num,
          made, next, result>>

Gens == 1..MaxGen
NoMarker == [gen |-> 0, plan |-> NoPlan]
Markers == [gen : Gens, plan : Plans] \cup {NoMarker}

\* What the runtime root holds: names are the generation-N directories, tree[N]
\* the files in generation-N, current the target of the `current' symlink (0 if
\* there is none) and marker the content of .post-switch-pending-v1.
Roots == [names : SUBSET Gens, tree : [Gens -> SUBSET Files],
          current : 0..MaxGen, marker : Markers]
Root(n, t, c, m) == [names |-> n, tree |-> t, current |-> c, marker |-> m]

Labels == {"idle", "lock", "stage", "compare", "relink", "finish", "number",
           "links", "publish", "publish_sync", "mark", "mark_sync", "switch",
           "switch_sync", "post", "clear_sync", "prune", "rm_dest", "undo_dest",
           "undo_mark", "undo_sync", "rm_links"}

UnitsFrom(pl, i) == {Actions[pl][j] : j \in i..Len(Actions[pl])}
UnitsOf(pl) == UnitsFrom(pl, 1)
HasActions(pl) == Len(Actions[pl]) > 0
Secrets(pl) == Tree[pl] \ Templates
Fails(kind) == kind \in Faults

Init ==
  /\ fs = Root({}, [g \in Gens |-> {}], 0, NoMarker)
  /\ snaps = {fs}
  /\ links = {} /\ orphans = {} /\ stale = {}
  /\ lock = NoProc
  /\ pc = [p \in Procs |-> "idle"]
  /\ plan = [p \in Procs |-> NoPlan]
  /\ want = [p \in Procs |-> 0]
  /\ staged = [p \in Procs |-> {}]
  /\ num = [p \in Procs |-> 0]
  /\ made = [p \in Procs |-> {}]
  /\ next = [p \in Procs |-> 1]
  /\ result = [p \in Procs |-> "none"]

-----------------------------------------------------------------------------
(* File-system steps and returns                                           *)

\* A change of the runtime root: visible at once, durable after an fsync.  The
\* earlier states matter only where the power may fail.
Change(root) ==
  /\ fs' = root
  /\ snaps' = IF Fails("power") THEN snaps \cup {root} ELSE {root}

\* Mutant of SetMarker: the marker does not bind the plan.
SetMarkerUnbound(m) ==
  Change(Root(fs.names, fs.tree, fs.current, [gen |-> m.gen, plan |-> NoPlan]))
SetMarker(m) == Change(Root(fs.names, fs.tree, fs.current, m))

\* Mutant of Sync: the fsync is left out.
SyncSkipped == UNCHANGED <<fs, snaps>>
\* fsync of the runtime root makes everything so far durable.
Sync == snaps' = {fs} /\ UNCHANGED fs

Goto(p, label) == pc' = [pc EXCEPT ![p] = label]

\* The Generation value goes out of scope: the transaction directory is deleted
\* and then the lock is released.
Return(p, how) ==
  /\ lock' = NoProc
  /\ Goto(p, "idle")
  /\ plan' = [plan EXCEPT ![p] = NoPlan]
  /\ want' = [want EXCEPT ![p] = 0]
  /\ staged' = [staged EXCEPT ![p] = {}]
  /\ num' = [num EXCEPT ![p] = 0]
  /\ made' = [made EXCEPT ![p] = {}]
  /\ next' = [next EXCEPT ![p] = 1]
  /\ result' = [result EXCEPT ![p] = how]

-----------------------------------------------------------------------------
(* activate(): authenticate, lock, stage, compare                          *)

\* A request whose artifacts and templates are all authentic reaches the lock;
\* one that is not returns before it touches the runtime root.
Request(p, pl, g) ==
  /\ pc[p] = "idle"
  /\ Goto(p, "lock")
  /\ plan' = [plan EXCEPT ![p] = pl]
  /\ want' = [want EXCEPT ![p] = g]
  /\ result' = [result EXCEPT ![p] = "none"]
  /\ UNCHANGED <<fs, snaps, links, orphans, stale, lock, staged, num, made, next>>

Begin(p) ==
  /\ pc[p] = "lock"
  /\ lock = NoProc
  /\ lock' = p
  /\ Goto(p, "stage")
  /\ UNCHANGED <<fs, snaps, links, orphans, stale, local, result>>

\* Decrypt one secret or, once every secret is staged, render one template.
Stage(p) ==
  /\ pc[p] = "stage"
  /\ \E f \in Tree[plan[p]] \ staged[p] :
       /\ f \in Templates => Secrets(plan[p]) \subseteq staged[p]
       /\ staged' = [staged EXCEPT ![p] = @ \cup {f}]
  /\ UNCHANGED <<fs, snaps, links, orphans, stale, lock, pc, plan, want, num,
                 made, next, result>>

StageFails(p) ==
  /\ pc[p] = "stage"
  /\ Fails("stage")
  /\ Return(p, "error")
  /\ UNCHANGED <<fs, snaps, links, orphans, stale>>

Staged(p) ==
  /\ pc[p] = "stage"
  /\ staged[p] = Tree[plan[p]]
  /\ Goto(p, "compare")
  /\ UNCHANGED <<fs, snaps, links, orphans, stale, lock, local, result>>

\* matching_current: as many files as the active generation, each one equal.
Matches(p) ==
  /\ fs.current # 0
  /\ Cardinality(fs.tree[fs.current]) = Cardinality(staged[p])
  /\ staged[p] \subseteq fs.tree[fs.current]

\* current_generation fails on a symlink whose generation is gone.
Dangling == fs.current # 0 /\ fs.current \notin fs.names

CompareFails(p) ==
  /\ pc[p] = "compare"
  /\ Dangling
  /\ Return(p, "error")
  /\ UNCHANGED <<fs, snaps, links, orphans, stale>>

Compare(p) ==
  /\ pc[p] = "compare"
  /\ ~Dangling
  /\ IF Matches(p)
     THEN Goto(p, "relink") /\ num' = [num EXCEPT ![p] = fs.current]
     ELSE Goto(p, "number") /\ UNCHANGED num
  /\ UNCHANGED <<fs, snaps, links, orphans, stale, lock, plan, want, staged,
                 made, next, result>>

-----------------------------------------------------------------------------
(* ensure_compatibility_symlinks, on both paths                            *)

InstallLink(p) ==
  /\ pc[p] \in {"relink", "links"}
  /\ \E l \in Links[plan[p]] \ links :
       /\ links' = links \cup {l}
       /\ made' = [made EXCEPT ![p] = @ \cup {l}]
  /\ UNCHANGED <<fs, snaps, orphans, stale, lock, pc, plan, want, staged, num,
                 next, result>>

\* A destination that is occupied or unsafe: undo the links made so far.
LinkFails(p) ==
  /\ pc[p] \in {"relink", "links"}
  /\ Fails("link")
  /\ Links[plan[p]] \ links # {}
  /\ Goto(p, "rm_links")
  /\ UNCHANGED <<fs, snaps, links, orphans, stale, lock, local, result>>

LinksReady(p) ==
  /\ pc[p] \in {"relink", "links"}
  /\ Links[plan[p]] \subseteq links
  /\ Goto(p, IF pc[p] = "relink" THEN "finish" ELSE "publish")
  /\ UNCHANGED <<fs, snaps, links, orphans, stale, lock, local, result>>

\* remove_compatibility_symlinks: only what this activation created.
RemoveLinks(p) ==
  /\ pc[p] = "rm_links"
  /\ links' = links \ made[p]
  /\ Return(p, "error")
  /\ UNCHANGED <<fs, snaps, orphans, stale>>

-----------------------------------------------------------------------------
(* finish_unchanged: the active generation already is what the plan wants  *)

\* Mutant of PendingMatches: the marker is compared with the next generation.
PendingMatchesNext(p) == fs.marker = [gen |-> num[p] + 1, plan |-> plan[p]]
PendingMatches(p) == fs.marker = [gen |-> num[p], plan |-> plan[p]]

FinishUnchanged(p) ==
  /\ pc[p] = "finish"
  /\ \/ fs.marker = NoMarker /\ Goto(p, "prune")
     \/ PendingMatches(p) /\ HasActions(plan[p]) /\ Goto(p, "post")
  /\ UNCHANGED <<fs, snaps, links, orphans, stale, lock, local, result>>

FinishRefused(p) ==
  /\ pc[p] = "finish"
  /\ fs.marker # NoMarker
  /\ ~(PendingMatches(p) /\ HasActions(plan[p]))
  /\ Return(p, "error")
  /\ UNCHANGED <<fs, snaps, links, orphans, stale>>

-----------------------------------------------------------------------------
(* commit_and_switch_optional: publish, mark, switch                       *)

\* next_generation: one more than the largest published number.
IsNextGeneration(g) ==
  /\ g = 1 \/ g - 1 \in fs.names
  /\ \A n \in fs.names : n < g

ChooseNumber(p) ==
  /\ pc[p] = "number"
  /\ fs.marker = NoMarker
  /\ \E g \in Gens :
       /\ IF want[p] # 0 THEN g = want[p] ELSE IsNextGeneration(g)
       /\ num' = [num EXCEPT ![p] = g]
  /\ Goto(p, "links")
  /\ UNCHANGED <<fs, snaps, links, orphans, stale, lock, plan, want, staged,
                 made, next, result>>

\* A pending marker is never replaced, and numbers do not wrap around.
NumberRefused(p) ==
  /\ pc[p] = "number"
  /\ \/ fs.marker # NoMarker
     \/ want[p] = 0 /\ MaxGen \in fs.names
  /\ Return(p, "error")
  /\ UNCHANGED <<fs, snaps, links, orphans, stale>>

Publish(p) ==
  /\ pc[p] = "publish"
  /\ num[p] \notin fs.names
  /\ Change(Root(fs.names \cup {num[p]},
                 [fs.tree EXCEPT ![num[p]] = staged[p]], fs.current, fs.marker))
  /\ staged' = [staged EXCEPT ![p] = {}]
  /\ Goto(p, "publish_sync")
  /\ UNCHANGED <<links, orphans, stale, lock, plan, want, num, made, next, result>>

\* The name is taken, or sync_tree fails: the transaction is dropped on return.
PublishRefused(p) ==
  /\ pc[p] = "publish"
  /\ num[p] \in fs.names \/ Fails("stage")
  /\ Goto(p, "rm_links")
  /\ UNCHANGED <<fs, snaps, links, orphans, stale, lock, local, result>>

\* The transaction was kept for the rename, so a failed rename leaves it behind.
PublishFails(p) ==
  /\ pc[p] = "publish"
  /\ num[p] \notin fs.names
  /\ Fails("rename")
  /\ orphans' = orphans \cup staged[p]
  /\ staged' = [staged EXCEPT ![p] = {}]
  /\ Goto(p, "rm_links")
  /\ UNCHANGED <<fs, snaps, links, stale, lock, plan, want, num, made, next, result>>

\* Mutant of AfterPublish: no marker is written before the switch.
AfterPublishUnmarked(p) == "switch"
AfterPublish(p) == IF HasActions(plan[p]) THEN "mark" ELSE "switch"

PublishSync(p) ==
  /\ pc[p] = "publish_sync"
  /\ \/ /\ Sync
        /\ Goto(p, AfterPublish(p))
     \/ /\ Fails("publish_sync")
        /\ Goto(p, "rm_dest")
        /\ UNCHANGED <<fs, snaps>>
  /\ UNCHANGED <<links, orphans, stale, lock, local, result>>

\* write_pending: its rename puts the marker in place.
WritePending(p) ==
  /\ pc[p] = "mark"
  /\ \/ /\ SetMarker([gen |-> num[p], plan |-> plan[p]])
        /\ Goto(p, "mark_sync")
     \/ /\ Fails("mark")
        /\ Goto(p, "rm_dest")
        /\ UNCHANGED <<fs, snaps>>
  /\ UNCHANGED <<links, orphans, stale, lock, local, result>>

\* A failed fsync is reported with the marker already in place.
WritePendingSync(p) ==
  /\ pc[p] = "mark_sync"
  /\ \/ Sync /\ Goto(p, "switch")
     \/ Fails("mark_sync") /\ Goto(p, "rm_dest") /\ UNCHANGED <<fs, snaps>>
  /\ UNCHANGED <<links, orphans, stale, lock, local, result>>

SwitchCurrent(p) ==
  /\ pc[p] = "switch"
  /\ Change(Root(fs.names, fs.tree, num[p], fs.marker))
  /\ stale' = UnitsOf(plan[p])
  /\ Goto(p, "switch_sync")
  /\ UNCHANGED <<links, orphans, lock, local, result>>

SwitchFails(p) ==
  /\ pc[p] = "switch"
  /\ Fails("switch")
  /\ Goto(p, "undo_dest")
  /\ UNCHANGED <<fs, snaps, links, orphans, stale, lock, local, result>>

SwitchCurrentSync(p) ==
  /\ pc[p] = "switch_sync"
  /\ \/ /\ Sync
        /\ Goto(p, IF HasActions(plan[p]) THEN "post" ELSE "prune")
     \/ /\ Fails("switch_sync")
        /\ Goto(p, "undo_dest")
        /\ UNCHANGED <<fs, snaps>>
  /\ UNCHANGED <<links, orphans, stale, lock, local, result>>

-----------------------------------------------------------------------------
(* The error paths after publication, all best effort                      *)

\* remove_dir_all and remove_generation_tree delete file by file, then the
\* directory.
RemovalStep(g) ==
  \/ \E f \in fs.tree[g] :
       Change(Root(fs.names, [fs.tree EXCEPT ![g] = @ \ {f}], fs.current, fs.marker))
  \/ /\ fs.tree[g] = {}
     /\ Change(Root(fs.names \ {g}, fs.tree, fs.current, fs.marker))

\* Mutant of AfterRemoval: a failed switch does not clear the marker.
AfterRemovalMarked(p) == "rm_links"
AfterRemoval(p) == IF pc[p] = "undo_dest" THEN "undo_mark" ELSE "rm_links"

RemoveDestination(p) ==
  /\ pc[p] \in {"rm_dest", "undo_dest"}
  /\ num[p] \in fs.names
  /\ RemovalStep(num[p])
  /\ UNCHANGED <<links, orphans, stale, lock, pc, local, result>>

DestinationRemoved(p) ==
  /\ pc[p] \in {"rm_dest", "undo_dest"}
  /\ num[p] \notin fs.names \/ Fails("remove")
  /\ Goto(p, AfterRemoval(p))
  /\ UNCHANGED <<fs, snaps, links, orphans, stale, lock, local, result>>

\* clear_pending after a failed switch.
UndoPending(p) ==
  /\ pc[p] = "undo_mark"
  /\ IF fs.marker = NoMarker
     THEN Goto(p, "rm_links") /\ UNCHANGED <<fs, snaps>>
     ELSE Goto(p, "undo_sync") /\ SetMarker(NoMarker)
  /\ UNCHANGED <<links, orphans, stale, lock, local, result>>

UndoPendingSync(p) ==
  /\ pc[p] = "undo_sync"
  /\ Sync \/ (Fails("clear") /\ UNCHANGED <<fs, snaps>>)
  /\ Goto(p, "rm_links")
  /\ UNCHANGED <<links, orphans, stale, lock, local, result>>

-----------------------------------------------------------------------------
(* run_post_switch, clear_pending, prune_superseded_generations            *)

\* One service action: a reload or restart that succeeds, or a restart that is
\* skipped because the unit is not running.
RunUnit(p) ==
  /\ pc[p] = "post"
  /\ next[p] <= Len(Actions[plan[p]])
  /\ stale' = stale \ {Actions[plan[p]][next[p]]}
  /\ next' = [next EXCEPT ![p] = @ + 1]
  /\ UNCHANGED <<fs, snaps, links, orphans, lock, pc, plan, want, staged, num,
                 made, result>>

\* A service action that fails or times out leaves the marker in place.
UnitFails(p) ==
  /\ pc[p] = "post"
  /\ next[p] <= Len(Actions[plan[p]])
  /\ Fails("unit")
  /\ Return(p, "error")
  /\ UNCHANGED <<fs, snaps, links, orphans, stale>>

ClearPending(p) ==
  /\ pc[p] = "post"
  /\ next[p] > Len(Actions[plan[p]])
  /\ SetMarker(NoMarker)
  /\ Goto(p, "clear_sync")
  /\ UNCHANGED <<links, orphans, stale, lock, local, result>>

ClearPendingSync(p) ==
  /\ pc[p] = "clear_sync"
  /\ Sync
  /\ Goto(p, "prune")
  /\ UNCHANGED <<links, orphans, stale, lock, local, result>>

ClearPendingFails(p) ==
  /\ pc[p] = "clear_sync"
  /\ Fails("clear")
  /\ Return(p, "error")
  /\ UNCHANGED <<fs, snaps, links, orphans, stale>>

\* Mutant of Superseded: every generation but the newest number goes, which an
\* explicit lower number makes the live one.
SupersededByNumber(p) == {g \in fs.names : \E n \in fs.names : g < n}
Superseded(p) == fs.names \ {num[p]}

Prune(p) ==
  /\ pc[p] = "prune"
  /\ \E g \in Superseded(p) : RemovalStep(g)
  /\ UNCHANGED <<links, orphans, stale, lock, pc, local, result>>

PruneFails(p) ==
  /\ pc[p] = "prune"
  /\ Fails("remove")
  /\ Return(p, "error")
  /\ UNCHANGED <<fs, snaps, links, orphans, stale>>

\* Mutants of PruneDone: prune stops early; prune waits for the live generation.
PruneAnyTime(p) == TRUE
PruneForever(p) == fs.names = {}
PruneDone(p) == fs.names \subseteq {num[p]}

\* Everything else is gone: sync the root and return Ok.
Pruned(p) ==
  /\ pc[p] = "prune"
  /\ PruneDone(p)
  /\ Sync
  /\ Return(p, "ok")
  /\ UNCHANGED <<links, orphans, stale>>

-----------------------------------------------------------------------------
(* Crashes                                                                 *)

\* The kernel releases the lock of a dead process; nobody deletes its
\* transaction directory.
Kill(p) ==
  /\ Fails("kill")
  /\ pc[p] # "idle"
  /\ lock' = IF lock = p THEN NoProc ELSE lock
  /\ orphans' = orphans \cup staged[p]
  /\ Goto(p, "idle")
  /\ plan' = [plan EXCEPT ![p] = NoPlan]
  /\ want' = [want EXCEPT ![p] = 0]
  /\ staged' = [staged EXCEPT ![p] = {}]
  /\ num' = [num EXCEPT ![p] = 0]
  /\ made' = [made EXCEPT ![p] = {}]
  /\ next' = [next EXCEPT ![p] = 1]
  /\ result' = [result EXCEPT ![p] = "killed"]
  /\ UNCHANGED <<fs, snaps, links, stale>>

\* The root comes back as it was after some prefix of the changes since the
\* last fsync (a journalling file system); symlinks outside it are never synced.
PowerLoss ==
  /\ Fails("power")
  /\ \E root \in snaps :
       /\ fs' = root
       /\ snaps' = {root}
       /\ stale' = IF root.current = fs.current THEN stale ELSE {}
  /\ links' \in SUBSET links
  /\ orphans' = orphans \cup UNION {staged[p] : p \in Procs}
  /\ lock' = NoProc
  /\ pc' = [p \in Procs |-> "idle"]
  /\ plan' = [p \in Procs |-> NoPlan]
  /\ want' = [p \in Procs |-> 0]
  /\ staged' = [p \in Procs |-> {}]
  /\ num' = [p \in Procs |-> 0]
  /\ made' = [p \in Procs |-> {}]
  /\ next' = [p \in Procs |-> 1]
  /\ result' = [p \in Procs |-> "killed"]

-----------------------------------------------------------------------------
\* The steps an activator that holds the lock takes on its own.
Holder(p) ==
  \/ Stage(p) \/ StageFails(p) \/ Staged(p) \/ Compare(p) \/ CompareFails(p)
  \/ InstallLink(p) \/ LinkFails(p) \/ LinksReady(p) \/ RemoveLinks(p)
  \/ FinishUnchanged(p) \/ FinishRefused(p)
  \/ ChooseNumber(p) \/ NumberRefused(p)
  \/ Publish(p) \/ PublishRefused(p) \/ PublishFails(p) \/ PublishSync(p)
  \/ WritePending(p) \/ WritePendingSync(p)
  \/ SwitchCurrent(p) \/ SwitchFails(p) \/ SwitchCurrentSync(p)
  \/ RemoveDestination(p) \/ DestinationRemoved(p)
  \/ UndoPending(p) \/ UndoPendingSync(p)
  \/ RunUnit(p) \/ UnitFails(p)
  \/ ClearPending(p) \/ ClearPendingSync(p) \/ ClearPendingFails(p)
  \/ Prune(p) \/ PruneFails(p) \/ Pruned(p)

Next ==
  \/ \E p \in Procs :
       \/ \E pl \in Plans, g \in {0} \cup ExplicitGens : Request(p, pl, g)
       \/ Begin(p)
       \/ Holder(p)
       \/ Kill(p)
  \/ PowerLoss

Spec == Init /\ [][Next]_vars

-----------------------------------------------------------------------------
(* Fairness                                                                *)

\* An activator that holds the lock keeps running; one that waits for the lock
\* is eventually served although it is free only from time to time; operators
\* eventually retry the plan a marker names (docs/runbooks.md, "Failed
\* activation and rollback"); a unit whose action is attempted again and again
\* eventually succeeds.
Fairness ==
  /\ \A p \in Procs :
       /\ WF_vars(Holder(p))
       /\ SF_vars(Begin(p))
       /\ SF_vars(fs.marker.plan \in Plans /\ Request(p, fs.marker.plan, 0))
  /\ \A p \in Procs, pl \in Plans : \A i \in DOMAIN Actions[pl] :
       SF_vars(plan[p] = pl /\ next[p] = i /\ RunUnit(p))

FairSpec == Spec /\ Fairness

-----------------------------------------------------------------------------
(* Properties                                                              *)

TypeOK ==
  /\ fs \in Roots
  /\ snaps \subseteq Roots
  /\ links \subseteq LinkNames
  /\ orphans \subseteq Files
  /\ stale \subseteq Units
  /\ lock \in Procs \cup {NoProc}
  /\ pc \in [Procs -> Labels]
  /\ plan \in [Procs -> Plans \cup {NoPlan}]
  /\ want \in [Procs -> 0..MaxGen]
  /\ staged \in [Procs -> SUBSET Files]
  /\ num \in [Procs -> 0..MaxGen]
  /\ made \in [Procs -> SUBSET LinkNames]
  /\ next \in [Procs -> Nat \ {0}]
  /\ result \in [Procs -> {"none", "ok", "error", "killed"}]

\* `current' resolves to a generation that holds every file of one plan: no
\* failure, kill or power loss exposes a partial tree or a dangling link.
\* (activate, switch_current, prune_superseded_generations)
Complete(root) ==
  root.current # 0 =>
    /\ root.current \in root.names
    /\ \E pl \in Plans : root.tree[root.current] = Tree[pl]

CurrentResolves == Complete(fs)

\* Units that were not yet acted on since `current' switched are never
\* forgotten: the marker on disk names the live generation and a plan with the
\* same files whose actions include them, so a retry runs them.
\* (commit_and_switch_optional, finish_unchanged, clear_pending)
NoLostActions ==
  stale # {} =>
    /\ fs.marker # NoMarker
    /\ fs.marker.gen = fs.current
    /\ fs.tree[fs.current] = Tree[fs.marker.plan]
    /\ stale \subseteq UnitsOf(fs.marker.plan)

\* While the root is unlocked, a pending marker can be cleared by activating the
\* plan it names: it names the live generation and that plan has actions.
\* (docs/runbooks.md: "retry the same approved activation policy")
MarkerRetriable ==
  lock = NoProc /\ fs.marker # NoMarker =>
    /\ fs.marker.gen = fs.current
    /\ fs.tree[fs.current] = Tree[fs.marker.plan]
    /\ HasActions(fs.marker.plan)

\* A generation is never touched while `current' points at it: neither pruning
\* nor an error path removes a file under a reader of current/<secret>.
LiveTreeUntouched ==
  [][fs.current # 0 /\ fs'.current = fs.current
       => /\ fs'.tree[fs.current] = fs.tree[fs.current]
          /\ fs.current \in fs.names => fs.current \in fs'.names]_vars

\* An activation that returns Ok leaves exactly its plan's files live, no other
\* generation on disk, nothing pending and every unit acted on.
\* (activate, prune_superseded_generations)
SuccessMeansInstalled ==
  [][\A p \in Procs : result[p] # "ok" /\ result'[p] = "ok" =>
       /\ fs'.names = {fs'.current}
       /\ fs'.tree[fs'.current] = Tree[plan[p]]
       /\ snaps' = {fs'}
       /\ fs'.marker = NoMarker
       /\ stale' = {}
       /\ Links[plan[p]] \subseteq links']_vars

\* An activation that reaches the lock returns, and a pending action is
\* eventually completed by retries.
EveryActivationReturns == \A p \in Procs : pc[p] # "idle" ~> pc[p] = "idle"
PendingIsCleared == fs.marker # NoMarker ~> fs.marker = NoMarker

-----------------------------------------------------------------------------
(* The inductive invariant behind CurrentResolves and NoLostActions        *)

\* The tree is staged and not yet published or dropped.
FullyStaged == {"compare", "relink", "finish", "number", "links", "publish"}
\* generation-N exists, complete, and is not live yet.
Published == {"publish_sync", "mark", "mark_sync", "switch"}
\* A commit that has not switched, or is being undone.
Committing == Published \cup {"links", "publish", "rm_dest", "undo_dest",
                              "undo_mark", "undo_sync"}
\* The generation of the holder is the live one.
HoldsLive == {"relink", "finish", "switch_sync", "post", "clear_sync", "prune"}
\* Every compatibility symlink of the plan is in place.
Linked == Published \cup {"finish", "publish", "switch_sync", "post",
                          "clear_sync", "prune"}

\* Only the lock holder is past the lock, and it works for a plan.
ControlInv(p) ==
  /\ pc[p] \notin {"idle", "lock"} <=> lock = p
  /\ pc[p] # "idle" => plan[p] \in Plans
  /\ pc[p] \notin {"post", "clear_sync", "prune"} => next[p] = 1
  /\ pc[p] \in {"mark", "mark_sync", "post"} => HasActions(plan[p])

\* What the holder's own trees hold.
TreeInv(p) ==
  /\ pc[p] \in FullyStaged => staged[p] = Tree[plan[p]]
  /\ pc[p] \in Published \cup {"links", "publish", "rm_dest", "undo_dest"}
       => num[p] \in Gens
  /\ pc[p] \in Published \cup {"rm_dest", "undo_dest"} => num[p] # fs.current
  /\ pc[p] \in Published =>
       num[p] \in fs.names /\ fs.tree[num[p]] = Tree[plan[p]]
  /\ pc[p] \in HoldsLive =>
       /\ fs.current # 0
       /\ num[p] = fs.current
       /\ fs.tree[fs.current] = Tree[plan[p]]
  /\ pc[p] \in Linked => Links[plan[p]] \subseteq links

\* What the marker and the units still owed are at each step of the holder.
MarkerInv(p) ==
  /\ pc[p] \in {"links", "publish", "publish_sync", "mark", "clear_sync", "prune"}
       => fs.marker = NoMarker
  /\ pc[p] \in {"mark_sync", "switch", "switch_sync", "post"}
       => fs.marker = IF HasActions(plan[p])
                      THEN [gen |-> num[p], plan |-> plan[p]] ELSE NoMarker
  /\ pc[p] = "switch" => snaps = {fs}
  /\ pc[p] \in Committing \cup {"clear_sync", "prune"} => stale = {}
  /\ pc[p] = "post" => stale \subseteq UnitsFrom(plan[p], next[p])

\* Whatever a power loss leaves is complete, and if it keeps `current' it keeps
\* the live tree and the marker that units are owed under.
SnapInv ==
  /\ fs \in snaps
  /\ \A root \in snaps :
       /\ Complete(root)
       /\ root.current = fs.current =>
            /\ root.current # 0 => root.tree[root.current] = fs.tree[fs.current]
            /\ stale # {} => root.marker = fs.marker

\* IndInv is inductive when the fsync that follows the switch does not fail.
IndInv ==
  /\ TypeOK
  /\ \A p \in Procs : ControlInv(p) /\ TreeInv(p) /\ MarkerInv(p)
  /\ SnapInv
  /\ CurrentResolves
  /\ NoLostActions

-----------------------------------------------------------------------------
(* Refinement of SecretView                                                *)

\* The files a reader finds under runtimeRoot/current.
ViewOf(root) == IF root.current = 0 THEN {} ELSE root.tree[root.current]
PastViews == {ViewOf(root) : root \in snaps}

View == INSTANCE SecretView
          WITH view <- ViewOf(fs), past <- PastViews, owed <- stale

\* The activation transaction implements SecretView: readers only ever go from
\* one complete tree to the next, in one step, and only when no unit is owed an
\* action for the tree they leave.
ImplementsSecretView == View!ViewSpec
=============================================================================
