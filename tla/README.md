# Formal verification of nix-seal

TLA+ models of the stateful parts of nix-seal and of the pure algorithms they
decide by, the TLC configurations that check them on small instances, and TLAPS
proofs of the most important results for every value of the constants.
`PROJECT.json` lists the components, the runs, the source lines of every
definition, the hazards and the theorems.

## 1. The system

nix-seal keeps age-encrypted secrets in a repository. A *policy* says who consumes,
administers and approves each secret. An administrator *authors* canonical
ciphertext by hand, with *generators*, by *migration* from other tools or through
a *delegated* capability; *rekeys* it to per-target artifacts that live in a content
addressed *cache*; *approves* and *prepares* them for the targets; and a host
*activates* a plan: it selects an authentic artifact of every secret, decrypts them
into a fresh generation of a runtime directory, switches a symlink to it, and
tells the service manager which units to reload or restart.

| component | state | operations | interacts with |
|---|---|---|---|
| runtime activation (`nix-seal-runtime/src/lib.rs`) | `generation-N` directories, the `current` symlink, `.post-switch-pending-v1`, compatibility symlinks, `.activate.lock`, a private transaction directory | `activate`, `commit_and_switch_optional`, `finish_unchanged`, `switch_current`, `write_pending`, `clear_pending`, `prune_superseded_generations` | readers of `current/…`, services, other activators (lock), selection |
| child supervision (`nix-seal-runtime/src/child.rs`) | the child process, a mutex, the published result, an observer thread, a condition variable | `new`, `wait_until`, `terminate`, `drop` | the kernel, callers on several threads; used by generators, migration and preparation |
| ciphertext cache (`nix-seal-cache/src/lib.rs`) | `objects/`, `artifacts/<key>/{ciphertext,manifest}`, `.nix-seal-txn-*`, `.lock` | `open` with recovery, `put`, `import_from`, `export_to`, `inventory`, `artifact_records`, `load_artifact_by_key`, `garbage_collect` | rekey, `cache gc`, selection, other processes |
| rekey (`nix-seal-rekey/src/lib.rs`) | private transaction files | look up, encrypt and sign, publish, authenticate a lost race | cache, manifests |
| `cache gc` (`nix-seal-cli/src/main.rs`) | the retention set | authenticate every record without the lock, sweep under it | cache, policy, the checkout |
| manifests (`nix-seal-manifest/src/lib.rs`) | none | sign, add an approval, verify a threshold, capabilities | rekey, selection, delegated creation |
| artifact selection and readiness (`nix-seal-cli`) | none | newest authentic artifact of each secret | cache, manifests, activation, preparation |
| install preparation (`nix-seal-cli/src/preparation.rs`) | request and answer, a worker on another machine, a deadline | request, check, create, answer, stage, install, report | cache, selection, child supervision |
| policy and projection (`nix-seal-policy/src/lib.rs`) | none | merge, validate, project to a target or a source | every command |
| plan edits (`nix-seal-cli/src/main.rs`) | the TOML plan, `.nix-seal-plan.lock` | `identity add/remove/rotate`, `group add/remove` | policy, the Nix-emitted plan |
| authoring (`nix-seal-authoring/src/lib.rs`) | canonical files, backups, tombstones, `.nix-seal.lock` | single write, rekey, edit, delete, five batch commits with rollback | every command below; git and editors that ignore the lock |
| generators (`nix-seal-cli/src/main.rs`) | validation state, remembered prompts | dependency order, decision, run, commit, remember | authoring, child supervision |
| secret commands, delegated creation (`nix-seal-cli/src/main.rs`) | capability files | write, edit, rekey, delete, batch, bootstrap, issue, redeem | authoring, manifests |
| migration (`nix-seal-cli/src/migration.rs`) | an external decryptor, a writer thread, a watchdog | ciphertext, tree, plain and external migrations | authoring, child supervision |
| template rendering (`nix-seal-runtime/src/lib.rs`) | a streaming encoder | render placeholders from staged secrets | activation |

What is hard in this code, and what therefore has properties: file-system
transactions of several system calls that may be cut by a kill, an error or a
power loss; hand-written undo code for each failing step; state read without a lock
and used after it is taken (`cache gc`, generate, redeem, edit); two processes on one
lock; a signal to a PID that may have been reused, a condition variable and a
deadline; an external program that closes its output before it fails, or never ends;
answers that are late, lost, incomplete or foreign; the same question answered by two
pieces of code (who consumes a secret, which artifact is active); one key with two
names; retries that must eventually complete what failed. The hazards, each with its
line and the properties that would catch it, are in `PROJECT.json`; the ones without a
property say why.

What makes each component correct, in one line: activation shows readers one
complete tree at a time and never forgets a unit; the supervisor signals and
reaps only its own child and always returns; the cache never shows a partial or
changed entry and never loses one that a collection knew to be needed; what a target
activates was approved for it; a preparation installs everything or nothing; edits of the
plan are serialised and keep it valid; authoring changes all destinations or none, tells
the truth about it, and overwrites nothing it has not validated; outputs of a generator
belong together; truncated plaintext never becomes a secret.

## 2. Modules

| module | models |
|---|---|
| `Activation` | the activation transaction, one action per system call, with faults, kills and power loss |
| `SecretView` | the abstract promise of activation to readers and services |
| `ActivationHistory` | the activation with a history of what the lock holder found |
| `ActivationMC`, `ActivationAbortMC` | instances of `Activation` and of `ActivationHistory` |
| `ActivationProofs` | inductive invariant, safety, refinement of `SecretView` |
| `ChildSupervisor`, `ChildSupervisorProofs` | the supervised child, its threads, and proofs |
| `Cache` | the cache with rekey and `cache gc`, per system call |
| `CacheHistory` | the cache with a history of what a collection cannot have seen and a rekey can have lost |
| `CacheMC`, `CacheGcMC` | instances of `Cache` and of `CacheHistory` |
| `CacheProofs` | inductive invariants and safety of both |
| `Authoring`, `AuthoringMC`, `AuthoringProofs` | authoring, an instance and proofs |
| `Policy` | plans, merge, validation and projections, as operators |
| `PlanEdits`, `PlanEditsMC`, `PlanEditsProofs` | the commands that edit the TOML plan, an instance and proofs |
| `Manifest` | signatures, envelopes, verification, capabilities, as operators |
| `Selection` | candidates, selection, readiness, retention, as operators |
| `Preparation`, `PreparationMC`, `PreparationProofs` | artifacts from approval to activation across machines, an instance and proofs |
| `Repository` | the working copy shared by the commands and the transaction each ends in |
| `Generators`, `SecretCommands`, `Migration` | the commands, each extending the one before |
| `Commands`, `CommandsMC`, `CommandsProofs` | their composition, instances and proofs |
| `RecursionLemmas` | induction over an interval and existence of iterations, used by `PlanEditsProofs` and `CommandsProofs` |

`Manifest` is shared by `Selection` (artifacts) and `SecretCommands` (capabilities);
`Repository` is the part of `Authoring` that the commands can tell apart.

### Activation

`fs` is the runtime root (`names`, `tree`, `current`, `marker`), `snaps` the roots a
power loss may bring back, `links` the compatibility symlinks, `stale` the units of
the live plan that have not been acted on since the switch. An activator moves
through `pc[p]`: request, lock, stage each file (secrets before templates), compare
with the live tree, and then either finish an unchanged plan or choose a number,
install links, publish (rename), sync, write the marker, sync, switch (rename),
sync, run the units, clear the marker, sync, prune. Each failing step goes through
the undo code its error path has in the source (`rm_dest`, `undo_dest`, `undo_mark`,
`rm_links`). An unchanged plan with a pending marker runs its units again.

Data: a file stands for identifier, bytes, owner and mode; a plan for its hash. A
plan without service actions has `<<>>`, which is `None` in the code, because
`nix/modules/shared.nix:508-511` emits null when both lists are empty. Power loss
uses the prefix model of a journalling file system: what comes back is the root
after some prefix of the changes since the last fsync; symlinks outside the root
are never synced and may each be lost. `MaxGen` is `u64::MAX` in the code: reaching
it is an ordinary case of the runs.

### ChildSupervisor

Threads are callers, the observer and the owner. The observer boots, blocks in
`waitid` without reaping, takes the mutex, reaps, publishes, notifies. A caller
takes the mutex, tests the result and its deadline, sleeps, wakes (spuriously
too); cancelling checks under the mutex that the child is not reaped, signals the
group, then the child. `Steal` is other code in
the process taking the child's status, which the observer publishes as an error.

### Cache

`store[k]` is the set of members of an entry on disk and their version, `txns` the
transaction entries, `lock` the `.lock` holder. Writers take the lock; listing and
loading do not, and see transaction entries, half-removed bundles and bundles
replaced between the read of the ciphertext and of the manifest. A version is a
ciphertext with its signed manifest; encryption is randomised, so two rekeys of
one address make two versions. Rekey includes the lost race: the loser loads
and authenticates the winner's record. Garbage collection is both halves:
authentication of all records without the lock, sweep with it. Here
`artifact_is_active` is one predicate; `Selection` has its definition.

### Authoring

A request is a sequence of items (secret, public or private metadata, deletion of
metadata) with distinct destinations. Prepare validates and stages all of them;
single writes and deletions recheck and rename; a batch rechecks, then loops over
backups, then over commits, and on failure over the rollback from the last item
to the first. `FaultKinds` names the nine failures, the kill and the writes of other
programs. Those (`ForeignWrite`) happen up to the last recheck, not in the short window
after it: the code has no defence there and documents none. Metadata that did not exist
when it was validated is not rechecked by the code, nor by the model; `Undone` and
`NoSilentOverwrite` say so explicitly. An edit reads before it takes the lock; the
lost update that follows is listed as a hazard, not as a property, because no
document promises its absence.

### Policy and PlanEdits

A plan is a record of finite functions, one per collection. `Merge` and `Conflicts`
are the merge of the TOML and the Nix-emitted plan; `Validate` is the conjunction of
the checks of `validate`, Kahn's algorithm for groups and generators included; the
projections are `TargetSecrets`, `TargetSecretPolicy`, `SecretArtifactPolicy`,
`SecretRecipients`, `TargetApprovalPolicy`. The hash of a projection is the projection.
`TargetIsConsumer` and `SelectedConsumerTargets` are kept as the two separate pieces of
code they are, and `ProjectionsAgree` compares them. A command of `PlanEdits` locks,
loads and mutates, validates, renames, syncs. What it validates (`Accepted`) is the merge with the
Nix-emitted plan when the operator gave `--nix-plan`, and the TOML plan alone otherwise: every
edit comes in both kinds. Its other ends are `Refuse`, `Reject`,
`PersistFails` and `Kill`. `EditRefused` searches references exactly
where the code does: in the TOML plan, and not in selectors. `Members`, `Referenced` and
`WellFormed` define what a valid plan means without the algorithms.

### Manifest, Selection and Preparation

A signature is the pair of key material and message, with a wire identifier in one of
two forms. `EntriesVerify` finds each entry's trusted key by either form and refuses
an envelope with one bad, unknown or repeated entry. `Candidate` makes the checks
of `inspect_activation_artifacts`, `ArtifactIsActive` those of the collector, which
hashes the source on disk, does not compare versions and uses its own skew.
`Preparation` has an administrator's cache, one cache per target, and an exchange
carried by hand. A preparer makes a request, a worker checks the batch, works target
by target, and answers; the preparer verifies, stages, installs target by target, and
reports. `InvokeTimesOut` kills the client and leaves the worker, `AnswerIsLost` and
`AnswerDiffers` are the unreliable answers, `InstallFails` the import that stops half way.
`approvals` is a history of the signatures made. The scenes choose which commands meet and
what the caches hold at first: records with one key in both forms, with an untrusted
signer, with a claimed signer, expired, with foreign bytes, of another target.

### Repository, Generators, SecretCommands, Migration, Commands

Each process works through a list of commands. Every command ends in one transaction:
acquire the lock, validate the destinations, stage, back up, rename item by item, return.
The rollback and writers without the lock are `Authoring`'s subject; here a transaction
fails before its first rename or its process is killed between any two.
*Generators*: `CollectGeneratorOrder` is the depth-first order. The recursion of the code is an
iteration over its call stack here: `CollectStep` makes the innermost call's next call or lets it
return, and a generator has been visited when it is on the stack or in the order. Every generator is
called and returns at most once, which bounds the iteration. The refusal of an undeclared
generator is beside it in `AllDeclared`. `GraphAssumption` is what `validate_generator_graph`
(`nix-seal-policy/src/lib.rs:1199-1405`) has checked of every plan that a command gets. `GeneratorAction` is the decision
taken before the lock, then prompts, the program or the built-in, the combined commit, and
the remembered prompts. Whether a prompt is answered from the store or at the terminal is fixed once
per command (`Asked`), before its first generator runs. `ReadOrder` is the order in which output files are read.
*SecretCommands*: the authoring commands with their authorisation and mapping checks, the
bootstrap, `Issue`, `Redeem` (verification) and `RedeemReads` (the input, the commitment).
*Migration*: the batch migrations, which refuse a Clan tree with a layout they do not know
(`ClanLayout`), and the external decryptor as a process of its own: it
reads from a writer thread, may fork helpers, may close its output before it exits,
may fail or hang; the watchdog terminates it, the check after the last byte asks for its status
and that the writer finished. The writer finishes when all bytes are in the pipe (`Feed`), whatever the child has
read of them; it fails when nobody can read any more (`WriterBreaks`) or its own source does (`SourceFails`).

## 3. Runs

| run | instance | shows |
|---|---|---|
| `activation_faults` | 2 activators, 2 plans, 2 generations, explicit number 1, failures of staging, links, the sync after publication, the marker, the switch, units and the clearing of the marker, and kills | `LiveTreeUntouched`, `SuccessMeansInstalled`, `AbortRestores` (an aborted activation restores root, links and transaction directories), refinement of `SecretView` |
| `activation_power` | 1 activator, power loss and kill between any two system calls, and the remaining failures (publication, the sync of the marker, half-done removals) | `CurrentResolves`, `NoLostActions` |
| `activation_live` | 2 activators, failing units, switches and syncs, `FairSpec` | `EveryActivationReturns`, `PendingIsCleared`, `MarkerRetriable` |
| `cache_write` | 2 processes, 1 object, 1 artifact, 3 versions (one forged), open, put, import, rekey and collections, write and sync errors, kills, `HFairSpec` | `NoPartialEntry`, `TransactionsOwned` (recovery never deletes a live transaction), `PreflightHolds`, `RekeyReportsStored`, `GcRetainsKnown`, `EveryOperationReturns` |
| `cache_read` | 2 processes, 1 object, 1 artifact, all operations, all faults, interrupted removals among them | `ExportIsSnapshot`, `EntriesImmutable` |
| `child` | 2 callers, observer, owner, failed spawn of the observer, stolen status, `FairSpec` | `SignalsOwnChild`, `NoOrphan`, `NoLostWakeup` (with the result there and the mutex free, no caller is left asleep), `EveryWaitReturns`, `DropReturns` |
| `authoring` | 2 processes, 2 destinations, 6 requests (write, edit, delete, rotation of both, both generator batches), every fault, `FairSpec` | `OutcomeIsHonest`, `OriginalsKept`, `NoSilentOverwrite`, `WriterIsServed` |
| `plan_edits` | 2 commands of 16 (with and without `--nix-plan`), 217 TOML plans (all memberships of 2 groups; a secret reached by consumers, selectors or both) beside 2 Nix-emitted plans, kills and write errors | `EditsSerialized`, `CommitsAreWellFormed`, `EditsKeepAuthority`, `ProjectionsAgree` |
| `trust` | 2 targets, 2 secrets, 3 evaluations, 2 preparers, signers with thresholds 1 and 2, 7 scenes | `ActivatedIsApproved`, `AllOrNothing`, `GcKeepsSelectable` |
| `commands` | 2 operators, 5 plans, a key-pair generator and a dependent one, built-ins, 56 scenes of 1 to 7 commands, sources that fail, helpers, decryptors that leave input unread, `FairSpec` | `OutputsFromOneRun`, `DependenciesFirst`, `PromptsWereUsed`, `DelegatedCreateIsBound`, `RekeyedIsCurrent`, `MigratedIsWhole`, `EveryCommandReturns` |

Bounds and why they are enough: two processes make every pairwise race of code
that serialises on one lock; two plans give a change, a return and an unchanged
activation; two generations with `MaxGen = 2` reach exhaustion, the lower explicit
number and pruning in both directions; two units have one failing before and one after
the other; two items give a batch with a done, a current and an unreached item; two
verifying versions give republication with different bytes and a forged one the
refusal; two groups give nesting, a cycle and a name that is removed and added again; a
second target gives a preparation that is complete for one and not for the other;
three ticks give a clock before, inside and after every window. The scenes of `trust` and
`commands` bound which commands meet, not how they interleave. The proofs
remove these bounds for the properties they cover.

Deadlock is checked in every run but `commands`, `capability_replay` and
`generator_order`, whose operators have a finite list of commands and stop.

### Findings: runs that expect a violation

| run | what the counterexample shows |
|---|---|
| `capability_replay` | a capability is redeemed, the secret is deleted, and the same capability creates it again: no receipt is stored, although the threat model and ADR 0014 call it one-use and receipt storage mandatory |
| `generator_order` | a generator with eleven outputs: the numbered files are read in lexicographic order and paired with the declared outputs by position, so file `10` becomes the third secret |

### Known limits of the passing runs

These are places where a stronger property fails in the model as it does in the code.
Each can be reproduced by changing one cfg as told.

- *A kill between marker and switch* (`nix-seal-runtime/src/lib.rs:830`). `MarkerRetriable`
  fails when `"kill"` is added to the faults of `ActivationLive.cfg`: the marker names a generation
  that is not live, and every later activation returns PendingPostSwitch.
  `docs/runbooks.md:240` expects a retry to clear it.
- *A failed sync after the switch* (`:842`). `CurrentResolves` fails when `"switch_sync"` is
  added to `ActivationPower.cfg`: the error path removes the generation `current`
  already points at. `docs/runbooks.md:232` expects the previous one to stay active.
- *An interrupted removal* (`nix-seal-cache/src/lib.rs:990`). `NoPartialEntry` fails under the faults of
  `CacheRead.cfg`: a half-removed bundle keeps its digest name and nothing recovers it.
- *A collection racing a rekey* (`main.rs:6837`). `GcSparesActive` fails in place of `GcRetainsKnown`: an active
  artifact published after the unlocked pass is swept.
- *A backup file that cannot be created* (`nix-seal-authoring/src/lib.rs:1151`). `FailureRestores` of
  `Authoring` fails: the batch returns through `?` without rollback, and dropping the earlier
  backups deletes the only copies.
- *More skew at activation than at collection* (`nix/modules/shared.nix:688`, `main.rs:7074`). With
  `SpecSkew = 2` and `AdminLead = 2` in `Preparation.cfg`, `GcKeepsSelectable` fails: a record issued further
  ahead than the collector's 300 seconds is selectable and collected. The theorem has the hypothesis
  `SpecSkew <= ToolSkew`.
- *A plan edited without `--nix-plan`* (`main.rs:2014`). `MergeIsWellFormed` fails in place of
  `CommitsAreWellFormed` in `PlanEdits.cfg`: the option is optional, the TOML plan is then validated alone, and
  removing a TOML group or identity that only the Nix plan names is committed. The repository's `README.md:731-733` says that
  the resulting merged policy is validated. What the code does give is what `CommitsAreWellFormed` and `EditsKeepAuthority`
  say: the policy that the editor *was given* is well formed after a commit and keeps its authority.
- *Input left in the pipe* (`migration.rs:836`). `MigratedIsWhole` without its condition `ReadsAll` fails in
  `Commands.cfg`: a decryptor that reads a part of a small source and exits with status 0 leaves the rest in the pipe
  buffer, the writer has finished, both checks pass and the short output is committed. That a decryptor which reports success
  has read its input is thus an assumption about an external program; everything else that shortens its output is caught.
- *A surviving helper* (`migration.rs:722`). `EveryCommandReturns` excepts a helper that keeps the
  decryptor's output open after the decryptor was reaped: `terminate` then does nothing, and the
  reader waits with the repository lock held.
- *A partial output set* (`main.rs:3047`). The error recommends `--replace`, whose
  transaction refuses missing destinations; the remaining outputs have to be deleted.
- *The skew of capabilities* (`nix-seal-manifest/src/lib.rs:808`). It is allowed for `issued_at` only, and
  `not_before` equals `issued_at`, so a delegate whose clock is behind is refused.

Smaller hazards that no property covers, besides those `PROJECT.json` lists:

- a killed activation, or one whose publishing rename fails, leaves plaintext in a `.generation-*`
  directory that pruning never removes (`nix-seal-runtime/src/lib.rs:655`; `orphans` counts
  them, no document promises a cleanup);
- an unlocked reader of the cache fails while a writer's transaction entry is visible
  (`nix-seal-cache/src/lib.rs:880`; fail-closed and transient, `ListFails`);
- `generate --replace` leaves the generators that read the replaced outputs as they are
  (`main.rs:3006`), since the validation string does not change with the inputs;
- an explicit `--generation` that a lost administrator cache has used before gives other bytes at
  one address, and every import at the target conflicts from then on (`preparation.rs:586`);
- reuse of an existing artifact allows no clock skew (`nix-seal-rekey/src/lib.rs:336`);
- `with_extension` maps `id` and `id.pub` of one migrated tree to one destination
  (`migration.rs:1775`); the second is refused, not merged.

Each passing property has a mutant of the code in `PROJECT.json` (for example pruning
by number instead of by the live generation, a lock dropped between preflight and commit,
approvals counted by wire identifier, a plan validated without its other source, an answer
verified for the first target only, a watchdog that spares the child), defined in the
component's module just before the definition it replaces.

### Fairness

- Activation: the lock holder keeps running (weak fairness); a waiting activator
  is eventually served by flock (strong, since the lock is free only from time to
  time); operators retry the plan a marker names, which is what `docs/runbooks.md`
  tells them; a unit whose action is attempted again and again eventually succeeds. No
  fairness for new plans.
- Cache and authoring: a process keeps running and its input ends (weak); the
  lock is served (strong). Editors have no fairness in `Authoring`: they may stay open
  for ever, and other writers are served all the same.
- Child: threads that can run do; a mutex waiter is served; deadlines pass and end
  the sleep; a child that got SIGKILL exits. A child that was not killed may run for ever.
- Commands: processes and their threads are scheduled (weak), a generator meets its
  deadline, an editor and a prompt are answered. Weak fairness is enough for the lock since
  operators have finitely many commands. A decryptor and its helpers may do nothing: the
  watchdog has to end them.

Kills and power loss have no fairness anywhere.

## 4. Proofs

All theorems hold for any number of processes, plans, files, units, generations,
callers, keys, versions, destinations, items, groups, targets, secrets, records and
commands, under the assumptions the modules name: `ConstantAssumption`,
`SupervisorAssumption`, `CacheAssumption`, `AuthoringAssumption`, `PlanEditsAssumption`
(a plan is a record of finite maps, as its BTreeMaps are), `PreparationAssumption`,
`RepositoryAssumption`, `GeneratorAssumption`, `GraphAssumption`, `SecretAssumption` and
`MigrationAssumption`. TLC evaluates each of them on the instances of the runs.
Every safety property of a passing run is stated by a theorem.

**Activation** (`ActivationProofs`). `IndInv` joins, for each activator, what the
control state says about the lock (`ControlInv`), about the trees (`TreeInv`: what is
staged, published and live is exactly the plan's tree), about the marker and owed
units (`MarkerInv`), and for the disk `SnapInv`: whatever a power loss may
bring back is complete and, if it keeps `current`, keeps the marker units are owed
under. `CurrentResolves` alone is not inductive, since nothing in it says that the
generation about to be switched to is complete, or durable. From it:
`CurrentAlwaysResolves`, `ActionsNeverLost`, `LiveTreeNeverTouched`,
`SuccessIsInstalled`, `ActivationTypes` and `ActivationImplementsSecretView` (each
step maps to a switch, an action, a settle, a revert or a stutter). All assume
`"switch_sync" \notin Faults`: with that fault they are false, as told above.
`MarkersAreRetriable` has an invariant of its own, `RetryIndInv`: what the marker may be at
each step of the lock holder, so that every way out of the lock leaves none or one
that names the live generation. Its hypothesis excludes `"kill"`, `"power"` and
`"mark_sync"`, each of which falsifies it, and allows every other fault, `"switch_sync"`
among them.
`AbortAlwaysRestores` is about `ActivationHistory`. `AbortInv` accounts for each change to the root since the
lock was taken, label by label: which links were added, whether a generation was published or is
half removed, whether a marker was written, so that every undo step brings the root closer to
`before`. `NoGhosts` says that nothing is in a generation without a name, now or after a power
loss: otherwise a published and removed generation could differ from one that never was. Kills and power losses are allowed: they end an
activation without an error return. Its hypothesis excludes four faults, and TLC finds a counterexample for each
of them alone when it is added to `ActivationFaults.cfg`: a failed publishing rename leaves the transaction directory
(`"rename"`), a failed sync of the marker leaves the marker (`"mark_sync"`), one after the switch leaves
`current` switched (`"switch_sync"`), and a failed removal leaves the generation (`"remove"`).

**ChildSupervisor** (`ChildSupervisorProofs`). `IndInv` adds mutual exclusion
(`MutexInv`), what the phases of owner and observer imply (`LifeInv`) and that a
published result with no notification outstanding has no sleepers (`WakeInv`).
From it: `NeverSignalsRecycledPid`, `NoWakeupIsLost`, `NoChildOutlivesItsOwner`.

**Cache** (`CacheProofs`). `IndInv` is `StoreInv` (what is on disk under a digest name has
the members of its kind) and, per process, `ProcInv`: which labels hold the lock, which
transaction entries the process owns there, what it has staged in them, what its preflight
found and its export has copied. The lock discipline is what makes these stable under the
steps of others. From it:
`CacheTypes`, `TransactionsAreOwned`, `PreflightAlwaysHolds`, `ExportIsAlwaysSnapshot`, and the
action property `EntriesAreImmutable`. `NeverPartialEntry` adds
`PartialInv` (an incomplete bundle is one that somebody is removing right now) and the hypothesis `"remove" \notin Faults`,
without which it is false (section 3). `GcAlwaysRetainsKnown` and `RekeyAlwaysReportsStored` are
about `CacheHistory`: `ReadInv` and `KnownInv` say what the unlocked pass has read of each artifact
*relative to the history*: an active entry not published since the listing is either still to
be read or already retained, although the store may have changed in between.

**Authoring** (`AuthoringProofs`). `OriginalsKept` is not inductive: it does not say
*which* originals are in backups. `Split` does (the first `idx` items are in
their backups, the others at their destinations, and the rollback walks the same
boundary back), `FoundInv` says that a file that was found is one the mode asked for,
so `needs_backup` is true for it, and `ControlInv` that only the lock holder is inside.
Distinct destinations are what keeps the loop of one item from disturbing another.
From it: `OriginalsAlwaysKept`, `NothingIsSilentlyOverwritten`, `AuthoringTypes`,
for batches of every length. `OutcomeIsAlwaysHonest` needs a second layer, `HonestInv`: the staged
content differs from all that was found, backups hold only what was found, and each
round of a loop has done its own item and left the later ones alone; at the last round the
outcome is then told by the loop's bound.

**PlanEdits** (`PlanEditsProofs`). `IndInv` says that a command that has begun holds
the lock (`HolderInv`), that what it staged is its edit of the plan *still* on disk, and
that what it is about to rename was validated (`StagedInv`). From it: `EditsAreSerialized` and
`CommitsCompile` (sources that compile keep compiling, and a commit repairs those that did
not; its hypothesis is that every editor is given the Nix plan, without which it is false). The other three are about the algorithms of `Policy`, for plans of every size.
`VisitedIsClosure` shows that the worklist of the group expansion visits exactly the groups a chain of
memberships reaches, `PoppedIsAcyclic` that what Kahn's algorithm pops has no cycle; both are
inductions over the rounds of an iteration. The library's induction theorems take an operator
as parameter, which the provers cannot instantiate, so `RecursionLemmas` derives from well-foundedness
(`WFMin`, `NatLessThanWellFounded`) an induction whose property is a *set* of numbers, and the existence of the function
an iteration defines. From them: `ProjectionsAlwaysAgree`, `CommitsAreAlwaysWellFormed` and
`AuthorityIsAlwaysKept`, both over the policy the editor was given (`Given`), with or without the Nix plan. The argument is that a group no other declaration of a valid plan
names cannot be reached from any secret, so adding or removing it changes no expansion, and that
an identity edit changes the plan at that identity only.

**Preparation** (`PreparationProofs`). `ActivatedIsApproved` speaks of signatures made long
before by someone else, so the invariant follows them: `RecordInv` says that every
entry of every record, wherever it is (caches, exchange, answers), is among the signatures made.
`EnoughSigners` is the heart: an envelope that passes `EntriesVerify` defines an injection
from its entries to trusted keys, whatever forms they use, so its length bounds the number
of distinct approvers. `CompleteInv` carries the check of the staged answer to the installations
that follow. From it: `ActivatedIsAlwaysApproved`, `InstallIsAllOrNothing` and, with
`SpecSkew <= ToolSkew`, `GcAlwaysKeepsSelectable` (a candidate of activation is active for the collector,
so both caches have the same candidates and the same selection). Assumed are finite sets
of signers, natural thresholds and clocks, and envelopes whose entries are lists; nothing is
assumed of what the caches hold.

**Commands** (`CommandsProofs`). `IndInv` is `SharedInv` (the types of the working copy) and, per
process, `JobOK` and `Made`: only the lock holder is inside a transaction, and the items of a job are
those its command makes for a plan that was checked. Each property adds a layer:
- `DecryptorInv` follows decryptor, helpers, writer thread, reader and watchdog, and `WholeInv` adds that truncated
  output stays with a job whose last check cannot pass (`MigratedIsAlwaysWhole`). The condition `ReadsAll` of the
  property enters at one place: a child that exits with status 0 has then read all that was written;
- `CopyInv`: what is staged under the lock is what the source holds (`RekeyedIsAlwaysCurrent`);
- `AnswerInv`: an answer about to be remembered is in an output already committed
  (`PromptsWereAlwaysUsed`);
- `GrantInv`: what a redemption holds was signed for by an authorizer of the plan
  from its verification to its commit (`DelegatedCreateIsAlwaysBound`);
- `BatchInv`, `BesideInv`, `OutsideInv`, `OneRunInv`: the files a validation state vouches for are of one
  run, and nothing else writes them while a batch has replaced some of them
  (`OutputsAlwaysFromOneRun`). Its hypothesis `ReadsBeside` says that no migration reads a generator's own
  files: a migration with an output as its source could copy an old one over a new one. The code's state
  files record output identifiers where the model has paths, and there is one state path per
  generator: a plan that moves an output to another path under the same identifier is
  outside of the model.

- `CollectedInOrder`, `ReadyInv`, `FreshInv`, `InputsInv`: a generator works from what its dependencies have
  made (`DependenciesAlwaysFirst`). The order is shown by an induction over the iteration, with
  `RecursionLemmas`: every call is for a dependency of its caller (`Nested`), so by acyclicity a dependency that was visited
  and is not in the order cannot be on the stack of its own dependent (`AllReturned`), and a generator that returns comes after all
  that it depends on (`InOrder`). Outputs get the number of the transaction that stages them
  (`ReadyInv`), so no generated value at a path is older than what the command committed there (`FreshInv`),
  a rekey by somebody else included, since it keeps the body. What a generator reads is declared,
  and what it commits is none of its own inputs (`InputsInv`, by `GraphAssumption`). The hypothesis is `ReadsBeside` again.
  The property compares generated values only: a value that an operator writes by hand at an output's path is
  the operator's choice.

Only model-checked: the liveness properties (fairness and `ENABLED` are outside of the prover's
reach).

## 5. Not modelled

Cryptography (bytes in, bytes out; assumed ideal), core types (schemas and grammars without
state), mounting of the runtime storage (system calls whose meaning is the host's), the Nix
modules (their result is an input here), and CI. Of the policy: the text grammar of paths,
modes and recipients and the read-only lifecycle report. Of migration: the read-only inventory
of sops documents and the normalisation of migrated identifiers. Of template
rendering: the streaming encoders. In the modelled parts, path resolution and permission
checks, lock files as files, wording of errors and limits on sizes are abstracted; an
exceeded limit is one of the failures of its step.

## 6. Plan

1. Done: activation with its abstract specification, child supervision, cache with
   rekey and collection, authoring; policy and plan edits; manifests, selection and
   preparation; generators, secret commands, delegated creation and migration.
2. Done: proofs for activation, the supervisor, cache with rekey and collection, authoring,
   plan edits with the policy algorithms, preparation, and the commands.
3. Done: `AbortRestores` and `DependenciesFirst`; with them every safety property of a passing run
   is proved. Open: `Repository` as a refinement by `Authoring` of what the commands rely on.
