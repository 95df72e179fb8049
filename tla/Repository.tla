----------------------------- MODULE Repository -----------------------------
(***************************************************************************)
(* The working copy that the commands of the CLI share: its files, the     *)
(* repository lock, and the transaction every command ends in              *)
(* (crates/nix-seal-authoring, as crates/nix-seal-cli calls it).           *)
(*                                                                         *)
(* Each process works through a list of commands, as an operator at a      *)
(* shell does.  A command prepares outside the lock, takes the lock,       *)
(* stages, and renames its outputs into place one by one; readers do not   *)
(* take the lock and see every intermediate state.  Authoring models the   *)
(* rollback of a transaction; here one fails before its first rename, or   *)
(* its process is killed between any two.                                  *)
(***************************************************************************)
EXTENDS Naturals, Sequences, FiniteSets, SequencesExt

CONSTANTS
  Procs,      \* operators' shells
  Paths,      \* repository paths, as sequences of <<stem, extension>>
  Generators, \* generator IDs
  Plans,      \* the plans commands are run with
  Scenes,     \* the commands in use together, the files there at first, the
              \* faults met and the bound on the clock
  NoProc, NoFile, NoAnswer, NoCommand

\* What a file is: who made its body, what it is and in which transaction, and
\* who can decrypt it.
IsFile(f) ==
  DOMAIN f = {"body", "to"} /\ DOMAIN f.body = {"by", "part", "n"} /\ f.body.n \in Nat

AllCommands == UNION {Range(s.todo[p]) : s \in Scenes, p \in Procs}

ASSUME RepositoryAssumption ==
  /\ NoProc \notin Procs
  /\ IsFiniteSet(Paths)
  /\ \A s \in Scenes :
       /\ DOMAIN s.files = Paths
       /\ \A d \in Paths : s.files[d] # NoFile => IsFile(s.files[d])
       /\ s.todo \in [Procs -> Seq(AllCommands)]

VARIABLES
  scene,      \* the scene played; it never changes
  files,      \* files[d]: the file at path d, its body and who can decrypt it
  prompts,    \* the remembered response of each generator's persistent prompt
  caps,       \* the delegated capabilities handed out
  clock,
  lock,       \* the holder of .nix-seal.lock
  todo,       \* todo[p]: the commands p has still to run
  pc,         \* pc[p]: where its current command is
  job,        \* job[p]: what that command knows
  runs,       \* how many transactions have staged; it tells bodies apart
  history     \* history: what committed transactions used

vars == <<scene, files, prompts, caps, clock, lock, todo, pc, job, runs, history>>
\* What only the step that says so changes.
world == <<scene, prompts, caps, clock>>

NoJob ==
  [cmd |-> NoCommand, mode |-> "create", items |-> <<>>, at |-> 0, note |-> <<>>,
   order |-> <<>>, next |-> 0, asks |-> {}, answer |-> NoAnswer, inputs |-> {}, made |-> {},
   to |-> {}, child |-> "none", writer |-> "none", watchdog |-> FALSE, helper |-> FALSE,
   whole |-> FALSE]

Init ==
  /\ scene \in Scenes
  /\ files = scene.files
  /\ prompts = [g \in Generators |-> NoAnswer]
  /\ caps = {}
  /\ clock = 0
  /\ lock = NoProc
  /\ todo = scene.todo
  /\ pc = [p \in Procs |-> "idle"]
  /\ job = [p \in Procs |-> NoJob]
  /\ runs = 0
  /\ history = <<>>

Fails(kind) == kind \in scene.faults
Cmd(p) == job[p].cmd
Exists(d) == files[d] # NoFile
Goto(p, label) == pc' = [pc EXCEPT ![p] = label]
Update(p, j) == job' = [job EXCEPT ![p] = j]

\* The next command on p's list.
Upcoming(p, op) == pc[p] = "idle" /\ todo[p] # <<>> /\ Head(todo[p]).op = op
Start(p) == todo' = [todo EXCEPT ![p] = Tail(@)]

\* A command is checked before it does anything; one that is refused ends there.
Launch(p, accepted, j, label) ==
  /\ Start(p)
  /\ IF accepted
     THEN Update(p, j) /\ Goto(p, label) /\ UNCHANGED lock
     ELSE UNCHANGED <<pc, job, lock>>

\* The command is over: whatever it staged is dropped with it.
Return(p) ==
  /\ Goto(p, "idle")
  /\ Update(p, NoJob)
  /\ lock' = IF lock = p THEN NoProc ELSE lock

-----------------------------------------------------------------------------
(* Transactions *)

Item(d, kind, file) == [path |-> d, kind |-> kind, file |-> file, from |-> d]

\* An output that will be made from what is at s when the lock is held.
ItemFrom(s, d) == [Item(d, "output", NoFile) EXCEPT !.from = s]

\* A single write renames over its destination; a batch moves what it replaces
\* to backups first.
IsBatch(cmd) == cmd.op \in {"generate", "batch", "tree", "plain"}

\* Mutant of Acquire: the lock is advisory and not waited for.
AcquireUnguarded(p) ==
  /\ pc[p] = "lock"
  /\ lock' = p
  /\ Goto(p, "stage")
  /\ UNCHANGED <<world, files, todo, job, runs, history>>

\* acquire_repository_lock
Acquire(p) ==
  /\ pc[p] = "lock"
  /\ lock = NoProc
  /\ lock' = p
  /\ Goto(p, "stage")
  /\ UNCHANGED <<world, files, todo, job, runs, history>>

\* validate_destination and validate_private_destination
ValidDestination(item, mode) ==
  item.kind = "output" => (Exists(item.path) <=> mode = "replace")

DistinctDestinations(items) ==
  \A i, k \in DOMAIN items : items[i].path = items[k].path => i = k

Stageable(p, items) ==
  /\ DistinctDestinations(items)
  /\ \A i \in DOMAIN items : ValidDestination(items[i], job[p].mode)

\* Every output is encrypted, verified and synced in a temporary file.
StageItems(p, items) ==
  /\ runs' = runs + 1
  /\ Update(p, [job[p] EXCEPT !.items = items, !.at = 1])
  /\ Goto(p, IF IsBatch(Cmd(p)) THEN "backup" ELSE "commit")
  /\ UNCHANGED <<world, files, lock, todo, history>>

\* A body is numbered when it is staged: no two transactions share a number.
Numbered(item) ==
  IF item.file = NoFile THEN item ELSE [item EXCEPT !.file.body.n = runs + 1]

\* Commands whose plaintext is in memory before they take the lock.
InMemory == {"generate", "write", "edit", "batch", "redeem", "bootstrap", "delete"}

Stage(p) ==
  /\ pc[p] = "stage" /\ Cmd(p).op \in InMemory
  /\ Stageable(p, job[p].items)
  /\ StageItems(p, [i \in DOMAIN job[p].items |-> Numbered(job[p].items[i])])

StageFails(p) ==
  /\ pc[p] = "stage" /\ Cmd(p).op \in InMemory
  /\ ~Stageable(p, job[p].items) \/ Fails("stage")
  /\ Return(p)
  /\ UNCHANGED <<world, files, todo, runs, history>>

\* Commands that re-encrypt or copy files of the repository.
Copying == {"rekey", "ciphertext", "tree", "plain"}

Sources(p) == {job[p].items[i].from : i \in DOMAIN job[p].items}
Destinations(p) == {job[p].items[i].path : i \in DOMAIN job[p].items}

\* Every source is there and readable, the new recipients include the identity
\* that verifies the result, and a batch stays beside what it reads.
Copyable(p) ==
  /\ Stageable(p, job[p].items)
  /\ \A s \in Sources(p) :
       Exists(s) /\ (Cmd(p).op # "plain" => Cmd(p).key \in files[s].to)
  /\ Cmd(p).verify # NoAnswer => Cmd(p).verify \in job[p].to
  /\ IsBatch(Cmd(p)) =>
       /\ Cardinality(Sources(p)) = Len(job[p].items)
       /\ Sources(p) \cap Destinations(p) = {}

\* The body is the one the source has now; only its recipients change.
Copied(item, to) == [item EXCEPT !.file = [files[item.from] EXCEPT !.to = to]]

StageCopies(p) ==
  /\ pc[p] = "stage" /\ Cmd(p).op \in Copying
  /\ Copyable(p)
  /\ StageItems(p, [i \in DOMAIN job[p].items |-> Copied(job[p].items[i], job[p].to)])

StageCopiesFails(p) ==
  /\ pc[p] = "stage" /\ Cmd(p).op \in Copying
  /\ ~Copyable(p) \/ Fails("stage")
  /\ Return(p)
  /\ UNCHANGED <<world, files, todo, runs, history>>

\* needs_backup
NeedsBackup(item, mode) == Exists(item.path) /\ (item.kind = "output" => mode = "replace")

NextItem(p, last) ==
  IF job[p].at < Len(job[p].items)
  THEN Update(p, [job[p] EXCEPT !.at = @ + 1]) /\ UNCHANGED pc
  ELSE Update(p, [job[p] EXCEPT !.at = 1]) /\ Goto(p, last)

\* Mutant of Backup: a file is moved away only when its successor is renamed.
NoBackup(p) ==
  /\ pc[p] = "backup"
  /\ NextItem(p, "commit")
  /\ UNCHANGED <<world, files, lock, todo, runs, history>>

Backup(p) ==
  LET item == job[p].items[job[p].at]
  IN /\ pc[p] = "backup"
     /\ files' = IF NeedsBackup(item, job[p].mode)
                 THEN [files EXCEPT ![item.path] = NoFile] ELSE files
     /\ NextItem(p, "commit")
     /\ UNCHANGED <<world, lock, todo, runs, history>>

\* One output is renamed into place; a deleted file was moved away before.
Commit(p) ==
  LET item == job[p].items[job[p].at]
  IN /\ pc[p] = "commit"
     /\ job[p].at < Len(job[p].items)
     /\ files' = [files EXCEPT ![item.path] = item.file]
     /\ Update(p, [job[p] EXCEPT !.at = @ + 1])
     /\ UNCHANGED <<world, lock, todo, pc, runs, history>>

\* The last output; the directories are synced and the lock is dropped.
CommitLast(p) ==
  LET item == job[p].items[job[p].at]
  IN /\ pc[p] = "commit"
     /\ job[p].at = Len(job[p].items)
     /\ files' = [files EXCEPT ![item.path] = item.file]
     /\ history' = IF job[p].note = <<>> THEN history ELSE Append(history, job[p].note)
     /\ IF Cmd(p).op = "generate"
        THEN /\ Update(p, [job[p] EXCEPT !.at = 0,
                  !.made = @ \cup {<<i.path, i.file.body.n>> :
                     i \in {k \in Range(job[p].items) : k.kind = "output"}}])
             /\ Goto(p, "persist")
             /\ lock' = NoProc
        ELSE Return(p)
     /\ UNCHANGED <<world, todo, runs>>

\* The process dies; the lock is released with its descriptor.
Killed(p) ==
  /\ Fails("kill")
  /\ pc[p] # "idle"
  /\ Return(p)
  /\ UNCHANGED <<world, files, todo, runs, history>>

RepositoryNext(p) ==
  \/ Acquire(p) \/ Stage(p) \/ StageFails(p) \/ StageCopies(p) \/ StageCopiesFails(p)
  \/ Backup(p) \/ Commit(p) \/ CommitLast(p)

Tick ==
  /\ clock < scene.maxClock
  /\ clock' = clock + 1
  /\ UNCHANGED <<scene, files, prompts, caps, lock, todo, pc, job, runs, history>>
-----------------------------------------------------------------------------
(* Property *)

\* From the moment a rekey or a migration has read its source until it returns,
\* what it publishes is what the source holds: no value that another command
\* committed meanwhile is undone, and no migration overwrites what it reads.
\* (rekey_secret_inner, rekey_secret_batch_inner, write_secret_file_batch,
\* write_public_file_batch)
RekeyedIsCurrent ==
  \A p \in Procs :
    pc[p] \in {"backup", "commit"} /\ Cmd(p).op \in Copying =>
      \A i \in DOMAIN job[p].items :
        /\ Exists(job[p].items[i].from)
        /\ files[job[p].items[i].from].body = job[p].items[i].file.body
=============================================================================
