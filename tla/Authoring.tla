------------------------------ MODULE Authoring ------------------------------
(***************************************************************************)
(* Canonical ciphertext authoring (crates/nix-seal-authoring/src/lib.rs).  *)
(*                                                                         *)
(* A request is a single write (write_secret_checked, rekey_secret_inner,  *)
(* write_secret_create_delegated), an edit, a deletion, or a batch         *)
(* (write_secret_batch, rekey_secret_batch_inner, write_secret_file_batch, *)
(* write_public_file_batch, write_secret_public_private_batch).  A batch   *)
(* stages every output, moves the files it replaces or deletes to backups, *)
(* renames the outputs into place, and undoes both when a step fails.      *)
(* Everything but the decryption and the editor of an edit runs under the  *)
(* repository lock; other programs (git, an editor) do not know the lock.  *)
(***************************************************************************)
EXTENDS Naturals, Sequences

CONSTANTS
  Procs,      \* processes that share the repository
  Paths,      \* canonical destinations
  Values,     \* files: each encryption makes one that differs from all others;
              \* the bound is that one is left when an output is staged
  Old,        \* what a destination may hold at first
  Foreign,    \* a file that another program writes
  Requests,   \* the requests processes make: [op, mode, items]
  Faults,     \* the faults the environment may inject
  NoProc, NoFile, NoRequest

FaultKinds ==
  {"stage",       \* an output cannot be staged, encrypted or verified
   "editor",      \* the editor fails or its result is refused
   "backup_file", \* the temporary file for a backup cannot be created
   "backup",      \* a file cannot be renamed to its backup
   "publish",     \* set_public_file on a staged public output
   "commit",      \* an output cannot be renamed into place
   "remove",      \* rollback: an output cannot be removed again
   "restore",     \* rollback: a backup cannot be renamed back
   "sync",        \* the fsync of a directory after the change
   "foreign",     \* another program replaces a file during staging
   "kill"}        \* the process dies

Kinds == {"secret", "public", "private", "delete"}
Items == [path : Paths, kind : Kinds]
Files == Values \cup {Foreign}

ASSUME AuthoringAssumption ==
  /\ Old \in Values /\ Foreign \notin Values /\ NoFile \notin Files
  /\ NoProc \notin Procs
  /\ Requests \subseteq [op : {"write", "edit", "delete", "batch"},
                         mode : {"create", "replace"}, items : Seq(Items)]
  /\ NoRequest \notin Requests
  /\ \A r \in Requests :
       /\ Len(r.items) > 0
       /\ r.op # "batch" => Len(r.items) = 1 /\ r.items[1].kind = "secret"
       /\ r.op \in {"edit", "delete"} => r.mode = "replace"
       /\ \A i, j \in 1..Len(r.items) : i # j => r.items[i].path # r.items[j].path
  /\ Faults \subseteq FaultKinds

VARIABLES
  repo,        \* repo[d]: the file at destination d
  quarantine,  \* the file kept beside the newest tombstone
  lock,        \* holder of .nix-seal.lock
  req,         \* req[p]: the request p works on
  pc,          \* pc[p]: its next step
  idx,         \* idx[p]: how many items its current loop has done or has left
  val,         \* val[p]: the file it has staged for each output
  prev,        \* prev[p][d]: the file validate_destination found
  held,        \* held[p][d]: the file its backup of d holds
  done,        \* done[p]: the destinations it has committed
  whole,       \* whole[p]: its rollback has met no failure
  result       \* how the last request returned, until the next one is made

local == <<req, val, prev, held, done, whole>>
vars == <<repo, quarantine, lock, req, pc, idx, val, prev, held, done, whole, result>>

Labels == {"idle", "read", "edit", "lock", "prepare", "persist", "move", "check",
           "backup", "commit", "restore", "unpublish", "sync"}
Results == {"none", "ok", "refused", "io", "rolled_back", "recovery_unknown",
            "durability_unknown", "killed"}

Nothing == [d \in Paths |-> NoFile]
Fails(kind) == kind \in Faults
Goto(p, label) == pc' = [pc EXCEPT ![p] = label]
Outputs(p) == req[p].items
Count(p) == Len(Outputs(p))
Dests(p) == {Outputs(p)[i].path : i \in 1..Count(p)}
\* The item the current loop is at.
Item(p) == Outputs(p)[idx[p] + 1]

Init ==
  /\ repo \in [Paths -> {Old, NoFile}]
  /\ quarantine = NoFile
  /\ lock = NoProc
  /\ req = [p \in Procs |-> NoRequest]
  /\ pc = [p \in Procs |-> "idle"]
  /\ idx = [p \in Procs |-> 0]
  /\ val = [p \in Procs |-> NoFile]
  /\ prev = [p \in Procs |-> Nothing]
  /\ held = [p \in Procs |-> Nothing]
  /\ done = [p \in Procs |-> {}]
  /\ whole = [p \in Procs |-> TRUE]
  /\ result = "none"

-----------------------------------------------------------------------------
(* Requests, the lock and returns                                          *)

\* The guard is dropped with everything the call owns: its staged files, and
\* the backups it still holds, which TempPath deletes.
Return(p, how) ==
  /\ lock' = IF lock = p THEN NoProc ELSE lock
  /\ Goto(p, "idle")
  /\ req' = [req EXCEPT ![p] = NoRequest]
  /\ idx' = [idx EXCEPT ![p] = 0]
  /\ val' = [val EXCEPT ![p] = NoFile]
  /\ prev' = [prev EXCEPT ![p] = Nothing]
  /\ held' = [held EXCEPT ![p] = Nothing]
  /\ done' = [done EXCEPT ![p] = {}]
  /\ whole' = [whole EXCEPT ![p] = TRUE]
  /\ result' = how

Call(p, r) ==
  /\ pc[p] = "idle"
  /\ req' = [req EXCEPT ![p] = r]
  /\ Goto(p, IF r.op = "edit" THEN "read" ELSE "lock")
  /\ result' = "none"
  /\ UNCHANGED <<repo, quarantine, lock, idx, val, prev, held, done, whole>>

\* acquire_repository_lock
Lock(p) ==
  /\ pc[p] = "lock"
  /\ lock = NoProc
  /\ lock' = p
  /\ Goto(p, "prepare")
  /\ UNCHANGED <<repo, quarantine, idx, local, result>>

-----------------------------------------------------------------------------
(* Edit: before write_secret takes the lock                                *)

\* Mutant of BeforeEditor: the lock is taken before the editor starts.
LockForEditor(p) == lock = NoProc /\ lock' = p
BeforeEditor(p) == UNCHANGED lock

\* The destination is validated and decrypted into the private workspace.
EditRead(p) ==
  /\ pc[p] = "read"
  /\ \/ /\ repo[Item(p).path] # NoFile
        /\ BeforeEditor(p)
        /\ Goto(p, "edit")
        /\ UNCHANGED <<idx, local, result>>
     \/ /\ repo[Item(p).path] = NoFile
        /\ Return(p, "refused")
  /\ UNCHANGED <<repo, quarantine>>

\* The editor exits, in its own time.
EditorExits(p) ==
  /\ pc[p] = "edit"
  /\ \/ Goto(p, "lock") /\ UNCHANGED <<lock, idx, local, result>>
     \/ Fails("editor") /\ Return(p, "refused")
  /\ UNCHANGED <<repo, quarantine>>

-----------------------------------------------------------------------------
(* Staging                                                                 *)

\* validate_destination, validate_private_destination
Valid(p, item) ==
  item.kind \in {"secret", "public"} =>
    (repo[item.path] = NoFile <=> req[p].mode = "create")

AfterPrepare == [write |-> "persist", edit |-> "persist", delete |-> "move", batch |-> "check"]

\* A file that is on disk nowhere else; which one is immaterial.
IsFresh(v) == \A d \in Paths : v # repo[d] /\ \A q \in Procs : v # held[q][d]
Fresh == CHOOSE v \in Values : IsFresh(v)

\* Every destination is validated, every output staged, encrypted, synced and
\* verified in a temporary file; the destinations are as they were.
Prepare(p) ==
  /\ pc[p] = "prepare"
  /\ \A i \in 1..Count(p) : Valid(p, Outputs(p)[i])
  /\ prev' = [prev EXCEPT ![p] = [d \in Paths |-> IF d \in Dests(p) THEN repo[d] ELSE NoFile]]
  /\ \E v \in Values : IsFresh(v)
  /\ val' = [val EXCEPT ![p] = Fresh]
  /\ Goto(p, AfterPrepare[req[p].op])
  /\ UNCHANGED <<repo, quarantine, lock, req, idx, held, done, whole, result>>

PrepareFails(p) ==
  /\ pc[p] = "prepare"
  /\ \/ (\E i \in 1..Count(p) : ~Valid(p, Outputs(p)[i])) /\ Return(p, "refused")
     \/ Fails("stage") /\ Return(p, "io")
  /\ UNCHANGED <<repo, quarantine>>

\* Mutant of Unchanged: the destination is not looked at again.
NotRechecked(p, item) == TRUE
\* ensure_unchanged, or that a path to be created is still free; metadata that
\* did not exist is not looked at again.
Unchanged(p, item) ==
  \/ repo[item.path] = prev[p][item.path]
  \/ item.kind \in {"private", "delete"} /\ prev[p][item.path] = NoFile

-----------------------------------------------------------------------------
(* A single write, and a deletion                                          *)

\* The destination is unchanged, respectively still free: the staged file is
\* renamed over it.
Persist(p) ==
  /\ pc[p] = "persist"
  /\ Unchanged(p, Item(p))
  /\ repo' = [repo EXCEPT ![Item(p).path] = val[p]]
  /\ Goto(p, "sync")
  /\ UNCHANGED <<quarantine, lock, idx, local, result>>

\* The ciphertext is renamed into its tombstone directory, which is then kept.
Move(p) ==
  /\ pc[p] = "move"
  /\ Unchanged(p, Item(p))
  /\ quarantine' = repo[Item(p).path]
  /\ repo' = [repo EXCEPT ![Item(p).path] = NoFile]
  /\ Goto(p, "sync")
  /\ UNCHANGED <<lock, idx, local, result>>

SingleFails(p) ==
  /\ pc[p] \in {"persist", "move"}
  /\ \/ ~Unchanged(p, Item(p)) /\ Return(p, IF req[p].mode = "create" THEN "io" ELSE "refused")
     \/ Fails("commit") /\ Return(p, "io")
  /\ UNCHANGED <<repo, quarantine>>

-----------------------------------------------------------------------------
(* A batch                                                                 *)

Check(p) ==
  /\ pc[p] = "check"
  /\ \A i \in 1..Count(p) : Unchanged(p, Outputs(p)[i])
  /\ Goto(p, "backup")
  /\ UNCHANGED <<repo, quarantine, lock, idx, local, result>>

CheckFails(p) ==
  /\ pc[p] = "check"
  /\ \E i \in 1..Count(p) : ~Unchanged(p, Outputs(p)[i])
  /\ Return(p, "refused")
  /\ UNCHANGED <<repo, quarantine>>

\* Mutant of NeedsBackup: metadata files are replaced without a backup.
SecretsOnly(p, item) == item.kind \in {"secret", "public"} /\ req[p].mode = "replace"
\* needs_backup
NeedsBackup(p, item) ==
  IF item.kind \in {"secret", "public"}
  THEN req[p].mode = "replace"
  ELSE prev[p][item.path] # NoFile

\* One round of the backup loop.
Backup(p) ==
  /\ pc[p] = "backup"
  /\ idx[p] < Count(p)
  /\ IF NeedsBackup(p, Item(p))
     THEN /\ repo' = [repo EXCEPT ![Item(p).path] = NoFile]
          /\ held' = [held EXCEPT ![p][Item(p).path] = repo[Item(p).path]]
     ELSE UNCHANGED <<repo, held>>
  /\ idx' = [idx EXCEPT ![p] = @ + 1]
  /\ UNCHANGED <<quarantine, lock, req, pc, val, prev, done, whole, result>>

\* NamedTempFile::new_in or set_private fails: `?' returns without a rollback.
BackupFileFails(p) ==
  /\ pc[p] = "backup"
  /\ idx[p] < Count(p) /\ NeedsBackup(p, Item(p)) /\ Fails("backup_file")
  /\ Return(p, "io")
  /\ UNCHANGED <<repo, quarantine>>

\* Mutants of BackedUpItems: the rollback starts before the item that failed, or
\* behind the last one.
BackedUpBefore(p) == idx[p]
BackedUpBeyond(p) == IF pc[p] = "backup" THEN idx[p] ELSE Count(p) + 1
\* How many items have an entry in `backups'.
BackedUpItems(p) == IF pc[p] = "backup" THEN idx[p] ELSE Count(p)

Rollback(p, label) ==
  /\ Goto(p, label)
  /\ idx' = [idx EXCEPT ![p] = BackedUpItems(p)]
  /\ UNCHANGED <<repo, quarantine, lock, local, result>>

BackupFails(p) ==
  /\ pc[p] = "backup"
  /\ idx[p] < Count(p) /\ NeedsBackup(p, Item(p)) /\ Fails("backup")
  /\ Rollback(p, "restore")

BackedUp(p) ==
  /\ pc[p] = "backup"
  /\ idx[p] = Count(p)
  /\ Goto(p, "commit")
  /\ idx' = [idx EXCEPT ![p] = 0]
  /\ UNCHANGED <<repo, quarantine, lock, local, result>>

\* One round of the commit loop; a deletion has already been moved away.
Commit(p) ==
  /\ pc[p] = "commit"
  /\ idx[p] < Count(p)
  /\ IF Item(p).kind = "delete"
     THEN UNCHANGED <<repo, done>>
     ELSE /\ repo' = [repo EXCEPT ![Item(p).path] = val[p]]
          /\ done' = [done EXCEPT ![p] = @ \cup {Item(p).path}]
  /\ idx' = [idx EXCEPT ![p] = @ + 1]
  /\ UNCHANGED <<quarantine, lock, req, pc, val, prev, held, whole, result>>

CommitFails(p) ==
  /\ pc[p] = "commit"
  /\ idx[p] < Count(p)
  /\ \/ Item(p).kind # "delete" /\ Fails("commit") /\ Rollback(p, "restore")
     \/ Item(p).kind = "public" /\ Fails("publish") /\ Rollback(p, "unpublish")

\* The backups are dropped.
Committed(p) ==
  /\ pc[p] = "commit"
  /\ idx[p] = Count(p)
  /\ held' = [held EXCEPT ![p] = Nothing]
  /\ Goto(p, "sync")
  /\ UNCHANGED <<repo, quarantine, lock, req, idx, val, prev, done, whole, result>>

\* One round of restore_batch or restore_combined, from the last item to the
\* first.  A backup that cannot be renamed back has left the vector already and
\* is deleted when its TempPath is dropped.
Restore(p) ==
  /\ pc[p] \in {"restore", "unpublish"}
  /\ idx[p] > 0
  /\ LET d == Outputs(p)[idx[p]].path IN
     \E removed, renamed \in BOOLEAN :
       /\ ~removed => d \in done[p] /\ Fails("remove")
       /\ ~renamed => held[p][d] # NoFile /\ Fails("restore")
       /\ repo' = [repo EXCEPT ![d] =
            IF held[p][d] # NoFile /\ renamed THEN held[p][d]
            ELSE IF d \in done[p] /\ removed THEN NoFile ELSE @]
       /\ held' = [held EXCEPT ![p][d] = NoFile]
       /\ whole' = [whole EXCEPT ![p] = @ /\ removed /\ renamed]
  /\ idx' = [idx EXCEPT ![p] = @ - 1]
  /\ UNCHANGED <<quarantine, lock, req, pc, val, prev, done, result>>

\* A rollback that failed is reported, by the error of set_public_file if that
\* is what started it.
Restored(p) ==
  /\ pc[p] \in {"restore", "unpublish"}
  /\ idx[p] = 0
  /\ Return(p, IF whole[p] THEN "rolled_back"
               ELSE IF pc[p] = "unpublish" THEN "io" ELSE "recovery_unknown")
  /\ UNCHANGED <<repo, quarantine>>

-----------------------------------------------------------------------------
\* The directories are synced.
Sync(p) ==
  /\ pc[p] = "sync"
  /\ \/ Return(p, "ok")
     \/ Fails("sync") /\ Return(p, "durability_unknown")
  /\ UNCHANGED <<repo, quarantine>>

\* The process dies; its temporary files stay behind under random names.
Kill(p) ==
  /\ pc[p] # "idle"
  /\ Fails("kill")
  /\ Return(p, "killed")
  /\ UNCHANGED <<repo, quarantine>>

\* Another program writes a destination, but not in the short time between the
\* last look at it and the end of the transaction.
ForeignWrite(d) ==
  /\ Fails("foreign")
  /\ repo[d] # Foreign
  /\ \A p \in Procs :
       pc[p] \in {"backup", "commit", "restore", "unpublish", "sync"} => d \notin Dests(p)
  /\ repo' = [repo EXCEPT ![d] = Foreign]
  /\ UNCHANGED <<quarantine, lock, pc, idx, local, result>>

-----------------------------------------------------------------------------
\* The steps a process takes on its own once it has made a request.
Step(p) ==
  \/ EditRead(p)
  \/ Prepare(p) \/ PrepareFails(p) \/ Persist(p) \/ Move(p) \/ SingleFails(p)
  \/ Check(p) \/ CheckFails(p)
  \/ Backup(p) \/ BackupFileFails(p) \/ BackupFails(p) \/ BackedUp(p)
  \/ Commit(p) \/ CommitFails(p) \/ Committed(p)
  \/ Restore(p) \/ Restored(p) \/ Sync(p)

Next ==
  \/ \E p \in Procs :
       \/ \E r \in Requests : Call(p, r)
       \/ Lock(p) \/ EditorExits(p) \/ Step(p) \/ Kill(p)
  \/ \E d \in Paths : ForeignWrite(d)

Spec == Init /\ [][Next]_vars

\* A process keeps running, its input ends, and a process that waits for the
\* lock is eventually served; an editor may stay open forever.
FairSpec == Spec /\ \A p \in Procs : WF_vars(Step(p)) /\ SF_vars(Lock(p))

-----------------------------------------------------------------------------
(* Properties                                                              *)

TypeOK ==
  /\ repo \in [Paths -> Files \cup {NoFile}]
  /\ quarantine \in Files \cup {NoFile}
  /\ lock \in Procs \cup {NoProc}
  /\ req \in [Procs -> Requests \cup {NoRequest}]
  /\ pc \in [Procs -> Labels]
  /\ idx \in [Procs -> Nat]
  /\ \A p \in Procs : req[p] # NoRequest => idx[p] <= Count(p)
  /\ val \in [Procs -> Values \cup {NoFile}]
  /\ prev \in [Procs -> [Paths -> Files \cup {NoFile}]]
  /\ held \in [Procs -> [Paths -> Files \cup {NoFile}]]
  /\ done \in [Procs -> SUBSET Paths]
  /\ whole \in [Procs -> BOOLEAN]
  /\ result \in Results

Returns(p, hows) == pc[p] # "idle" /\ pc'[p] = "idle" /\ result' \in hows

\* A destination as the request wants it.
Fulfilled(p, item) ==
  IF req[p].op = "delete" THEN repo[item.path] = NoFile /\ prev[p][item.path] = quarantine
  ELSE IF item.kind = "delete" THEN prev[p][item.path] # NoFile => repo[item.path] = NoFile
  ELSE repo[item.path] = val[p]

\* A destination as the request found it; metadata that did not exist is not the
\* request's.
Undone(p, item) ==
  /\ repo[item.path] # val[p]
  /\ item.kind \in {"secret", "public"} \/ prev[p][item.path] # NoFile =>
       repo[item.path] = prev[p][item.path]

\* What a request reports is what it has done to all of its destinations at
\* once: success and DurabilityUnknown mean that every one has changed,
\* BatchRolledBack that every one is what it was, whatever failed where.
\* (commit_prepared_batch, restore_batch, restore_combined, delete_secret)
OutcomeIsHonest ==
  [][\A p \in Procs :
       /\ Returns(p, {"ok", "durability_unknown"}) =>
            \A i \in 1..Count(p) : Fulfilled(p, Outputs(p)[i])
       /\ Returns(p, {"rolled_back"}) =>
            \A i \in 1..Count(p) : Undone(p, Outputs(p)[i])]_vars

\* At every moment of a batch, until all outputs are in place, the file it found
\* at a destination is still there or in the backup: a kill loses nothing.
\* (write_secret_batch: "Replacements are temporarily backed up")
OriginalsKept ==
  \A p \in Procs :
    pc[p] \in {"backup", "commit"} \/ (pc[p] \in {"restore", "unpublish"} /\ whole[p]) =>
      \A d \in Dests(p) : prev[p][d] # NoFile => prev[p][d] \in {repo[d], held[p][d]}

\* What p changes while it replaces, moves or backs up is what it has validated.
ChangesOnlyFound(p) ==
  pc[p] \in {"persist", "move", "backup"} /\ <<pc[p], idx[p]>>' # <<pc[p], idx[p]>> =>
    \A i \in 1..Count(p) :
      LET item == Outputs(p)[i] IN
      item.kind \in {"secret", "public"} /\ repo'[item.path] # repo[item.path] =>
        repo[item.path] = prev[p][item.path]

\* A request replaces, moves or deletes only the ciphertext it validated, although
\* other programs write the repository while it encrypts, and creates none over
\* an existing file.  (ensure_unchanged, persist_noclobber; ADR 0008:
\* "concurrent destination substitution fail closed")
NoSilentOverwrite == [][\A p \in Procs : ChangesOnlyFound(p)]_vars

\* When a batch fails, and does not say that the recovery is unknown, every
\* replaced file is back.  (write_secret_and_public_batch: "one all-or-recover
\* transaction ... replacements are restored if a later commit or durability
\* step fails")
FailureRestores ==
  [][\A p \in Procs : Returns(p, {"io", "refused", "rolled_back"}) =>
       \A d \in Dests(p) : prev[p][d] # NoFile => repo'[d] = prev[p][d]]_vars

\* Whoever waits for the repository lock gets it, although editors stay open as
\* long as their users like.  (edit_secret_checked, acquire_repository_lock)
WriterIsServed == \A p \in Procs : pc[p] = "lock" ~> pc[p] # "lock"

-----------------------------------------------------------------------------
(* The inductive invariant behind OriginalsKept and NoSilentOverwrite      *)

Inside == {"prepare", "persist", "move", "check", "backup", "commit", "restore",
           "unpublish", "sync"}
Looping == {"backup", "commit", "restore", "unpublish"}

\* Only the lock holder is past the lock, it works on a request, and it is in a
\* loop only in a batch.
ControlInv(p) ==
  /\ pc[p] \in Inside <=> lock = p
  /\ pc[p] # "idle" => req[p] \in Requests /\ idx[p] <= Count(p)
  /\ pc[p] \notin Looping \cup {"sync"} => idx[p] = 0

\* A file that was found is one that had to be found.
FoundInv(p) ==
  pc[p] \in Looping \cup {"check", "persist", "move"} =>
    \A i \in 1..Count(p) :
      Outputs(p)[i].kind \in {"secret", "public"} =>
        (prev[p][Outputs(p)[i].path] = NoFile <=> req[p].mode = "create")

\* Where the original of each item is: the first idx[p] in their backups, the
\* others at their destinations.
Split(p) ==
  \A i \in 1..Count(p) :
    LET d == Outputs(p)[i].path IN
    prev[p][d] # NoFile =>
      IF i <= idx[p] THEN held[p][d] = prev[p][d] ELSE repo[d] = prev[p][d]

KeptInv(p) ==
  /\ pc[p] = "backup" \/ (pc[p] \in {"restore", "unpublish"} /\ whole[p]) => Split(p)
  /\ pc[p] = "commit" =>
       \A d \in Dests(p) : prev[p][d] # NoFile => held[p][d] = prev[p][d]

IndInv ==
  /\ TypeOK
  /\ \A p \in Procs : ControlInv(p) /\ FoundInv(p) /\ KeptInv(p)
=============================================================================
