------------------------------- MODULE Cache -------------------------------
(***************************************************************************)
(* The ciphertext cache (crates/nix-seal-cache/src/lib.rs) and its two     *)
(* clients that race on it: rekey (crates/nix-seal-rekey/src/lib.rs) and   *)
(* `cache gc' (crates/nix-seal-cli/src/main.rs).                           *)
(*                                                                         *)
(* Writers (open with its recovery, put, import, the source side of an     *)
(* export, garbage collection) serialize on the .lock file.  Readers       *)
(* (inventory, artifact_records, load_artifact) take no lock, so they see  *)
(* transaction entries, bundles that are being removed, and bundles that   *)
(* are replaced between two reads.  Every step is one system call, or a    *)
(* run of calls that change nothing others can see.                        *)
(***************************************************************************)
EXTENDS Naturals, FiniteSets

CONSTANTS
  Procs,       \* processes that share the cache root
  Objects,     \* digests of generic objects (objects/<digest>)
  Artifacts,   \* keys of target artifacts (artifacts/<key>/)
  Versions,    \* ciphertext and signed manifest pairs an artifact may hold
  Signed,      \* the versions whose signature and bindings verify
  Active,      \* artifact keys that the current policy derives
  Exchanges,   \* exchange directories: what an import may bring
  MaxTxns,     \* transaction entries per directory at one time
  Ops,         \* the operations processes call
  Faults,      \* the faults the environment may inject
  NoProc, NoKey, NoVersion, NoTxn, NoExport

OpKinds == {"open", "put", "rekey", "inventory", "gc", "import", "export"}

FaultKinds ==
  {"write",   \* an error (or an exceeded limit) while a transaction is written
   "sync",    \* the fsync of the directory after an entry is renamed into place
   "remove",  \* a bundle removal that stops half way, by an error or a kill
   "kill"}    \* the process dies anywhere else

Keys == Objects \cup Artifacts
Contents(k) == IF k \in Objects THEN {k} ELSE Versions

\* A partial function from keys to what they hold.
Snapshots == [Keys -> Objects \cup Versions \cup {NoVersion}]
NoCopy == [k \in Keys |-> NoVersion]

ASSUME CacheAssumption ==
  /\ Objects \cap Artifacts = {}
  /\ Signed \subseteq Versions
  /\ Active \subseteq Artifacts
  /\ MaxTxns \in Nat
  /\ Ops \subseteq OpKinds
  /\ Faults \subseteq FaultKinds
  /\ NoProc \notin Procs
  /\ NoVersion \notin Objects \cup Versions
  /\ NoExport \notin Snapshots
  /\ Exchanges \subseteq Snapshots
  /\ \A e \in Exchanges, k \in Keys : e[k] \in Contents(k) \cup {NoVersion}

VARIABLES
  store,   \* store[k]: the members of entry k on disk and what they hold
  txns,    \* transaction entries (.nix-seal-txn-*) in objects/ and artifacts/
  dest,    \* the export destination
  lock,    \* holder of .lock
  opened,  \* opened[p]: p has an open Cache
  op,      \* op[p]: the operation p runs
  pc,      \* pc[p]: its next step
  todo,    \* todo[p]: names listed and not yet processed
  key,     \* key[p]: the entry p works on
  val,     \* val[p]: what p wants to store there
  txn,     \* txn[p]: p's transaction entry
  seen,    \* seen[p]: the ciphertext and the manifest p has read
  retain,  \* retain[p]: the artifact keys p's collection keeps
  exec,    \* exec[p]: p's collection removes what it finds (--execute)
  copy,    \* copy[p]: p's private staging cache of an import or export
  result   \* result[p]: how p's last operation returned

shared == <<store, txns, dest>>
local == <<todo, key, val, txn, seen, retain, exec, copy>>
vars == <<store, txns, dest, lock, opened, op, pc, todo, key, val, txn, seen,
          retain, exec, copy, result>>

Labels == {"idle", "lock", "recover", "objects", "load_objects", "artifacts",
           "load", "find", "cipher", "manifest", "loaded", "check", "stage",
           "write", "fsync", "preflight", "copy", "survey", "export", "deliver",
           "sweep", "unlink", "rmdir"}

\* Mutant of Members: a bundle carries a third file.
WithIndex(k) == IF k \in Objects THEN {"file"} ELSE {"dir", "ciphertext", "manifest", "index"}
\* An artifact is a directory with exactly two members; an object is one file.
Members(k) == IF k \in Objects THEN {"file"} ELSE {"dir", "ciphertext", "manifest"}
\* Mutant of Whole: a bundle is shown before its manifest is written.
WithoutManifest(k, v) == [held |-> Members(k) \ {"manifest"}, ver |-> v]
Absent == [held |-> {}, ver |-> NoVersion]
Whole(k, v) == [held |-> Members(k), ver |-> v]
Visible(k) == store[k].held # {}
Sound(k) == store[k].held = Members(k)

Dirs == {"objects", "artifacts"}
DirOf(k) == IF k \in Objects THEN "objects" ELSE "artifacts"
Txns == Dirs \X (1..MaxTxns)
TxnsIn(d) == {t \in txns : t[1] = d}
KeysIn(d) == {k \in Keys : DirOf(k) = d /\ Visible(k)}

\* objects/ is processed before artifacts/.
InOrder(p, n) ==
  /\ n \in todo[p]
  /\ n \in Artifacts \/ (n \in Txns /\ n[1] = "artifacts")
       => todo[p] \cap (Objects \cup TxnsIn("objects")) = {}

NothingSeen == [cipher |-> NoVersion, manifest |-> NoVersion]
Fails(kind) == kind \in Faults
Goto(p, label) == pc' = [pc EXCEPT ![p] = label]
Forget(p) == todo' = [todo EXCEPT ![p] = @ \ {key[p]}]

Init ==
  /\ store = [k \in Keys |-> Absent]
  /\ txns = {} /\ dest = NoExport /\ lock = NoProc
  /\ opened = [p \in Procs |-> FALSE]
  /\ op = [p \in Procs |-> "none"]
  /\ pc = [p \in Procs |-> "idle"]
  /\ todo = [p \in Procs |-> {}]
  /\ key = [p \in Procs |-> NoKey]
  /\ val = [p \in Procs |-> NoVersion]
  /\ txn = [p \in Procs |-> NoTxn]
  /\ seen = [p \in Procs |-> NothingSeen]
  /\ retain = [p \in Procs |-> {}]
  /\ exec = [p \in Procs |-> FALSE]
  /\ copy = [p \in Procs |-> NoCopy]
  /\ result = [p \in Procs |-> "none"]

-----------------------------------------------------------------------------
(* Calls, the lock and returns                                             *)

\* Mutant of Unlocked: an import does not release the lock.
Leaked(p) == IF lock = p /\ op[p] # "import" THEN NoProc ELSE lock
\* The lock after p's descriptor is closed.
Unlocked(p) == IF lock = p THEN NoProc ELSE lock

\* Mutant of LockFree: the lock is taken in shared mode.
LockShared == TRUE
LockFree == lock = NoProc

\* Mutant of HoldLock: a transfer releases the lock between its two passes.
DropLock == lock' = NoProc
\* A transfer keeps the lock between its preflight and its copy.
HoldLock == UNCHANGED lock

\* What a process holds in memory goes away, and its lock with it.
Reset(p) ==
  /\ lock' = Unlocked(p)
  /\ Goto(p, "idle")
  /\ op' = [op EXCEPT ![p] = "none"]
  /\ todo' = [todo EXCEPT ![p] = {}]
  /\ key' = [key EXCEPT ![p] = NoKey]
  /\ val' = [val EXCEPT ![p] = NoVersion]
  /\ txn' = [txn EXCEPT ![p] = NoTxn]
  /\ seen' = [seen EXCEPT ![p] = NothingSeen]
  /\ retain' = [retain EXCEPT ![p] = {}]
  /\ exec' = [exec EXCEPT ![p] = FALSE]
  /\ copy' = [copy EXCEPT ![p] = NoCopy]

Return(p, how) ==
  /\ Reset(p)
  /\ result' = [result EXCEPT ![p] = how]
  /\ UNCHANGED opened

Call(p, o, label) ==
  /\ pc[p] = "idle"
  /\ o \in Ops
  /\ o # "open" => opened[p]
  /\ op' = [op EXCEPT ![p] = o]
  /\ Goto(p, label)
  /\ result' = [result EXCEPT ![p] = "none"]
  /\ UNCHANGED <<shared, lock, opened, todo, txn, seen, retain>>

Open(p) == Call(p, "open", "lock") /\ UNCHANGED <<key, val, exec, copy>>

Put(p, k) ==
  /\ Call(p, "put", "lock")
  /\ key' = [key EXCEPT ![p] = k]
  /\ val' = [val EXCEPT ![p] = k]
  /\ UNCHANGED <<exec, copy>>

Inventory(p) == Call(p, "inventory", "objects") /\ UNCHANGED <<key, val, exec, copy>>

\* rekey and stage_direct: the source is hashed, which fixes the address.
Rekey(p, k) ==
  /\ Call(p, "rekey", "find")
  /\ key' = [key EXCEPT ![p] = k]
  /\ UNCHANGED <<val, exec, copy>>

\* cache_gc: the retention set is authenticated before the lock is taken.
Gc(p, execute) ==
  /\ Call(p, "gc", "artifacts")
  /\ exec' = [exec EXCEPT ![p] = execute]
  /\ UNCHANGED <<key, val, copy>>

\* import_from: the exchange is first copied to a private staging cache; one
\* that is malformed or over the limits is refused there.
Import(p, e) ==
  /\ Call(p, "import", "lock")
  /\ copy' = [copy EXCEPT ![p] = e]
  /\ UNCHANGED <<key, val, exec>>

Export(p) ==
  /\ dest = NoExport
  /\ Call(p, "export", "lock")
  /\ UNCHANGED <<key, val, exec, copy>>

AfterLock ==
  [open |-> "recover", put |-> "check", rekey |-> "check", import |-> "preflight",
   export |-> "survey", gc |-> "sweep"]

\* lock(); a collection then lists both directories.
Lock(p) ==
  /\ pc[p] = "lock"
  /\ LockFree
  /\ lock' = p
  /\ Goto(p, AfterLock[op[p]])
  /\ todo' = [todo EXCEPT ![p] = IF op[p] = "gc" THEN {k \in Keys : Visible(k)} \cup txns ELSE {}]
  /\ UNCHANGED <<shared, opened, op, key, val, txn, seen, retain, exec, copy, result>>

-----------------------------------------------------------------------------
(* open: recover_transactions                                              *)

\* Whatever carries the transaction prefix is taken for abandoned.
Recover(p) ==
  /\ pc[p] = "recover"
  /\ \E t \in txns : txns' = txns \ {t}
  /\ UNCHANGED <<store, dest, lock, opened, op, pc, local, result>>

Recovered(p) ==
  /\ pc[p] = "recover"
  /\ txns = {}
  /\ Reset(p)
  /\ opened' = [opened EXCEPT ![p] = TRUE]
  /\ result' = [result EXCEPT ![p] = "ok"]
  /\ UNCHANGED shared

-----------------------------------------------------------------------------
(* Unlocked readers: inventory, artifact_records, load_artifact            *)

\* An entry whose name is not a digest is an error.
ListFails(p) ==
  /\ pc[p] \in Dirs
  /\ TxnsIn(pc[p]) # {}
  /\ Return(p, "error")
  /\ UNCHANGED shared

List(p) ==
  /\ pc[p] \in Dirs
  /\ TxnsIn(pc[p]) = {}
  /\ todo' = [todo EXCEPT ![p] = KeysIn(pc[p])]
  /\ Goto(p, IF pc[p] = "objects" THEN "load_objects" ELSE "load")
  /\ UNCHANGED <<shared, lock, opened, op, key, val, txn, seen, retain, exec, copy, result>>

ReadObject(p) ==
  /\ pc[p] = "load_objects"
  /\ \E k \in todo[p] :
       IF Sound(k)
       THEN /\ todo' = [todo EXCEPT ![p] = @ \ {k}]
            /\ UNCHANGED <<lock, opened, op, pc, key, val, txn, seen, retain, exec, copy, result>>
       ELSE Return(p, "error")
  /\ UNCHANGED shared

ObjectsRead(p) ==
  /\ pc[p] = "load_objects"
  /\ todo[p] = {}
  /\ Goto(p, "artifacts")
  /\ UNCHANGED <<shared, lock, opened, op, local, result>>

\* load_artifact: no bundle.  The first time, rekey encrypts and signs a new
\* version; after ArtifactExists the bundle it lost to is gone again.
NotFound(p) ==
  /\ pc[p] = "find"
  /\ ~Visible(key[p])
  /\ \/ /\ val[p] = NoVersion
        /\ \E v \in Signed : val' = [val EXCEPT ![p] = v]
        /\ Goto(p, "lock")
        /\ UNCHANGED <<lock, opened, op, todo, key, txn, seen, retain, exec, copy, result>>
     \/ val[p] # NoVersion /\ Return(p, "error")
  /\ UNCHANGED shared

\* artifact_layout: exactly the two members, else an error.
Layout(p) ==
  /\ pc[p] \in {"load", "find"}
  /\ \E k \in (IF pc[p] = "load" THEN todo[p] ELSE {key[p]}) :
       /\ pc[p] = "find" => Visible(k)
       /\ IF Sound(k)
          THEN /\ key' = [key EXCEPT ![p] = k]
               /\ Goto(p, "cipher")
               /\ UNCHANGED <<lock, opened, op, todo, val, txn, seen, retain, exec, copy, result>>
          ELSE Return(p, "error")
  /\ UNCHANGED shared

\* load_artifact_by_key opens and hashes the ciphertext, then reads the manifest.
ReadCiphertext(p) ==
  /\ pc[p] = "cipher"
  /\ IF "ciphertext" \in store[key[p]].held
     THEN /\ seen' = [seen EXCEPT ![p].cipher = store[key[p]].ver]
          /\ Goto(p, "manifest")
          /\ UNCHANGED <<lock, opened, op, todo, key, val, txn, retain, exec, copy, result>>
     ELSE Return(p, "error")
  /\ UNCHANGED shared

ReadManifest(p) ==
  /\ pc[p] = "manifest"
  /\ IF "manifest" \in store[key[p]].held
     THEN /\ seen' = [seen EXCEPT ![p].manifest = store[key[p]].ver]
          /\ Goto(p, "loaded")
          /\ UNCHANGED <<lock, opened, op, todo, key, val, txn, retain, exec, copy, result>>
     ELSE Return(p, "error")
  /\ UNCHANGED shared

\* Mutant of Authentic: the ciphertext hash is not compared.
HashIgnored(p) == seen[p].manifest \in Signed
\* The signature verifies and the manifest binds the ciphertext that was read.
Authentic(p) ==
  /\ seen[p].manifest \in Signed
  /\ seen[p].cipher = seen[p].manifest

\* authenticate_record: what rekey reports, its own record or another's.
AuthenticateRecord(p) ==
  /\ pc[p] = "loaded"
  /\ op[p] = "rekey"
  /\ Return(p, IF Authentic(p) THEN "ok" ELSE "error")
  /\ UNCHANGED shared

\* Mutant of KeepsRecord: a record is kept only by a dry run, which removes
\* nothing.
KeepsInDryRun(p) == op[p] = "gc" /\ ~exec[p] /\ Authentic(p) /\ key[p] \in Active
\* artifact_is_active: a collection keeps an authentic artifact of the policy.
KeepsRecord(p) == op[p] = "gc" /\ Authentic(p) /\ key[p] \in Active

\* One record of artifact_records is done; an inventory only counts it.
Retain(p) ==
  /\ pc[p] = "loaded"
  /\ op[p] # "rekey"
  /\ retain' = [retain EXCEPT ![p] = IF KeepsRecord(p) THEN @ \cup {key[p]} ELSE @]
  /\ Forget(p)
  /\ seen' = [seen EXCEPT ![p] = NothingSeen]
  /\ Goto(p, "load")
  /\ UNCHANGED <<shared, lock, opened, op, key, val, txn, exec, copy, result>>

Listed(p) ==
  /\ pc[p] = "load"
  /\ todo[p] = {}
  /\ IF op[p] = "gc"
     THEN Goto(p, "lock") /\ UNCHANGED <<lock, opened, op, local, result>>
     ELSE Return(p, "ok")
  /\ UNCHANGED shared

-----------------------------------------------------------------------------
(* Locked writers: put_unlocked, put_artifact_by_key_unlocked              *)

SameAs(k, v) == Sound(k) /\ store[k].ver = v

\* The destination exists: an object is verified and reused, rekey looks at the
\* artifact it lost to, an import reuses an identical entry.
Check(p) ==
  /\ pc[p] = "check"
  /\ \/ /\ ~Visible(key[p])
        /\ Goto(p, "stage")
        /\ UNCHANGED <<lock, opened, op, local, result>>
     \/ /\ Visible(key[p])
        /\ op[p] = "put"
        /\ Return(p, "ok")
     \/ /\ Visible(key[p])
        /\ op[p] = "rekey"
        /\ lock' = NoProc
        /\ Goto(p, "find")
        /\ UNCHANGED <<opened, op, local, result>>
     \/ /\ Visible(key[p])
        /\ op[p] = "import"
        /\ IF SameAs(key[p], val[p])
           THEN /\ Forget(p)
                /\ Goto(p, "copy")
                /\ UNCHANGED <<lock, opened, op, key, val, txn, seen, retain, exec, copy, result>>
           ELSE Return(p, "conflict")
  /\ UNCHANGED shared

\* A private transaction entry in the same directory, under an unused name.
StageTxn(p) ==
  /\ pc[p] = "stage"
  /\ \E t \in Txns \ txns :
       /\ t[1] = DirOf(key[p])
       /\ txns' = txns \cup {t}
       /\ txn' = [txn EXCEPT ![p] = t]
  /\ Goto(p, "write")
  /\ UNCHANGED <<store, dest, lock, opened, op, todo, key, val, seen, retain, exec, copy, result>>

\* An error before or at the rename drops the transaction.
WriteFails(p) ==
  /\ pc[p] = "write"
  /\ Fails("write") \/ txn[p] \notin txns \/ Visible(key[p])
  /\ txns' = txns \ {txn[p]}
  /\ Return(p, "error")
  /\ UNCHANGED <<store, dest>>

\* Every member is written and synced, then rename_noreplace shows them at once.
Publish(p) ==
  /\ pc[p] = "write"
  /\ txn[p] \in txns
  /\ ~Visible(key[p])
  /\ store' = [store EXCEPT ![key[p]] = Whole(key[p], val[p])]
  /\ txns' = txns \ {txn[p]}
  /\ txn' = [txn EXCEPT ![p] = NoTxn]
  /\ Goto(p, "fsync")
  /\ UNCHANGED <<dest, lock, opened, op, todo, key, val, seen, retain, exec, copy, result>>

\* The directory is synced; a failure is reported with the entry in place.
SyncDirectory(p) ==
  /\ pc[p] = "fsync"
  /\ \/ /\ op[p] = "put"
        /\ Return(p, "ok")
     \/ /\ op[p] = "rekey"
        /\ lock' = NoProc
        /\ seen' = [seen EXCEPT ![p] = [cipher |-> val[p], manifest |-> val[p]]]
        /\ Goto(p, "loaded")
        /\ UNCHANGED <<opened, op, todo, key, val, txn, retain, exec, copy, result>>
     \/ /\ op[p] = "import"
        /\ Forget(p)
        /\ Goto(p, "copy")
        /\ UNCHANGED <<lock, opened, op, key, val, txn, seen, retain, exec, copy, result>>
     \/ Fails("sync") /\ Return(p, "error")
  /\ UNCHANGED shared

-----------------------------------------------------------------------------
(* import_from and export_to                                               *)

Bring(e) == {k \in Keys : e[k] # NoVersion}

\* preflight_destination: no key of the exchange is taken by something else.
Preflight(p) ==
  /\ pc[p] = "preflight"
  /\ IF \A k \in Bring(copy[p]) : Visible(k) => SameAs(k, copy[p][k])
     THEN /\ todo' = [todo EXCEPT ![p] = Bring(copy[p])]
          /\ Goto(p, "copy")
          /\ HoldLock
          /\ UNCHANGED <<opened, op, key, val, txn, seen, retain, exec, copy, result>>
     ELSE Return(p, "conflict")
  /\ UNCHANGED shared

ImportEntry(p) ==
  /\ pc[p] = "copy"
  /\ \E k \in Keys :
       /\ InOrder(p, k)
       /\ key' = [key EXCEPT ![p] = k]
       /\ val' = [val EXCEPT ![p] = copy[p][k]]
  /\ Goto(p, "check")
  /\ UNCHANGED <<shared, lock, opened, op, todo, txn, seen, retain, exec, copy, result>>

Imported(p) ==
  /\ pc[p] = "copy"
  /\ todo[p] = {}
  /\ Return(p, "ok")
  /\ UNCHANGED shared

\* preflight_transfer_limits visits every name and every bundle layout.
Survey(p) ==
  /\ pc[p] = "survey"
  /\ IF txns = {} /\ \A k \in Keys : Visible(k) => Sound(k)
     THEN /\ todo' = [todo EXCEPT ![p] = {k \in Keys : Visible(k)}]
          /\ Goto(p, "export")
          /\ HoldLock
          /\ UNCHANGED <<opened, op, key, val, txn, seen, retain, exec, copy, result>>
     ELSE Return(p, "error")
  /\ UNCHANGED shared

ExportEntry(p) ==
  /\ pc[p] = "export"
  /\ \E k \in Keys :
       /\ InOrder(p, k)
       /\ copy' = [copy EXCEPT ![p][k] = store[k].ver]
       /\ todo' = [todo EXCEPT ![p] = @ \ {k}]
  /\ UNCHANGED <<shared, lock, opened, op, pc, key, val, txn, seen, retain, exec, result>>

Exported(p) ==
  /\ pc[p] = "export"
  /\ todo[p] = {}
  /\ lock' = NoProc
  /\ Goto(p, "deliver")
  /\ UNCHANGED <<shared, opened, op, local, result>>

\* The staged copy is renamed to the destination, which is never replaced.
Deliver(p) ==
  /\ pc[p] = "deliver"
  /\ IF dest = NoExport
     THEN dest' = copy[p] /\ Return(p, "ok")
     ELSE Return(p, "error") /\ UNCHANGED dest
  /\ UNCHANGED <<store, txns>>

-----------------------------------------------------------------------------
(* garbage_collect, remove_artifact_bundle                                 *)

\* A name that is not a digest, or a bundle without exactly its members.
SweepRefused(p) ==
  /\ pc[p] = "sweep"
  /\ \E n \in todo[p] :
       /\ InOrder(p, n)
       /\ n \in Keys => ~Sound(n)
  /\ Return(p, "error")
  /\ UNCHANGED shared

Keep(p, k) == ~exec[p] \/ k \in retain[p]

SweepKept(p) ==
  /\ pc[p] = "sweep"
  /\ \E k \in Keys :
       /\ InOrder(p, k) /\ Sound(k) /\ Keep(p, k)
       /\ todo' = [todo EXCEPT ![p] = @ \ {k}]
  /\ UNCHANGED <<shared, lock, opened, op, pc, key, val, txn, seen, retain, exec, copy, result>>

SweepObject(p) ==
  /\ pc[p] = "sweep"
  /\ \E k \in Objects :
       /\ InOrder(p, k) /\ Sound(k) /\ ~Keep(p, k)
       /\ store' = [store EXCEPT ![k] = Absent]
       /\ todo' = [todo EXCEPT ![p] = @ \ {k}]
  /\ UNCHANGED <<txns, dest, lock, opened, op, pc, key, val, txn, seen, retain, exec, copy, result>>

SweepArtifact(p) ==
  /\ pc[p] = "sweep"
  /\ \E k \in Artifacts :
       /\ InOrder(p, k) /\ Sound(k) /\ ~Keep(p, k)
       /\ store' = [store EXCEPT ![k].held = @ \ {"ciphertext"}]
       /\ key' = [key EXCEPT ![p] = k]
  /\ Goto(p, "unlink")
  /\ UNCHANGED <<txns, dest, lock, opened, op, todo, val, txn, seen, retain, exec, copy, result>>

UnlinkManifest(p) ==
  /\ pc[p] = "unlink"
  /\ store' = [store EXCEPT ![key[p]].held = @ \ {"manifest"}]
  /\ Goto(p, "rmdir")
  /\ UNCHANGED <<txns, dest, lock, opened, op, local, result>>

RemoveDirectory(p) ==
  /\ pc[p] = "rmdir"
  /\ store' = [store EXCEPT ![key[p]] = Absent]
  /\ Forget(p)
  /\ Goto(p, "sweep")
  /\ UNCHANGED <<txns, dest, lock, opened, op, key, val, txn, seen, retain, exec, copy, result>>

RemovalFails(p) ==
  /\ pc[p] \in {"unlink", "rmdir"}
  /\ Fails("remove")
  /\ Return(p, "error")
  /\ UNCHANGED shared

\* objects/ and artifacts/ are each synced once their entries are done.
SweepSyncFails(p) ==
  /\ pc[p] = "sweep"
  /\ exec[p] /\ Fails("sync")
  /\ todo[p] \in {KeysIn("artifacts"), {}}
  /\ Return(p, "error")
  /\ UNCHANGED shared

Swept(p) ==
  /\ pc[p] = "sweep"
  /\ todo[p] = {}
  /\ Return(p, "ok")
  /\ UNCHANGED shared

-----------------------------------------------------------------------------
(* A process dies: its lock is released, its transaction entry stays.      *)

Kill(p) ==
  /\ pc[p] # "idle"
  /\ Fails(IF pc[p] \in {"unlink", "rmdir"} THEN "remove" ELSE "kill")
  /\ Reset(p)
  /\ opened' = [opened EXCEPT ![p] = FALSE]
  /\ result' = [result EXCEPT ![p] = "killed"]
  /\ UNCHANGED shared

-----------------------------------------------------------------------------
\* The steps a process takes on its own once it has called an operation.
Step(p) ==
  \/ Recover(p) \/ Recovered(p)
  \/ ListFails(p) \/ List(p) \/ ReadObject(p) \/ ObjectsRead(p)
  \/ NotFound(p) \/ Layout(p) \/ ReadCiphertext(p) \/ ReadManifest(p)
  \/ AuthenticateRecord(p) \/ Retain(p) \/ Listed(p)
  \/ Check(p) \/ StageTxn(p) \/ WriteFails(p) \/ Publish(p) \/ SyncDirectory(p)
  \/ Preflight(p) \/ ImportEntry(p) \/ Imported(p)
  \/ Survey(p) \/ ExportEntry(p) \/ Exported(p) \/ Deliver(p)
  \/ SweepRefused(p) \/ SweepKept(p) \/ SweepObject(p) \/ SweepArtifact(p)
  \/ UnlinkManifest(p) \/ RemoveDirectory(p) \/ RemovalFails(p)
  \/ SweepSyncFails(p) \/ Swept(p)

Next ==
  \E p \in Procs :
    \/ Open(p) \/ Inventory(p) \/ Export(p)
    \/ \E k \in Objects : Put(p, k)
    \/ \E k \in Artifacts : Rekey(p, k)
    \/ \E e \in Exchanges : Import(p, e)
    \/ \E execute \in BOOLEAN : Gc(p, execute)
    \/ Lock(p)
    \/ Step(p)
    \/ Kill(p)

Spec == Init /\ [][Next]_vars

\* A process keeps running, and one that waits for the lock is eventually
\* served although the lock is free only from time to time.
Fairness == \A p \in Procs : WF_vars(Step(p)) /\ SF_vars(Lock(p))

-----------------------------------------------------------------------------
(* Properties                                                              *)

TypeOK ==
  /\ store \in [Keys -> [held : SUBSET {"file", "dir", "ciphertext", "manifest"},
                         ver : Objects \cup Versions \cup {NoVersion}]]
  /\ txns \subseteq Txns
  /\ dest \in Snapshots \cup {NoExport}
  /\ lock \in Procs \cup {NoProc}
  /\ opened \in [Procs -> BOOLEAN]
  /\ op \in [Procs -> OpKinds \cup {"none"}]
  /\ pc \in [Procs -> Labels]
  /\ todo \in [Procs -> SUBSET (Keys \cup Txns)]
  /\ key \in [Procs -> Keys \cup {NoKey}]
  /\ val \in [Procs -> Objects \cup Versions \cup {NoVersion}]
  /\ txn \in [Procs -> Txns \cup {NoTxn}]
  /\ seen \in [Procs -> [cipher : Versions \cup {NoVersion},
                         manifest : Versions \cup {NoVersion}]]
  /\ retain \in [Procs -> SUBSET Artifacts]
  /\ exec \in [Procs -> BOOLEAN]
  /\ copy \in [Procs -> Snapshots]
  /\ result \in [Procs -> {"none", "ok", "error", "conflict", "killed"}]

\* While nobody holds the lock, every entry under a digest name has exactly its
\* members: a writer interrupted anywhere cannot poison inventory.
\* (docs/adr/0003-cache-and-nix-bridge.md; put_artifact_by_key_unlocked,
\* recover_transactions, remove_artifact_bundle)
NoPartialEntry == lock = NoProc => \A k \in Keys : Visible(k) => Sound(k)

\* Import is append-only and nothing is overwritten: an entry appears whole, and
\* from then on keeps its content and only ever loses members.
\* (rename_noreplace, put_artifact_by_key_unlocked, remove_artifact_bundle)
EntriesImmutable ==
  [][\A k \in Keys :
       /\ ~Visible(k) /\ store'[k].held # {} => store'[k].held = Members(k)
       /\ Visible(k) /\ store'[k].held # {} =>
            /\ store'[k].ver = store[k].ver
            /\ store'[k].held \subseteq store[k].held]_vars

\* Recovery deletes whatever carries the transaction prefix, but never the
\* transaction a running writer is still filling.  (recover_transactions)
TransactionsOwned == \A p \in Procs : pc[p] = "write" => txn[p] \in txns

\* What an import's preflight found still holds when each entry is committed:
\* no other writer introduces a late conflict, so a conflict is only reported
\* while the destination is untouched.  (import_from, preflight_destination)
PreflightHolds ==
  \A p \in Procs :
    op[p] = "import" /\ pc[p] \in {"copy", "check", "stage", "write", "fsync"} =>
      \A k \in todo[p] : Visible(k) => SameAs(k, copy[p][k])

\* What an export has copied so far is what the cache holds: it publishes one
\* consistent state of the cache.  (export_to, copy_into)
ExportIsSnapshot ==
  \A p \in Procs :
    pc[p] = "export" => \A k \in Keys \ todo[p] : copy[p][k] = store[k].ver

RekeyReturns(p) == op[p] = "rekey" /\ op'[p] = "none" /\ result'[p] = "ok"

\* A collection removes only unreachable artifacts: never one that the policy
\* derives and that verifies.  (garbage_collect: "reports unreachable
\* candidates, and optionally removes them")
GcSparesActive ==
  [][\A k \in Active : SameAs(k, store[k].ver) /\ store[k].ver \in Signed
       => store'[k] = store[k]]_vars

\* Every operation returns.
EveryOperationReturns == \A p \in Procs : pc[p] # "idle" ~> pc[p] = "idle"
=============================================================================
