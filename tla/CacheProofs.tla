---------------------------- MODULE CacheProofs ----------------------------
(***************************************************************************)
(* Proofs about the ciphertext cache and the two clients that race on it,  *)
(* for any processes, digests, versions, exchanges and faults.             *)
(***************************************************************************)
EXTENDS CacheHistory, TLAPS

\* Where a process holds the lock.
Holding == {"recover", "check", "stage", "write", "fsync", "preflight", "copy",
            "survey", "export", "sweep", "unlink", "rmdir"}

\* Which operation is where.
ControlInv(p) ==
  /\ pc[p] \in Holding <=> lock = p
  /\ pc[p] = "idle" <=> op[p] = "none"
  /\ pc[p] = "lock" => op[p] \in {"open", "put", "rekey", "import", "export", "gc"}
  /\ pc[p] = "recover" => op[p] = "open"
  /\ pc[p] \in {"check", "stage", "write", "fsync"} => op[p] \in {"put", "rekey", "import"}
  /\ pc[p] \in {"preflight", "copy"} => op[p] = "import"
  /\ pc[p] \in {"survey", "export", "deliver"} => op[p] = "export"
  /\ pc[p] \in {"sweep", "unlink", "rmdir"} => op[p] = "gc"
  /\ pc[p] = "find" => op[p] = "rekey"
  /\ pc[p] \in {"objects", "load_objects"} => op[p] = "inventory"
  /\ pc[p] \in {"artifacts", "load"} => op[p] \in {"inventory", "gc"}
  /\ pc[p] \in {"cipher", "manifest", "loaded"} => op[p] \in {"rekey", "inventory", "gc"}

\* What an operation works on, and with what.
WorkInv(p) ==
  /\ pc[p] = "idle" => val[p] = NoVersion /\ copy[p] = NoCopy
  /\ op[p] = "put" => key[p] \in Objects /\ val[p] = key[p]
  /\ op[p] = "rekey" => key[p] \in Artifacts /\ val[p] \in Signed \cup {NoVersion}
  /\ op[p] = "rekey" /\ pc[p] \in {"lock", "check", "stage", "write", "fsync"} => val[p] \in Signed
  /\ op[p] \in {"inventory", "gc"} /\ pc[p] \in {"load", "cipher", "manifest", "loaded"} =>
       todo[p] \subseteq Artifacts
  /\ op[p] \in {"inventory", "gc"} /\ pc[p] \in {"cipher", "manifest", "loaded"} => key[p] \in todo[p]
  /\ op[p] = "gc" /\ pc[p] = "lock" => todo[p] = {}
  /\ pc[p] \in {"unlink", "rmdir"} => key[p] \in Artifacts

\* An import commits what its exchange holds for a key it has still to do.
ImportInv(p) ==
  op[p] = "import" =>
    /\ \A k \in Keys : copy[p][k] \in Contents(k) \cup {NoVersion}
    /\ pc[p] \in {"copy", "check", "stage", "write", "fsync"} => todo[p] \subseteq Bring(copy[p])
    /\ pc[p] \in {"check", "stage", "write", "fsync"} =>
         key[p] \in todo[p] /\ val[p] = copy[p][key[p]]

\* An export starts from an empty copy.
ExportInv(p) ==
  op[p] = "export" /\ pc[p] \in {"lock", "survey"} => copy[p] = NoCopy

OwnedInv(p) == pc[p] = "write" => txn[p] \in txns
PreflightInv(p) ==
  op[p] = "import" /\ pc[p] \in {"copy", "check", "stage", "write", "fsync"} =>
    \A k \in todo[p] : Visible(k) => SameAs(k, copy[p][k])
SnapshotInv(p) ==
  pc[p] = "export" => \A k \in Keys \ todo[p] : copy[p][k] = store[k].ver

ProcInv(p) ==
  /\ ControlInv(p) /\ WorkInv(p) /\ ImportInv(p) /\ ExportInv(p)
  /\ OwnedInv(p) /\ PreflightInv(p) /\ SnapshotInv(p)

\* An entry is a file, or a directory with some of its members, and says what
\* it holds as long as it is there.
EntryInv(k) ==
  /\ store[k].held \subseteq Members(k)
  /\ store[k].held = {} => store[k].ver = NoVersion
  /\ store[k].held # {} => store[k].ver \in Contents(k)
  /\ k \in Artifacts /\ store[k].held # {} => "dir" \in store[k].held
StoreInv == \A k \in Keys : EntryInv(k)

\* An incomplete bundle is one that somebody removes right now.
PartialInv ==
  \A k \in Keys : Visible(k) /\ ~Sound(k) =>
    \E p \in Procs : pc[p] \in {"unlink", "rmdir"} /\ key[p] = k

IndInv == TypeOK /\ StoreInv /\ \A p \in Procs : ProcInv(p)

\* What a collection or a rekey has read of an entry that no collection removed,
\* and nobody published, since it began is still what the entry holds.
ReadInv(p) ==
  /\ op[p] = "gc" /\ key[p] \notin since[p] =>
       /\ pc[p] \in {"manifest", "loaded"} /\ Sound(key[p]) => seen[p].cipher = store[key[p]].ver
       /\ pc[p] = "loaded" /\ Sound(key[p]) => seen[p].manifest = store[key[p]].ver
  /\ op[p] = "rekey" /\ key[p] \notin since[p] =>
       /\ pc[p] \in {"cipher", "manifest", "loaded"} => Sound(key[p])
       /\ pc[p] = "fsync" => SameAs(key[p], val[p])
       /\ pc[p] \in {"manifest", "loaded"} => seen[p].cipher = store[key[p]].ver

\* An entry to be kept is kept, or not looked at yet.
KnownInv(p) ==
  op[p] = "gc" /\ (lock = p \/ pc[p] \in {"load", "cipher", "manifest", "loaded", "lock"}) =>
    \A k \in Active \ since[p] :
      SameAs(k, store[k].ver) /\ store[k].ver \in Signed =>
        k \in retain[p] \/ (lock # p /\ k \in todo[p])

HistoryInv == \A p \in Procs : ReadInv(p) /\ KnownInv(p)

-----------------------------------------------------------------------------
(* Facts used by several steps *)

\* What a step of another process leaves of q.
Same(q) ==
  /\ pc'[q] = pc[q] /\ op'[q] = op[q] /\ todo'[q] = todo[q] /\ key'[q] = key[q]
  /\ val'[q] = val[q] /\ txn'[q] = txn[q] /\ copy'[q] = copy[q]

\* A step of p leaves the others alone, and changes the cache only if it holds
\* the lock.
Alone(p) ==
  \A q \in Procs \ {p} :
    Same(q) /\ (lock' = q <=> lock = q) /\ (lock = q => UNCHANGED <<store, txns>>)

\* Steps of others do not disturb a process: either it holds the lock and the
\* cache is as it was, or it says nothing about the cache.
LEMMA Bystander ==
  ASSUME NEW q \in Procs, ProcInv(q), Same(q), lock' = q <=> lock = q,
         lock = q => UNCHANGED <<store, txns>>
  PROVE  ProcInv(q)'
<1>1. ControlInv(q)' /\ WorkInv(q)' /\ ImportInv(q)' /\ ExportInv(q)'
  BY DEF ProcInv, Same, ControlInv, WorkInv, ImportInv, ExportInv, Bring
<1>2. CASE lock # q
  <2>1. pc[q] \notin Holding
    BY <1>2 DEF ProcInv, ControlInv
  <2>2. OwnedInv(q)' /\ PreflightInv(q)' /\ SnapshotInv(q)'
    BY <2>1 DEF Same, OwnedInv, PreflightInv, SnapshotInv, Holding
  <2> QED BY <1>1, <2>2 DEF ProcInv
<1>3. CASE lock = q
  <2>1. OwnedInv(q)' /\ PreflightInv(q)' /\ SnapshotInv(q)'
    BY <1>3 DEF ProcInv, Same, OwnedInv, PreflightInv, SnapshotInv, Visible, SameAs, Sound
  <2> QED BY <1>1, <2>1 DEF ProcInv
<1> QED BY <1>2, <1>3

\* A step of p preserves IndInv when it preserves the types, the entries and
\* p's own invariant.
LEMMA Assemble ==
  ASSUME IndInv, NEW p \in Procs, TypeOK', StoreInv', ProcInv(p)', Alone(p)
  PROVE  IndInv'
<1>1. ASSUME NEW q \in Procs \ {p} PROVE ProcInv(q)'
  BY <1>1, Bystander DEF IndInv, Alone
<1> QED BY <1>1 DEF IndInv

LEMMA StoreSame ==
  ASSUME StoreInv, UNCHANGED store
  PROVE  StoreInv'
BY DEF StoreInv, EntryInv

\* A process that is between two calls.
LEMMA IdleInv ==
  ASSUME NEW p \in Procs, TypeOK, TypeOK', Reset(p), ControlInv(p)
  PROVE  ProcInv(p)'
<1>1. /\ pc'[p] = "idle" /\ op'[p] = "none" /\ val'[p] = NoVersion /\ copy'[p] = NoCopy
      /\ lock' # p
  BY CacheAssumption DEF Reset, Goto, TypeOK, Unlocked
<1> QED
  BY <1>1 DEF ProcInv, ControlInv, WorkInv, ImportInv, ExportInv, OwnedInv,
              PreflightInv, SnapshotInv, Holding

LEMMA ResetTypes ==
  ASSUME NEW p \in Procs, TypeOK, Reset(p),
         store' = store, txns' \subseteq Txns, dest' \in Snapshots \cup {NoExport},
         opened' \in [Procs -> BOOLEAN],
         result' \in [Procs -> {"none", "ok", "error", "conflict", "killed"}]
  PROVE  TypeOK'
<1> USE DEF Reset, Goto, TypeOK
<1>1. lock' \in Procs \cup {NoProc}
  BY DEF Unlocked
<1>2. pc' \in [Procs -> Labels]
  BY DEF Labels
<1>3. seen' \in [Procs -> [cipher : Versions \cup {NoVersion},
                           manifest : Versions \cup {NoVersion}]]
  BY DEF NothingSeen
<1>4. copy' \in [Procs -> Snapshots]
  BY DEF NoCopy, Snapshots
<1> QED BY <1>1, <1>2, <1>3, <1>4

\* Everything a process holds is dropped.
LEMMA ResetStep ==
  ASSUME IndInv, NEW p \in Procs, Reset(p),
         store' = store, txns' \subseteq txns, lock = p \/ txns' = txns,
         dest' \in Snapshots \cup {NoExport}, opened' \in [Procs -> BOOLEAN],
         result' \in [Procs -> {"none", "ok", "error", "conflict", "killed"}]
  PROVE  IndInv'
<1>1. TypeOK /\ StoreInv /\ ControlInv(p)
  BY DEF IndInv, ProcInv
<1>2. TypeOK'
  BY <1>1, ResetTypes DEF TypeOK
<1>3. ProcInv(p)'
  BY <1>1, <1>2, IdleInv
<1>4. Alone(p)
  BY <1>1, CacheAssumption DEF Reset, Goto, TypeOK, Unlocked, Alone, Same
<1> QED BY <1>1, <1>2, <1>3, <1>4, StoreSame, Assemble

LEMMA ReturnStep ==
  ASSUME IndInv, NEW p \in Procs, NEW how \in {"ok", "error", "conflict"}, Return(p, how),
         store' = store, txns' \subseteq txns, lock = p \/ txns' = txns,
         dest' \in Snapshots \cup {NoExport}
  PROVE  IndInv'
<1>1. opened' \in [Procs -> BOOLEAN]
  BY DEF IndInv, TypeOK, Return
<1>2. result' \in [Procs -> {"none", "ok", "error", "conflict", "killed"}]
  BY DEF IndInv, TypeOK, Return
<1>3. Reset(p)
  BY DEF Return
<1> QED BY <1>1, <1>2, <1>3, ResetStep

-----------------------------------------------------------------------------
(* One lemma per group of actions *)

\* Steps that can only end p's operation.
LEMMA ReturningSteps ==
  ASSUME IndInv, NEW p \in Procs,
         \/ Recovered(p) \/ ListFails(p) \/ AuthenticateRecord(p) \/ WriteFails(p)
         \/ Imported(p) \/ Deliver(p) \/ SweepRefused(p) \/ RemovalFails(p)
         \/ SweepSyncFails(p) \/ Swept(p) \/ Kill(p)
  PROVE  IndInv'
<1>1. TypeOK /\ ControlInv(p) /\ dest \in Snapshots \cup {NoExport} /\ copy[p] \in Snapshots
  BY DEF IndInv, ProcInv, TypeOK
<1>2. CASE Recovered(p)
  <2>1. opened' \in [Procs -> BOOLEAN]
    BY <1>1, <1>2 DEF Recovered, TypeOK
  <2>2. result' \in [Procs -> {"none", "ok", "error", "conflict", "killed"}]
    BY <1>1, <1>2 DEF Recovered, TypeOK
  <2> QED BY <1>1, <1>2, <2>1, <2>2, ResetStep DEF Recovered, shared
<1>3. CASE Kill(p)
  <2>1. opened' \in [Procs -> BOOLEAN]
    BY <1>1, <1>3 DEF Kill, TypeOK
  <2>2. result' \in [Procs -> {"none", "ok", "error", "conflict", "killed"}]
    BY <1>1, <1>3 DEF Kill, TypeOK
  <2> QED BY <1>1, <1>3, <2>1, <2>2, ResetStep DEF Kill, shared
<1>4. CASE AuthenticateRecord(p)
  BY <1>1, <1>4, ReturnStep DEF AuthenticateRecord, shared
<1>5. CASE WriteFails(p)
  BY <1>1, <1>5, ReturnStep DEF WriteFails, ControlInv, Holding
<1>6. CASE Deliver(p)
  BY <1>1, <1>6, ReturnStep DEF Deliver
<1>7. CASE ListFails(p) \/ SweepRefused(p) \/ RemovalFails(p) \/ SweepSyncFails(p)
  BY <1>1, <1>7, ReturnStep DEF ListFails, SweepRefused, RemovalFails, SweepSyncFails, shared
<1>8. CASE Imported(p) \/ Swept(p)
  BY <1>1, <1>8, ReturnStep DEF Imported, Swept, shared
<1> QED BY <1>2, <1>3, <1>4, <1>5, <1>6, <1>7, <1>8

\* An operation is called.
LEMMA CallSteps ==
  ASSUME IndInv, NEW p \in Procs,
         \/ Open(p) \/ Inventory(p) \/ Export(p)
         \/ \E k \in Objects : Put(p, k)
         \/ \E k \in Artifacts : Rekey(p, k)
         \/ \E e \in Exchanges : Import(p, e)
         \/ \E execute \in BOOLEAN : Gc(p, execute)
  PROVE  IndInv'
<1> USE DEF Call, Goto, shared
<1>1. TypeOK /\ StoreInv /\ ProcInv(p) /\ pc[p] = "idle"
  BY DEF IndInv, Open, Inventory, Export, Put, Rekey, Import, Gc
<1>2. UNCHANGED <<store, txns, dest, lock>>
  BY DEF Open, Inventory, Export, Put, Rekey, Import, Gc
<1>3. Alone(p)
  BY <1>1, <1>2 DEF TypeOK, Alone, Same, Open, Inventory, Export, Put, Rekey, Import, Gc
<1>4. TypeOK'
  <2>1. pc' \in [Procs -> Labels]
    <3>1. PICK label \in {"lock", "objects", "find", "artifacts"} : pc' = [pc EXCEPT ![p] = label]
      BY DEF Open, Inventory, Export, Put, Rekey, Import, Gc
    <3>2. label \in Labels
      BY DEF Labels
    <3> QED BY <1>1, <3>1, <3>2 DEF TypeOK
  <2>2. key' \in [Procs -> Keys \cup {NoKey}]
    BY <1>1 DEF TypeOK, Keys, Open, Inventory, Export, Put, Rekey, Import, Gc
  <2>3. val' \in [Procs -> Objects \cup Versions \cup {NoVersion}]
    BY <1>1 DEF TypeOK, Open, Inventory, Export, Put, Rekey, Import, Gc
  <2>4. exec' \in [Procs -> BOOLEAN]
    BY <1>1 DEF TypeOK, Open, Inventory, Export, Put, Rekey, Import, Gc
  <2>5. copy' \in [Procs -> Snapshots]
    BY <1>1, CacheAssumption DEF TypeOK, Open, Inventory, Export, Put, Rekey, Import, Gc
  <2>6. /\ result' \in [Procs -> {"none", "ok", "error", "conflict", "killed"}]
        /\ UNCHANGED <<opened, todo, txn, seen, retain>>
    BY <1>1 DEF TypeOK, Open, Inventory, Export, Put, Rekey, Import, Gc
  <2>7. op' \in [Procs -> OpKinds \cup {"none"}]
    <3>1. PICK o \in Ops : op' = [op EXCEPT ![p] = o]
      BY DEF Open, Inventory, Export, Put, Rekey, Import, Gc
    <3> QED BY <1>1, <3>1, CacheAssumption DEF TypeOK
  <2> QED BY <1>1, <1>2, <2>1, <2>2, <2>3, <2>4, <2>5, <2>6, <2>7 DEF TypeOK
<1>5. ProcInv(p)'
  <2>1. lock # p /\ val[p] = NoVersion /\ copy[p] = NoCopy
    BY <1>1 DEF ProcInv, ControlInv, WorkInv, Holding
  <2> USE <1>1, <1>2, <2>1 DEF TypeOK, ProcInv, ControlInv, WorkInv, ImportInv, ExportInv,
          OwnedInv, PreflightInv, SnapshotInv, Holding
  <2>2. CASE Open(p)
    BY <2>2 DEF Open
  <2>3. CASE Inventory(p)
    BY <2>3 DEF Inventory
  <2>4. CASE Export(p)
    BY <2>4 DEF Export
  <2>5. CASE \E k \in Objects : Put(p, k)
    BY <2>5 DEF Put
  <2>6. CASE \E k \in Artifacts : Rekey(p, k)
    BY <2>6 DEF Rekey
  <2>7. CASE \E e \in Exchanges : Import(p, e)
    BY <2>7, CacheAssumption DEF Import
  <2>8. CASE \E execute \in BOOLEAN : Gc(p, execute)
    BY <2>8 DEF Gc
  <2> QED BY <2>2, <2>3, <2>4, <2>5, <2>6, <2>7, <2>8
<1> QED BY <1>1, <1>2, <1>3, <1>4, <1>5, StoreSame, Assemble

\* The lock is taken.
LEMMA LockStep ==
  ASSUME IndInv, NEW p \in Procs, Lock(p)
  PROVE  IndInv'
<1> USE DEF Lock, Goto, shared
<1>1. TypeOK /\ StoreInv /\ ProcInv(p) /\ lock = NoProc /\ op[p] \in DOMAIN AfterLock
  BY DEF IndInv, LockFree, AfterLock, ProcInv, ControlInv
<1> DEFINE label == AfterLock[op[p]]
<1>2. label \in {"recover", "check", "preflight", "survey", "sweep"}
  BY <1>1 DEF AfterLock
<1>3. TypeOK'
  <2>1. pc' \in [Procs -> Labels]
    BY <1>1, <1>2 DEF TypeOK, Labels
  <2>2. todo' \in [Procs -> SUBSET (Keys \cup Txns)]
    BY <1>1 DEF TypeOK
  <2> HIDE DEF Goto
  <2> QED BY <1>1, <2>1, <2>2 DEF TypeOK
<1>4. Alone(p)
  BY <1>1, CacheAssumption DEF TypeOK, Alone, Same
<1>5. ProcInv(p)'
  <2>1. pc'[p] = label /\ lock' = p
    BY <1>1, <1>2 DEF TypeOK
  <2>2. ControlInv(p)'
    BY <1>1, <1>2, <2>1 DEF ProcInv, ControlInv, Holding, AfterLock
  <2>3. WorkInv(p)' /\ ImportInv(p)' /\ ExportInv(p)'
    BY <1>1, <1>2, <2>1 DEF ProcInv, ControlInv, WorkInv, ImportInv, ExportInv, AfterLock
  <2>4. OwnedInv(p)' /\ PreflightInv(p)' /\ SnapshotInv(p)'
    BY <1>1, <1>2, <2>1 DEF ProcInv, ControlInv, OwnedInv, PreflightInv, SnapshotInv, AfterLock
  <2> QED BY <2>2, <2>3, <2>4 DEF ProcInv
<1> QED BY <1>1, <1>3, <1>4, <1>5, StoreSame, Assemble

\* open removes an abandoned transaction entry.
LEMMA RecoverStep ==
  ASSUME IndInv, NEW p \in Procs, Recover(p)
  PROVE  IndInv'
<1> USE DEF Recover, local
<1>1. TypeOK /\ StoreInv /\ ProcInv(p) /\ pc[p] = "recover" /\ lock = p
  BY DEF IndInv, ProcInv, ControlInv, Holding
<1>2. TypeOK'
  BY <1>1 DEF TypeOK
<1>3. Alone(p)
  BY <1>1 DEF Alone, Same
<1>4. ProcInv(p)'
  BY <1>1 DEF ProcInv, ControlInv, WorkInv, ImportInv, ExportInv, OwnedInv, PreflightInv,
              SnapshotInv, Bring
<1> QED BY <1>1, <1>2, <1>3, <1>4, StoreSame, Assemble

\* Unlocked readers: their steps leave the cache and the lock alone.
LEMMA ReaderStep ==
  ASSUME IndInv, NEW p \in Procs, UNCHANGED <<store, txns, dest, lock, opened, op, result>>,
         NEW from \in Labels \ Holding, NEW label \in Labels \ Holding,
         pc[p] = from, pc' = [pc EXCEPT ![p] = label],
         todo' \in [Procs -> SUBSET (Keys \cup Txns)],
         key' \in [Procs -> Keys \cup {NoKey}],
         val' \in [Procs -> Objects \cup Versions \cup {NoVersion}],
         seen' \in [Procs -> [cipher : Versions \cup {NoVersion},
                              manifest : Versions \cup {NoVersion}]],
         retain' \in [Procs -> SUBSET Artifacts],
         UNCHANGED <<txn, exec, copy>>,
         \A q \in Procs \ {p} : Same(q),
         ControlInv(p)', WorkInv(p)',
         label # "idle", from # "idle", op[p] \notin {"import", "export"}
  PROVE  IndInv'
<1>1. TypeOK /\ StoreInv
  BY DEF IndInv
<1>2. TypeOK' /\ pc'[p] = label
  BY <1>1 DEF TypeOK
<1>3. Alone(p)
  BY DEF Alone
<1>4. ImportInv(p)' /\ ExportInv(p)' /\ OwnedInv(p)' /\ PreflightInv(p)' /\ SnapshotInv(p)'
  BY <1>2 DEF ImportInv, ExportInv, OwnedInv, PreflightInv, SnapshotInv, Holding
<1>5. ProcInv(p)'
  BY <1>4 DEF ProcInv
<1> QED BY <1>1, <1>2, <1>3, <1>5, StoreSame, Assemble

LEMMA ListingSteps ==
  ASSUME IndInv, NEW p \in Procs, List(p) \/ ReadObject(p) \/ ObjectsRead(p) \/ Listed(p)
  PROVE  IndInv'
<1> USE DEF Goto, shared, local
<1>1. TypeOK /\ StoreInv /\ ProcInv(p) /\ dest \in Snapshots \cup {NoExport}
  BY DEF IndInv, TypeOK
<1>2. CASE List(p)
  <2> USE <1>2 DEF List
  <2>1. PICK label \in {"load_objects", "load"} :
          /\ pc[p] = "objects" => label = "load_objects"
          /\ pc[p] = "artifacts" => label = "load"
          /\ pc' = [pc EXCEPT ![p] = label]
    BY DEF Dirs
  <2>2. todo' \in [Procs -> SUBSET (Keys \cup Txns)]
    BY <1>1 DEF TypeOK, KeysIn
  <2>3. \A q \in Procs \ {p} : Same(q)
    BY <1>1 DEF TypeOK, Same
  <2>4. pc'[p] = label /\ todo'[p] = KeysIn(pc[p])
    BY <1>1, <2>1 DEF TypeOK
  <2>5. ControlInv(p)' /\ WorkInv(p)'
    BY <1>1, <2>1, <2>4, CacheAssumption
       DEF ProcInv, ControlInv, WorkInv, Holding, Dirs, KeysIn, DirOf, Keys
  <2>6. label \in Labels \ Holding /\ pc[p] \in Labels \ Holding /\ op[p] \notin {"import", "export"}
    BY <1>1, <2>1 DEF Labels, Holding, Dirs, ProcInv, ControlInv
  <2>7. pc[p] # "idle" /\ label # "idle"
    BY <2>1 DEF Dirs
  <2> QED BY <1>1, <2>1, <2>2, <2>3, <2>5, <2>6, <2>7, ReaderStep DEF TypeOK
<1>3. CASE ReadObject(p)
  <2> USE <1>3 DEF ReadObject
  <2>1. CASE Return(p, "error")
    BY <1>1, <2>1, ReturnStep
  <2>2. CASE ~Return(p, "error")
    <3>1. PICK k \in todo[p] : todo' = [todo EXCEPT ![p] = @ \ {k}]
      BY <2>2
    <3>2. UNCHANGED <<lock, opened, op, pc, key, val, txn, seen, retain, exec, copy, result>>
      BY <2>2
    <3>3. todo' \in [Procs -> SUBSET (Keys \cup Txns)]
      BY <1>1, <3>1 DEF TypeOK
    <3>4. /\ \A q \in Procs \ {p} : Same(q)
          /\ ControlInv(p)' /\ WorkInv(p)'
      BY <1>1, <3>1, <3>2 DEF TypeOK, Same, ProcInv, ControlInv, WorkInv
    <3>5. pc[p] \in Labels \ Holding /\ pc[p] # "idle" /\ op[p] \notin {"import", "export"}
      BY <1>1 DEF Labels, Holding, ProcInv, ControlInv
    <3>6. pc' = [pc EXCEPT ![p] = pc[p]]
      BY <1>1, <3>2 DEF TypeOK
    <3> QED BY <1>1, <3>2, <3>3, <3>4, <3>5, <3>6, ReaderStep DEF TypeOK
  <2> QED BY <2>1, <2>2
<1>4. CASE ObjectsRead(p)
  <2> USE <1>4 DEF ObjectsRead
  <2>1. /\ \A q \in Procs \ {p} : Same(q)
        /\ ControlInv(p)' /\ WorkInv(p)'
    BY <1>1 DEF TypeOK, Same, ProcInv, ControlInv, WorkInv, Holding
  <2>2. /\ pc[p] \in Labels \ Holding /\ pc[p] # "idle" /\ op[p] \notin {"import", "export"}
        /\ "artifacts" \in Labels \ Holding
    BY <1>1 DEF Labels, Holding, ProcInv, ControlInv
  <2> QED BY <1>1, <2>1, <2>2, ReaderStep DEF TypeOK
<1>5. CASE Listed(p)
  <2> USE <1>5 DEF Listed
  <2>1. CASE op[p] # "gc"
    BY <1>1, <2>1, ReturnStep
  <2>2. CASE op[p] = "gc"
    <3>1. /\ \A q \in Procs \ {p} : Same(q)
          /\ ControlInv(p)' /\ WorkInv(p)'
      BY <1>1, <2>2 DEF TypeOK, Same, ProcInv, ControlInv, WorkInv, Holding
    <3>2. /\ pc[p] \in Labels \ Holding /\ pc[p] # "idle" /\ "lock" \in Labels \ Holding
      BY DEF Labels, Holding
    <3> QED BY <1>1, <2>2, <3>1, <3>2, ReaderStep DEF TypeOK
  <2> QED BY <2>1, <2>2
<1> QED BY <1>2, <1>3, <1>4, <1>5

\* What the layout, the ciphertext and the manifest of an artifact say.
LEMMA LoadingSteps ==
  ASSUME IndInv, NEW p \in Procs,
         NotFound(p) \/ Layout(p) \/ ReadCiphertext(p) \/ ReadManifest(p) \/ Retain(p)
  PROVE  IndInv'
<1> USE DEF Goto, shared
<1>1. TypeOK /\ StoreInv /\ ProcInv(p) /\ dest \in Snapshots \cup {NoExport}
  BY DEF IndInv, TypeOK
<1>2. CASE Return(p, "error") /\ UNCHANGED shared
  BY <1>1, <1>2, ReturnStep
<1>3. CASE NotFound(p) /\ ~Return(p, "error")
  <2> USE <1>3 DEF NotFound
  <2>1. PICK v \in Signed : val' = [val EXCEPT ![p] = v] /\ pc' = [pc EXCEPT ![p] = "lock"]
    OBVIOUS
  <2>2. UNCHANGED <<lock, opened, op, todo, key, txn, seen, retain, exec, copy, result>>
    OBVIOUS
  <2>3. val' \in [Procs -> Objects \cup Versions \cup {NoVersion}]
    BY <1>1, <2>1, CacheAssumption DEF TypeOK
  <2>4. /\ \A q \in Procs \ {p} : Same(q)
        /\ ControlInv(p)' /\ WorkInv(p)'
    BY <1>1, <2>1, <2>2 DEF TypeOK, Same, ProcInv, ControlInv, WorkInv, Holding
  <2>5. /\ pc[p] \in Labels \ Holding /\ pc[p] # "idle" /\ op[p] \notin {"import", "export"}
        /\ "lock" \in Labels \ Holding
    BY <1>1 DEF Labels, Holding, ProcInv, ControlInv
  <2> QED BY <1>1, <2>1, <2>2, <2>3, <2>4, <2>5, ReaderStep DEF TypeOK
<1>4. CASE Layout(p) /\ ~Return(p, "error")
  <2> USE <1>4 DEF Layout
  <2>1. PICK k \in (IF pc[p] = "load" THEN todo[p] ELSE {key[p]}) :
          key' = [key EXCEPT ![p] = k] /\ pc' = [pc EXCEPT ![p] = "cipher"]
    OBVIOUS
  <2>2. UNCHANGED <<lock, opened, op, todo, val, txn, seen, retain, exec, copy, result>>
    OBVIOUS
  <2>3. k \in Artifacts
    BY <1>1, <2>1 DEF ProcInv, ControlInv, WorkInv
  <2>4. key' \in [Procs -> Keys \cup {NoKey}]
    BY <1>1, <2>1, <2>3 DEF TypeOK, Keys
  <2>5. \A q \in Procs \ {p} : Same(q)
    BY <1>1, <2>1, <2>2 DEF TypeOK, Same
  <2>6. pc'[p] = "cipher" /\ key'[p] = k
    BY <1>1, <2>1 DEF TypeOK
  <2>7. ControlInv(p)' /\ WorkInv(p)'
    BY <1>1, <2>1, <2>2, <2>3, <2>6 DEF ProcInv, ControlInv, WorkInv, Holding
  <2>8. /\ pc[p] \in Labels \ Holding /\ pc[p] # "idle" /\ op[p] \notin {"import", "export"}
        /\ "cipher" \in Labels \ Holding
    BY <1>1 DEF Labels, Holding, ProcInv, ControlInv
  <2> QED BY <1>1, <2>1, <2>2, <2>4, <2>5, <2>7, <2>8, ReaderStep DEF TypeOK
<1>5. CASE (ReadCiphertext(p) \/ ReadManifest(p)) /\ ~Return(p, "error")
  <2> USE <1>5 DEF ReadCiphertext, ReadManifest
  <2>1. PICK label \in {"manifest", "loaded"} : pc' = [pc EXCEPT ![p] = label]
    OBVIOUS
  <2>2. UNCHANGED <<lock, opened, op, todo, key, val, txn, retain, exec, copy, result>>
    OBVIOUS
  <2>3. key[p] \in Artifacts
    BY <1>1 DEF ProcInv, ControlInv, WorkInv
  <2>4. store[key[p]].ver \in Versions \cup {NoVersion}
    BY <1>1, <2>3, CacheAssumption DEF StoreInv, EntryInv, Keys, Contents
  <2>5. seen' \in [Procs -> [cipher : Versions \cup {NoVersion},
                             manifest : Versions \cup {NoVersion}]]
    <3>1. /\ [seen[p] EXCEPT !.cipher = store[key[p]].ver]
               \in [cipher : Versions \cup {NoVersion}, manifest : Versions \cup {NoVersion}]
          /\ [seen[p] EXCEPT !.manifest = store[key[p]].ver]
               \in [cipher : Versions \cup {NoVersion}, manifest : Versions \cup {NoVersion}]
      BY <1>1, <2>4 DEF TypeOK
    <3>2. \/ seen' = [seen EXCEPT ![p] = [seen[p] EXCEPT !.cipher = store[key[p]].ver]]
          \/ seen' = [seen EXCEPT ![p] = [seen[p] EXCEPT !.manifest = store[key[p]].ver]]
      BY <1>1 DEF TypeOK
    <3> QED BY <1>1, <3>1, <3>2 DEF TypeOK
  <2>6. /\ \A q \in Procs \ {p} : Same(q)
        /\ ControlInv(p)' /\ WorkInv(p)'
    BY <1>1, <2>1, <2>2 DEF TypeOK, Same, ProcInv, ControlInv, WorkInv, Holding
  <2>7. /\ pc[p] \in Labels \ Holding /\ pc[p] # "idle" /\ op[p] \notin {"import", "export"}
        /\ label \in Labels \ Holding /\ label # "idle"
    BY <1>1, <2>1 DEF Labels, Holding, ProcInv, ControlInv
  <2> QED BY <1>1, <2>1, <2>2, <2>5, <2>6, <2>7, ReaderStep DEF TypeOK
<1>6. CASE Retain(p)
  <2> USE <1>6 DEF Retain
  <2>1. retain' \in [Procs -> SUBSET Artifacts]
    BY <1>1, CacheAssumption DEF TypeOK, KeepsRecord
  <2>2. todo' \in [Procs -> SUBSET (Keys \cup Txns)]
    BY <1>1 DEF TypeOK, Forget
  <2>3. seen' \in [Procs -> [cipher : Versions \cup {NoVersion},
                             manifest : Versions \cup {NoVersion}]]
    BY <1>1 DEF TypeOK, NothingSeen
  <2>4. /\ \A q \in Procs \ {p} : Same(q)
        /\ ControlInv(p)' /\ WorkInv(p)'
    BY <1>1 DEF TypeOK, Same, ProcInv, ControlInv, WorkInv, Holding, Forget
  <2>5. /\ pc[p] \in Labels \ Holding /\ pc[p] # "idle" /\ op[p] \notin {"import", "export"}
        /\ "load" \in Labels \ Holding
    BY <1>1 DEF Labels, Holding, ProcInv, ControlInv
  <2> QED BY <1>1, <2>1, <2>2, <2>3, <2>4, <2>5, ReaderStep DEF TypeOK
<1>7. Return(p, "error") => UNCHANGED shared
  BY DEF NotFound, Layout, ReadCiphertext, ReadManifest, Retain
<1> QED BY <1>2, <1>3, <1>4, <1>5, <1>6, <1>7

-----------------------------------------------------------------------------
(* Writers *)

\* The holder of the lock goes on, with the lock and the cache as they are.
LEMMA HolderStep ==
  ASSUME IndInv, NEW p \in Procs, UNCHANGED <<store, txns, dest, opened, op, txn, retain, exec, result>>,
         lock = p, lock' \in {p, NoProc},
         NEW label \in Labels, pc' = [pc EXCEPT ![p] = label],
         todo' \in [Procs -> SUBSET (Keys \cup Txns)],
         key' \in [Procs -> Keys \cup {NoKey}],
         val' \in [Procs -> Objects \cup Versions \cup {NoVersion}],
         seen' \in [Procs -> [cipher : Versions \cup {NoVersion},
                              manifest : Versions \cup {NoVersion}]],
         copy' \in [Procs -> Snapshots],
         \A q \in Procs \ {p} : Same(q),
         ProcInv(p)'
  PROVE  IndInv'
<1>1. TypeOK /\ StoreInv
  BY DEF IndInv
<1>2. TypeOK'
  BY <1>1 DEF TypeOK
<1>3. Alone(p)
  BY CacheAssumption DEF Alone
<1> QED BY <1>1, <1>2, <1>3, StoreSame, Assemble

LEMMA CheckStep ==
  ASSUME IndInv, NEW p \in Procs, Check(p)
  PROVE  IndInv'
<1> USE DEF Goto, shared, local
<1>1. TypeOK /\ StoreInv /\ ProcInv(p) /\ dest \in Snapshots \cup {NoExport}
  BY DEF IndInv, TypeOK
<1>2. pc[p] = "check" /\ lock = p /\ UNCHANGED shared /\ NoProc # p
  BY <1>1, CacheAssumption DEF Check, ProcInv, ControlInv, Holding
<1>3. CASE Return(p, "ok") \/ Return(p, "conflict")
  BY <1>1, <1>2, <1>3, ReturnStep
<1>4. CASE pc' = [pc EXCEPT ![p] = "stage"] /\ UNCHANGED <<lock, opened, op, local, result>>
  <2>1. \A q \in Procs \ {p} : Same(q)
    BY <1>1, <1>4 DEF TypeOK, Same
  <2>2. ProcInv(p)'
    BY <1>1, <1>2, <1>4 DEF TypeOK, ProcInv, ControlInv, WorkInv, ImportInv, ExportInv, OwnedInv,
         PreflightInv, SnapshotInv, Bring, Holding, Visible, SameAs, Sound
  <2>3. "stage" \in Labels
    BY DEF Labels
  <2> QED BY <1>1, <1>2, <1>4, <2>1, <2>2, <2>3, HolderStep DEF TypeOK
<1>5. CASE /\ op[p] = "rekey" /\ lock' = NoProc /\ pc' = [pc EXCEPT ![p] = "find"]
           /\ UNCHANGED <<opened, op, local, result>>
  <2>1. \A q \in Procs \ {p} : Same(q)
    BY <1>1, <1>5 DEF TypeOK, Same
  <2>2. ProcInv(p)'
    BY <1>1, <1>2, <1>5 DEF TypeOK, ProcInv, ControlInv, WorkInv, ImportInv, ExportInv, OwnedInv,
         PreflightInv, SnapshotInv, Holding
  <2>3. "find" \in Labels
    BY DEF Labels
  <2> QED BY <1>1, <1>2, <1>5, <2>1, <2>2, <2>3, HolderStep DEF TypeOK
<1>6. CASE /\ op[p] = "import" /\ Forget(p) /\ pc' = [pc EXCEPT ![p] = "copy"]
           /\ UNCHANGED <<lock, opened, op, key, val, txn, seen, retain, exec, copy, result>>
  <2>1. todo' \in [Procs -> SUBSET (Keys \cup Txns)]
    BY <1>1, <1>6 DEF TypeOK, Forget
  <2>2. \A q \in Procs \ {p} : Same(q)
    BY <1>1, <1>6 DEF TypeOK, Same, Forget
  <2>3. ProcInv(p)'
    BY <1>1, <1>2, <1>6 DEF TypeOK, Forget, ProcInv, ControlInv, WorkInv, ImportInv, ExportInv,
         OwnedInv, PreflightInv, SnapshotInv, Bring, Holding, Visible, SameAs, Sound
  <2>4. "copy" \in Labels
    BY DEF Labels
  <2> QED BY <1>1, <1>2, <1>6, <2>1, <2>2, <2>3, <2>4, HolderStep DEF TypeOK
<1> QED BY <1>2, <1>3, <1>4, <1>5, <1>6 DEF Check

\* A transaction entry is made under an unused name.
LEMMA StageStep ==
  ASSUME IndInv, NEW p \in Procs, StageTxn(p)
  PROVE  IndInv'
<1> USE DEF StageTxn, Goto
<1>1. TypeOK /\ StoreInv /\ ProcInv(p) /\ lock = p
  BY DEF IndInv, ProcInv, ControlInv, Holding
<1>2. PICK t \in Txns \ txns : txns' = txns \cup {t} /\ txn' = [txn EXCEPT ![p] = t]
  OBVIOUS
<1>3. pc' \in [Procs -> Labels]
  BY <1>1 DEF TypeOK, Labels
<1>4. TypeOK'
  BY <1>1, <1>2, <1>3 DEF TypeOK
<1>5. Alone(p)
  BY <1>1, <1>2 DEF TypeOK, Alone, Same
<1>6. ProcInv(p)'
  BY <1>1, <1>2 DEF TypeOK, ProcInv, ControlInv, WorkInv, ImportInv, ExportInv, OwnedInv,
       PreflightInv, SnapshotInv, Bring, Holding, Visible, SameAs, Sound
<1> QED BY <1>1, <1>4, <1>5, <1>6, StoreSame, Assemble

\* What a writer publishes is what its destination may hold.
LEMMA WriterValue ==
  ASSUME NEW p \in Procs, TypeOK, ProcInv(p), pc[p] \in {"check", "stage", "write", "fsync"}
  PROVE  key[p] \in Keys /\ val[p] \in Contents(key[p])
<1>1. CASE op[p] = "put"
  BY <1>1 DEF ProcInv, WorkInv, Keys, Contents
<1>2. CASE op[p] = "rekey"
  BY <1>2, CacheAssumption DEF ProcInv, WorkInv, Keys, Contents
<1>3. CASE op[p] = "import"
  <2>1. key[p] \in Bring(copy[p]) /\ val[p] = copy[p][key[p]]
    BY <1>3 DEF ProcInv, ImportInv
  <2>2. copy[p][key[p]] \in Contents(key[p]) \cup {NoVersion}
    BY <1>3, <2>1 DEF ProcInv, ImportInv, Bring
  <2> QED BY <2>1, <2>2 DEF Bring
<1> QED BY <1>1, <1>2, <1>3 DEF ProcInv, ControlInv

\* A complete entry appears.
LEMMA PublishStep ==
  ASSUME IndInv, NEW p \in Procs, Publish(p)
  PROVE  IndInv'
<1> USE DEF Publish, Goto
<1>1. TypeOK /\ StoreInv /\ ProcInv(p) /\ lock = p
  BY DEF IndInv, ProcInv, ControlInv, Holding
<1>2. key[p] \in Keys /\ val[p] \in Contents(key[p])
  BY <1>1, WriterValue
<1> DEFINE entry == Whole(key[p], val[p])
<1>3. /\ entry.held = Members(key[p]) /\ entry.ver = val[p]
      /\ entry \in [held : SUBSET {"file", "dir", "ciphertext", "manifest"},
                    ver : Objects \cup Versions \cup {NoVersion}]
  BY <1>2 DEF Whole, Members, Contents
<1>4. \A k \in Keys : store'[k] = IF k = key[p] THEN entry ELSE store[k]
  BY <1>1 DEF TypeOK
<1>5. TypeOK'
  <2>1. pc' \in [Procs -> Labels]
    BY <1>1 DEF TypeOK, Labels
  <2>2. store' \in [Keys -> [held : SUBSET {"file", "dir", "ciphertext", "manifest"},
                             ver : Objects \cup Versions \cup {NoVersion}]]
    BY <1>1, <1>3 DEF TypeOK
  <2> QED BY <1>1, <2>1, <2>2 DEF TypeOK
<1>6. StoreInv'
  <2>1. EntryInv(key[p])'
    BY <1>2, <1>3, <1>4, CacheAssumption DEF EntryInv, Members, Keys
  <2> QED BY <1>1, <1>4, <2>1 DEF StoreInv, EntryInv
<1>7. Alone(p)
  BY <1>1 DEF TypeOK, Alone, Same
<1>8. ProcInv(p)'
  <2>1. pc'[p] = "fsync"
    BY <1>1 DEF TypeOK
  <2>2. ControlInv(p)' /\ WorkInv(p)' /\ ImportInv(p)' /\ ExportInv(p)' /\ OwnedInv(p)' /\ SnapshotInv(p)'
    BY <1>1, <2>1 DEF ProcInv, ControlInv, WorkInv, ImportInv, ExportInv, OwnedInv, SnapshotInv,
         Bring, Holding
  <2>3. PreflightInv(p)'
    <3>1. SUFFICES ASSUME op[p] = "import", NEW k \in todo[p], Visible(k)'
                   PROVE  SameAs(k, copy[p][k])'
      BY DEF PreflightInv
    <3>2. k \in Keys /\ val[p] = copy[p][key[p]]
      BY <1>1, <3>1 DEF ProcInv, ImportInv, Bring
    <3>3. CASE k = key[p]
      BY <1>3, <1>4, <3>2, <3>3 DEF SameAs, Sound
    <3>4. CASE k # key[p]
      BY <1>1, <1>4, <3>1, <3>2, <3>4 DEF ProcInv, PreflightInv, Visible, SameAs, Sound
    <3> QED BY <3>3, <3>4
  <2> QED BY <2>2, <2>3 DEF ProcInv
<1> QED BY <1>5, <1>6, <1>7, <1>8, Assemble

LEMMA SyncStep ==
  ASSUME IndInv, NEW p \in Procs, SyncDirectory(p)
  PROVE  IndInv'
<1> USE DEF Goto, shared
<1>1. TypeOK /\ StoreInv /\ ProcInv(p) /\ dest \in Snapshots \cup {NoExport}
  BY DEF IndInv, TypeOK
<1>2. pc[p] = "fsync" /\ lock = p /\ UNCHANGED shared /\ NoProc # p
  BY <1>1, CacheAssumption DEF SyncDirectory, ProcInv, ControlInv, Holding
<1>3. CASE Return(p, "ok") \/ Return(p, "error")
  BY <1>1, <1>2, <1>3, ReturnStep
<1>4. CASE /\ op[p] = "rekey" /\ lock' = NoProc
           /\ seen' = [seen EXCEPT ![p] = [cipher |-> val[p], manifest |-> val[p]]]
           /\ pc' = [pc EXCEPT ![p] = "loaded"]
           /\ UNCHANGED <<opened, op, todo, key, val, txn, retain, exec, copy, result>>
  <2>1. val[p] \in Versions
    BY <1>1, <1>2, <1>4, CacheAssumption DEF ProcInv, WorkInv
  <2>2. seen' \in [Procs -> [cipher : Versions \cup {NoVersion},
                             manifest : Versions \cup {NoVersion}]]
    BY <1>1, <1>4, <2>1 DEF TypeOK
  <2>3. \A q \in Procs \ {p} : Same(q)
    BY <1>1, <1>4 DEF TypeOK, Same
  <2>4. ProcInv(p)'
    BY <1>1, <1>2, <1>4 DEF TypeOK, ProcInv, ControlInv, WorkInv, ImportInv, ExportInv, OwnedInv,
         PreflightInv, SnapshotInv, Holding
  <2>5. "loaded" \in Labels
    BY DEF Labels
  <2> QED BY <1>1, <1>2, <1>4, <2>2, <2>3, <2>4, <2>5, HolderStep DEF TypeOK
<1>5. CASE /\ op[p] = "import" /\ Forget(p) /\ pc' = [pc EXCEPT ![p] = "copy"]
           /\ UNCHANGED <<lock, opened, op, key, val, txn, seen, retain, exec, copy, result>>
  <2>1. todo' \in [Procs -> SUBSET (Keys \cup Txns)]
    BY <1>1, <1>5 DEF TypeOK, Forget
  <2>2. \A q \in Procs \ {p} : Same(q)
    BY <1>1, <1>5 DEF TypeOK, Same, Forget
  <2>3. ProcInv(p)'
    BY <1>1, <1>2, <1>5 DEF TypeOK, Forget, ProcInv, ControlInv, WorkInv, ImportInv, ExportInv,
         OwnedInv, PreflightInv, SnapshotInv, Bring, Holding, Visible, SameAs, Sound
  <2>4. "copy" \in Labels
    BY DEF Labels
  <2> QED BY <1>1, <1>2, <1>5, <2>1, <2>2, <2>3, <2>4, HolderStep DEF TypeOK
<1> QED BY <1>2, <1>3, <1>4, <1>5 DEF SyncDirectory

-----------------------------------------------------------------------------
(* Transfers *)

LEMMA PreflightStep ==
  ASSUME IndInv, NEW p \in Procs, Preflight(p)
  PROVE  IndInv'
<1> USE DEF Preflight, Goto, shared, HoldLock
<1>1. TypeOK /\ StoreInv /\ ProcInv(p) /\ dest \in Snapshots \cup {NoExport} /\ lock = p
  BY DEF IndInv, TypeOK, ProcInv, ControlInv, Holding
<1>2. CASE Return(p, "conflict")
  BY <1>1, <1>2, ReturnStep
<1>3. CASE ~Return(p, "conflict")
  <2>1. /\ \A k \in Bring(copy[p]) : Visible(k) => SameAs(k, copy[p][k])
        /\ todo' = [todo EXCEPT ![p] = Bring(copy[p])]
        /\ pc' = [pc EXCEPT ![p] = "copy"]
        /\ UNCHANGED <<store, txns, dest, lock, opened, op, key, val, txn, seen, retain, exec, copy, result>>
    BY <1>3
  <2>2. todo' \in [Procs -> SUBSET (Keys \cup Txns)]
    BY <1>1, <2>1 DEF TypeOK, Bring
  <2>3. \A q \in Procs \ {p} : Same(q)
    BY <1>1, <2>1 DEF TypeOK, Same
  <2>4. pc'[p] = "copy" /\ todo'[p] = Bring(copy[p])
    BY <1>1, <2>1 DEF TypeOK
  <2>5. ProcInv(p)'
    BY <1>1, <2>1, <2>4 DEF ProcInv, ControlInv, WorkInv, ImportInv, ExportInv, OwnedInv,
         PreflightInv, SnapshotInv, Bring, Holding, Visible, SameAs, Sound
  <2>6. "copy" \in Labels
    BY DEF Labels
  <2> QED BY <1>1, <2>1, <2>2, <2>3, <2>5, <2>6, HolderStep DEF TypeOK
<1> QED BY <1>2, <1>3

LEMMA ImportEntryStep ==
  ASSUME IndInv, NEW p \in Procs, ImportEntry(p)
  PROVE  IndInv'
<1> USE DEF ImportEntry, Goto, shared
<1>1. TypeOK /\ StoreInv /\ ProcInv(p) /\ lock = p /\ op[p] = "import"
  BY DEF IndInv, ProcInv, ControlInv, Holding
<1>2. PICK k \in Keys : /\ k \in todo[p]
                        /\ key' = [key EXCEPT ![p] = k]
                        /\ val' = [val EXCEPT ![p] = copy[p][k]]
  BY DEF InOrder
<1>3. copy[p][k] \in Objects \cup Versions \cup {NoVersion}
  BY <1>1, <1>2 DEF TypeOK, Snapshots
<1>4. /\ key' \in [Procs -> Keys \cup {NoKey}]
      /\ val' \in [Procs -> Objects \cup Versions \cup {NoVersion}]
  BY <1>1, <1>2, <1>3 DEF TypeOK
<1>5. \A q \in Procs \ {p} : Same(q)
  BY <1>1, <1>2 DEF TypeOK, Same
<1>6. pc'[p] = "check" /\ key'[p] = k /\ val'[p] = copy[p][k]
  BY <1>1, <1>2 DEF TypeOK
<1>7. ProcInv(p)'
  BY <1>1, <1>2, <1>6 DEF ProcInv, ControlInv, WorkInv, ImportInv, ExportInv, OwnedInv,
       PreflightInv, SnapshotInv, Bring, Holding, Visible, SameAs, Sound
<1>8. "check" \in Labels
  BY DEF Labels
<1> QED BY <1>1, <1>4, <1>5, <1>7, <1>8, HolderStep DEF TypeOK

LEMMA ExportSteps ==
  ASSUME IndInv, NEW p \in Procs, Survey(p) \/ ExportEntry(p) \/ Exported(p)
  PROVE  IndInv'
<1> USE DEF Goto, shared, local, HoldLock
<1>1. TypeOK /\ StoreInv /\ ProcInv(p) /\ dest \in Snapshots \cup {NoExport}
  BY DEF IndInv, TypeOK
<1>2. lock = p /\ op[p] = "export" /\ NoProc # p
  BY <1>1, CacheAssumption DEF Survey, ExportEntry, Exported, ProcInv, ControlInv, Holding
<1>3. CASE Survey(p) /\ Return(p, "error")
  BY <1>1, <1>3, ReturnStep DEF Survey
<1>4. CASE Survey(p) /\ ~Return(p, "error")
  <2>1. /\ pc[p] = "survey"
        /\ todo' = [todo EXCEPT ![p] = {k \in Keys : Visible(k)}]
        /\ pc' = [pc EXCEPT ![p] = "export"]
        /\ UNCHANGED <<store, txns, dest, lock, opened, op, key, val, txn, seen, retain, exec, copy, result>>
    BY <1>4 DEF Survey
  <2>2. todo' \in [Procs -> SUBSET (Keys \cup Txns)]
    BY <1>1, <2>1 DEF TypeOK
  <2>3. \A q \in Procs \ {p} : Same(q)
    BY <1>1, <2>1 DEF TypeOK, Same
  <2>4. pc'[p] = "export" /\ todo'[p] = {k \in Keys : Visible(k)} /\ copy[p] = NoCopy
    BY <1>1, <1>2, <2>1 DEF TypeOK, ProcInv, ExportInv
  <2>5. SnapshotInv(p)'
    BY <1>1, <2>1, <2>4 DEF SnapshotInv, NoCopy, StoreInv, EntryInv, Visible
  <2>6. ProcInv(p)'
    BY <1>1, <1>2, <2>1, <2>4, <2>5 DEF ProcInv, ControlInv, WorkInv, ImportInv, ExportInv,
         OwnedInv, PreflightInv, Holding
  <2>7. "export" \in Labels
    BY DEF Labels
  <2> QED BY <1>1, <1>2, <2>1, <2>2, <2>3, <2>6, <2>7, HolderStep DEF TypeOK
<1>5. CASE ExportEntry(p)
  <2> USE <1>5 DEF ExportEntry
  <2>1. PICK k \in Keys : /\ copy' = [copy EXCEPT ![p] = [copy[p] EXCEPT ![k] = store[k].ver]]
                          /\ todo' = [todo EXCEPT ![p] = @ \ {k}]
    BY <1>1 DEF TypeOK
  <2>2. todo' \in [Procs -> SUBSET (Keys \cup Txns)]
    BY <1>1, <2>1 DEF TypeOK
  <2>3. [copy[p] EXCEPT ![k] = store[k].ver] \in Snapshots
    BY <1>1, <2>1 DEF TypeOK, Snapshots
  <2>4. copy' \in [Procs -> Snapshots]
    BY <1>1, <2>1, <2>3 DEF TypeOK
  <2>5. \A q \in Procs \ {p} : Same(q)
    BY <1>1, <2>1 DEF TypeOK, Same
  <2>6. pc[p] = "export" /\ pc' = [pc EXCEPT ![p] = "export"]
    BY <1>1 DEF TypeOK
  <2>7. todo'[p] = todo[p] \ {k} /\ copy'[p] = [copy[p] EXCEPT ![k] = store[k].ver]
    BY <1>1, <2>1 DEF TypeOK
  <2>8. SnapshotInv(p)'
    BY <1>1, <2>1, <2>6, <2>7 DEF SnapshotInv, ProcInv, TypeOK, Snapshots
  <2>9. ProcInv(p)'
    BY <1>1, <1>2, <2>6, <2>7, <2>8 DEF ProcInv, ControlInv, WorkInv, ImportInv, ExportInv,
         OwnedInv, PreflightInv, Holding
  <2>10. "export" \in Labels
    BY DEF Labels
  <2> QED BY <1>1, <1>2, <2>1, <2>2, <2>4, <2>5, <2>6, <2>9, <2>10, HolderStep DEF TypeOK
<1>6. CASE Exported(p)
  <2> USE <1>6 DEF Exported
  <2>1. \A q \in Procs \ {p} : Same(q)
    BY <1>1 DEF TypeOK, Same
  <2>2. ProcInv(p)'
    BY <1>1, <1>2 DEF TypeOK, ProcInv, ControlInv, WorkInv, ImportInv, ExportInv,
         OwnedInv, PreflightInv, SnapshotInv, Holding
  <2>3. "deliver" \in Labels
    BY DEF Labels
  <2> QED BY <1>1, <1>2, <2>1, <2>2, <2>3, HolderStep DEF TypeOK
<1> QED BY <1>3, <1>4, <1>5, <1>6

-----------------------------------------------------------------------------
(* Removal *)

\* A step of a collection that changes one entry, or none.
LEMMA SweepStep ==
  ASSUME IndInv, NEW p \in Procs, pc[p] \in {"sweep", "unlink", "rmdir"},
         NEW label \in {"sweep", "unlink", "rmdir"}, pc' = [pc EXCEPT ![p] = label],
         UNCHANGED <<txns, dest, lock, opened, op, val, txn, seen, retain, exec, copy, result>>,
         todo' \in [Procs -> SUBSET (Keys \cup Txns)],
         key' \in [Procs -> Keys \cup {NoKey}],
         \A q \in Procs \ {p} : todo'[q] = todo[q] /\ key'[q] = key[q],
         label # "sweep" => key'[p] \in Artifacts,
         NEW k \in Keys, NEW entry \in [held : SUBSET {"file", "dir", "ciphertext", "manifest"},
                                        ver : Objects \cup Versions \cup {NoVersion}],
         store' = [store EXCEPT ![k] = entry],
         entry.held \subseteq Members(k),
         entry.held = {} => entry.ver = NoVersion,
         entry.held # {} => entry.ver \in Contents(k),
         k \in Artifacts /\ entry.held # {} => "dir" \in entry.held
  PROVE  IndInv'
<1>1. TypeOK /\ StoreInv /\ ProcInv(p) /\ lock = p
  BY DEF IndInv, ProcInv, ControlInv, Holding
<1>2. pc' \in [Procs -> Labels]
  BY <1>1 DEF TypeOK, Labels
<1>3. TypeOK'
  BY <1>1, <1>2 DEF TypeOK
<1>4. StoreInv'
  BY <1>1 DEF TypeOK, StoreInv, EntryInv
<1>5. Alone(p)
  BY <1>1 DEF TypeOK, Alone, Same
<1>6. ProcInv(p)'
  BY <1>1 DEF TypeOK, ProcInv, ControlInv, WorkInv, ImportInv, ExportInv, OwnedInv,
              PreflightInv, SnapshotInv, Holding
<1> QED BY <1>3, <1>4, <1>5, <1>6, Assemble

LEMMA SweepSteps ==
  ASSUME IndInv, NEW p \in Procs,
         \/ SweepKept(p) \/ SweepObject(p) \/ SweepArtifact(p)
         \/ UnlinkManifest(p) \/ RemoveDirectory(p)
  PROVE  IndInv'
<1> USE DEF Goto, shared, local
<1>1. TypeOK /\ StoreInv /\ ProcInv(p)
  BY DEF IndInv
<1> DEFINE Entries == [held : SUBSET {"file", "dir", "ciphertext", "manifest"},
                       ver : Objects \cup Versions \cup {NoVersion}]
<1>2. Absent \in Entries /\ Absent.held = {} /\ Absent.ver = NoVersion
  BY DEF Absent
<1>3. CASE SweepKept(p)
  <2> USE <1>3 DEF SweepKept
  <2>1. PICK k \in Keys : todo' = [todo EXCEPT ![p] = @ \ {k}]
    OBVIOUS
  <2>2. todo' \in [Procs -> SUBSET (Keys \cup Txns)] /\ \A q \in Procs \ {p} : todo'[q] = todo[q]
    BY <1>1, <2>1 DEF TypeOK
  <2>3. pc[p] = "sweep" /\ pc' = [pc EXCEPT ![p] = "sweep"]
    BY <1>1 DEF TypeOK
  <2> DEFINE entry == store[k]
  <2>4. entry \in Entries /\ store' = [store EXCEPT ![k] = entry]
    BY <1>1 DEF TypeOK
  <2>5. /\ entry.held \subseteq Members(k)
        /\ entry.held = {} => entry.ver = NoVersion
        /\ entry.held # {} => entry.ver \in Contents(k)
        /\ k \in Artifacts /\ entry.held # {} => "dir" \in entry.held
    BY <1>1 DEF StoreInv, EntryInv
  <2>6. /\ UNCHANGED <<txns, dest, lock, opened, op, val, txn, seen, retain, exec, copy, result>>
        /\ key' \in [Procs -> Keys \cup {NoKey}] /\ \A q \in Procs \ {p} : key'[q] = key[q]
    BY <1>1 DEF TypeOK
  <2> HIDE DEF entry, SweepKept
  <2> QED BY <2>2, <2>3, <2>4, <2>5, <2>6, SweepStep
<1>4. CASE SweepObject(p)
  <2> USE <1>4 DEF SweepObject
  <2>1. PICK k \in Objects : /\ store' = [store EXCEPT ![k] = Absent]
                             /\ todo' = [todo EXCEPT ![p] = @ \ {k}]
    OBVIOUS
  <2>2. todo' \in [Procs -> SUBSET (Keys \cup Txns)] /\ \A q \in Procs \ {p} : todo'[q] = todo[q]
    BY <1>1, <2>1 DEF TypeOK
  <2>3. pc[p] = "sweep" /\ pc' = [pc EXCEPT ![p] = "sweep"] /\ k \in Keys
    BY <1>1 DEF TypeOK, Keys
  <2> QED BY <1>1, <1>2, <2>1, <2>2, <2>3, SweepStep DEF TypeOK
<1>5. CASE SweepArtifact(p)
  <2> USE <1>5 DEF SweepArtifact
  <2>1. PICK k \in Artifacts : /\ Sound(k)
                               /\ store' = [store EXCEPT ![k].held = @ \ {"ciphertext"}]
                               /\ key' = [key EXCEPT ![p] = k]
    OBVIOUS
  <2> DEFINE entry == [store[k] EXCEPT !.held = @ \ {"ciphertext"}]
  <2>2. k \in Keys /\ Members(k) = {"dir", "ciphertext", "manifest"} /\ store[k] \in Entries
    BY <1>1, CacheAssumption DEF Keys, Members, TypeOK
  <2>3. /\ entry \in Entries /\ entry.held = store[k].held \ {"ciphertext"}
        /\ entry.ver = store[k].ver
    BY <2>2
  <2>4. store' = [store EXCEPT ![k] = entry]
    BY <1>1, <2>1, <2>2 DEF TypeOK
  <2>5. entry.held = {"dir", "manifest"} /\ entry.ver \in Contents(k)
    BY <1>1, <2>1, <2>2, <2>3 DEF Sound, StoreInv, EntryInv
  <2>6. /\ key' \in [Procs -> Keys \cup {NoKey}] /\ \A q \in Procs \ {p} : key'[q] = key[q]
        /\ key'[p] \in Artifacts
    BY <1>1, <2>1, <2>2 DEF TypeOK
  <2> HIDE DEF entry
  <2> QED BY <1>1, <2>2, <2>3, <2>4, <2>5, <2>6, SweepStep DEF TypeOK
<1>6. CASE UnlinkManifest(p)
  <2> USE <1>6 DEF UnlinkManifest
  <2> DEFINE k == key[p]
             entry == [store[k] EXCEPT !.held = @ \ {"manifest"}]
  <2>1. /\ k \in Artifacts /\ k \in Keys /\ store[k] \in Entries
        /\ Members(k) = {"dir", "ciphertext", "manifest"}
    BY <1>1, CacheAssumption DEF ProcInv, WorkInv, Keys, Members, TypeOK
  <2>2. /\ entry \in Entries /\ entry.held = store[k].held \ {"manifest"}
        /\ entry.ver = store[k].ver
    BY <2>1
  <2>3. store' = [store EXCEPT ![k] = entry]
    BY <1>1, <2>1 DEF TypeOK
  <2>4. EntryInv(k)
    BY <1>1, <2>1 DEF StoreInv
  <2>5. /\ entry.held \subseteq Members(k)
        /\ entry.held = {} => entry.ver = NoVersion
        /\ entry.held # {} => entry.ver \in Contents(k)
        /\ entry.held # {} => "dir" \in entry.held
    BY <2>1, <2>2, <2>4 DEF EntryInv
  <2> HIDE DEF entry
  <2> QED BY <1>1, <2>1, <2>2, <2>3, <2>5, SweepStep DEF TypeOK
<1>7. CASE RemoveDirectory(p)
  <2> USE <1>7 DEF RemoveDirectory, Forget
  <2>1. key[p] \in Keys /\ pc[p] = "rmdir"
    BY <1>1 DEF ProcInv, WorkInv, Keys
  <2>2. todo' \in [Procs -> SUBSET (Keys \cup Txns)] /\ \A q \in Procs \ {p} : todo'[q] = todo[q]
    BY <1>1 DEF TypeOK
  <2> QED BY <1>1, <1>2, <2>1, <2>2, SweepStep DEF TypeOK
<1> QED BY <1>3, <1>4, <1>5, <1>6, <1>7

-----------------------------------------------------------------------------
(* The invariant *)

LEMMA InitInv ==
  ASSUME Init
  PROVE  IndInv
<1> USE DEF Init
<1>1. TypeOK
  <2>1. store \in [Keys -> [held : SUBSET {"file", "dir", "ciphertext", "manifest"},
                            ver : Objects \cup Versions \cup {NoVersion}]]
    BY DEF Absent
  <2>2. pc \in [Procs -> Labels]
    BY DEF Labels
  <2>3. copy \in [Procs -> Snapshots]
    BY DEF NoCopy, Snapshots
  <2>4. seen \in [Procs -> [cipher : Versions \cup {NoVersion}, manifest : Versions \cup {NoVersion}]]
    BY DEF NothingSeen
  <2> QED BY <2>1, <2>2, <2>3, <2>4 DEF TypeOK
<1>2. StoreInv
  BY DEF StoreInv, EntryInv, Absent
<1>3. \A p \in Procs : ProcInv(p)
  BY CacheAssumption DEF ProcInv, ControlInv, WorkInv, ImportInv, ExportInv, OwnedInv,
       PreflightInv, SnapshotInv, Holding
<1> QED BY <1>1, <1>2, <1>3 DEF IndInv

LEMMA NextInv ==
  ASSUME IndInv, [Next]_vars
  PROVE  IndInv'
<1>1. CASE UNCHANGED vars
  <2>1. TypeOK' /\ StoreInv'
    BY <1>1 DEF vars, IndInv, TypeOK, StoreInv, EntryInv
  <2>2. ASSUME NEW q \in Procs PROVE ProcInv(q)'
    BY <1>1, Bystander DEF vars, IndInv, Same
  <2> QED BY <2>1, <2>2 DEF IndInv
<1>2. ASSUME NEW p \in Procs, Lock(p) \/ Kill(p) \/ Step(p) PROVE IndInv'
  BY <1>2, LockStep, RecoverStep, ReturningSteps, ListingSteps, LoadingSteps, CheckStep,
     StageStep, PublishStep, SyncStep, PreflightStep, ImportEntryStep, ExportSteps, SweepSteps
     DEF Step
<1> QED BY <1>1, <1>2, CallSteps DEF Next

\* The inductive invariant holds for any processes, digests, versions, exchanges
\* and faults.  (nix-seal-cache: lock, put_unlocked, put_artifact_by_key_unlocked,
\* recover_transactions, import_from, export_to, garbage_collect)
THEOREM CacheInductive == Spec => []IndInv
BY InitInv, NextInv, PTL DEF Spec

\* Types.
THEOREM CacheTypes == Spec => []TypeOK
<1>1. IndInv => TypeOK
  BY DEF IndInv
<1> QED BY <1>1, CacheInductive, PTL

\* Recovery never takes the transaction of a running writer.
\* (recover_transactions, Cache::lock)
THEOREM TransactionsAreOwned == Spec => []TransactionsOwned
<1>1. IndInv => TransactionsOwned
  BY DEF IndInv, ProcInv, OwnedInv, TransactionsOwned
<1> QED BY <1>1, CacheInductive, PTL

\* What the preflight of an import found holds until the last entry is
\* committed.  (import_from, preflight_destination)
THEOREM PreflightAlwaysHolds == Spec => []PreflightHolds
<1>1. IndInv => PreflightHolds
  BY DEF IndInv, ProcInv, PreflightInv, PreflightHolds
<1> QED BY <1>1, CacheInductive, PTL

\* An export copies one consistent state of the cache.  (export_to, copy_into)
THEOREM ExportIsAlwaysSnapshot == Spec => []ExportIsSnapshot
<1>1. IndInv => ExportIsSnapshot
  BY DEF IndInv, ProcInv, SnapshotInv, ExportIsSnapshot
<1> QED BY <1>1, CacheInductive, PTL

-----------------------------------------------------------------------------
(* What a step of p may do *)

Calls(p) ==
  \/ Open(p) \/ Inventory(p) \/ Export(p)
  \/ \E k \in Objects : Put(p, k)
  \/ \E k \in Artifacts : Rekey(p, k)
  \/ \E e \in Exchanges : Import(p, e)
  \/ \E execute \in BOOLEAN : Gc(p, execute)

Acts(p) == Calls(p) \/ Lock(p) \/ Step(p) \/ Kill(p)

LEMMA SomeoneActs ==
  ASSUME Next
  PROVE  \E p \in Procs : Acts(p)
BY DEF Next, Acts, Calls

\* What only the process itself changes.
Untouched(q) ==
  /\ pc'[q] = pc[q] /\ op'[q] = op[q] /\ todo'[q] = todo[q] /\ key'[q] = key[q]
  /\ val'[q] = val[q] /\ seen'[q] = seen[q] /\ retain'[q] = retain[q]
  /\ result'[q] = result[q]

\* The other processes, and the lock they may hold.
LEMMA Frame ==
  ASSUME IndInv, NEW p \in Procs, Acts(p), NEW q \in Procs \ {p}
  PROVE  Untouched(q) /\ (lock' = q <=> lock = q)
<1>1. TypeOK /\ ControlInv(p)
  BY DEF IndInv, ProcInv
<1> USE <1>1, CacheAssumption DEF Untouched, Goto, Forget, TypeOK
<1>2. CASE Reset(p) /\ \E how : result' = [result EXCEPT ![p] = how]
  BY <1>2 DEF Reset, Unlocked
<1>3. CASE Calls(p)
  BY <1>3 DEF Calls, Call, Open, Inventory, Export, Put, Rekey, Import, Gc
<1>4. CASE Lock(p)
  BY <1>4 DEF Lock, LockFree
<1>5. CASE Recovered(p) \/ ListFails(p) \/ AuthenticateRecord(p) \/ WriteFails(p) \/ Imported(p)
  BY <1>2, <1>5 DEF Recovered, ListFails, AuthenticateRecord, WriteFails, Imported, Return
<1>6. CASE Deliver(p) \/ SweepRefused(p) \/ RemovalFails(p) \/ SweepSyncFails(p) \/ Swept(p) \/ Kill(p)
  BY <1>2, <1>6 DEF Deliver, SweepRefused, RemovalFails, SweepSyncFails, Swept, Kill, Return
<1>7. CASE Recover(p) \/ List(p) \/ ReadObject(p) \/ ObjectsRead(p) \/ NotFound(p) \/ Layout(p)
  BY <1>2, <1>7 DEF Recover, List, ReadObject, ObjectsRead, NotFound, Layout, Return, local
<1>8. CASE ReadCiphertext(p) \/ ReadManifest(p) \/ Retain(p) \/ Listed(p)
  BY <1>2, <1>8 DEF ReadCiphertext, ReadManifest, Retain, Listed, Return, local
<1>9. CASE Check(p) \/ StageTxn(p) \/ Publish(p) \/ SyncDirectory(p)
  BY <1>2, <1>9 DEF Check, StageTxn, Publish, SyncDirectory, Return, local, ControlInv, Holding
<1>10. CASE Preflight(p) \/ ImportEntry(p) \/ Survey(p) \/ ExportEntry(p) \/ Exported(p)
  BY <1>2, <1>10 DEF Preflight, ImportEntry, Survey, ExportEntry, Exported, Return, local, HoldLock,
       ControlInv, Holding
<1>11. CASE SweepKept(p) \/ SweepObject(p) \/ SweepArtifact(p) \/ UnlinkManifest(p) \/ RemoveDirectory(p)
  BY <1>11 DEF SweepKept, SweepObject, SweepArtifact, UnlinkManifest, RemoveDirectory, local
<1> QED BY <1>3, <1>4, <1>5, <1>6, <1>7, <1>8, <1>9, <1>10, <1>11 DEF Acts, Step

\* The steps that change entries.
LEMMA StoreChangers ==
  ASSUME NEW p \in Procs, Acts(p)
  PROVE  \/ Publish(p) \/ SweepObject(p) \/ SweepArtifact(p) \/ UnlinkManifest(p) \/ RemoveDirectory(p)
         \/ UNCHANGED store
<1> USE DEF shared, local
<1>1. CASE Calls(p) \/ Lock(p) \/ Kill(p)
  BY <1>1 DEF Calls, Call, Open, Inventory, Export, Put, Rekey, Import, Gc, Lock, Kill
<1>2. CASE Step(p)
  BY <1>2 DEF Step, Recovered, ListFails, AuthenticateRecord, WriteFails, Imported, Deliver,
       SweepRefused, RemovalFails, SweepSyncFails, Swept, Recover, List, ReadObject, ObjectsRead,
       NotFound, Layout, ReadCiphertext, ReadManifest, Retain, Listed, Check, StageTxn,
       SyncDirectory, Preflight, ImportEntry, Survey, ExportEntry, Exported, SweepKept
<1> QED BY <1>1, <1>2 DEF Acts

\* What may happen to an entry: it appears whole, keeps what it holds, and only
\* loses members.
Preserved(k) ==
  /\ ~Visible(k) /\ store'[k].held # {} => store'[k].held = Members(k)
  /\ Visible(k) /\ store'[k].held # {} =>
       /\ store'[k].ver = store[k].ver
       /\ store'[k].held \subseteq store[k].held

LEMMA EntriesPreserved ==
  ASSUME IndInv, NEW p \in Procs, Acts(p), NEW k \in Keys
  PROVE  Preserved(k)
<1>1. TypeOK /\ ProcInv(p) /\ StoreInv
  BY DEF IndInv
<1> USE <1>1 DEF Preserved, Visible, TypeOK
<1>2. CASE UNCHANGED store
  BY <1>2
<1>3. CASE Publish(p)
  BY <1>3 DEF Publish, Whole
<1>4. CASE SweepObject(p)
  BY <1>4 DEF SweepObject, Absent
<1>5. CASE SweepArtifact(p)
  BY <1>5 DEF SweepArtifact
<1>6. CASE UnlinkManifest(p)
  BY <1>6 DEF UnlinkManifest
<1>7. CASE RemoveDirectory(p)
  BY <1>7 DEF RemoveDirectory, Absent
<1> QED BY <1>2, <1>3, <1>4, <1>5, <1>6, <1>7, StoreChangers

\* An entry appears whole, is never overwritten and only loses members.
\* (rename_noreplace, put_artifact_by_key_unlocked, remove_artifact_bundle)
THEOREM EntriesAreImmutable == Spec => EntriesImmutable
<1>1. IndInv /\ [Next]_vars => [\A k \in Keys : Preserved(k)]_vars
  BY SomeoneActs, EntriesPreserved
<1>2. (\A k \in Keys : Preserved(k)) =>
        \A k \in Keys :
          /\ ~Visible(k) /\ store'[k].held # {} => store'[k].held = Members(k)
          /\ Visible(k) /\ store'[k].held # {} =>
               /\ store'[k].ver = store[k].ver
               /\ store'[k].held \subseteq store[k].held
  BY DEF Preserved
<1> QED BY <1>1, <1>2, CacheInductive, PTL DEF Spec, EntriesImmutable

-----------------------------------------------------------------------------
(* No partial entry *)

\* With removals that are not interrupted, a bundle is incomplete only while it is
\* being removed.
LEMMA PartialStep ==
  ASSUME "remove" \notin Faults, IndInv, PartialInv, Next
  PROVE  PartialInv'
<1>1. PICK p \in Procs : Acts(p)
  BY SomeoneActs
<1>2. TypeOK /\ ProcInv(p) /\ StoreInv
  BY DEF IndInv
<1>3. SUFFICES ASSUME NEW k \in Keys, Visible(k)', ~Sound(k)'
               PROVE  \E q \in Procs : pc'[q] \in {"unlink", "rmdir"} /\ key'[q] = k
  BY DEF PartialInv
<1>4. CASE SweepArtifact(p)
  <2>1. PICK a \in Artifacts : /\ store' = [store EXCEPT ![a].held = @ \ {"ciphertext"}]
                               /\ key' = [key EXCEPT ![p] = a]
                               /\ pc' = [pc EXCEPT ![p] = "unlink"]
    BY <1>4 DEF SweepArtifact, Goto
  <2>2. CASE k = a
    BY <1>2, <2>1, <2>2 DEF TypeOK
  <2>3. CASE k # a
    <3>1. Visible(k) /\ ~Sound(k)
      BY <1>2, <1>3, <2>1, <2>3 DEF TypeOK, Visible, Sound
    <3>2. PICK q \in Procs : pc[q] \in {"unlink", "rmdir"} /\ key[q] = k
      BY <3>1 DEF PartialInv
    <3>3. q # p
      BY <1>4, <3>2 DEF SweepArtifact
    <3> QED BY <1>2, <2>1, <3>2, <3>3 DEF TypeOK
  <2> QED BY <2>2, <2>3
<1>5. CASE UnlinkManifest(p)
  <2>1. pc' = [pc EXCEPT ![p] = "rmdir"] /\ UNCHANGED key
    BY <1>5 DEF UnlinkManifest, Goto, local
  <2>2. CASE k = key[p]
    BY <1>2, <2>1, <2>2 DEF TypeOK
  <2>3. CASE k # key[p]
    <3>1. Visible(k) /\ ~Sound(k)
      BY <1>2, <1>3, <1>5, <2>3 DEF TypeOK, Visible, Sound, UnlinkManifest
    <3> QED BY <1>2, <2>1, <3>1 DEF PartialInv, TypeOK
  <2> QED BY <2>2, <2>3
<1>6. CASE RemoveDirectory(p)
  <2>1. k # key[p] /\ Visible(k) /\ ~Sound(k)
    BY <1>2, <1>3, <1>6 DEF TypeOK, Visible, Sound, RemoveDirectory, Absent
  <2>2. PICK q \in Procs : pc[q] \in {"unlink", "rmdir"} /\ key[q] = k
    BY <2>1 DEF PartialInv
  <2> QED BY <1>2, <1>6, <2>1, <2>2 DEF TypeOK, RemoveDirectory, Goto
<1>7. CASE Publish(p) \/ SweepObject(p) \/ UNCHANGED store
  <2>1. Visible(k) /\ ~Sound(k)
    BY <1>2, <1>3, <1>7 DEF TypeOK, Visible, Sound, Publish, Whole, SweepObject, Absent
  <2>2. PICK q \in Procs : pc[q] \in {"unlink", "rmdir"} /\ key[q] = k
    BY <2>1 DEF PartialInv
  <2>3. CASE q # p
    BY <1>1, <2>2, <2>3, Frame DEF Untouched
  <2>4. CASE q = p
    <3>1. UnlinkManifest(p) \/ RemoveDirectory(p)
      <4>1. ~Kill(p) /\ ~RemovalFails(p)
        BY <2>2, <2>4 DEF Kill, RemovalFails, Fails
      <4>2. ~Calls(p) /\ ~Lock(p)
        BY <2>2, <2>4 DEF Calls, Call, Open, Inventory, Export, Put, Rekey, Import, Gc, Lock
      <4>3. Step(p)
        BY <1>1, <4>1, <4>2 DEF Acts
      <4> QED
        BY <2>2, <2>4, <4>1, <4>3 DEF Step, Dirs, Recovered, ListFails, AuthenticateRecord, WriteFails, Imported, Deliver,
       SweepRefused, SweepSyncFails, Swept, Recover, List, ReadObject, ObjectsRead,
       NotFound, Layout, ReadCiphertext, ReadManifest, Retain, Listed, Check, StageTxn, Publish,
       SyncDirectory, Preflight, ImportEntry, Survey, ExportEntry, Exported, SweepKept, SweepObject, SweepArtifact
    <3>2. CASE UnlinkManifest(p)
      BY <1>5, <3>2
    <3>3. CASE RemoveDirectory(p)
      BY <1>6, <3>3
    <3> QED BY <3>1, <3>2, <3>3
  <2> QED BY <2>3, <2>4
<1> QED BY <1>1, <1>4, <1>5, <1>6, <1>7, StoreChangers

\* While nobody holds the lock every entry is complete, whoever was killed or
\* failed before, as long as removals are not interrupted half way.
\* (put_artifact_by_key_unlocked, recover_transactions, remove_artifact_bundle)
THEOREM NeverPartialEntry ==
  ASSUME "remove" \notin Faults
  PROVE  Spec => []NoPartialEntry
<1>1. Init => PartialInv
  BY DEF Init, PartialInv, Visible, Absent
<1>2. IndInv /\ PartialInv /\ [Next]_vars => PartialInv'
  <2>1. CASE UNCHANGED vars
    BY <2>1 DEF vars, PartialInv, Visible, Sound
  <2> QED BY <2>1, PartialStep
<1>3. IndInv /\ PartialInv => NoPartialEntry
  BY CacheAssumption DEF IndInv, ProcInv, ControlInv, PartialInv, NoPartialEntry, Holding
<1> QED BY <1>1, <1>2, <1>3, CacheInductive, PTL DEF Spec

-----------------------------------------------------------------------------
(* Rekey *)

\* A rekey ends with success only where it has authenticated a record.
LEMMA RekeyEnds ==
  ASSUME IndInv, Next, NEW p \in Procs, RekeyReturns(p)
  PROVE  pc[p] = "loaded" /\ Authentic(p) /\ UNCHANGED store
<1>1. PICK q \in Procs : Acts(q)
  BY SomeoneActs
<1>2. TypeOK /\ ControlInv(p)
  BY DEF IndInv, ProcInv
<1>3. q = p
  BY <1>1, <1>2, Frame DEF RekeyReturns, Untouched
<1>4. op[p] = "rekey" /\ op'[p] = "none" /\ result'[p] = "ok"
  BY DEF RekeyReturns
<1>5. op'[p] # op[p] /\ pc[p] # "idle"
  BY <1>2, <1>4 DEF ControlInv
<1>6. ~Calls(p) /\ ~Lock(p) /\ ~Kill(p)
  BY <1>2, <1>4, <1>5 DEF Calls, Call, Open, Inventory, Export, Put, Rekey, Import, Gc, Lock, Kill, TypeOK
<1>7. \A how : Return(p, how) => how = "ok"
  BY <1>2, <1>4 DEF Return, TypeOK
<1>8. Step(p)
  BY <1>1, <1>3, <1>6 DEF Acts
<1>9. AuthenticateRecord(p)
  <2>1. ~(Recover(p) \/ List(p) \/ ObjectsRead(p) \/ Retain(p) \/ StageTxn(p) \/ Publish(p)
          \/ ImportEntry(p) \/ ExportEntry(p) \/ Exported(p) \/ SweepKept(p) \/ SweepObject(p)
          \/ SweepArtifact(p) \/ UnlinkManifest(p) \/ RemoveDirectory(p))
    BY <1>5 DEF Recover, List, ObjectsRead, Retain, StageTxn, Publish, ImportEntry, ExportEntry,
         Exported, SweepKept, SweepObject, SweepArtifact, UnlinkManifest, RemoveDirectory
  <2>2. ~(ListFails(p) \/ ReadObject(p) \/ NotFound(p) \/ Layout(p) \/ ReadCiphertext(p)
          \/ ReadManifest(p) \/ WriteFails(p) \/ Preflight(p) \/ Survey(p) \/ SweepRefused(p)
          \/ RemovalFails(p) \/ SweepSyncFails(p))
    BY <1>5, <1>7 DEF ListFails, ReadObject, NotFound, Layout, ReadCiphertext, ReadManifest,
         WriteFails, Preflight, Survey, SweepRefused, RemovalFails, SweepSyncFails
  <2>3. ~(Recovered(p) \/ Listed(p) \/ Imported(p) \/ Deliver(p) \/ Swept(p))
    BY <1>2, <1>4 DEF ControlInv, Recovered, Listed, Imported, Deliver, Swept
  <2>4. ~(Check(p) \/ SyncDirectory(p))
    BY <1>4, <1>5, <1>7 DEF Check, SyncDirectory
  <2> QED BY <1>8, <2>1, <2>2, <2>3, <2>4 DEF Step
<1> QED BY <1>7, <1>9 DEF AuthenticateRecord, shared

-----------------------------------------------------------------------------
(* What a collection and a rekey know *)

\* The steps a collection or a rekey has been through when it knows something.
Knowing == {"load", "cipher", "manifest", "loaded", "lock"}

\* How the history grows.
LEMMA SinceGrows ==
  ASSUME HNext, NEW q \in Procs
  PROVE  /\ op'[q] = "gc" /\ ~Lists(q) => since'[q] = since[q] \cup Published
         /\ op'[q] = "rekey" => since'[q] = since[q] \cup Removed
BY DEF HNext

\* An entry that is complete and was not just published was already complete; one
\* that was complete and lost nothing still is.
LEMMA StaysSound ==
  ASSUME IndInv, Next, NEW k \in Keys
  PROVE  /\ k \notin Published /\ Sound(k)' => Sound(k) /\ store'[k].ver = store[k].ver
         /\ k \notin Removed /\ Sound(k) => Sound(k)' /\ store'[k].ver = store[k].ver
<1>1. Preserved(k)
  BY SomeoneActs, EntriesPreserved
<1>2. Members(k) # {} /\ store[k].held \subseteq Members(k)
  BY DEF IndInv, StoreInv, EntryInv, Members
<1> QED BY <1>1, <1>2 DEF Preserved, Published, Removed, Sound, Visible

\* What a collection knows of the entries it did not see published survives a
\* step that forgets nothing.
LEMMA StillKnown ==
  ASSUME IndInv, HNext, NEW q \in Procs, KnownInv(q), op'[q] = op[q], ~Lists(q),
         lock = q \/ pc[q] \in Knowing, retain[q] \subseteq retain'[q],
         lock' = q => lock = q \/ todo[q] = {},
         lock' # q => lock # q /\ todo[q] \subseteq todo'[q]
  PROVE  KnownInv(q)'
<1>1. SUFFICES ASSUME op'[q] = "gc", NEW k \in Active, k \notin since'[q], Sound(k)',
                      store'[k].ver \in Signed
               PROVE  k \in retain'[q] \/ (lock' # q /\ k \in todo'[q])
  BY DEF KnownInv, SameAs
<1>2. k \notin since[q] /\ k \notin Published /\ k \in Keys
  BY <1>1, SinceGrows, CacheAssumption DEF Keys
<1>3. Sound(k) /\ store'[k].ver = store[k].ver
  BY <1>1, <1>2, StaysSound DEF HNext
<1>4. k \in retain[q] \/ (lock # q /\ k \in todo[q])
  BY <1>1, <1>2, <1>3 DEF KnownInv, SameAs, Knowing
<1> QED BY <1>1, <1>4

\* Others may remove and publish entries, but the history says so.
LEMMA OthersKnow ==
  ASSUME IndInv, HNext, NEW p \in Procs, Acts(p), NEW q \in Procs \ {p}, ReadInv(q), KnownInv(q)
  PROVE  ReadInv(q)' /\ KnownInv(q)'
<1>1. Untouched(q) /\ (lock' = q <=> lock = q) /\ ProcInv(q) /\ ControlInv(q)
  BY Frame DEF IndInv, ProcInv
<1>2. ~Lists(q)
  BY <1>1 DEF Lists, Untouched
<1>3. CASE op[q] = "gc"
  <2>1. KnownInv(q)'
    <3>1. CASE lock = q \/ pc[q] \in Knowing
      BY <1>1, <1>2, <3>1, StillKnown DEF Untouched
    <3>2. CASE ~(lock = q \/ pc[q] \in Knowing)
      BY <1>1, <3>2 DEF Untouched, KnownInv, Knowing
    <3> QED BY <3>1, <3>2
  <2>2. ReadInv(q)'
    <3>1. SUFFICES ASSUME key'[q] \notin since'[q], pc'[q] \in {"manifest", "loaded"}, Sound(key[q])'
                   PROVE  /\ seen'[q].cipher = store'[key[q]].ver
                          /\ pc'[q] = "loaded" => seen'[q].manifest = store'[key[q]].ver
      BY <1>1, <1>3 DEF ReadInv, Untouched, Sound
    <3>2. key[q] \in Keys
      BY <1>1, <1>3, <3>1 DEF ProcInv, WorkInv, Untouched, Keys
    <3>3. key[q] \notin since[q] /\ key[q] \notin Published
      BY <1>1, <1>2, <1>3, <3>1, SinceGrows DEF Untouched
    <3>4. Sound(key[q]) /\ store'[key[q]].ver = store[key[q]].ver
      BY <1>1, <3>1, <3>2, <3>3, StaysSound DEF HNext, Sound, Untouched
    <3> QED BY <1>1, <1>3, <3>1, <3>3, <3>4 DEF ReadInv, Untouched
  <2> QED BY <2>1, <2>2
<1>4. CASE op[q] = "rekey"
  <2>1. KnownInv(q)'
    BY <1>1, <1>4 DEF Untouched, KnownInv
  <2>2. ReadInv(q)'
    <3>1. SUFFICES ASSUME key'[q] \notin since'[q],
                          pc'[q] \in {"cipher", "manifest", "loaded", "fsync"}
                   PROVE  /\ Sound(key[q])'
                          /\ pc'[q] = "fsync" => store'[key[q]].ver = val'[q]
                          /\ pc'[q] \in {"manifest", "loaded"} => seen'[q].cipher = store'[key[q]].ver
      BY <1>1, <1>4 DEF ReadInv, Untouched, Sound, SameAs
    <3>2. key[q] \in Keys
      BY <1>1, <1>4 DEF ProcInv, WorkInv, Keys
    <3>3. key[q] \notin since[q] /\ key[q] \notin Removed
      BY <1>1, <1>4, <3>1, SinceGrows DEF Untouched
    <3>4. Sound(key[q])
      BY <1>1, <1>4, <3>1, <3>3 DEF ReadInv, Untouched, SameAs
    <3>5. Sound(key[q])' /\ store'[key[q]].ver = store[key[q]].ver
      <4>1. Sound(key[q])' = (store'[key[q]].held = Members(key[q]))
        BY <1>1 DEF Sound, Members, Untouched
      <4> QED BY <3>2, <3>3, <3>4, StaysSound, <4>1 DEF HNext, Sound
    <3> QED BY <1>1, <1>4, <3>1, <3>3, <3>5 DEF ReadInv, Untouched, SameAs
  <2> QED BY <2>1, <2>2
<1>5. CASE op[q] \notin {"gc", "rekey"}
  BY <1>1, <1>5 DEF ReadInv, KnownInv, Untouched
<1> QED BY <1>3, <1>4, <1>5

\* The steps that begin or end an operation, and those of other operations, leave
\* nothing to know.
LEMMA NothingKnown ==
  ASSUME NEW p \in Procs,
         \/ op'[p] \notin {"gc", "rekey"}
         \/ op'[p] = "gc" /\ lock' # p /\ pc'[p] \in {"artifacts"}
         \/ op'[p] = "rekey" /\ pc'[p] \in {"find", "lock", "check", "stage", "write"}
  PROVE  ReadInv(p)' /\ KnownInv(p)'
BY DEF ReadInv, KnownInv

\* A collection that holds the lock goes on knowing what it knew.
LEMMA CollectorKnows ==
  ASSUME IndInv, HNext, NEW p \in Procs, KnownInv(p), op[p] = "gc", op'[p] = "gc", lock = p, lock' = p,
         pc'[p] \in {"sweep", "unlink", "rmdir"}, UNCHANGED retain
  PROVE  ReadInv(p)' /\ KnownInv(p)'
<1>1. ~Lists(p)
  BY DEF Lists
<1>2. KnownInv(p)'
  BY <1>1, StillKnown
<1> QED BY <1>2 DEF ReadInv

\* The steps of a collection while it reads.
LEMMA ReaderKnows ==
  ASSUME IndInv, HNext, NEW p \in Procs, ReadInv(p), KnownInv(p), op[p] = "gc",
         List(p) \/ Layout(p) \/ ReadCiphertext(p) \/ ReadManifest(p) \/ Retain(p) \/ Listed(p) \/ Lock(p)
  PROVE  ReadInv(p)' /\ KnownInv(p)'
<1>1. TypeOK /\ ProcInv(p) /\ ControlInv(p) /\ WorkInv(p) /\ p # NoProc
  BY CacheAssumption DEF IndInv, ProcInv
<1> USE DEF shared, local, Goto
<1>2. CASE \E how : Return(p, how)
  BY <1>1, <1>2, NothingKnown DEF Return, Reset, TypeOK
<1>3. CASE List(p)
  <2>1. /\ pc[p] = "artifacts" /\ pc'[p] = "load" /\ lock # p /\ lock' # p /\ UNCHANGED store
        /\ todo'[p] = KeysIn("artifacts")
    BY <1>1, <1>3 DEF List, Dirs, ControlInv, Holding, TypeOK
  <2>2. Active \subseteq Artifacts /\ Artifacts \cap Objects = {} /\ Artifacts \subseteq Keys
    BY CacheAssumption DEF Keys
  <2>3. ASSUME NEW k \in Active, Sound(k)' PROVE k \in todo'[p]
    BY <2>1, <2>2, <2>3 DEF Sound, Members, KeysIn, DirOf, Visible
  <2> QED BY <2>1, <2>3 DEF ReadInv, KnownInv, SameAs
<1>4. CASE Layout(p) /\ ~\E how : Return(p, how)
  <2>1. /\ pc[p] = "load" /\ pc'[p] = "cipher" /\ UNCHANGED <<store, op, todo, retain, lock>>
    BY <1>1, <1>4 DEF Layout, ControlInv, TypeOK
  <2>2. ~Lists(p) /\ lock # p
    BY <1>1, <2>1 DEF Lists, ControlInv, Holding
  <2>3. KnownInv(p)'
    BY <2>1, <2>2, StillKnown DEF Knowing
  <2> QED BY <2>1, <2>3 DEF ReadInv
<1>5. CASE ReadCiphertext(p) /\ ~\E how : Return(p, how)
  <2>1. /\ pc[p] = "cipher" /\ pc'[p] = "manifest" /\ UNCHANGED <<store, op, todo, retain, lock, key>>
        /\ seen'[p].cipher = store[key[p]].ver
    BY <1>1, <1>5 DEF ReadCiphertext, ControlInv, TypeOK
  <2>2. ~Lists(p) /\ lock # p
    BY <1>1, <2>1 DEF Lists, ControlInv, Holding
  <2>3. KnownInv(p)'
    BY <2>1, <2>2, StillKnown DEF Knowing
  <2> QED BY <2>1, <2>3 DEF ReadInv
<1>6. CASE ReadManifest(p) /\ ~\E how : Return(p, how)
  <2>1. /\ pc[p] = "manifest" /\ pc'[p] = "loaded" /\ UNCHANGED <<store, op, todo, retain, lock, key>>
        /\ seen'[p].manifest = store[key[p]].ver /\ seen'[p].cipher = seen[p].cipher
    BY <1>1, <1>6 DEF ReadManifest, ControlInv, TypeOK
  <2>2. ~Lists(p) /\ lock # p /\ since[p] \subseteq since'[p]
    BY <1>1, <2>1, SinceGrows DEF Lists, ControlInv, Holding
  <2>3. KnownInv(p)'
    BY <2>1, <2>2, StillKnown DEF Knowing
  <2> QED BY <2>1, <2>2, <2>3 DEF ReadInv, Sound
<1>7. CASE Retain(p)
  <2>1. /\ pc[p] = "loaded" /\ pc'[p] = "load" /\ UNCHANGED <<store, op, lock, key>>
        /\ todo'[p] = todo[p] \ {key[p]}
        /\ retain'[p] = IF KeepsRecord(p) THEN retain[p] \cup {key[p]} ELSE retain[p]
    BY <1>1, <1>7 DEF Retain, Forget, ControlInv, TypeOK
  <2>2. ~Lists(p) /\ lock # p /\ since[p] \subseteq since'[p]
    BY <1>1, <2>1, SinceGrows DEF Lists, ControlInv, Holding
  <2>3. ASSUME NEW k \in Active \ since'[p], Sound(k), store[k].ver \in Signed
        PROVE  k \in retain'[p] \/ k \in todo'[p]
    <3>1. k \in retain[p] \/ k \in todo[p]
      BY <2>1, <2>2, <2>3 DEF KnownInv, SameAs
    <3>2. CASE k = key[p]
      <4>1. seen[p].cipher = store[k].ver /\ seen[p].manifest = store[k].ver
        BY <2>1, <2>2, <2>3, <3>2 DEF ReadInv
      <4> QED BY <2>1, <2>3, <3>2, <4>1 DEF KeepsRecord, Authentic
    <3>3. CASE k # key[p]
      BY <2>1, <3>1, <3>3
    <3> QED BY <3>2, <3>3
  <2>4. KnownInv(p)'
    BY <2>1, <2>2, <2>3 DEF KnownInv, SameAs, Sound
  <2> QED BY <2>1, <2>4 DEF ReadInv
<1>8. CASE Listed(p)
  <2>1. /\ pc[p] = "load" /\ pc'[p] = "lock" /\ UNCHANGED <<store, op, todo, retain, lock>>
    BY <1>1, <1>8 DEF Listed, TypeOK
  <2>2. ~Lists(p) /\ lock # p
    BY <1>1, <2>1 DEF Lists, ControlInv, Holding
  <2>3. KnownInv(p)'
    BY <2>1, <2>2, StillKnown DEF Knowing
  <2> QED BY <2>1, <2>3 DEF ReadInv
<1>9. CASE Lock(p)
  <2>1. /\ pc[p] = "lock" /\ pc'[p] = "sweep" /\ lock' = p /\ todo[p] = {} /\ UNCHANGED <<store, op, retain>>
    BY <1>1, <1>9 DEF Lock, AfterLock, WorkInv, TypeOK
  <2>2. KnownInv(p)'
    BY <2>1, StillKnown DEF Knowing, Lists
  <2> QED BY <2>1, <2>2 DEF ReadInv
<1> QED BY <1>2, <1>3, <1>4, <1>5, <1>6, <1>7, <1>8, <1>9

\* The steps of a rekey.
LEMMA RekeyKnows ==
  ASSUME IndInv, HNext, NEW p \in Procs, ReadInv(p), op[p] = "rekey",
         \/ NotFound(p) \/ Layout(p) \/ ReadCiphertext(p) \/ ReadManifest(p)
         \/ Lock(p) \/ Check(p) \/ StageTxn(p) \/ Publish(p) \/ SyncDirectory(p)
  PROVE  ReadInv(p)' /\ KnownInv(p)'
<1>1. TypeOK /\ ProcInv(p) /\ ControlInv(p) /\ WorkInv(p) /\ p # NoProc /\ key[p] \in Keys
  BY CacheAssumption DEF IndInv, ProcInv, WorkInv, Keys
<1> USE DEF shared, local, Goto
<1>2. CASE \E how : Return(p, how)
  BY <1>1, <1>2, NothingKnown DEF Return, Reset, TypeOK
<1>3. CASE NotFound(p) /\ ~\E how : Return(p, how)
  <2>1. pc'[p] = "lock" /\ op'[p] = "rekey"
    BY <1>1, <1>3 DEF NotFound, TypeOK
  <2> QED BY <2>1, NothingKnown
<1>4. CASE Layout(p) /\ ~\E how : Return(p, how)
  <2>1. pc'[p] = "cipher" /\ UNCHANGED <<store, op>> /\ Sound(key[p]) /\ key'[p] = key[p]
    BY <1>1, <1>4 DEF Layout, ControlInv, TypeOK
  <2> QED BY <2>1 DEF ReadInv, KnownInv, Sound
<1>5. CASE ReadCiphertext(p) /\ ~\E how : Return(p, how)
  <2>1. /\ pc[p] = "cipher" /\ pc'[p] = "manifest" /\ UNCHANGED <<store, op, key>>
        /\ seen'[p].cipher = store[key[p]].ver
    BY <1>1, <1>5 DEF ReadCiphertext, TypeOK
  <2>2. since[p] \subseteq since'[p]
    BY <2>1, SinceGrows
  <2> QED BY <2>1, <2>2 DEF ReadInv, KnownInv, Sound
<1>6. CASE ReadManifest(p) /\ ~\E how : Return(p, how)
  <2>1. /\ pc[p] = "manifest" /\ pc'[p] = "loaded" /\ UNCHANGED <<store, op, key>>
        /\ seen'[p].cipher = seen[p].cipher
    BY <1>1, <1>6 DEF ReadManifest, TypeOK
  <2>2. since[p] \subseteq since'[p]
    BY <2>1, SinceGrows
  <2> QED BY <2>1, <2>2 DEF ReadInv, KnownInv, Sound
<1>7. CASE Lock(p)
  <2>1. pc'[p] = "check" /\ op'[p] = "rekey"
    BY <1>1, <1>7 DEF Lock, AfterLock, TypeOK
  <2> QED BY <2>1, NothingKnown
<1>8. CASE Check(p) /\ ~\E how : Return(p, how)
  <2>1. pc'[p] \in {"stage", "find"} /\ op'[p] = "rekey"
    BY <1>1, <1>8 DEF Check, TypeOK
  <2> QED BY <2>1, NothingKnown
<1>9. CASE StageTxn(p)
  <2>1. pc'[p] = "write" /\ op'[p] = "rekey"
    BY <1>1, <1>9 DEF StageTxn, TypeOK
  <2> QED BY <2>1, NothingKnown
<1>10. CASE Publish(p)
  <2>1. /\ pc'[p] = "fsync" /\ UNCHANGED <<op, key, val>>
        /\ store'[key[p]] = Whole(key[p], val[p])
    BY <1>1, <1>10 DEF Publish, TypeOK
  <2> QED BY <2>1 DEF ReadInv, KnownInv, SameAs, Sound, Whole
<1>11. CASE SyncDirectory(p) /\ ~\E how : Return(p, how)
  <2>1. /\ pc[p] = "fsync" /\ pc'[p] = "loaded" /\ UNCHANGED <<store, op, key>>
        /\ seen'[p].cipher = val[p]
    BY <1>1, <1>11 DEF SyncDirectory, TypeOK
  <2>2. since[p] \subseteq since'[p]
    BY <2>1, SinceGrows
  <2> QED BY <2>1, <2>2 DEF ReadInv, KnownInv, SameAs, Sound
<1> QED BY <1>2, <1>3, <1>4, <1>5, <1>6, <1>7, <1>8, <1>9, <1>10, <1>11

\* The steps a collection takes, apart from those that return.
LEMMA GcSteps ==
  ASSUME IndInv, NEW p \in Procs, Acts(p), op[p] = "gc", op'[p] # "none"
  PROVE  \/ List(p) \/ Layout(p) \/ ReadCiphertext(p) \/ ReadManifest(p) \/ Retain(p) \/ Listed(p) \/ Lock(p)
         \/ SweepKept(p) \/ SweepObject(p) \/ SweepArtifact(p) \/ UnlinkManifest(p) \/ RemoveDirectory(p)
<1>1. ControlInv(p) /\ TypeOK
  BY DEF IndInv, ProcInv
<1>2. ~Reset(p)
  BY <1>1 DEF Reset, TypeOK
<1>3. ~Calls(p)
  BY <1>1 DEF Calls, Call, Open, Inventory, Export, Put, Rekey, Import, Gc, ControlInv
<1>4. ~Kill(p)
  BY <1>2 DEF Kill
<1>5. ~(Recover(p) \/ Recovered(p) \/ ListFails(p) \/ ReadObject(p) \/ ObjectsRead(p) \/ NotFound(p)
        \/ AuthenticateRecord(p) \/ Check(p) \/ StageTxn(p) \/ WriteFails(p) \/ Publish(p) \/ SyncDirectory(p))
  BY <1>1, <1>2 DEF ControlInv, Recover, Recovered, ListFails, ReadObject, ObjectsRead, NotFound,
       AuthenticateRecord, Check, StageTxn, WriteFails, Publish, SyncDirectory, Return
<1>6. ~(Preflight(p) \/ ImportEntry(p) \/ Imported(p) \/ Survey(p) \/ ExportEntry(p) \/ Exported(p) \/ Deliver(p)
        \/ SweepRefused(p) \/ RemovalFails(p) \/ SweepSyncFails(p) \/ Swept(p))
  BY <1>1, <1>2 DEF ControlInv, Preflight, ImportEntry, Imported, Survey, ExportEntry, Exported, Deliver,
       SweepRefused, RemovalFails, SweepSyncFails, Swept, Return
<1> QED BY <1>3, <1>4, <1>5, <1>6 DEF Acts, Step

\* The steps a rekey takes, apart from those that return.
LEMMA RekeySteps ==
  ASSUME IndInv, NEW p \in Procs, Acts(p), op[p] = "rekey", op'[p] # "none"
  PROVE  \/ NotFound(p) \/ Layout(p) \/ ReadCiphertext(p) \/ ReadManifest(p)
         \/ Lock(p) \/ Check(p) \/ StageTxn(p) \/ Publish(p) \/ SyncDirectory(p)
<1>1. ControlInv(p) /\ TypeOK
  BY DEF IndInv, ProcInv
<1>2. ~Reset(p)
  BY <1>1 DEF Reset, TypeOK
<1>3. ~Calls(p)
  BY <1>1 DEF Calls, Call, Open, Inventory, Export, Put, Rekey, Import, Gc, ControlInv
<1>4. ~Kill(p)
  BY <1>2 DEF Kill
<1>5. ~(Recover(p) \/ Recovered(p) \/ ListFails(p) \/ List(p) \/ ReadObject(p) \/ ObjectsRead(p)
        \/ AuthenticateRecord(p) \/ Retain(p) \/ Listed(p) \/ WriteFails(p))
  BY <1>1, <1>2 DEF ControlInv, Recover, Recovered, ListFails, List, ReadObject, ObjectsRead,
       AuthenticateRecord, Retain, Listed, WriteFails, Return, Dirs
<1>6. ~(Preflight(p) \/ ImportEntry(p) \/ Imported(p) \/ Survey(p) \/ ExportEntry(p) \/ Exported(p) \/ Deliver(p)
        \/ SweepRefused(p) \/ SweepKept(p) \/ SweepObject(p) \/ SweepArtifact(p) \/ UnlinkManifest(p)
        \/ RemoveDirectory(p) \/ RemovalFails(p) \/ SweepSyncFails(p) \/ Swept(p))
  BY <1>1, <1>2 DEF ControlInv, Preflight, ImportEntry, Imported, Survey, ExportEntry, Exported, Deliver,
       SweepRefused, SweepKept, SweepObject, SweepArtifact, UnlinkManifest, RemoveDirectory,
       RemovalFails, SweepSyncFails, Swept, Return
<1> QED BY <1>3, <1>4, <1>5, <1>6 DEF Acts, Step

\* The steps that leave p in the operation it was in, or start another.
LEMMA OperationKept ==
  ASSUME IndInv, NEW p \in Procs, Acts(p), ~Calls(p)
  PROVE  op'[p] \in {"none", op[p]}
<1>1. TypeOK
  BY DEF IndInv
<1>2. CASE Reset(p)
  BY <1>1, <1>2 DEF Reset, TypeOK
<1>3. CASE UNCHANGED op
  BY <1>3
<1>4. Reset(p) \/ UNCHANGED op
  <2>1. CASE Lock(p) \/ Kill(p)
    BY <2>1 DEF Lock, Kill
  <2>2. CASE \/ Recover(p) \/ Recovered(p) \/ ListFails(p) \/ List(p) \/ ReadObject(p) \/ ObjectsRead(p)
             \/ NotFound(p) \/ Layout(p) \/ ReadCiphertext(p) \/ ReadManifest(p)
             \/ AuthenticateRecord(p) \/ Retain(p) \/ Listed(p)
    BY <2>2 DEF Recover, Recovered, ListFails, List, ReadObject, ObjectsRead, NotFound, Layout,
         ReadCiphertext, ReadManifest, AuthenticateRecord, Retain, Listed, Return
  <2>3. CASE \/ Check(p) \/ StageTxn(p) \/ WriteFails(p) \/ Publish(p) \/ SyncDirectory(p)
             \/ Preflight(p) \/ ImportEntry(p) \/ Imported(p)
             \/ Survey(p) \/ ExportEntry(p) \/ Exported(p) \/ Deliver(p)
    BY <2>3 DEF Check, StageTxn, WriteFails, Publish, SyncDirectory, Preflight, ImportEntry, Imported,
         Survey, ExportEntry, Exported, Deliver, Return
  <2>4. CASE \/ SweepRefused(p) \/ SweepKept(p) \/ SweepObject(p) \/ SweepArtifact(p)
             \/ UnlinkManifest(p) \/ RemoveDirectory(p) \/ RemovalFails(p)
             \/ SweepSyncFails(p) \/ Swept(p)
    BY <2>4 DEF SweepRefused, SweepKept, SweepObject, SweepArtifact, UnlinkManifest, RemoveDirectory,
         RemovalFails, SweepSyncFails, Swept, Return
  <2> QED BY <2>1, <2>2, <2>3, <2>4 DEF Acts, Step
<1> QED BY <1>2, <1>3, <1>4

LEMMA HistoryStep ==
  ASSUME IndInv, HistoryInv, HNext
  PROVE  HistoryInv'
<1>1. PICK p \in Procs : Acts(p)
  BY SomeoneActs DEF HNext
<1>2. ASSUME NEW q \in Procs \ {p} PROVE ReadInv(q)' /\ KnownInv(q)'
  BY <1>1, <1>2, OthersKnow DEF HistoryInv
<1>3. TypeOK /\ ControlInv(p) /\ ReadInv(p) /\ KnownInv(p) /\ op[p] \in OpKinds \cup {"none"}
  BY DEF IndInv, ProcInv, HistoryInv, TypeOK
<1>4. ReadInv(p)' /\ KnownInv(p)'
  <2>1. CASE Calls(p)
    <3>1. \/ op'[p] \notin {"gc", "rekey"}
          \/ op'[p] = "gc" /\ lock' # p /\ pc'[p] \in {"artifacts"}
          \/ op'[p] = "rekey" /\ pc'[p] \in {"find"}
      BY <1>3, <2>1 DEF Calls, Call, Open, Inventory, Export, Put, Rekey, Import, Gc, Goto, TypeOK,
           ControlInv, Holding
    <3> QED BY <3>1, NothingKnown
  <2>2. CASE op'[p] = "none"
    BY <2>2, NothingKnown
  <2>3. CASE ~Calls(p) /\ op'[p] # "none" /\ op[p] = "gc"
    <3>1. op'[p] = "gc"
      BY <1>1, <2>3, OperationKept
    <3>2. CASE \/ SweepKept(p) \/ SweepObject(p) \/ SweepArtifact(p) \/ UnlinkManifest(p)
               \/ RemoveDirectory(p)
      <4>1. lock = p /\ lock' = p /\ pc'[p] \in {"sweep", "unlink", "rmdir"} /\ UNCHANGED retain
        BY <1>3, <3>2 DEF SweepKept, SweepObject, SweepArtifact, UnlinkManifest, RemoveDirectory,
             ControlInv, Holding, Goto, TypeOK, local
      <4> QED BY <1>3, <2>3, <3>1, <4>1, CollectorKnows
    <3> QED BY <1>1, <1>3, <2>3, <3>2, GcSteps, ReaderKnows
  <2>4. CASE ~Calls(p) /\ op'[p] # "none" /\ op[p] = "rekey"
    BY <1>1, <1>3, <2>4, RekeySteps, RekeyKnows
  <2>5. CASE ~Calls(p) /\ op[p] \notin {"gc", "rekey"}
    <3>1. op'[p] \notin {"gc", "rekey"}
      BY <1>1, <2>5, OperationKept
    <3> QED BY <3>1, NothingKnown
  <2> QED BY <2>1, <2>2, <2>3, <2>4, <2>5
<1> QED BY <1>2, <1>4 DEF HistoryInv

\* The history changes nothing of the behaviour, so what holds of Spec holds here.
LEMMA HistoryInductive == HSpec => [](IndInv /\ HistoryInv)
<1>1. HSpec => Spec
  <2>1. HInit => Init
    BY DEF HInit
  <2>2. [HNext]_<<vars, since>> => [Next]_vars
    BY DEF HNext
  <2> QED BY <2>1, <2>2, PTL DEF HSpec, Spec
<1>2. HInit => HistoryInv
  BY CacheAssumption DEF HInit, Init, HistoryInv, ReadInv, KnownInv
<1>3. IndInv /\ HistoryInv /\ [HNext]_<<vars, since>> => HistoryInv'
  <2>1. CASE UNCHANGED <<vars, since>>
    BY <2>1 DEF vars, HistoryInv, ReadInv, KnownInv, Sound, SameAs
  <2> QED BY <2>1, HistoryStep
<1> QED BY <1>1, <1>2, <1>3, CacheInductive, PTL DEF HSpec

\* A collection that holds the lock keeps every authentic artifact of the policy
\* that was there when it listed the cache, whatever readers and writers did while
\* it authenticated without the lock.  (cache_gc, garbage_collect)
THEOREM GcAlwaysRetainsKnown == HSpec => []GcRetainsKnown
<1>1. IndInv /\ HistoryInv => GcRetainsKnown
  BY DEF HistoryInv, KnownInv, GcRetainsKnown
<1> QED BY <1>1, HistoryInductive, PTL

\* What a rekey reports is what the cache holds, also when it lost the race to
\* publish, unless a collection removed it meanwhile.  (rekey)
THEOREM RekeyAlwaysReportsStored == HSpec => RekeyReportsStored
<1>1. ASSUME IndInv, HistoryInv, HNext, NEW p \in Procs, RekeyReturns(p)
      PROVE  /\ seen[p].cipher \in Signed
             /\ key[p] \notin since[p] => SameAs(key[p], seen[p].cipher)
  <2>1. pc[p] = "loaded" /\ Authentic(p) /\ op[p] = "rekey"
    BY <1>1, RekeyEnds DEF HNext, RekeyReturns
  <2> QED BY <1>1, <2>1 DEF HistoryInv, ReadInv, SameAs, Authentic
<1>2. IndInv /\ HistoryInv /\ [HNext]_<<vars, since>> =>
        [\A p \in Procs : RekeyReturns(p) =>
           /\ seen[p].cipher \in Signed
           /\ key[p] \notin since[p] => SameAs(key[p], seen[p].cipher)]_vars
  BY <1>1
<1> QED BY <1>2, HistoryInductive, PTL DEF HSpec, RekeyReportsStored

=============================================================================
