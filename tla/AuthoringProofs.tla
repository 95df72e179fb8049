--------------------------- MODULE AuthoringProofs ---------------------------
(***************************************************************************)
(* Proofs about authoring for any number of processes, destinations and    *)
(* requests of any length, under every fault.                              *)
(***************************************************************************)
EXTENDS Authoring, TLAPS

ProcInv(p) == ControlInv(p) /\ FoundInv(p) /\ KeptInv(p)

\* The outputs of a request are a sequence of items with distinct destinations.
LEMMA RequestFacts ==
  ASSUME NEW p \in Procs, req[p] \in Requests
  PROVE  /\ Count(p) \in Nat /\ Count(p) > 0
         /\ \A i \in 1..Count(p) : Outputs(p)[i] \in Items /\ Outputs(p)[i].path \in Paths
         /\ \A i, j \in 1..Count(p) :
              Outputs(p)[i].path = Outputs(p)[j].path => i = j
         /\ Dests(p) \subseteq Paths
         /\ req[p].op # "batch" => Count(p) = 1
         /\ req[p].op \in {"write", "edit", "delete", "batch"}
         /\ req[p].mode \in {"create", "replace"}
<1>1. /\ req[p] \in [op : {"write", "edit", "delete", "batch"},
                     mode : {"create", "replace"}, items : Seq(Items)]
      /\ Len(req[p].items) > 0
      /\ req[p].op # "batch" => Len(req[p].items) = 1
      /\ \A i, j \in 1..Len(req[p].items) :
           i # j => req[p].items[i].path # req[p].items[j].path
  BY AuthoringAssumption
<1>2. req[p].items \in Seq(Items)
  BY <1>1
<1>3. Len(req[p].items) \in Nat /\ \A i \in 1..Len(req[p].items) : req[p].items[i] \in Items
  BY <1>2
<1> QED BY <1>1, <1>3 DEF Count, Outputs, Dests, Items

\* A staged file is on disk nowhere else.
LEMMA FreshIsFresh ==
  ASSUME \E v \in Values : IsFresh(v)
  PROVE  Fresh \in Values /\ IsFresh(Fresh)
<1> HIDE DEF IsFresh
<1> QED BY Zenon DEF Fresh

\* A step of another process, or of another program, that leaves the destinations
\* of a batch under way alone preserves the invariant of its process.
LEMMA Frame ==
  ASSUME IndInv, NEW q \in Procs,
         pc'[q] = pc[q], idx'[q] = idx[q], req'[q] = req[q], prev'[q] = prev[q],
         held'[q] = held[q], whole'[q] = whole[q],
         lock' = q <=> lock = q,
         pc[q] \in Looping => \A d \in Dests(q) : repo'[d] = repo[d]
  PROVE  ProcInv(q)'
<1>1. ControlInv(q) /\ FoundInv(q) /\ KeptInv(q)
  BY DEF IndInv
<1>2. ControlInv(q)'
  BY <1>1 DEF ControlInv, Count, Outputs
<1>3. FoundInv(q)'
  BY <1>1 DEF FoundInv, Count, Outputs
<1>4. KeptInv(q)'
  <2>1. Dests(q)' = Dests(q) /\ Count(q)' = Count(q) /\ Outputs(q)' = Outputs(q)
    BY DEF Dests, Count, Outputs
  <2>2. \A i \in 1..Count(q) : Outputs(q)[i].path \in Dests(q)
    BY DEF Dests
  <2>3. pc[q] \in Looping /\ Split(q) => Split(q)'
    BY <2>1, <2>2 DEF Split
  <2> QED BY <1>1, <2>1, <2>3 DEF KeptInv, Looping
<1> QED BY <1>2, <1>3, <1>4 DEF ProcInv

\* A return preserves the invariant.
LEMMA ReturnInv ==
  ASSUME IndInv, NEW p \in Procs, NEW how \in Results, Return(p, how),
         UNCHANGED <<repo, quarantine>>
  PROVE  IndInv'
<1>1. TypeOK'
  <2>1. TypeOK
    BY DEF IndInv
  <2>2. Nothing \in [Paths -> Files \cup {NoFile}]
    BY DEF Nothing
  <2>3. /\ lock' \in Procs \cup {NoProc}
        /\ req' \in [Procs -> Requests \cup {NoRequest}]
        /\ pc' \in [Procs -> Labels]
        /\ idx' \in [Procs -> Nat]
        /\ val' \in [Procs -> Values \cup {NoFile}]
        /\ prev' \in [Procs -> [Paths -> Files \cup {NoFile}]]
        /\ held' \in [Procs -> [Paths -> Files \cup {NoFile}]]
        /\ done' \in [Procs -> SUBSET Paths]
        /\ whole' \in [Procs -> BOOLEAN]
        /\ result' \in Results
    BY <2>1, <2>2 DEF Return, TypeOK, Goto, Labels
  <2>4. \A q \in Procs : req'[q] # NoRequest => req'[q] = req[q] /\ idx'[q] = idx[q]
    BY <2>1 DEF Return, TypeOK
  <2>5. \A q \in Procs : req'[q] # NoRequest => idx'[q] <= Count(q)'
    BY <2>1, <2>4 DEF TypeOK, Count, Outputs
  <2> QED BY <2>1, <2>3, <2>5 DEF TypeOK
<1>2. ASSUME NEW q \in Procs PROVE ProcInv(q)'
  <2>1. CASE q = p
    <3>1. pc'[p] = "idle" /\ idx'[p] = 0 /\ lock' # p
      BY AuthoringAssumption DEF Return, Goto, IndInv, TypeOK
    <3> QED BY <2>1, <3>1 DEF ProcInv, ControlInv, FoundInv, KeptInv, Inside, Looping
  <2>2. CASE q # p
    <3>1. /\ pc'[q] = pc[q] /\ idx'[q] = idx[q] /\ req'[q] = req[q] /\ prev'[q] = prev[q]
          /\ held'[q] = held[q] /\ whole'[q] = whole[q] /\ (lock' = q <=> lock = q)
      BY <2>2, AuthoringAssumption DEF Return, Goto, IndInv, TypeOK
    <3> QED BY <3>1, Frame
  <2> QED BY <2>1, <2>2
<1> QED BY <1>1, <1>2 DEF IndInv, ProcInv

\* What a step of p leaves alone in the other processes.
Mine(p) ==
  \A q \in Procs : q # p =>
    /\ pc'[q] = pc[q] /\ idx'[q] = idx[q] /\ req'[q] = req[q] /\ prev'[q] = prev[q]
    /\ held'[q] = held[q] /\ whole'[q] = whole[q]
    /\ (lock' = q <=> lock = q)

\* A step of p that is right for p is right for everybody: the others are not
\* under way with a batch while p holds the lock.
LEMMA OwnStep ==
  ASSUME IndInv, NEW p \in Procs, Mine(p), TypeOK', ProcInv(p)',
         lock = p \/ UNCHANGED repo
  PROVE  IndInv'
<1>1. ASSUME NEW q \in Procs, q # p PROVE ProcInv(q)'
  <2>1. pc[q] \in Looping => UNCHANGED repo
    BY <1>1 DEF IndInv, ControlInv, Looping, Inside
  <2>2. pc[q] \in Looping => \A d \in Dests(q) : repo'[d] = repo[d]
    BY <2>1
  <2> QED BY <1>1, <2>2, Frame DEF Mine
<1> QED BY <1>1 DEF IndInv, ProcInv

\* Every step before the first change of a batch, and single writes and deletions,
\* preserve the invariant.
LEMMA EarlySteps ==
  ASSUME IndInv, NEW p \in Procs,
         \/ \E r \in Requests : Call(p, r)
         \/ Lock(p) \/ EditRead(p) \/ EditorExits(p) \/ Prepare(p) \/ Check(p)
         \/ Persist(p) \/ Move(p)
  PROVE  IndInv'
<1>t. TypeOK /\ ControlInv(p) /\ FoundInv(p)
  BY DEF IndInv
<1>r. "refused" \in Results
  BY DEF Results
<1>1. ASSUME NEW r \in Requests, Call(p, r) PROVE IndInv'
  <2>0. r # NoRequest
    BY AuthoringAssumption
  <2>1. /\ pc' = [pc EXCEPT ![p] = IF r.op = "edit" THEN "read" ELSE "lock"]
        /\ req' = [req EXCEPT ![p] = r]
        /\ pc[p] = "idle" /\ result' = "none"
        /\ UNCHANGED <<repo, quarantine, lock, idx, val, prev, held, done, whole>>
    BY <1>1 DEF Call, Goto
  <2>2. idx[p] = 0 /\ lock # p
    BY <1>t, <2>1 DEF ControlInv, Inside, Looping
  <2>3. req'[p] = r /\ req'[p] \in Requests /\ Count(p)' \in Nat
    BY <1>t, <2>1, AuthoringAssumption DEF TypeOK, Count, Outputs
  <2>4. TypeOK'
    <3>1. \A q \in Procs : req'[q] # NoRequest => idx'[q] <= Count(q)'
      BY <1>t, <2>1, <2>2, <2>3 DEF TypeOK, Count, Outputs
    <3> QED BY <1>t, <2>1, <3>1 DEF TypeOK, Labels, Results
  <2>5. pc'[p] \in {"read", "lock"}
    BY <1>t, <2>1 DEF TypeOK
  <2>6. ProcInv(p)'
    BY <2>1, <2>2, <2>3, <2>5 DEF ProcInv, ControlInv, FoundInv, KeptInv, Inside, Looping
  <2>7. Mine(p)
    BY <1>t, <2>1 DEF Mine, TypeOK
  <2> QED BY <2>1, <2>4, <2>6, <2>7, OwnStep
<1>2. CASE Lock(p)
  <2>1. /\ pc' = [pc EXCEPT ![p] = "prepare"] /\ lock' = p /\ lock = NoProc /\ pc[p] = "lock"
        /\ UNCHANGED <<repo, quarantine, idx, req, val, prev, held, done, whole, result>>
    BY <1>2 DEF Lock, Goto, local
  <2>2. TypeOK'
    BY <1>t, <2>1 DEF TypeOK, Labels, Count, Outputs
  <2>3. pc'[p] = "prepare"
    BY <1>t, <2>1 DEF TypeOK
  <2>4. ProcInv(p)'
    BY <1>t, <2>1, <2>3 DEF ProcInv, ControlInv, FoundInv, KeptInv, Inside, Looping, Count, Outputs
  <2>5. Mine(p)
    BY <1>t, <2>1, AuthoringAssumption DEF Mine, TypeOK
  <2> QED BY <2>1, <2>2, <2>4, <2>5, OwnStep
<1>3. CASE (EditRead(p) \/ EditorExits(p)) /\ ~Return(p, "refused")
  <2>1. PICK label \in {"edit", "lock"} :
          /\ pc' = [pc EXCEPT ![p] = label] /\ pc[p] \in {"read", "edit"}
          /\ UNCHANGED <<repo, quarantine, lock, idx, req, val, prev, held, done, whole, result>>
    BY <1>3 DEF EditRead, EditorExits, BeforeEditor, Goto, local
  <2>2. TypeOK'
    BY <1>t, <2>1 DEF TypeOK, Labels, Count, Outputs
  <2>3. pc'[p] = label
    BY <1>t, <2>1 DEF TypeOK
  <2>4. ProcInv(p)'
    BY <1>t, <2>1, <2>3 DEF ProcInv, ControlInv, FoundInv, KeptInv, Inside, Looping, Count, Outputs
  <2>5. Mine(p)
    BY <1>t, <2>1 DEF Mine, TypeOK
  <2> QED BY <2>1, <2>2, <2>4, <2>5, OwnStep
<1>4. CASE (EditRead(p) \/ EditorExits(p)) /\ Return(p, "refused")
  BY <1>4, <1>r, ReturnInv DEF EditRead, EditorExits
<1>5. CASE Prepare(p)
  <2>1. /\ pc[p] = "prepare"
        /\ \A i \in 1..Count(p) : Valid(p, Outputs(p)[i])
        /\ prev' = [prev EXCEPT ![p] =
                      [d \in Paths |-> IF d \in Dests(p) THEN repo[d] ELSE NoFile]]
        /\ Fresh \in Values /\ val' = [val EXCEPT ![p] = Fresh]
        /\ pc' = [pc EXCEPT ![p] = AfterPrepare[req[p].op]]
        /\ UNCHANGED <<repo, quarantine, lock, req, idx, held, done, whole, result>>
    BY <1>5, FreshIsFresh DEF Prepare, Goto
  <2>2. req[p] \in Requests /\ lock = p /\ idx[p] = 0
    BY <1>t, <2>1 DEF ControlInv, Inside, Looping
  <2>3. AfterPrepare[req[p].op] \in {"persist", "move", "check"}
    BY <2>2, RequestFacts DEF AfterPrepare
  <2>4. /\ pc'[p] \in {"persist", "move", "check"}
        /\ prev'[p] = [d \in Paths |-> IF d \in Dests(p) THEN repo[d] ELSE NoFile]
        /\ prev'[p] \in [Paths -> Files \cup {NoFile}]
    BY <1>t, <2>1, <2>3 DEF TypeOK
  <2>5. TypeOK'
    <3>1. /\ pc' \in [Procs -> Labels] /\ val' \in [Procs -> Values \cup {NoFile}]
          /\ prev' \in [Procs -> [Paths -> Files \cup {NoFile}]]
      BY <1>t, <2>1, <2>3, <2>4 DEF TypeOK, Labels
    <3> QED BY <1>t, <2>1, <3>1 DEF TypeOK, Count, Outputs
  <2>6. FoundInv(p)'
    <3>1. \A i \in 1..Count(p) : prev'[p][Outputs(p)[i].path] = repo[Outputs(p)[i].path]
      BY <2>2, <2>4, RequestFacts DEF Dests
    <3>2. Count(p)' = Count(p) /\ Outputs(p)' = Outputs(p)
      BY <2>1 DEF Count, Outputs
    <3> QED BY <2>1, <3>1, <3>2 DEF FoundInv, Valid
  <2>7. ControlInv(p)' /\ KeptInv(p)'
    BY <1>t, <2>1, <2>2, <2>4 DEF ControlInv, KeptInv, Inside, Looping, Count, Outputs
  <2>8. Mine(p)
    BY <1>t, <2>1 DEF Mine, TypeOK
  <2> QED BY <2>1, <2>5, <2>6, <2>7, <2>8, OwnStep DEF ProcInv
<1>6. CASE Check(p)
  <2>1. /\ pc[p] = "check" /\ pc' = [pc EXCEPT ![p] = "backup"]
        /\ \A i \in 1..Count(p) : Unchanged(p, Outputs(p)[i])
        /\ UNCHANGED <<repo, quarantine, lock, idx, req, val, prev, held, done, whole, result>>
    BY <1>6 DEF Check, Goto, local
  <2>2. req[p] \in Requests /\ lock = p /\ idx[p] = 0
    BY <1>t, <2>1 DEF ControlInv, Inside, Looping
  <2>3. pc'[p] = "backup"
    BY <1>t, <2>1 DEF TypeOK
  <2>4. TypeOK'
    BY <1>t, <2>1 DEF TypeOK, Labels, Count, Outputs
  <2>5. Count(p)' = Count(p) /\ Outputs(p)' = Outputs(p)
    BY <2>1 DEF Count, Outputs
  <2>6. Split(p)'
    BY <2>1, <2>2, <2>5, RequestFacts DEF Split, Unchanged
  <2>7. ControlInv(p)' /\ FoundInv(p)' /\ KeptInv(p)'
    BY <1>t, <2>1, <2>2, <2>3, <2>5, <2>6 DEF ControlInv, FoundInv, KeptInv, Inside, Looping
  <2>8. Mine(p)
    BY <1>t, <2>1 DEF Mine, TypeOK
  <2> QED BY <2>1, <2>4, <2>7, <2>8, OwnStep DEF ProcInv
<1>7. CASE Persist(p) \/ Move(p)
  <2>1. /\ pc[p] \in {"persist", "move"} /\ pc' = [pc EXCEPT ![p] = "sync"]
        /\ repo' \in {[repo EXCEPT ![Item(p).path] = val[p]],
                       [repo EXCEPT ![Item(p).path] = NoFile]}
        /\ quarantine' \in {quarantine, repo[Item(p).path]}
        /\ UNCHANGED <<lock, idx, req, val, prev, held, done, whole, result>>
    BY <1>7 DEF Persist, Move, Goto, local
  <2>2. req[p] \in Requests /\ lock = p /\ idx[p] = 0
    BY <1>t, <2>1 DEF ControlInv, Inside, Looping
  <2>3. pc'[p] = "sync"
    BY <1>t, <2>1 DEF TypeOK
  <2>4. Item(p).path \in Paths
    BY <2>2, RequestFacts DEF Item
  <2>5. TypeOK'
    <3>1. val[p] \in Files \cup {NoFile} /\ repo[Item(p).path] \in Files \cup {NoFile}
      BY <1>t, <2>4 DEF TypeOK, Files
    <3>2. repo' \in [Paths -> Files \cup {NoFile}] /\ quarantine' \in Files \cup {NoFile}
      BY <1>t, <2>1, <3>1 DEF TypeOK
    <3>3. pc' \in [Procs -> Labels]
      BY <1>t, <2>1 DEF TypeOK, Labels
    <3> QED BY <1>t, <2>1, <3>2, <3>3 DEF TypeOK, Count, Outputs
  <2>6. ControlInv(p)' /\ FoundInv(p)' /\ KeptInv(p)'
    BY <1>t, <2>1, <2>2, <2>3 DEF ControlInv, FoundInv, KeptInv, Inside, Looping, Count, Outputs
  <2>7. Mine(p)
    BY <1>t, <2>1 DEF Mine, TypeOK
  <2> QED BY <2>2, <2>5, <2>6, <2>7, OwnStep DEF ProcInv
<1> QED BY <1>1, <1>2, <1>3, <1>4, <1>5, <1>6, <1>7

\* The backup loop preserves the invariant: what it moves away is what was found.
LEMMA BackupSteps ==
  ASSUME IndInv, NEW p \in Procs, Backup(p) \/ BackedUp(p)
  PROVE  IndInv'
<1>t. TypeOK /\ ControlInv(p) /\ FoundInv(p) /\ KeptInv(p)
  BY DEF IndInv
<1>0. pc[p] = "backup"
  BY DEF Backup, BackedUp
<1>1. req[p] \in Requests /\ lock = p /\ Split(p) /\ idx[p] \in Nat
  BY <1>t, <1>0 DEF ControlInv, KeptInv, Inside, TypeOK
<1>2. CASE Backup(p)
  <2>1. /\ idx[p] < Count(p) /\ idx' = [idx EXCEPT ![p] = @ + 1]
        /\ UNCHANGED <<quarantine, lock, req, pc, val, prev, done, whole, result>>
    BY <1>2 DEF Backup
  <2>2. idx[p] + 1 \in 1..Count(p) /\ Item(p) = Outputs(p)[idx[p] + 1] /\ Item(p).path \in Paths
    BY <1>1, <2>1, RequestFacts DEF Item
  <2>3. IF NeedsBackup(p, Item(p))
        THEN /\ repo' = [repo EXCEPT ![Item(p).path] = NoFile]
             /\ held' = [held EXCEPT ![p][Item(p).path] = repo[Item(p).path]]
        ELSE UNCHANGED <<repo, held>>
    BY <1>2 DEF Backup
  <2>4. /\ repo' \in [Paths -> Files \cup {NoFile}]
        /\ held' \in [Procs -> [Paths -> Files \cup {NoFile}]]
    <3>1. repo \in [Paths -> Files \cup {NoFile}] /\ repo[Item(p).path] \in Files \cup {NoFile}
      BY <1>t, <2>2 DEF TypeOK
    <3>2. /\ held \in [Procs -> [Paths -> Files \cup {NoFile}]]
          /\ [held[p] EXCEPT ![Item(p).path] = repo[Item(p).path]] \in [Paths -> Files \cup {NoFile}]
      BY <1>t, <3>1 DEF TypeOK
    <3>3. CASE NeedsBackup(p, Item(p))
      BY <2>3, <3>1, <3>2, <3>3
    <3>4. CASE ~NeedsBackup(p, Item(p))
      BY <2>3, <3>1, <3>2, <3>4
    <3> QED BY <3>3, <3>4
  <2>5. Count(p)' = Count(p) /\ Outputs(p)' = Outputs(p) /\ idx'[p] = idx[p] + 1
    BY <1>t, <2>1 DEF Count, Outputs, TypeOK
  <2>6. TypeOK'
    <3>1. idx' \in [Procs -> Nat]
      BY <1>t, <2>1 DEF TypeOK
    <3>2. \A q \in Procs : req'[q] # NoRequest => idx'[q] <= Count(q)'
      BY <1>t, <1>1, <2>1, <2>5, RequestFacts DEF TypeOK, Count, Outputs
    <3> QED BY <1>t, <2>1, <2>4, <3>1, <3>2 DEF TypeOK
  <2>7. Split(p)'
    <3> SUFFICES ASSUME NEW i \in 1..Count(p), prev[p][Outputs(p)[i].path] # NoFile
                 PROVE  IF i <= idx[p] + 1
                        THEN held'[p][Outputs(p)[i].path] = prev[p][Outputs(p)[i].path]
                        ELSE repo'[Outputs(p)[i].path] = prev[p][Outputs(p)[i].path]
      BY <2>1, <2>5 DEF Split
    <3> DEFINE d == Outputs(p)[i].path
    <3>1. IF i <= idx[p] THEN held[p][d] = prev[p][d] ELSE repo[d] = prev[p][d]
      BY <1>1 DEF Split
    <3>2. d \in Paths /\ Outputs(p)[i] \in Items
      BY <1>1, RequestFacts
    <3>3. CASE i = idx[p] + 1
      <4>1. d = Item(p).path /\ repo[d] = prev[p][d]
        BY <1>1, <2>2, <3>1, <3>3
      <4>2. NeedsBackup(p, Item(p))
        <5>1. req[p].mode \in {"create", "replace"}
          BY <1>1, RequestFacts
        <5> QED BY <1>t, <1>0, <2>2, <3>3, <5>1 DEF NeedsBackup, FoundInv, Looping
      <4>3. held'[p][d] = repo[d]
        BY <1>t, <2>2, <2>3, <3>2, <4>1, <4>2 DEF TypeOK
      <4> QED BY <1>1, <3>3, <4>1, <4>3
    <3>4. CASE i # idx[p] + 1
      <4>1. d # Item(p).path
        BY <1>1, <2>2, <3>4, RequestFacts
      <4>2. held'[p][d] = held[p][d] /\ repo'[d] = repo[d]
        BY <1>t, <2>2, <2>3, <3>2, <4>1 DEF TypeOK
      <4> QED BY <1>1, <3>1, <3>4, <4>2
    <3> QED BY <3>3, <3>4
  <2>8. ControlInv(p)' /\ FoundInv(p)' /\ KeptInv(p)'
    BY <1>t, <1>0, <1>1, <2>1, <2>5, <2>7, RequestFacts
       DEF ControlInv, FoundInv, KeptInv, Inside, Looping
  <2>9. Mine(p)
    BY <1>t, <2>1, <2>3 DEF Mine, TypeOK
  <2> QED BY <1>1, <2>6, <2>8, <2>9, OwnStep DEF ProcInv
<1>3. CASE BackedUp(p)
  <2>1. /\ idx[p] = Count(p) /\ idx' = [idx EXCEPT ![p] = 0] /\ pc' = [pc EXCEPT ![p] = "commit"]
        /\ UNCHANGED <<repo, quarantine, lock, req, val, prev, held, done, whole, result>>
    BY <1>3 DEF BackedUp, Goto, local
  <2>2. Count(p)' = Count(p) /\ Outputs(p)' = Outputs(p) /\ idx'[p] = 0 /\ pc'[p] = "commit"
    BY <1>t, <2>1 DEF Count, Outputs, TypeOK
  <2>3. TypeOK'
    <3>1. \A q \in Procs : req'[q] # NoRequest => idx'[q] <= Count(q)'
      BY <1>t, <1>1, <2>1, <2>2, RequestFacts DEF TypeOK, Count, Outputs
    <3> QED BY <1>t, <2>1, <3>1 DEF TypeOK, Labels
  <2>4. \A d \in Dests(p) : prev[p][d] # NoFile => held[p][d] = prev[p][d]
    BY <1>1, <2>1, RequestFacts DEF Split, Dests
  <2>5. Dests(p)' = Dests(p)
    BY <2>1 DEF Dests, Count, Outputs
  <2>6. ControlInv(p)' /\ FoundInv(p)' /\ KeptInv(p)'
    BY <1>t, <1>0, <1>1, <2>1, <2>2, <2>4, <2>5, RequestFacts
       DEF ControlInv, FoundInv, KeptInv, Inside, Looping
  <2>7. Mine(p)
    BY <1>t, <2>1 DEF Mine, TypeOK
  <2> QED BY <2>1, <2>3, <2>6, <2>7, OwnStep DEF ProcInv
<1> QED BY <1>2, <1>3

\* The commit loop and the rollback preserve the invariant: the commit loop leaves
\* the backups alone, and a rollback that has met no failure has put back the
\* original of every item it has passed.
LEMMA CommitSteps ==
  ASSUME IndInv, NEW p \in Procs,
         \/ Commit(p) \/ Committed(p) \/ Restore(p) \/ BackupFails(p) \/ CommitFails(p)
  PROVE  IndInv'
<1>t. TypeOK /\ ControlInv(p) /\ FoundInv(p) /\ KeptInv(p)
  BY DEF IndInv
<1>0. pc[p] \in {"backup", "commit", "restore", "unpublish"}
  BY DEF Commit, Committed, Restore, BackupFails, CommitFails
<1>1. req[p] \in Requests /\ lock = p /\ idx[p] \in Nat /\ idx[p] <= Count(p) /\ Count(p) \in Nat
  BY <1>t, <1>0, RequestFacts DEF ControlInv, Inside, TypeOK
<1>2. ASSUME UNCHANGED <<req, prev>>
      PROVE  Count(p)' = Count(p) /\ Outputs(p)' = Outputs(p) /\ Dests(p)' = Dests(p)
  BY <1>2 DEF Count, Outputs, Dests
<1>3. ASSUME UNCHANGED req, idx' \in [Procs -> Nat], idx'[p] <= Count(p),
             \A q \in Procs : q # p => idx'[q] = idx[q]
      PROVE  \A q \in Procs : req'[q] # NoRequest => idx'[q] <= Count(q)'
  BY <1>t, <1>3 DEF TypeOK, Count, Outputs
<1>4. CASE Commit(p)
  <2>1. /\ pc[p] = "commit" /\ idx[p] < Count(p) /\ idx' = [idx EXCEPT ![p] = @ + 1]
        /\ \/ UNCHANGED <<repo, done>>
           \/ /\ repo' = [repo EXCEPT ![Item(p).path] = val[p]]
              /\ done' = [done EXCEPT ![p] = @ \cup {Item(p).path}]
        /\ UNCHANGED <<quarantine, lock, req, pc, val, prev, held, whole, result>>
    BY <1>4 DEF Commit
  <2>2. Item(p).path \in Paths
    BY <1>1, <2>1, RequestFacts DEF Item
  <2>3. idx' \in [Procs -> Nat] /\ idx'[p] = idx[p] + 1 /\ \A q \in Procs : q # p => idx'[q] = idx[q]
    BY <1>t, <2>1 DEF TypeOK
  <2>4. TypeOK'
    <3>1. val[p] \in Files \cup {NoFile}
      BY <1>t DEF TypeOK, Files
    <3>2. repo' \in [Paths -> Files \cup {NoFile}] /\ done' \in [Procs -> SUBSET Paths]
      <4>1. repo \in [Paths -> Files \cup {NoFile}] /\ done \in [Procs -> SUBSET Paths]
        BY <1>t DEF TypeOK
      <4>2. done[p] \cup {Item(p).path} \in SUBSET Paths
        BY <2>2, <4>1
      <4>3. [done EXCEPT ![p] = @ \cup {Item(p).path}] \in [Procs -> SUBSET Paths]
        BY <4>1, <4>2
      <4>4. [repo EXCEPT ![Item(p).path] = val[p]] \in [Paths -> Files \cup {NoFile}]
        BY <3>1, <4>1
      <4> QED BY <2>1, <4>1, <4>3, <4>4
    <3>3. \A q \in Procs : req'[q] # NoRequest => idx'[q] <= Count(q)'
      BY <1>1, <1>3, <2>1, <2>3
    <3> QED BY <1>t, <2>1, <2>3, <3>2, <3>3 DEF TypeOK
  <2>5. ControlInv(p)' /\ FoundInv(p)' /\ KeptInv(p)'
    BY <1>t, <1>1, <1>2, <2>1, <2>3 DEF ControlInv, FoundInv, KeptInv, Inside, Looping
  <2>6. Mine(p)
    BY <1>t, <2>1 DEF Mine, TypeOK
  <2> QED BY <1>1, <2>4, <2>5, <2>6, OwnStep DEF ProcInv
<1>5. CASE Committed(p)
  <2>1. /\ pc[p] = "commit" /\ held' = [held EXCEPT ![p] = Nothing]
        /\ pc' = [pc EXCEPT ![p] = "sync"]
        /\ UNCHANGED <<repo, quarantine, lock, req, idx, val, prev, done, whole, result>>
    BY <1>5 DEF Committed, Goto
  <2>2. pc'[p] = "sync" /\ pc' \in [Procs -> Labels]
    BY <1>t, <2>1 DEF TypeOK, Labels
  <2>3. Nothing \in [Paths -> Files \cup {NoFile}]
    BY DEF Nothing
  <2>4. TypeOK'
    BY <1>t, <2>1, <2>2, <2>3 DEF TypeOK, Count, Outputs
  <2>5. ControlInv(p)' /\ FoundInv(p)' /\ KeptInv(p)'
    BY <1>t, <1>1, <1>2, <2>1, <2>2 DEF ControlInv, FoundInv, KeptInv, Inside, Looping
  <2>6. Mine(p)
    BY <1>t, <2>1 DEF Mine, TypeOK
  <2> QED BY <2>1, <2>4, <2>5, <2>6, OwnStep DEF ProcInv
<1>6. CASE BackupFails(p) \/ CommitFails(p)
  <2>1. PICK label \in {"restore", "unpublish"} :
          /\ pc[p] \in {"backup", "commit"}
          /\ pc' = [pc EXCEPT ![p] = label]
          /\ idx' = [idx EXCEPT ![p] = BackedUpItems(p)]
          /\ UNCHANGED <<repo, quarantine, lock, req, val, prev, held, done, whole, result>>
    BY <1>6 DEF BackupFails, CommitFails, Rollback, Goto, local
  <2>2. BackedUpItems(p) \in Nat /\ BackedUpItems(p) <= Count(p)
    BY <1>1 DEF BackedUpItems
  <2>3. /\ pc'[p] = label /\ pc' \in [Procs -> Labels]
        /\ idx' \in [Procs -> Nat] /\ idx'[p] = BackedUpItems(p)
        /\ \A q \in Procs : q # p => idx'[q] = idx[q]
    BY <1>t, <2>1, <2>2 DEF TypeOK, Labels
  <2>4. TypeOK'
    <3>1. \A q \in Procs : req'[q] # NoRequest => idx'[q] <= Count(q)'
      BY <1>3, <2>1, <2>2, <2>3
    <3> QED BY <1>t, <2>1, <2>3, <3>1 DEF TypeOK
  <2>5. Split(p)'
    <3>1. CASE pc[p] = "backup"
      BY <1>t, <1>2, <2>1, <2>3, <3>1 DEF KeptInv, Split, BackedUpItems
    <3>2. CASE pc[p] = "commit"
      <4>1. \A i \in 1..Count(p) : Outputs(p)[i].path \in Dests(p)
        BY DEF Dests
      <4>2. \A d \in Dests(p) : prev[p][d] # NoFile => held[p][d] = prev[p][d]
        BY <1>t, <3>2 DEF KeptInv
      <4>3. idx'[p] = Count(p)
        BY <2>3, <3>2 DEF BackedUpItems
      <4> QED BY <1>1, <1>2, <2>1, <4>1, <4>2, <4>3 DEF Split
    <3> QED BY <2>1, <3>1, <3>2
  <2>6. ControlInv(p)' /\ FoundInv(p)' /\ KeptInv(p)'
    BY <1>t, <1>1, <1>2, <2>1, <2>2, <2>3, <2>5
       DEF ControlInv, FoundInv, KeptInv, Inside, Looping
  <2>7. Mine(p)
    BY <1>t, <2>1 DEF Mine, TypeOK
  <2> QED BY <2>1, <2>4, <2>6, <2>7, OwnStep DEF ProcInv
<1>7. CASE Restore(p)
  <2> DEFINE e == Outputs(p)[idx[p]].path
  <2>1. PICK removed, renamed \in BOOLEAN :
          /\ ~renamed => held[p][e] # NoFile
          /\ repo' = [repo EXCEPT ![e] =
               IF held[p][e] # NoFile /\ renamed THEN held[p][e]
               ELSE IF e \in done[p] /\ removed THEN NoFile ELSE @]
          /\ held' = [held EXCEPT ![p][e] = NoFile]
          /\ whole' = [whole EXCEPT ![p] = @ /\ removed /\ renamed]
    BY <1>7 DEF Restore
  <2>2. /\ pc[p] \in {"restore", "unpublish"} /\ idx[p] > 0 /\ idx' = [idx EXCEPT ![p] = @ - 1]
        /\ UNCHANGED <<quarantine, lock, req, pc, val, prev, done, result>>
    BY <1>7 DEF Restore
  <2>3. idx[p] \in 1..Count(p) /\ e \in Paths
    BY <1>1, <2>2, RequestFacts
  <2>4. /\ idx' \in [Procs -> Nat] /\ idx'[p] = idx[p] - 1
        /\ \A q \in Procs : q # p => idx'[q] = idx[q]
    BY <1>t, <1>1, <2>2 DEF TypeOK
  <2>5. TypeOK'
    <3>1. repo[e] \in Files \cup {NoFile} /\ held[p][e] \in Files \cup {NoFile}
      BY <1>t, <2>3 DEF TypeOK
    <3>2. repo' \in [Paths -> Files \cup {NoFile}]
      BY <1>t, <2>1, <3>1 DEF TypeOK
    <3>3. held' \in [Procs -> [Paths -> Files \cup {NoFile}]]
      <4>1. [held[p] EXCEPT ![e] = NoFile] \in [Paths -> Files \cup {NoFile}]
        BY <1>t DEF TypeOK
      <4> QED BY <1>t, <2>1, <4>1 DEF TypeOK
    <3>4. whole' \in [Procs -> BOOLEAN]
      BY <1>t, <2>1, Zenon DEF TypeOK
    <3>5. \A q \in Procs : req'[q] # NoRequest => idx'[q] <= Count(q)'
      BY <1>1, <1>3, <2>2, <2>4
    <3> QED BY <1>t, <2>2, <2>4, <3>2, <3>3, <3>4, <3>5 DEF TypeOK
  <2>6. whole'[p] => Split(p)'
    <3> SUFFICES ASSUME whole'[p], NEW i \in 1..Count(p), prev[p][Outputs(p)[i].path] # NoFile
                 PROVE  IF i <= idx[p] - 1
                        THEN held'[p][Outputs(p)[i].path] = prev[p][Outputs(p)[i].path]
                        ELSE repo'[Outputs(p)[i].path] = prev[p][Outputs(p)[i].path]
      BY <1>2, <2>2, <2>4 DEF Split
    <3> DEFINE d == Outputs(p)[i].path
    <3>0. whole[p] /\ removed /\ renamed
      BY <1>t, <2>1 DEF TypeOK
    <3>1. IF i <= idx[p] THEN held[p][d] = prev[p][d] ELSE repo[d] = prev[p][d]
      BY <1>t, <2>2, <3>0 DEF KeptInv, Split
    <3>2. d \in Paths
      BY <1>1, RequestFacts
    <3>3. CASE i = idx[p]
      <4>1. held[p][e] = prev[p][e] /\ held[p][e] # NoFile
        BY <1>1, <3>1, <3>3
      <4>2. repo'[e] = held[p][e]
        BY <1>t, <2>1, <2>3, <3>0, <4>1 DEF TypeOK
      <4> QED BY <1>1, <3>3, <4>1, <4>2
    <3>4. CASE i # idx[p]
      <4>1. d # e
        BY <1>1, <2>3, <3>4, RequestFacts
      <4>2. held'[p][d] = held[p][d] /\ repo'[d] = repo[d]
        BY <1>t, <2>1, <2>3, <3>2, <4>1 DEF TypeOK
      <4> QED BY <1>1, <3>1, <3>4, <4>2
    <3> QED BY <3>3, <3>4
  <2>7. ControlInv(p)' /\ FoundInv(p)' /\ KeptInv(p)'
    BY <1>t, <1>1, <1>2, <2>2, <2>4, <2>6 DEF ControlInv, FoundInv, KeptInv, Inside, Looping
  <2>8. Mine(p)
    BY <1>t, <2>1, <2>2 DEF Mine, TypeOK
  <2> QED BY <1>1, <2>5, <2>7, <2>8, OwnStep DEF ProcInv
<1> QED BY <1>4, <1>5, <1>6, <1>7

\* Every step that ends a request preserves the invariant.
LEMMA LastSteps ==
  ASSUME IndInv, NEW p \in Procs,
         \/ PrepareFails(p) \/ SingleFails(p) \/ CheckFails(p) \/ BackupFileFails(p)
         \/ Restored(p) \/ Sync(p) \/ Kill(p)
  PROVE  IndInv'
<1>1. \E how \in Results : Return(p, how)
  <2>1. CASE PrepareFails(p)
    BY <2>1 DEF PrepareFails, Results
  <2>2. CASE SingleFails(p)
    BY <2>2 DEF SingleFails, Results
  <2>3. CASE CheckFails(p) \/ BackupFileFails(p) \/ Sync(p) \/ Kill(p)
    BY <2>3 DEF CheckFails, BackupFileFails, Sync, Kill, Results
  <2>4. CASE Restored(p)
    BY <2>4 DEF Restored, Results
  <2> QED BY <2>1, <2>2, <2>3, <2>4
<1>2. UNCHANGED <<repo, quarantine>>
  BY DEF PrepareFails, SingleFails, CheckFails, BackupFileFails, Restored, Sync, Kill
<1> QED BY <1>1, <1>2, ReturnInv

\* A file that another program writes preserves the invariant: it is no
\* destination of a batch under way.
LEMMA ForeignStep ==
  ASSUME IndInv, NEW d \in Paths, ForeignWrite(d)
  PROVE  IndInv'
<1>1. /\ repo' = [repo EXCEPT ![d] = Foreign]
      /\ UNCHANGED <<quarantine, lock, pc, idx, req, val, prev, held, done, whole, result>>
      /\ \A p \in Procs : pc[p] \in Looping => d \notin Dests(p)
  BY DEF ForeignWrite, local, Looping
<1>2. TypeOK
  BY DEF IndInv
<1>3. repo' \in [Paths -> Files \cup {NoFile}]
  BY <1>1, <1>2 DEF TypeOK, Files
<1>4. TypeOK'
  BY <1>1, <1>2, <1>3 DEF TypeOK, Count, Outputs
<1>5. ASSUME NEW q \in Procs PROVE ProcInv(q)'
  <2>1. ASSUME pc[q] \in Looping, NEW e \in Dests(q) PROVE repo'[e] = repo[e]
    <3>1. req[q] \in Requests
      BY <2>1 DEF IndInv, ControlInv, Looping
    <3>2. e \in Paths /\ e # d
      BY <1>1, <2>1, <3>1, RequestFacts
    <3> QED BY <1>1, <1>2, <3>2 DEF TypeOK
  <2> QED BY <1>1, <2>1, Frame
<1> QED BY <1>4, <1>5 DEF IndInv, ProcInv

LEMMA InitInv == Init => IndInv
<1> SUFFICES ASSUME Init PROVE IndInv
  OBVIOUS
<1>1. Nothing \in [Paths -> Files \cup {NoFile}]
  BY DEF Nothing
<1>2. TypeOK
  <2>1. repo \in [Paths -> Files \cup {NoFile}]
    BY AuthoringAssumption DEF Init, Files
  <2> QED BY <1>1, <2>1 DEF Init, TypeOK, Labels, Results
<1>3. ASSUME NEW p \in Procs PROVE ControlInv(p) /\ FoundInv(p) /\ KeptInv(p)
  <2>1. pc[p] = "idle" /\ idx[p] = 0 /\ lock # p
    BY AuthoringAssumption DEF Init
  <2> QED BY <2>1 DEF ControlInv, FoundInv, KeptInv, Inside, Looping
<1> QED BY <1>2, <1>3 DEF IndInv

LEMMA NextInv == IndInv /\ [Next]_vars => IndInv'
<1> SUFFICES ASSUME IndInv, [Next]_vars PROVE IndInv'
  OBVIOUS
<1>1. ASSUME NEW p \in Procs,
             \/ \E r \in Requests : Call(p, r)
             \/ Lock(p) \/ EditorExits(p) \/ Step(p) \/ Kill(p)
      PROVE  IndInv'
  BY <1>1, EarlySteps, BackupSteps, CommitSteps, LastSteps DEF Step
<1>2. ASSUME NEW d \in Paths, ForeignWrite(d) PROVE IndInv'
  BY <1>2, ForeignStep
<1>3. CASE UNCHANGED vars
  BY <1>3 DEF vars, IndInv, TypeOK, ControlInv, FoundInv, KeptInv, Split, Dests, Count, Outputs
<1> QED BY <1>1, <1>2, <1>3 DEF Next

\* The inductive invariant holds in every reachable state.
THEOREM AuthoringInductive == Spec => []IndInv
<1> QED BY InitInv, NextInv, PTL DEF Spec

\* Nothing that authoring does leads outside of the types of its state: in
\* particular no loop runs past the items of its request.
THEOREM AuthoringTypes == Spec => []TypeOK
<1>1. IndInv => TypeOK
  BY DEF IndInv
<1> QED BY <1>1, AuthoringInductive, PTL

\* At every moment of a batch of any length, whichever of its steps fail and
\* whatever the other processes and programs do, each file it found is at its
\* destination or in its backup.  (commit_prepared_batch, restore_batch)
THEOREM OriginalsAlwaysKept == Spec => []OriginalsKept
<1>1. IndInv => OriginalsKept
  <2> SUFFICES ASSUME IndInv, NEW p \in Procs,
                      \/ pc[p] \in {"backup", "commit"}
                      \/ pc[p] \in {"restore", "unpublish"} /\ whole[p],
                      NEW d \in Dests(p), prev[p][d] # NoFile
               PROVE  prev[p][d] \in {repo[d], held[p][d]}
    BY DEF OriginalsKept
  <2>1. KeptInv(p)
    BY DEF IndInv
  <2>2. CASE pc[p] = "commit"
    BY <2>1, <2>2 DEF KeptInv
  <2>3. CASE pc[p] # "commit"
    <3>1. Split(p)
      BY <2>1, <2>3 DEF KeptInv
    <3>2. PICK i \in 1..Count(p) : d = Outputs(p)[i].path
      BY DEF Dests
    <3> QED BY <3>1, <3>2 DEF Split
  <2> QED BY <2>2, <2>3
<1> QED BY <1>1, AuthoringInductive, PTL

\* A destination of p that changes while p is about to replace it or to back it up
\* is one that p itself changes, and it is the item p is at.
LEMMA OwnChange ==
  ASSUME IndInv, Next, NEW p \in Procs, pc[p] \in {"persist", "move", "backup"},
         <<pc[p], idx[p]>>' # <<pc[p], idx[p]>>,
         NEW i \in 1..Count(p), repo'[Outputs(p)[i].path] # repo[Outputs(p)[i].path]
  PROVE  /\ Outputs(p)[i] = Item(p)
         /\ \/ Unchanged(p, Item(p))
            \/ /\ pc[p] = "backup" /\ i = idx[p] + 1 /\ idx[p] \in Nat
               /\ NeedsBackup(p, Item(p))
<1>1. TypeOK /\ ControlInv(p) /\ req[p] \in Requests /\ lock = p /\ idx[p] \in Nat
  BY DEF IndInv, ControlInv, Inside, TypeOK
<1>2. Outputs(p)[i].path \in Paths
  BY <1>1, RequestFacts
<1>3. ASSUME NEW q \in Procs,
             \/ \E r \in Requests : Call(q, r)
             \/ Lock(q) \/ EditorExits(q) \/ Step(q) \/ Kill(q)
      PROVE  Persist(q) \/ Move(q) \/ Backup(q) \/ Commit(q) \/ Restore(q)
  <2>1. repo' # repo
    OBVIOUS
  <2> QED BY <1>3, <2>1
          DEF Call, Lock, EditorExits, Step, Kill, EditRead, Prepare, PrepareFails, SingleFails,
              Check, CheckFails, BackupFileFails, BackupFails, BackedUp, CommitFails, Committed,
              Restored, Sync, Rollback
<1>4. ASSUME NEW d \in Paths, ForeignWrite(d) PROVE FALSE
  BY <1>4 DEF ForeignWrite
<1>5. PICK q \in Procs : Persist(q) \/ Move(q) \/ Backup(q) \/ Commit(q) \/ Restore(q)
  BY <1>3, <1>4 DEF Next
<1>6. q = p
  <2>1. pc[q] \in Inside
    BY <1>5 DEF Persist, Move, Backup, Commit, Restore, Inside
  <2>2. ControlInv(q)
    BY DEF IndInv
  <2> QED BY <1>1, <2>1, <2>2 DEF ControlInv
<1>7. Persist(p) \/ Move(p) \/ Backup(p)
  BY <1>5, <1>6 DEF Commit, Restore
<1>8. idx[p] + 1 \in 1..Count(p) /\ Item(p) = Outputs(p)[idx[p] + 1]
  <2>1. CASE Persist(p) \/ Move(p)
    <3>1. idx[p] = 0
      BY <1>1, <2>1 DEF Persist, Move, ControlInv, Looping
    <3> QED BY <1>1, <3>1, RequestFacts DEF Item
  <2>2. CASE Backup(p)
    BY <1>1, <2>2, RequestFacts DEF Backup, Item
  <2> QED BY <1>7, <2>1, <2>2
<1>9. Outputs(p)[i].path = Item(p).path
  <2>1. repo \in [Paths -> Files \cup {NoFile}]
    BY <1>1 DEF TypeOK
  <2>2. \E v \in Files \cup {NoFile} : repo' = [repo EXCEPT ![Item(p).path] = v]
    <3>1. val[p] \in Files \cup {NoFile}
      BY <1>1 DEF TypeOK, Files
    <3> QED BY <1>7, <3>1 DEF Persist, Move, Backup
  <2> QED BY <1>2, <2>1, <2>2
<1>10. i = idx[p] + 1
  BY <1>1, <1>8, <1>9, RequestFacts
<1>11. Persist(p) \/ Move(p) => Unchanged(p, Item(p))
  BY DEF Persist, Move
<1>12. Backup(p) => pc[p] = "backup" /\ NeedsBackup(p, Item(p))
  BY DEF Backup
<1> QED BY <1>1, <1>7, <1>8, <1>10, <1>11, <1>12

\* However the other programs interleave their writes with the encryption, what a
\* request replaces, moves or deletes is the ciphertext it has validated, and what
\* it creates replaces nothing.  (ensure_unchanged, persist_noclobber)
THEOREM NothingIsSilentlyOverwritten == Spec => NoSilentOverwrite
<1>1. ASSUME IndInv, Next, NEW p \in Procs PROVE ChangesOnlyFound(p)
  <2> SUFFICES ASSUME pc[p] \in {"persist", "move", "backup"},
                      <<pc[p], idx[p]>>' # <<pc[p], idx[p]>>,
                      NEW i \in 1..Count(p), Outputs(p)[i].kind \in {"secret", "public"},
                      repo'[Outputs(p)[i].path] # repo[Outputs(p)[i].path]
               PROVE  repo[Outputs(p)[i].path] = prev[p][Outputs(p)[i].path]
    BY DEF ChangesOnlyFound
  <2>1. Outputs(p)[i] = Item(p)
    BY <1>1, OwnChange
  <2>2. CASE Unchanged(p, Item(p))
    BY <2>1, <2>2 DEF Unchanged
  <2>3. CASE ~Unchanged(p, Item(p))
    <3>1. pc[p] = "backup" /\ i = idx[p] + 1 /\ idx[p] \in Nat /\ NeedsBackup(p, Item(p))
      BY <1>1, <2>3, OwnChange
    <3>2. FoundInv(p) /\ Split(p)
      BY <1>1, <3>1 DEF IndInv, KeptInv
    <3>3. prev[p][Outputs(p)[i].path] # NoFile
      BY <2>1, <3>1, <3>2 DEF FoundInv, NeedsBackup, Looping
    <3> QED BY <3>1, <3>2, <3>3 DEF Split
  <2> QED BY <2>2, <2>3
<1>2. IndInv /\ [Next]_vars => [\A p \in Procs : ChangesOnlyFound(p)]_vars
  BY <1>1
<1> QED BY <1>2, AuthoringInductive, PTL DEF Spec, NoSilentOverwrite

-----------------------------------------------------------------------------
(* What a request reports *)

\* The destination does not hold the output of the request, and is still free if
\* it is to be created.
Untouched(p, item) ==
  /\ repo[item.path] # val[p]
  /\ item.kind \in {"secret", "public"} /\ prev[p][item.path] = NoFile => repo[item.path] = NoFile

Staged == {"check", "persist", "move"}

\* What a request owns, where it is.
OwnsInv(p) ==
  /\ pc[p] \notin Looping => held[p] = Nothing
  /\ pc[p] \notin {"commit", "restore", "unpublish", "sync"} => done[p] = {}
  /\ pc[p] \in Staged \cup Looping => val[p] \in Values
  /\ pc[p] \in {"check"} \cup Looping => req[p].op = "batch"
  /\ pc[p] = "persist" => req[p].op \in {"write", "edit"}
  /\ pc[p] = "move" => req[p].op = "delete"

\* Where each item of a request is: what was found is not what was staged, backups
\* hold only what was found, and each round of a loop has done its item.
ItemInv(p, i) ==
  LET item == Outputs(p)[i]
      d == item.path
  IN /\ pc[p] \in Staged \cup Looping => prev[p][d] # val[p]
     /\ pc[p] \in Staged => repo[d] # val[p]
     /\ pc[p] \in Looping => held[p][d] \in {NoFile, prev[p][d]}
     /\ pc[p] \in {"backup", "commit"} /\ d \notin done[p] => Untouched(p, item)
     /\ pc[p] \in {"restore", "unpublish"} /\ whole[p] /\ (i > idx[p] \/ d \notin done[p]) =>
          Untouched(p, item)
     /\ (pc[p] = "backup" /\ i <= idx[p]) \/ pc[p] = "commit" =>
          (item.kind = "delete" /\ prev[p][d] # NoFile => repo[d] = NoFile)
     /\ pc[p] = "commit" /\ i <= idx[p] /\ item.kind # "delete" => repo[d] = val[p]
     /\ pc[p] = "sync" => Fulfilled(p, item)

HonestInv(p) == OwnsInv(p) /\ (pc[p] # "idle" => \A i \in 1..Count(p) : ItemInv(p, i))
ProcStep(p) ==
  \/ \E r \in Requests : Call(p, r)
  \/ Lock(p) \/ EditorExits(p) \/ Step(p) \/ Kill(p)

\* The steps that change files are those of the lock holder.
Writes(p) == Persist(p) \/ Move(p) \/ Backup(p) \/ Commit(p) \/ Restore(p)

LEMMA OnlyWritesWrite ==
  ASSUME NEW p \in Procs, ProcStep(p), ~Writes(p)
  PROVE  UNCHANGED <<repo, quarantine>>
BY DEF Writes, ProcStep, Call, Lock, EditorExits, Step, Kill, EditRead, Prepare, PrepareFails,
       SingleFails, Check, CheckFails, BackupFileFails, BackupFails, BackedUp, CommitFails,
       Committed, Restored, Sync, Rollback

\* What q knows is as it was.
Same(q) ==
  /\ pc'[q] = pc[q] /\ idx'[q] = idx[q] /\ req'[q] = req[q] /\ val'[q] = val[q]
  /\ prev'[q] = prev[q] /\ held'[q] = held[q] /\ done'[q] = done[q] /\ whole'[q] = whole[q]

\* A step of p changes nothing that another process knows.
LEMMA OthersSame ==
  ASSUME TypeOK, NEW p \in Procs, ProcStep(p), NEW q \in Procs, q # p
  PROVE  Same(q)
<1> USE DEF TypeOK, Same
<1>1. CASE \E how \in Results : Return(p, how)
  BY <1>1 DEF Return, Goto
<1>2. ASSUME NEW r \in Requests, Call(p, r) PROVE Same(q)
  BY <1>2 DEF Call, Goto
<1>3. CASE Lock(p) \/ Persist(p) \/ Move(p) \/ Check(p) \/ BackedUp(p)
  BY <1>3 DEF Lock, Persist, Move, Check, BackedUp, Goto, local
<1>4. CASE EditRead(p) \/ EditorExits(p)
  BY <1>1, <1>4 DEF EditRead, EditorExits, Goto, local, Results
<1>5. CASE Prepare(p)
  BY <1>5 DEF Prepare, Goto
<1>6. CASE PrepareFails(p) \/ SingleFails(p) \/ CheckFails(p) \/ BackupFileFails(p) \/ Restored(p)
           \/ Sync(p) \/ Kill(p)
  <2>1. \E how \in Results : Return(p, how)
    BY <1>6 DEF PrepareFails, SingleFails, CheckFails, BackupFileFails, Restored, Sync, Kill, Results
  <2> QED BY <1>1, <2>1
<1>7. CASE Backup(p)
  BY <1>7 DEF Backup
<1>8. CASE BackupFails(p) \/ CommitFails(p)
  BY <1>8 DEF BackupFails, CommitFails, Rollback, Goto, local
<1>9. CASE Commit(p)
  BY <1>9 DEF Commit
<1>10. CASE Committed(p)
  BY <1>10 DEF Committed, Goto
<1>11. CASE Restore(p)
  BY <1>11 DEF Restore
<1> QED BY <1>2, <1>3, <1>4, <1>5, <1>6, <1>7, <1>8, <1>9, <1>10, <1>11 DEF ProcStep, Step

\* A step that leaves the destinations of q alone, or at most replaces one that q
\* has not looked at again, leaves what is known of its items.
LEMMA HonestFrame ==
  ASSUME IndInv, NEW q \in Procs, HonestInv(q), Same(q),
         pc[q] \in Staged => \A d \in Dests(q) : repo'[d] \in {repo[d], Foreign},
         pc[q] \in Looping \cup {"sync"} => \A d \in Dests(q) : repo'[d] = repo[d],
         pc[q] = "sync" => quarantine' = quarantine
  PROVE  HonestInv(q)'
<1>1. OwnsInv(q)'
  BY DEF HonestInv, OwnsInv, Same
<1>2. Outputs(q)' = Outputs(q) /\ Count(q)' = Count(q)
  BY DEF Outputs, Count, Same
<1>3. ASSUME NEW i \in 1..Count(q), pc[q] # "idle" PROVE ItemInv(q, i)'
  <2> DEFINE item == Outputs(q)[i]
             d == item.path
  <2>1. ItemInv(q, i) /\ d \in Dests(q)
    BY <1>3 DEF HonestInv, Dests
  <2>2. pc[q] \in Staged => val[q] # Foreign
    BY AuthoringAssumption DEF HonestInv, OwnsInv
  <2>3. pc[q] \in Staged => repo'[d] # val[q]
    BY <2>1, <2>2 DEF ItemInv
  <2>4. pc[q] \in Looping \cup {"sync"} => repo'[d] = repo[d]
    BY <2>1
  <2>5. CASE pc[q] \in Looping
    <3>1. repo'[d] = repo[d]
      BY <2>4, <2>5
    <3> QED BY <1>2, <2>1, <2>5, <3>1 DEF ItemInv, Untouched, Same, Looping, Staged
  <2>6. CASE pc[q] = "sync"
    BY <1>2, <2>1, <2>4, <2>6 DEF ItemInv, Fulfilled, Same, Looping, Staged
  <2>7. CASE pc[q] \notin Looping \cup {"sync"}
    BY <1>2, <2>1, <2>3, <2>7 DEF ItemInv, Same, Looping, Staged
  <2> QED BY <2>5, <2>6, <2>7
<1> QED BY <1>1, <1>2, <1>3 DEF HonestInv, Same

\* A step of p leaves what is known of the requests of the others.
LEMMA HonestOthers ==
  ASSUME IndInv, NEW p \in Procs, ProcStep(p), NEW q \in Procs, q # p, HonestInv(q)
  PROVE  HonestInv(q)'
<1>1. Same(q)
  BY OthersSame DEF IndInv
<1>2. CASE Writes(p)
  <2>1. pc[p] \in Inside
    BY <1>2 DEF Writes, Persist, Move, Backup, Commit, Restore, Inside
  <2>2. pc[q] \notin Inside
    BY <2>1 DEF IndInv, ControlInv
  <2> QED BY <1>1, <2>2, HonestFrame DEF Inside, Staged, Looping
<1>3. CASE ~Writes(p)
  BY <1>1, <1>3, OnlyWritesWrite, HonestFrame
<1> QED BY <1>2, <1>3

\* Where there is nothing to know of the items.
LEMMA HonestOutside ==
  ASSUME NEW p \in Procs, pc'[p] \notin Staged \cup Looping \cup {"sync"},
         held'[p] = Nothing, done'[p] = {}
  PROVE  HonestInv(p)'
BY DEF HonestInv, OwnsInv, ItemInv, Staged, Looping

\* A request that begins, waits, is being edited, stages its outputs or returns.
LEMMA HonestEarly ==
  ASSUME IndInv, NEW p \in Procs, HonestInv(p), ProcStep(p),
         ~Writes(p), ~Check(p), ~BackedUp(p), ~BackupFails(p), ~CommitFails(p), ~Committed(p)
  PROVE  HonestInv(p)'
<1>t. TypeOK /\ ControlInv(p)
  BY DEF IndInv
<1>1. ASSUME NEW how \in Results, Return(p, how) PROVE HonestInv(p)'
  <2>1. pc'[p] = "idle" /\ held'[p] = Nothing /\ done'[p] = {}
    BY <1>t, <1>1 DEF Return, Goto, TypeOK
  <2> QED BY <2>1, HonestOutside DEF Staged, Looping
<1>2. CASE PrepareFails(p) \/ SingleFails(p) \/ CheckFails(p) \/ BackupFileFails(p) \/ Restored(p)
           \/ Sync(p) \/ Kill(p)
  <2>1. \E how \in Results : Return(p, how)
    BY <1>2 DEF PrepareFails, SingleFails, CheckFails, BackupFileFails, Restored, Sync, Kill, Results
  <2> QED BY <1>1, <2>1
<1>3. CASE (\E r \in Requests : Call(p, r)) \/ Lock(p) \/ EditRead(p) \/ EditorExits(p)
  <2>1. CASE Return(p, "refused")
    BY <1>1, <2>1 DEF Results
  <2>2. CASE ~Return(p, "refused")
    <3>1. /\ pc[p] \in {"idle", "lock", "read", "edit"}
          /\ pc'[p] \in {"read", "lock", "edit", "prepare"}
          /\ UNCHANGED <<held, done>>
      BY <1>t, <1>3, <2>2 DEF Call, Lock, EditRead, EditorExits, Goto, local, TypeOK
    <3>2. held[p] = Nothing /\ done[p] = {}
      BY <3>1 DEF HonestInv, OwnsInv, Looping
    <3> QED BY <3>1, <3>2, HonestOutside DEF Staged, Looping
  <2> QED BY <2>1, <2>2
<1>4. CASE Prepare(p)
  <2>1. /\ pc[p] = "prepare" /\ val' = [val EXCEPT ![p] = Fresh]
        /\ prev' = [prev EXCEPT ![p] =
                      [d \in Paths |-> IF d \in Dests(p) THEN repo[d] ELSE NoFile]]
        /\ pc' = [pc EXCEPT ![p] = AfterPrepare[req[p].op]]
        /\ UNCHANGED <<repo, req, idx, held, done>>
    BY <1>4 DEF Prepare, Goto
  <2>2. Fresh \in Values /\ IsFresh(Fresh)
    BY <1>4, FreshIsFresh DEF Prepare
  <2>3. req[p] \in Requests /\ Count(p)' = Count(p) /\ Outputs(p)' = Outputs(p)
    BY <1>t, <2>1 DEF ControlInv, Count, Outputs
  <2>4. /\ pc'[p] = AfterPrepare[req[p].op] /\ val'[p] = Fresh
        /\ prev'[p] = [d \in Paths |-> IF d \in Dests(p) THEN repo[d] ELSE NoFile]
    BY <1>t, <2>1 DEF TypeOK
  <2>5. /\ pc'[p] \in Staged /\ (pc'[p] = "check" => req[p].op = "batch")
        /\ (pc'[p] = "persist" => req[p].op \in {"write", "edit"})
        /\ (pc'[p] = "move" => req[p].op = "delete")
    BY <2>3, <2>4, RequestFacts DEF AfterPrepare, Staged
  <2>6. held[p] = Nothing /\ done[p] = {}
    BY <2>1 DEF HonestInv, OwnsInv, Looping
  <2>7. OwnsInv(p)'
    BY <2>1, <2>2, <2>4, <2>5, <2>6 DEF OwnsInv, Staged, Looping
  <2>8. ASSUME NEW i \in 1..Count(p) PROVE ItemInv(p, i)'
    <3>1. Outputs(p)[i].path \in Paths /\ Outputs(p)[i].path \in Dests(p)
      BY <2>3, RequestFacts DEF Dests
    <3>2. prev'[p][Outputs(p)[i].path] # Fresh /\ repo[Outputs(p)[i].path] # Fresh
      BY <2>2, <2>4, <3>1 DEF IsFresh
    <3> QED BY <2>1, <2>3, <2>4, <2>5, <3>2 DEF ItemInv, Staged, Looping
  <2> QED BY <2>3, <2>7, <2>8 DEF HonestInv
<1> QED BY <1>2, <1>3, <1>4 DEF ProcStep, Step, Writes

\* A single write or deletion that reaches its sync has done what it was asked for.
LEMMA HonestSingle ==
  ASSUME IndInv, NEW p \in Procs, HonestInv(p), Persist(p) \/ Move(p)
  PROVE  HonestInv(p)'
<1>t. TypeOK /\ ControlInv(p) /\ OwnsInv(p)
  BY DEF IndInv, HonestInv
<1>1. /\ pc[p] \in {"persist", "move"} /\ pc' = [pc EXCEPT ![p] = "sync"]
      /\ Unchanged(p, Item(p))
      /\ UNCHANGED <<req, val, prev, held, done>>
  BY DEF Persist, Move, Goto, local
<1>2. pc'[p] = "sync" /\ req[p] \in Requests /\ idx[p] = 0
  BY <1>t, <1>1 DEF TypeOK, ControlInv, Looping
<1>3. Outputs(p)' = Outputs(p) /\ Count(p)' = Count(p)
  BY <1>1 DEF Outputs, Count
<1>4. req[p].op # "batch"
  BY <1>t, <1>1 DEF OwnsInv
<1>5. Count(p) = 1 /\ Item(p) = Outputs(p)[1] /\ Item(p).kind = "secret" /\ Item(p).path \in Paths
  BY <1>2, <1>4, RequestFacts, AuthoringAssumption DEF Item, Outputs, Count
<1>6. OwnsInv(p)'
  BY <1>t, <1>1, <1>2 DEF OwnsInv, Staged, Looping
<1>7. Fulfilled(p, Outputs(p)[1])'
  <2>1. CASE Persist(p)
    BY <1>t, <1>1, <1>3, <1>5, <2>1 DEF Persist, OwnsInv, Fulfilled, TypeOK, Item
  <2>2. CASE Move(p)
    BY <1>t, <1>1, <1>3, <1>5, <2>2 DEF Move, OwnsInv, Fulfilled, TypeOK, Unchanged, Item
  <2> QED BY <2>1, <2>2
<1> QED BY <1>2, <1>3, <1>5, <1>6, <1>7 DEF HonestInv, ItemInv, Staged, Looping

\* The last look at the destinations, the end of the backup loop and of the commit
\* loop, and the beginning of a rollback change no file.
LEMMA HonestTurns ==
  ASSUME IndInv, NEW p \in Procs, HonestInv(p),
         Check(p) \/ BackedUp(p) \/ BackupFails(p) \/ CommitFails(p) \/ Committed(p)
  PROVE  HonestInv(p)'
<1>t. TypeOK /\ ControlInv(p) /\ OwnsInv(p)
  BY DEF IndInv, HonestInv
<1>1. /\ pc[p] \in {"check", "backup", "commit"}
      /\ UNCHANGED <<repo, req, val, prev, done, whole>>
  BY DEF Check, BackedUp, BackupFails, CommitFails, Committed, Rollback, local
<1>2. Outputs(p)' = Outputs(p) /\ Count(p)' = Count(p) /\ req[p] \in Requests
  BY <1>t, <1>1 DEF Outputs, Count, ControlInv
<1>3. Count(p) \in Nat /\ idx[p] \in Nat
  BY <1>t, <1>2, RequestFacts DEF TypeOK
<1>4. \A i \in 1..Count(p) : ItemInv(p, i) /\ Outputs(p)[i].path \in Paths
  BY <1>1, <1>2, RequestFacts DEF HonestInv
<1>5. CASE Check(p)
  <2>1. /\ pc[p] = "check" /\ pc'[p] = "backup" /\ UNCHANGED <<held, idx>>
        /\ \A i \in 1..Count(p) : Unchanged(p, Outputs(p)[i])
    BY <1>t, <1>5 DEF Check, Goto, local, TypeOK
  <2>2. held[p] = Nothing /\ done[p] = {} /\ idx[p] = 0
    BY <1>t, <2>1 DEF OwnsInv, ControlInv, Looping
  <2>3. OwnsInv(p)'
    BY <1>t, <1>1, <2>1 DEF OwnsInv, Staged, Looping
  <2>4. ASSUME NEW i \in 1..Count(p) PROVE ItemInv(p, i)'
    <3>1. held[p][Outputs(p)[i].path] = NoFile
      BY <1>4, <2>2 DEF Nothing
    <3>2. Untouched(p, Outputs(p)[i])
      BY <1>4, <2>1 DEF Untouched, Unchanged, ItemInv, Staged
    <3> QED BY <1>1, <1>2, <1>4, <2>1, <2>2, <3>1, <3>2 DEF ItemInv, Untouched, Staged, Looping
  <2> QED BY <1>2, <2>3, <2>4 DEF HonestInv
<1>6. CASE BackedUp(p)
  <2>1. /\ pc[p] = "backup" /\ pc'[p] = "commit" /\ UNCHANGED held
        /\ idx[p] = Count(p) /\ idx'[p] = 0
    BY <1>t, <1>6 DEF BackedUp, Goto, local, TypeOK
  <2>2. OwnsInv(p)'
    BY <1>t, <1>1, <2>1 DEF OwnsInv, Staged, Looping
  <2>3. ASSUME NEW i \in 1..Count(p) PROVE ItemInv(p, i)'
    BY <1>1, <1>2, <1>3, <1>4, <2>1 DEF ItemInv, Untouched, Staged, Looping
  <2> QED BY <1>2, <2>2, <2>3 DEF HonestInv
<1>7. CASE BackupFails(p) \/ CommitFails(p)
  <2>1. /\ pc[p] \in {"backup", "commit"} /\ pc'[p] \in {"restore", "unpublish"}
        /\ UNCHANGED held /\ idx'[p] = BackedUpItems(p)
    BY <1>t, <1>7 DEF BackupFails, CommitFails, Rollback, Goto, local, TypeOK
  <2>2. OwnsInv(p)'
    BY <1>t, <1>1, <2>1 DEF OwnsInv, Staged, Looping
  <2>3. ASSUME NEW i \in 1..Count(p), i > idx'[p] PROVE Outputs(p)[i].path \notin done[p]
    BY <1>t, <1>3, <2>1, <2>3 DEF OwnsInv, BackedUpItems
  <2>4. ASSUME NEW i \in 1..Count(p) PROVE ItemInv(p, i)'
    BY <1>1, <1>2, <1>4, <2>1, <2>3 DEF ItemInv, Untouched, Staged, Looping
  <2> QED BY <1>2, <2>2, <2>4 DEF HonestInv
<1>8. CASE Committed(p)
  <2>1. /\ pc[p] = "commit" /\ pc'[p] = "sync" /\ held'[p] = Nothing /\ idx[p] = Count(p)
    BY <1>t, <1>8 DEF Committed, Goto, TypeOK
  <2>2. OwnsInv(p)' /\ req[p].op = "batch"
    BY <1>t, <1>1, <2>1 DEF OwnsInv, Staged, Looping
  <2>3. ASSUME NEW i \in 1..Count(p) PROVE Fulfilled(p, Outputs(p)[i])'
    BY <1>1, <1>2, <1>3, <1>4, <2>1, <2>2 DEF ItemInv, Fulfilled
  <2>4. ASSUME NEW i \in 1..Count(p) PROVE ItemInv(p, i)'
    BY <2>1, <2>3 DEF ItemInv, Staged, Looping
  <2> QED BY <1>2, <2>2, <2>4 DEF HonestInv
<1> QED BY <1>5, <1>6, <1>7, <1>8

\* One round of a loop does its item and no other.
LEMMA HonestRounds ==
  ASSUME IndInv, NEW p \in Procs, HonestInv(p), Backup(p) \/ Commit(p) \/ Restore(p)
  PROVE  HonestInv(p)'
<1>t. TypeOK /\ ControlInv(p) /\ FoundInv(p) /\ KeptInv(p) /\ OwnsInv(p)
  BY DEF IndInv, HonestInv
<1>1. /\ pc[p] \in Looping /\ pc'[p] = pc[p] /\ UNCHANGED <<req, val, prev>>
  BY <1>t DEF Backup, Commit, Restore, Looping
<1>2. /\ Outputs(p)' = Outputs(p) /\ Count(p)' = Count(p) /\ req[p] \in Requests
      /\ idx[p] \in Nat /\ Count(p) \in Nat
  BY <1>t, <1>1, RequestFacts DEF Outputs, Count, ControlInv, TypeOK, Looping
<1>3. \A i \in 1..Count(p) : ItemInv(p, i) /\ Outputs(p)[i].path \in Paths
  BY <1>1, <1>2, RequestFacts DEF HonestInv, Looping
<1>4. \A i, j \in 1..Count(p) : Outputs(p)[i].path = Outputs(p)[j].path => i = j
  BY <1>2, RequestFacts
<1>5. val[p] \in Values /\ val[p] # NoFile /\ req[p].op = "batch"
  BY <1>t, <1>1, AuthoringAssumption DEF OwnsInv, Looping, Files
<1>6. /\ repo \in [Paths -> Files \cup {NoFile}]
      /\ held \in [Procs -> [Paths -> Files \cup {NoFile}]] /\ done \in [Procs -> SUBSET Paths]
      /\ idx \in [Procs -> Nat] /\ whole \in [Procs -> BOOLEAN]
  BY <1>t DEF TypeOK
<1>7. CASE Backup(p)
  <2>0. PICK n \in Nat : n = idx[p] + 1
    BY <1>2
  <2> DEFINE e == Outputs(p)[n].path
  <2>1. /\ pc[p] = "backup" /\ n \in 1..Count(p) /\ idx'[p] = n /\ done' = done /\ whole' = whole
        /\ Item(p) = Outputs(p)[n]
    BY <1>2, <1>6, <1>7, <2>0 DEF Backup, Item
  <2>2. OwnsInv(p)'
    BY <1>t, <1>1, <2>1 DEF OwnsInv, Staged, Looping
  <2>3. done[p] = {}
    BY <1>t, <2>1 DEF OwnsInv
  <2>4. ASSUME NEW i \in 1..Count(p), i # n
        PROVE  /\ repo'[Outputs(p)[i].path] = repo[Outputs(p)[i].path]
               /\ held'[p][Outputs(p)[i].path] = held[p][Outputs(p)[i].path]
    <3>1. Outputs(p)[i].path # e /\ Outputs(p)[i].path \in Paths
      BY <1>3, <1>4, <2>1, <2>4
    <3> QED BY <1>6, <1>7, <2>1, <3>1 DEF Backup
  <2>5. CASE NeedsBackup(p, Item(p))
    <3>1. repo'[e] = NoFile /\ held'[p][e] = repo[e]
      BY <1>3, <1>6, <1>7, <2>1, <2>5 DEF Backup
    <3>2. prev[p][e] # NoFile
      BY <1>t, <1>1, <2>1, <2>5 DEF NeedsBackup, FoundInv
    <3>3. repo[e] = prev[p][e]
      BY <1>t, <1>2, <2>0, <2>1, <3>2 DEF KeptInv, Split
    <3>4. ItemInv(p, n)'
      BY <1>1, <1>2, <1>3, <1>5, <2>0, <2>1, <3>1, <3>3 DEF ItemInv, Untouched, Staged, Looping
    <3>5. ASSUME NEW i \in 1..Count(p), i # n PROVE ItemInv(p, i)'
      BY <1>1, <1>2, <1>3, <2>0, <2>1, <2>4, <3>5 DEF ItemInv, Untouched, Staged, Looping
    <3> QED BY <1>2, <2>2, <3>4, <3>5 DEF HonestInv
  <2>6. CASE ~NeedsBackup(p, Item(p))
    <3>1. repo'[e] = repo[e] /\ held'[p][e] = held[p][e]
      BY <1>7, <2>1, <2>6 DEF Backup
    <3>2. Outputs(p)[n].kind = "delete" => prev[p][e] = NoFile
      BY <2>1, <2>6 DEF NeedsBackup
    <3>3. ItemInv(p, n)'
      BY <1>1, <1>2, <1>3, <2>0, <2>1, <3>1, <3>2 DEF ItemInv, Untouched, Staged, Looping
    <3>4. ASSUME NEW i \in 1..Count(p), i # n PROVE ItemInv(p, i)'
      BY <1>1, <1>2, <1>3, <2>0, <2>1, <2>4, <3>4 DEF ItemInv, Untouched, Staged, Looping
    <3> QED BY <1>2, <2>2, <3>3, <3>4 DEF HonestInv
  <2> QED BY <2>5, <2>6
<1>8. CASE Commit(p)
  <2>0. PICK n \in Nat : n = idx[p] + 1
    BY <1>2
  <2> DEFINE e == Outputs(p)[n].path
  <2>1. /\ pc[p] = "commit" /\ n \in 1..Count(p) /\ idx'[p] = n /\ held' = held /\ whole' = whole
        /\ Item(p) = Outputs(p)[n] /\ done[p] \subseteq done'[p]
    BY <1>2, <1>6, <1>8, <2>0 DEF Commit, Item
  <2>2. OwnsInv(p)'
    BY <1>t, <1>1, <2>1 DEF OwnsInv, Staged, Looping
  <2>3. ASSUME NEW i \in 1..Count(p), i # n
        PROVE  repo'[Outputs(p)[i].path] = repo[Outputs(p)[i].path]
    <3>1. Outputs(p)[i].path # e /\ Outputs(p)[i].path \in Paths
      BY <1>3, <1>4, <2>1, <2>3
    <3> QED BY <1>6, <1>8, <2>1, <3>1 DEF Commit
  <2>4. ASSUME NEW i \in 1..Count(p), i # n PROVE ItemInv(p, i)'
    BY <1>1, <1>2, <1>3, <2>0, <2>1, <2>3, <2>4 DEF ItemInv, Untouched, Staged, Looping
  <2>5. ItemInv(p, n)'
    <3>1. CASE Outputs(p)[n].kind = "delete"
      <4>1. repo' = repo /\ done' = done
        BY <1>8, <2>1, <3>1 DEF Commit
      <4> QED BY <1>1, <1>2, <1>3, <2>0, <2>1, <3>1, <4>1 DEF ItemInv, Untouched, Staged, Looping
    <3>2. CASE Outputs(p)[n].kind # "delete"
      <4>1. repo'[e] = val[p] /\ e \in done'[p]
        BY <1>3, <1>6, <1>8, <2>1, <3>2 DEF Commit
      <4> QED BY <1>1, <1>2, <1>3, <2>0, <2>1, <3>2, <4>1 DEF ItemInv, Staged, Looping
    <3> QED BY <3>1, <3>2
  <2> QED BY <1>2, <2>2, <2>4, <2>5 DEF HonestInv
<1>9. CASE Restore(p)
  <2>0. PICK n \in Nat : n = idx[p]
    BY <1>2
  <2> DEFINE e == Outputs(p)[n].path
  <2>1. PICK removed, renamed \in BOOLEAN :
          /\ repo' = [repo EXCEPT ![e] =
               IF held[p][e] # NoFile /\ renamed THEN held[p][e]
               ELSE IF e \in done[p] /\ removed THEN NoFile ELSE @]
          /\ held' = [held EXCEPT ![p][e] = NoFile]
          /\ whole' = [whole EXCEPT ![p] = @ /\ removed /\ renamed]
    BY <1>9, <2>0 DEF Restore
  <2>2. /\ pc[p] \in {"restore", "unpublish"} /\ n \in 1..Count(p) /\ idx'[p] = n - 1
        /\ done' = done
    BY <1>t, <1>2, <1>6, <1>9, <2>0 DEF Restore, ControlInv
  <2>3. whole'[p] => whole[p] /\ removed /\ renamed
    BY <1>6, <2>1
  <2>4. OwnsInv(p)'
    BY <1>t, <1>1, <2>2 DEF OwnsInv, Staged, Looping
  <2>5. ASSUME NEW i \in 1..Count(p), i # n PROVE ItemInv(p, i)'
    <3>1. Outputs(p)[i].path # e /\ Outputs(p)[i].path \in Paths
      BY <1>3, <1>4, <2>2, <2>5
    <3>2. /\ repo'[Outputs(p)[i].path] = repo[Outputs(p)[i].path]
          /\ held'[p][Outputs(p)[i].path] = held[p][Outputs(p)[i].path]
      BY <1>6, <2>1, <3>1
    <3>3. i > idx'[p] => i > idx[p]
      BY <1>2, <2>0, <2>2, <2>5
    <3> QED BY <1>1, <1>2, <1>3, <2>0, <2>2, <2>3, <3>2, <3>3 DEF ItemInv, Untouched, Staged, Looping
  <2>6. ItemInv(p, n)'
    <3>1. /\ held'[p][e] = NoFile
          /\ repo'[e] = IF held[p][e] # NoFile /\ renamed THEN held[p][e]
                        ELSE IF e \in done[p] /\ removed THEN NoFile ELSE repo[e]
      BY <1>3, <1>6, <2>1, <2>2
    <3>2. ItemInv(p, n) /\ prev[p][e] # val[p] /\ held[p][e] \in {NoFile, prev[p][e]}
      BY <1>1, <1>3, <2>2 DEF ItemInv
    <3>3. whole'[p] => Untouched(p, Outputs(p)[n])'
      <4>1. CASE held[p][e] # NoFile
        BY <1>1, <1>2, <2>3, <3>1, <3>2, <4>1 DEF Untouched
      <4>2. CASE held[p][e] = NoFile /\ e \in done[p]
        BY <1>1, <1>2, <1>5, <2>3, <3>1, <4>2 DEF Untouched
      <4>3. CASE held[p][e] = NoFile /\ e \notin done[p]
        BY <1>1, <1>2, <2>0, <2>2, <2>3, <3>1, <3>2, <4>3 DEF ItemInv, Untouched
      <4> QED BY <4>1, <4>2, <4>3
    <3> QED BY <1>1, <1>2, <2>0, <2>2, <3>1, <3>2, <3>3 DEF ItemInv, Staged, Looping
  <2> QED BY <1>2, <2>2, <2>4, <2>5, <2>6 DEF HonestInv
<1> QED BY <1>7, <1>8, <1>9

\* Every step preserves what is known of every request.
LEMMA HonestStep ==
  ASSUME IndInv, [Next]_vars, \A q \in Procs : HonestInv(q)
  PROVE  \A q \in Procs : HonestInv(q)'
<1> SUFFICES ASSUME NEW q \in Procs PROVE HonestInv(q)'
  OBVIOUS
<1>1. CASE UNCHANGED vars
  BY <1>1, HonestFrame DEF vars, Same
<1>2. ASSUME NEW p \in Procs, ProcStep(p) PROVE HonestInv(q)'
  <2>1. CASE q # p
    BY <1>2, <2>1, HonestOthers
  <2>2. CASE q = p
    BY <1>2, <2>2, HonestEarly, HonestSingle, HonestTurns, HonestRounds DEF Writes
  <2> QED BY <2>1, <2>2
<1>3. ASSUME NEW d \in Paths, ForeignWrite(d) PROVE HonestInv(q)'
  <2>1. /\ repo' = [repo EXCEPT ![d] = Foreign]
        /\ UNCHANGED <<quarantine, pc, idx, req, val, prev, held, done, whole>>
        /\ pc[q] \in Looping \cup {"sync"} => d \notin Dests(q)
    BY <1>3 DEF ForeignWrite, local, Looping
  <2>2. \A e : e \in Paths => repo'[e] \in {repo[e], Foreign} /\ (e # d => repo'[e] = repo[e])
    BY <2>1 DEF IndInv, TypeOK
  <2>3. pc[q] \in Staged \cup Looping \cup {"sync"} => Dests(q) \subseteq Paths
    <3>1. pc[q] \in Staged \cup Looping \cup {"sync"} => req[q] \in Requests
      BY DEF IndInv, ControlInv, Staged, Looping
    <3> QED BY <3>1, RequestFacts
  <2> QED BY <2>1, <2>2, <2>3, HonestFrame DEF Same
<1> QED BY <1>1, <1>2, <1>3 DEF Next, ProcStep

LEMMA HonestInit == Init => \A p \in Procs : HonestInv(p)
BY DEF Init, HonestInv, OwnsInv, Staged, Looping

\* For batches of every length and whatever fails where, a request that reports
\* success or unknown durability has changed every destination, and one that
\* reports a rollback has left every one as it was.  (commit_prepared_batch,
\* restore_batch, restore_combined, delete_secret)
THEOREM OutcomeIsAlwaysHonest == Spec => OutcomeIsHonest
<1> DEFINE Honest == \A p \in Procs : HonestInv(p)
           Told(p) ==
             /\ Returns(p, {"ok", "durability_unknown"}) =>
                  \A i \in 1..Count(p) : Fulfilled(p, Outputs(p)[i])
             /\ Returns(p, {"rolled_back"}) =>
                  \A i \in 1..Count(p) : Undone(p, Outputs(p)[i])
<1>1. Init => Honest
  BY HonestInit
<1>2. IndInv /\ [Next]_vars /\ Honest => Honest'
  BY HonestStep
<1>3. ASSUME IndInv, Next, Honest, NEW p \in Procs PROVE Told(p)
  <2> SUFFICES ASSUME Returns(p, {"ok", "durability_unknown", "rolled_back"}) PROVE Told(p)
    BY DEF Returns
  <2>t. TypeOK /\ ControlInv(p) /\ KeptInv(p) /\ HonestInv(p)
    BY <1>3 DEF IndInv
  <2>1. ProcStep(p)
    <3>1. pc[p] # "idle" /\ pc'[p] = "idle"
      BY DEF Returns
    <3>2. \A d \in Paths : ~ForeignWrite(d)
      BY <3>1 DEF ForeignWrite
    <3>3. PICK q \in Procs : ProcStep(q)
      BY <1>3, <3>2 DEF Next, ProcStep
    <3>4. q = p
      BY <2>t, <3>1, <3>3, OthersSame DEF Same
    <3> QED BY <3>3, <3>4
  <2>2. Sync(p) \/ Restored(p)
    <3>1. /\ pc[p] # "idle" /\ pc'[p] = "idle"
          /\ result' \in {"ok", "durability_unknown", "rolled_back"}
      BY DEF Returns
    <3>2. ~Kill(p) /\ ~PrepareFails(p) /\ ~SingleFails(p) /\ ~CheckFails(p) /\ ~BackupFileFails(p)
      BY <3>1 DEF Kill, PrepareFails, SingleFails, CheckFails, BackupFileFails, Return
    <3>3. ~EditRead(p) /\ ~EditorExits(p)
      BY <2>t, <3>1 DEF EditRead, EditorExits, Return, Goto, TypeOK
    <3>4. ~Lock(p) /\ ~Prepare(p) /\ ~Persist(p) /\ ~Move(p) /\ ~Check(p)
      <4>1. ~Prepare(p)
        <5>1. pc[p] = "prepare" => req[p] \in Requests
          BY <2>t DEF ControlInv
        <5> QED BY <2>t, <3>1, <5>1, RequestFacts DEF Prepare, Goto, TypeOK, AfterPrepare
      <4> QED BY <2>t, <3>1, <4>1 DEF Lock, Persist, Move, Check, Goto, TypeOK
    <3>5. ~Backup(p) /\ ~BackedUp(p) /\ ~BackupFails(p) /\ ~Commit(p) /\ ~CommitFails(p)
            /\ ~Committed(p) /\ ~Restore(p)
      BY <2>t, <3>1 DEF Backup, BackedUp, BackupFails, Commit, CommitFails, Committed, Restore,
                        Rollback, Goto, TypeOK
    <3>6. \A r \in Requests : ~Call(p, r)
      BY <3>1 DEF Call
    <3> QED BY <2>1, <3>2, <3>3, <3>4, <3>5, <3>6 DEF ProcStep, Step
  <2>3. CASE Sync(p)
    <3>1. result' # "rolled_back" /\ pc[p] = "sync"
      BY <2>3 DEF Sync, Return
    <3>2. \A i \in 1..Count(p) : Fulfilled(p, Outputs(p)[i])
      BY <2>t, <3>1 DEF HonestInv, ItemInv
    <3> QED BY <3>1, <3>2 DEF Returns
  <2>4. CASE Restored(p)
    <3>1. /\ pc[p] \in {"restore", "unpublish"} /\ idx[p] = 0 /\ result' \notin {"ok", "durability_unknown"}
          /\ result' = "rolled_back" => whole[p]
      BY <2>4 DEF Restored, Return
    <3>2. ASSUME whole[p], NEW i \in 1..Count(p) PROVE Undone(p, Outputs(p)[i])
      <4>1. ItemInv(p, i) /\ i > idx[p] /\ Split(p)
        BY <2>t, <3>1, <3>2 DEF HonestInv, KeptInv
      <4>2. Untouched(p, Outputs(p)[i])
        BY <3>1, <3>2, <4>1 DEF ItemInv
      <4>3. prev[p][Outputs(p)[i].path] # NoFile =>
              repo[Outputs(p)[i].path] = prev[p][Outputs(p)[i].path]
        BY <3>1, <4>1 DEF Split
      <4> QED BY <4>2, <4>3 DEF Untouched, Undone
    <3> QED BY <3>1, <3>2 DEF Returns
  <2> QED BY <2>2, <2>3, <2>4
<1>4. IndInv /\ Honest /\ [Next]_vars => [\A p \in Procs : Told(p)]_vars
  BY <1>3
<1> QED BY <1>1, <1>2, <1>4, AuthoringInductive, PTL DEF Spec, OutcomeIsHonest

=============================================================================
