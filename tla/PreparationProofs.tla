-------------------------- MODULE PreparationProofs --------------------------
(***************************************************************************)
(* Proofs about artifacts on their way from an approval to an activation,  *)
(* for any policies, keys, caches, preparers and faults.                   *)
(***************************************************************************)
EXTENDS Preparation, FiniteSetTheorems, TLAPS

\* Every signature in a record is among those made.
GenuineIn(made, r) ==
  /\ WellTyped(r)
  /\ \A i \in DOMAIN r.envelope.entries :
       <<r.envelope.entries[i].by, r.envelope.entries[i].over[2]>> \in made

Genuine(r) == GenuineIn(approvals, r)

-----------------------------------------------------------------------------
(* Verification *)

\* A list is a list of its own elements.
LEMMA ListOfItsElements ==
  ASSUME NEW S, NEW list \in Seq(S)
  PROVE  list \in Seq({list[i] : i \in DOMAIN list})
OBVIOUS

\* The distinct trusted keys behind the entries of an envelope are at least as
\* many as its entries.  (verify)
LEMMA EnoughSigners ==
  ASSUME NEW envelope, NEW trusted, IsFiniteSet(trusted),
         envelope.entries \in Seq({envelope.entries[i] : i \in DOMAIN envelope.entries}),
         EntriesVerify(envelope, trusted)
  PROVE  LET signers == {key \in trusted : \E i \in DOMAIN envelope.entries :
                           /\ envelope.entries[i].by = key
                           /\ envelope.entries[i].over = Pae(envelope.type, envelope.payload)}
         IN IsFiniteSet(signers) /\ Cardinality(signers) >= Len(envelope.entries)
<1> DEFINE entries == envelope.entries
           message == Pae(envelope.type, envelope.payload)
           signers == {key \in trusted : \E i \in DOMAIN entries :
                         entries[i].by = key /\ entries[i].over = message}
           n == Len(entries)
           key(i) == CHOOSE k \in SignerOf(entries[i], trusted) :
                       VerifySignatureEntry(entries[i], k, message)
           signer == [i \in 1 .. n |-> key(i)]
<1>1. n \in Nat /\ DOMAIN entries = 1 .. n
  OBVIOUS
<1>2. \A i \in 1 .. n : /\ key(i) \in SignerOf(entries[i], trusted)
                        /\ VerifySignatureEntry(entries[i], key(i), message)
  BY <1>1 DEF EntriesVerify
<1>3. \A i \in 1 .. n : key(i) \in signers
  BY <1>1, <1>2 DEF SignerOf, VerifySignatureEntry
<1>4. \A i, j \in 1 .. n : key(i) = key(j) => i = j
  <2>1. SUFFICES ASSUME NEW i \in 1 .. n, NEW j \in 1 .. n, i # j, key(i) = key(j)
                 PROVE  FALSE
    OBVIOUS
  <2>2. SignerOf(entries[i], trusted) \cap SignerOf(entries[j], trusted) = {}
    BY <1>1, <2>1 DEF EntriesVerify
  <2> HIDE DEF key
  <2> QED BY <1>2, <2>1, <2>2
<1> HIDE DEF key
<1>5. IsFiniteSet(signers)
  BY FS_Subset
<1>6. signer \in Injection(1 .. n, signers)
  <2>1. signer \in [1 .. n -> signers]
    BY <1>3
  <2>2. \A i, j \in 1 .. n : signer[i] = signer[j] => i = j
    BY <1>4
  <2> HIDE DEF signer, signers
  <2> QED BY <2>1, <2>2 DEF Injection, IsInjective
<1>7. IsFiniteSet(1 .. n) /\ Cardinality(1 .. n) = n
  BY <1>1, FS_Interval
<1>8. Cardinality(1 .. n) <= Cardinality(signers)
  BY <1>5, <1>6, FS_Injection
<1>9. Cardinality(signers) \in Nat
  BY <1>5, FS_CardinalityType
<1> QED BY <1>1, <1>5, <1>7, <1>8, <1>9

\* A record that passes the checks of the selection, whose signatures were all
\* made, is approved.  (inspect_activation_artifacts)
LEMMA CandidateIsApproved ==
  ASSUME NEW r, NEW v \in Versions, NEW t \in Targets, NEW s \in SecretsOf(v, t),
         NEW now, NEW skew,
         Genuine(r), Candidate(r, Policy(v, t), s, Tool, now, skew)
  PROVE  Approved(r, v, t, s)
<1> DEFINE manifest == r.envelope.payload
           secret == Policy(v, t).secrets[s]
           binding == Binding(Policy(v, t), s, secret.source, manifest.generation)
           entries == r.envelope.entries
           signers == {key \in secret.signers : \E i \in DOMAIN entries :
                         /\ entries[i].by = key
                         /\ entries[i].over = Pae(r.envelope.type, manifest)}
<1>1. /\ BoundTo(manifest, binding)
      /\ manifest.cipher = r.cipher
      /\ Verify(r.envelope, secret.signers, secret.threshold, binding, now, skew)
  BY DEF Candidate
<1>2. IsFiniteSet(secret.signers)
  BY PreparationAssumption DEF Policy, SecretsOf
<1>3. IsFiniteSet(signers) /\ Cardinality(signers) >= Len(entries)
  BY <1>1, <1>2, EnoughSigners DEF Verify, Genuine, GenuineIn, WellTyped
<1>4. signers \subseteq SignedBy(manifest, v, t, s)
  BY DEF SignedBy, Genuine, GenuineIn, Pae
<1>5. IsFiniteSet(SignedBy(manifest, v, t, s))
  BY <1>2, FS_Subset DEF SignedBy
<1>6. /\ Cardinality(signers) <= Cardinality(SignedBy(manifest, v, t, s))
      /\ Cardinality(signers) \in Nat
      /\ Cardinality(SignedBy(manifest, v, t, s)) \in Nat
  BY <1>3, <1>4, <1>5, FS_Subset, FS_CardinalityType
<1>7. Len(entries) >= secret.threshold /\ Len(entries) \in Nat /\ secret.threshold \in Int
  BY <1>1 DEF Verify, Genuine, GenuineIn, WellTyped
<1>8. Cardinality(SignedBy(manifest, v, t, s)) >= secret.threshold
  <2> HIDE DEF signers, secret, entries, manifest
  <2> QED BY <1>3, <1>6, <1>7
<1>9. /\ manifest.target = Policy(v, t).target /\ manifest.secret = s
      /\ manifest.recipient = Policy(v, t).recipient
      /\ manifest.policy = secret.hash /\ manifest.source = secret.source
  BY <1>1 DEF BoundTo, Binding
<1>10. Policy(v, t).target = t
  BY PreparationAssumption DEF Policy
<1> QED BY <1>1, <1>8, <1>9, <1>10 DEF Approved

\* What is selected is a record of the cache that passes the checks.
LEMMA SelectedIsCandidate ==
  ASSUME NEW cache, NEW policy, NEW s, NEW now, NEW skew,
         Selected(cache, policy, s, Tool, now, skew) # NoRecord
  PROVE  /\ Selected(cache, policy, s, Tool, now, skew) \in cache
         /\ Candidate(Selected(cache, policy, s, Tool, now, skew), policy, s, Tool, now, skew)
<1> DEFINE candidates == {r \in cache : Candidate(r, policy, s, Tool, now, skew)}
           newest == {r \in candidates : \A z \in candidates :
                        z.envelope.payload.generation <= r.envelope.payload.generation}
<1>1. Selected(cache, policy, s, Tool, now, skew) = CHOOSE r \in newest : TRUE
  BY DEF Selected
<1>2. newest # {}
  BY DEF Selected
<1>3. Selected(cache, policy, s, Tool, now, skew) \in newest
  <2> HIDE DEF newest
  <2> QED BY <1>1, <1>2
<1> QED BY <1>3

\* A ready cache of genuine records holds for every secret an approved record
\* that has not expired, and the selection returns it.
LEMMA ReadyIsApproved ==
  ASSUME NEW cache, \A r \in cache : Genuine(r),
         NEW v \in Versions, NEW t \in Targets, NEW now, NEW skew,
         Ready(cache, v, t, now, skew), NEW s \in SecretsOf(v, t)
  PROVE  \E r \in cache \cap Found(Inspect(cache, v, t, now, skew)) :
           /\ Approved(r, v, t, s)
           /\ r.envelope.payload.expires # Never => now < r.envelope.payload.expires
<1> DEFINE r == Selected(cache, Policy(v, t), s, Tool, now, skew)
<1>1. r # NoRecord
  BY DEF Ready, IsReady, SecretsOf
<1>2. r \in cache /\ Candidate(r, Policy(v, t), s, Tool, now, skew)
  BY <1>1, SelectedIsCandidate
<1>3. r \in Found(Inspect(cache, v, t, now, skew))
  BY <1>1 DEF Found, Inspect, InspectActivationArtifacts, SecretsOf
<1>4. r.envelope.payload.expires # Never => now < r.envelope.payload.expires
  BY <1>2 DEF Candidate, Verify, InTime
<1> HIDE DEF r
<1>5. Approved(r, v, t, s)
  BY <1>2, CandidateIsApproved
<1> QED BY <1>2, <1>3, <1>4, <1>5

\* Only records of the cache are found.
LEMMA FoundInCache ==
  ASSUME NEW cache, NEW v, NEW t, NEW now, NEW skew
  PROVE  Found(Inspect(cache, v, t, now, skew)) \subseteq cache
<1>1. SUFFICES ASSUME NEW s \in DOMAIN Policy(v, t).secrets,
                      Selected(cache, Policy(v, t), s, Tool, now, skew) # NoRecord
               PROVE  Selected(cache, Policy(v, t), s, Tool, now, skew) \in cache
  BY DEF Found, Inspect, InspectActivationArtifacts
<1> QED BY <1>1, SelectedIsCandidate

\* An approval stays one.
LEMMA ApprovalsStay ==
  ASSUME NEW r, NEW v \in Versions, NEW t \in Targets, NEW s \in SecretsOf(v, t),
         approvals \subseteq approvals', Approved(r, v, t, s)
  PROVE  Approved(r, v, t, s)'
<1> DEFINE old == SignedBy(r.envelope.payload, v, t, s)
           new == old'
           threshold == Policy(v, t).secrets[s].threshold
<1>1. IsFiniteSet(Policy(v, t).secrets[s].signers)
  BY PreparationAssumption DEF Policy, SecretsOf
<1>2. IsFiniteSet(new)
  BY <1>1, FS_Subset DEF SignedBy, Policy
<1>3. old \subseteq new
  BY DEF SignedBy, Policy
<1>4. /\ Cardinality(old) <= Cardinality(new)
      /\ Cardinality(old) \in Nat /\ Cardinality(new) \in Nat
  BY <1>2, <1>3, FS_Subset, FS_CardinalityType
<1>5. Cardinality(old) >= threshold /\ threshold \in Nat
  BY PreparationAssumption DEF Approved, Policy, SecretsOf
<1>6. Cardinality(new) >= threshold
  <2> HIDE DEF old, new, threshold
  <2> QED BY <1>4, <1>5
<1> QED BY <1>6 DEF Approved, Policy

-----------------------------------------------------------------------------
(* The inductive invariant *)

\* Every record that is anywhere.
Records ==
  scene.admin \cup scene.dest \cup admin \cup exchange
    \cup (UNION {dest[t] : t \in Targets}) \cup (UNION {response[p] : p \in Procs})

JobInv(p) ==
  /\ DOMAIN job[p] = {"version", "given", "now", "generation", "waiting"}
  /\ job[p].now \in Nat
  /\ pc[p] # "idle" => job[p].version \in Versions

TypeInv ==
  /\ scene \in Scenes /\ deployed \in Versions /\ clock \in Nat
  /\ DOMAIN dest = Targets /\ DOMAIN response = Procs
  /\ DOMAIN pc = Procs /\ DOMAIN job = Procs /\ DOMAIN left = Procs
  /\ \A p \in Procs : JobInv(p)

\* Nobody holds a signature that was not made.
RecordInv == \A r \in Records : Genuine(r)

ActiveInv ==
  active # NoActivation =>
    /\ active.version \in Versions /\ active.target \in Targets
    /\ \A s \in SecretsOf(active.version, active.target) :
         \E r \in active.records :
           /\ Approved(r, active.version, active.target, s)
           /\ r.envelope.payload.expires # Never => active.now < r.envelope.payload.expires

\* What is being installed was found complete.
CompleteInv(p) ==
  pc[p] = "install" =>
    \A t \in Targets : \A s \in SecretsOf(job[p].version, t) :
      \E r \in response[p] : Approved(r, job[p].version, t, s)

IndInv == TypeInv /\ RecordInv /\ ActiveInv /\ \A p \in Procs : CompleteInv(p)

\* No step unmakes a signature or changes what is given.
LEMMA StepKeeps ==
  ASSUME [Next]_vars
  PROVE  approvals \subseteq approvals' /\ scene' = scene
<1>1. CASE UNCHANGED vars
  BY <1>1 DEF vars
<1>2. ASSUME NEW p \in Procs, Prepare(p)
      PROVE  approvals \subseteq approvals' /\ scene' = scene
  BY <1>2 DEF Prepare, MakeRequest, CheckBatch, RefuseBatch, SelectTarget, CreateMissing,
              CreateFails, CollectTarget, CollectFails, InvokeTimesOut, AnswerIsLost,
              AnswerDiffers, StageResponse, StageFails, InstallTarget, InstallFails,
              ReportReadiness, CreateTargetArtifacts, world
<1>3. ASSUME NEW t \in Targets, NEW key, Provision(t, key)
      PROVE  approvals \subseteq approvals' /\ scene' = scene
  BY <1>3 DEF Provision, CreateTargetArtifacts, world
<1>4. ASSUME NEW key, Approve(key)
      PROVE  approvals \subseteq approvals' /\ scene' = scene
  BY <1>4 DEF Approve, world
<1>5. ASSUME NEW t \in Targets, Import(t) \/ Activate(t) \/ GcTarget(t)
      PROVE  approvals \subseteq approvals' /\ scene' = scene
  BY <1>5 DEF Import, Activate, GcTarget, world
<1>6. ASSUME NEW s \in Secrets, EditSource(s)
      PROVE  approvals \subseteq approvals' /\ scene' = scene
  BY <1>6 DEF EditSource
<1>7. CASE Export \/ ImportAdmin \/ GcAdmin \/ Evaluate \/ Tick
  BY <1>7 DEF Export, ImportAdmin, GcAdmin, Evaluate, Tick, world
<1> QED BY <1>1, <1>2, <1>3, <1>4, <1>5, <1>6, <1>7 DEF Next

-----------------------------------------------------------------------------
(* Records *)

\* A record that create_target_artifact signs holds only its own signature.
LEMMA NewIsGenuine ==
  ASSUME NEW policy, NEW s, NEW key, NEW generation, NEW now \in Nat, NEW expires, NEW cipher,
         NEW made,
         Signed({NewRecord(policy, s, generation, now, expires, Tool, cipher, key, "native")})
           \subseteq made
  PROVE  GenuineIn(made, NewRecord(policy, s, generation, now, expires, Tool, cipher, key, "native"))
<1> DEFINE r == NewRecord(policy, s, generation, now, expires, Tool, cipher, key, "native")
           entry == Sign(key, "native", Pae(Artifact, r.envelope.payload))
<1>1. /\ "envelope" \in DOMAIN r
      /\ {"type", "payload", "entries"} \subseteq DOMAIN r.envelope
      /\ r.envelope.entries = <<entry>> /\ r.envelope.payload.issued = now
  BY DEF NewRecord, SignManifest
<1> HIDE DEF r, entry
<1>2. <<entry>> \in Seq({entry})
  OBVIOUS
<1>3. r.envelope.entries \in Seq({r.envelope.entries[i] : i \in DOMAIN r.envelope.entries})
  BY <1>1, <1>2, ListOfItsElements
<1>4. \A i \in DOMAIN r.envelope.entries :
        <<r.envelope.entries[i].by, r.envelope.entries[i].over[2]>> \in Signed({r})
  BY DEF Signed
<1>5. Signed({r}) \subseteq made
  BY DEF r
<1>6. GenuineIn(made, r)
  BY <1>1, <1>3, <1>4, <1>5 DEF GenuineIn, WellTyped
<1> QED BY <1>6 DEF r

\* Records that stay somewhere, and new ones that are genuine, are genuine.
LEMMA RecordsStay ==
  ASSUME RecordInv, [Next]_vars,
         \A r \in Records' : r \in Records \/ GenuineIn(approvals', r)
  PROVE  RecordInv'
<1>1. approvals \subseteq approvals'
  BY StepKeeps
<1>2. \A r \in Records : GenuineIn(approvals', r)
  BY <1>1 DEF RecordInv, Genuine, GenuineIn
<1> QED BY <1>2 DEF RecordInv, Genuine

\* The records at each place.
LEMMA Places ==
  /\ scene.dest \subseteq Records /\ admin \subseteq Records /\ exchange \subseteq Records
  /\ \A t \in Targets : dest[t] \subseteq Records
  /\ \A p \in Procs : response[p] \subseteq Records
BY DEF Records

\* A step that only moves, copies and drops records.
LEMMA RecordsMove ==
  ASSUME RecordInv, [Next]_vars,
         admin' \cup exchange' \subseteq Records,
         \A t \in Targets : dest'[t] \subseteq Records,
         \A p \in Procs : response'[p] \subseteq Records
  PROVE  RecordInv'
<1>1. scene' = scene
  BY StepKeeps
<1>2. Records' \subseteq Records
  BY <1>1 DEF Records
<1> QED BY <1>2, RecordsStay

\* create_target_artifact only adds genuine records to the administrator's cache.
LEMMA CreatedAreGenuine ==
  ASSUME NEW v, NEW t, NEW secrets, NEW key, NEW generation, NEW now \in Nat, NEW expires,
         CreateTargetArtifacts(v, t, secrets, key, generation, now, expires)
  PROVE  admin \subseteq admin' /\ \A r \in admin' \ admin : GenuineIn(approvals', r)
<1> DEFINE made(s) == NewRecord(Policy(v, t), s, generation, now, expires, Tool,
                                Encrypt(v, t, s), key, "native")
           new == {made(s) : s \in {z \in secrets : Existing(admin, v, t, z, generation) = {}}}
<1>1. admin' = admin \cup new /\ approvals' = approvals \cup Signed(new)
  BY DEF CreateTargetArtifacts
<1>2. \A r \in new : Signed({r}) \subseteq Signed(new)
  BY DEF Signed
<1>3. ASSUME NEW s \in {z \in secrets : Existing(admin, v, t, z, generation) = {}}
      PROVE  GenuineIn(approvals', made(s))
  <2>1. made(s) \in new
    OBVIOUS
  <2>2. Signed({made(s)}) \subseteq approvals'
    BY <1>1, <1>2, <2>1
  <2> QED BY <2>2, NewIsGenuine
<1> QED BY <1>1, <1>3

\* An approval added to a genuine record leaves it genuine.  (add_signature)
LEMMA ApprovedIsGenuine ==
  ASSUME NEW r, NEW key, NEW made, NEW grown, made \subseteq grown, GenuineIn(made, r),
         Signed({[r EXCEPT !.envelope = AddSignature(@, key, "native")]}) \subseteq grown
  PROVE  GenuineIn(grown, [r EXCEPT !.envelope = AddSignature(@, key, "native")])
<1> DEFINE old == r.envelope.entries
           entry == Sign(key, "native", Pae(r.envelope.type, r.envelope.payload))
           z == [r EXCEPT !.envelope = AddSignature(@, key, "native")]
<1>1. z \in {z} /\ Signed({z}) \subseteq grown
  OBVIOUS
<1> SUFFICES GenuineIn(grown, z)
  OBVIOUS
<1>2. /\ "envelope" \in DOMAIN r
      /\ {"type", "payload", "entries"} \subseteq DOMAIN r.envelope
      /\ old \in Seq({old[i] : i \in DOMAIN old})
      /\ r.envelope.payload.issued \in Nat
  BY DEF GenuineIn, WellTyped
<1>3. "envelope" \in DOMAIN z /\ z.envelope = AddSignature(r.envelope, key, "native")
  BY <1>2
<1>4. /\ {"type", "payload", "entries"} \subseteq DOMAIN z.envelope
      /\ z.envelope.entries = Append(old, entry)
      /\ z.envelope.payload = r.envelope.payload
  BY <1>2, <1>3 DEF AddSignature
<1> HIDE DEF z, entry
<1>5. old \in Seq({old[i] : i \in DOMAIN old} \cup {entry})
  BY <1>2
<1>6. z.envelope.entries \in Seq({old[i] : i \in DOMAIN old} \cup {entry})
  BY <1>4, <1>5
<1>7. z.envelope.entries \in Seq({z.envelope.entries[i] : i \in DOMAIN z.envelope.entries})
  BY <1>6, ListOfItsElements
<1>8. \A i \in DOMAIN z.envelope.entries :
        <<z.envelope.entries[i].by, z.envelope.entries[i].over[2]>> \in Signed({z})
  BY DEF Signed
<1> QED BY <1>1, <1>2, <1>3, <1>4, <1>7, <1>8 DEF GenuineIn, WellTyped

\* Every step leaves only genuine records.
LEMMA RecordStep ==
  ASSUME IndInv, [Next]_vars
  PROVE  RecordInv'
<1>0. TypeInv /\ RecordInv
  BY DEF IndInv
<1>1. CASE UNCHANGED vars
  BY <1>0, <1>1 DEF vars, RecordInv, Records, Genuine
<1>2. ASSUME NEW p \in Procs, CreateMissing(p)
      PROVE  RecordInv'
  <2>1. PICK s \in todo[p] :
          CreateTargetArtifacts(job[p].version, Current(p), {s}, AdminKey, job[p].generation,
                                job[p].now, Never)
    BY <1>2 DEF CreateMissing
  <2>2. job[p].now \in Nat
    BY <1>0 DEF TypeInv, JobInv
  <2>3. admin \subseteq admin' /\ \A r \in admin' \ admin : GenuineIn(approvals', r)
    BY <2>1, <2>2, CreatedAreGenuine
  <2>4. Records' \subseteq Records \cup (admin' \ admin)
    BY <1>2 DEF CreateMissing, Records, world
  <2> QED BY <1>0, <2>3, <2>4, RecordsStay
<1>3. ASSUME NEW t \in Targets, NEW key, Provision(t, key)
      PROVE  RecordInv'
  <2>1. PICK generation \in Generations, expires \in Expiries, made \in SUBSET SecretsOf(deployed, t) :
          CreateTargetArtifacts(deployed, t, made, key, generation, AdminNow, expires)
    BY <1>3 DEF Provision
  <2>2. AdminNow \in Nat
    BY <1>0, PreparationAssumption DEF TypeInv, AdminNow
  <2>3. admin \subseteq admin' /\ \A r \in admin' \ admin : GenuineIn(approvals', r)
    BY <2>1, <2>2, CreatedAreGenuine
  <2>4. Records' \subseteq Records \cup (admin' \ admin)
    BY <1>3 DEF Provision, Records, world, procs
  <2> QED BY <1>0, <2>3, <2>4, RecordsStay
<1>4. ASSUME NEW key, Approve(key)
      PROVE  RecordInv'
  <2>1. PICK r \in exchange :
          LET approved == [r EXCEPT !.envelope = AddSignature(@, key, "native")]
          IN /\ exchange' = (exchange \ {r}) \cup {approved}
             /\ approvals' = approvals \cup Signed({approved})
    BY <1>4 DEF Approve
  <2> DEFINE approved == [r EXCEPT !.envelope = AddSignature(@, key, "native")]
  <2>2. exchange' = (exchange \ {r}) \cup {approved} /\ approvals' = approvals \cup Signed({approved})
    BY <2>1
  <2>3. GenuineIn(approvals, r)
    BY <1>0 DEF RecordInv, Records, Genuine
  <2>4. GenuineIn(approvals', approved)
    BY <2>2, <2>3, ApprovedIsGenuine
  <2> HIDE DEF approved
  <2>5. Records' \subseteq Records \cup {approved}
    BY <1>4, <2>2 DEF Approve, Records, world, procs
  <2> QED BY <1>0, <2>4, <2>5, RecordsStay
<1>5. ASSUME NEW p \in Procs,
             \/ MakeRequest(p) \/ CheckBatch(p) \/ RefuseBatch(p) \/ SelectTarget(p)
             \/ CreateFails(p) \/ CollectFails(p) \/ InvokeTimesOut(p) \/ AnswerIsLost(p)
             \/ StageResponse(p) \/ StageFails(p) \/ ReportReadiness(p)
      PROVE  RecordInv'
  <2>1. \A q \in Procs : response'[q] \subseteq response[q]
    BY <1>0, <1>5 DEF MakeRequest, CheckBatch, RefuseBatch, SelectTarget, CreateFails, CollectFails,
                InvokeTimesOut, AnswerIsLost, StageResponse, StageFails, ReportReadiness, Return,
                TypeInv
  <2>2. UNCHANGED <<scene, admin, exchange, dest>>
    BY <1>5 DEF MakeRequest, CheckBatch, RefuseBatch, SelectTarget, CreateFails, CollectFails,
                InvokeTimesOut, AnswerIsLost, StageResponse, StageFails, ReportReadiness, world
  <2> QED BY <1>0, <2>1, <2>2, Places, RecordsMove
<1>6. ASSUME NEW p \in Procs, CollectTarget(p)
      PROVE  RecordInv'
  <2>1. Found(Collected(p)) \subseteq admin
    BY FoundInCache DEF Collected
  <2>2. /\ UNCHANGED <<scene, admin, exchange, dest>>
        /\ \A q \in Procs : response'[q] \subseteq response[q] \cup admin
    BY <1>0, <1>6, <2>1 DEF CollectTarget, world, TypeInv
  <2> QED BY <1>0, <2>2, Places, RecordsMove
<1>7. ASSUME NEW p \in Procs, AnswerDiffers(p)
      PROVE  RecordInv'
  <2>1. /\ UNCHANGED <<scene, admin, exchange, dest>>
        /\ \A q \in Procs : response'[q] \subseteq response[q] \cup scene.dest
    BY <1>0, <1>7 DEF AnswerDiffers, world, TypeInv
  <2> QED BY <1>0, <2>1, Places, RecordsMove
<1>8. ASSUME NEW p \in Procs, InstallTarget(p) \/ InstallFails(p)
      PROVE  RecordInv'
  <2>1. TargetBundle(p) \subseteq response[p]
    BY FoundInCache DEF TargetBundle
  <2>2. /\ UNCHANGED <<scene, admin, exchange>>
        /\ \A q \in Procs : response'[q] \subseteq response[q]
    BY <1>0, <1>8 DEF InstallTarget, InstallFails, Return, world, TypeInv
  <2>3. \A t \in Targets : dest'[t] \subseteq dest[t] \cup response[p]
    BY <1>0, <1>8, <2>1 DEF InstallTarget, InstallFails, TypeInv
  <2> QED BY <1>0, <2>2, <2>3, Places, RecordsMove
<1>9. ASSUME NEW t \in Targets, Import(t) \/ Activate(t) \/ GcTarget(t)
      PROVE  RecordInv'
  <2>1. UNCHANGED <<scene, admin, response>> /\ exchange' \subseteq exchange
    BY <1>9 DEF Import, Activate, GcTarget, world, procs
  <2>2. \A u \in Targets : dest'[u] \subseteq dest[u] \cup exchange
    BY <1>0, <1>9 DEF Import, Activate, GcTarget, Retained, AuthenticatedGcRetention, TypeInv
  <2> QED BY <1>0, <2>1, <2>2, Places, RecordsMove
<1>10. CASE \/ \E s \in Secrets : EditSource(s)
            \/ Export \/ ImportAdmin \/ GcAdmin \/ Evaluate \/ Tick
  <2>1. /\ UNCHANGED <<scene, dest, response>>
        /\ admin' \subseteq admin \cup exchange /\ exchange' \subseteq admin \cup exchange
    BY <1>10 DEF EditSource, Export, ImportAdmin, GcAdmin, Evaluate, Tick, Retained,
                 AuthenticatedGcRetention, world, procs
  <2> QED BY <1>0, <2>1, Places, RecordsMove
<1> QED BY <1>1, <1>2, <1>3, <1>4, <1>5, <1>6, <1>7, <1>8, <1>9, <1>10 DEF Next, Prepare

-----------------------------------------------------------------------------
(* Types, activation and installation *)

\* A return leaves an idle preparer with an empty job.
LEMMA ReturnType ==
  ASSUME TypeInv, NEW p \in Procs, Return(p), UNCHANGED <<scene, deployed, clock>>,
         DOMAIN dest' = Targets
  PROVE  TypeInv'
<1>1. \A q \in Procs : JobInv(q)'
  BY DEF TypeInv, JobInv, Return, NoJob
<1> QED BY <1>1 DEF TypeInv, Return

\* Every step keeps the types.
LEMMA TypeStep ==
  ASSUME TypeInv, [Next]_vars
  PROVE  TypeInv'
<1>1. CASE UNCHANGED vars
  BY <1>1 DEF vars, TypeInv, JobInv
<1>2. ASSUME NEW p \in Procs,
             \/ RefuseBatch(p) \/ CreateFails(p) \/ CollectFails(p) \/ AnswerIsLost(p)
             \/ StageFails(p) \/ InstallFails(p) \/ ReportReadiness(p)
      PROVE  TypeInv'
  <2>1. Return(p) /\ UNCHANGED <<scene, deployed, clock>> /\ DOMAIN dest' = DOMAIN dest
    BY <1>2 DEF RefuseBatch, CreateFails, CollectFails, AnswerIsLost, StageFails, InstallFails,
                ReportReadiness, world
  <2>2. DOMAIN dest' = Targets
    BY <2>1 DEF TypeInv
  <2> QED BY <2>1, <2>2, ReturnType
<1>3. ASSUME NEW p \in Procs, MakeRequest(p)
      PROVE  TypeInv'
  <2>1. PICK given \in Generations \cup {NoGeneration} :
          job' = [job EXCEPT ![p] = [NoJob EXCEPT !.version = deployed, !.given = given,
                                                  !.waiting = TRUE]]
    BY <1>3 DEF MakeRequest
  <2>2. /\ job'[p].version = deployed /\ job'[p].now = 0
        /\ DOMAIN job'[p] = {"version", "given", "now", "generation", "waiting"}
        /\ \A q \in Procs \ {p} : job'[q] = job[q]
    BY <2>1 DEF TypeInv, NoJob
  <2>3. \A q \in Procs : JobInv(q)'
    BY <1>3, <2>2 DEF TypeInv, JobInv, MakeRequest
  <2> QED BY <1>3, <2>1, <2>3 DEF TypeInv, MakeRequest, world
<1>4. ASSUME NEW p \in Procs, CheckBatch(p)
      PROVE  TypeInv'
  <2>1. AdminNow \in Nat
    BY PreparationAssumption DEF TypeInv, AdminNow
  <2>2. \A q \in Procs : JobInv(q)'
    BY <1>4, <2>1 DEF TypeInv, JobInv, CheckBatch
  <2> QED BY <1>4, <2>2 DEF TypeInv, CheckBatch, world
<1>5. ASSUME NEW p \in Procs, SelectTarget(p)
      PROVE  TypeInv'
  <2>1. PICK generation : job' = [job EXCEPT ![p].generation = generation]
    BY <1>5 DEF SelectTarget
  <2>2. \A q \in Procs : JobInv(q)'
    BY <1>5, <2>1 DEF TypeInv, JobInv, SelectTarget
  <2> QED BY <1>5, <2>1, <2>2 DEF TypeInv, SelectTarget, world
<1>6. ASSUME NEW p \in Procs, InvokeTimesOut(p)
      PROVE  TypeInv'
  <2>1. \A q \in Procs : JobInv(q)'
    BY <1>6 DEF TypeInv, JobInv, InvokeTimesOut
  <2> QED BY <1>6, <2>1 DEF TypeInv, InvokeTimesOut, world
<1>7. ASSUME NEW p \in Procs,
             CreateMissing(p) \/ CollectTarget(p) \/ AnswerDiffers(p) \/ StageResponse(p) \/ InstallTarget(p)
      PROVE  TypeInv'
  <2>1. \A q \in Procs : JobInv(q)'
    BY <1>7 DEF TypeInv, JobInv, CreateMissing, CollectTarget, AnswerDiffers, StageResponse,
                InstallTarget
  <2> QED BY <1>7, <2>1 DEF TypeInv, CreateMissing, CollectTarget, AnswerDiffers, StageResponse,
                            InstallTarget, world
<1>8. CASE \/ \E t \in Targets : \E key \in OtherKeys \cup {AdminKey} : Provision(t, key)
           \/ \E key \in OtherKeys : Approve(key)
           \/ \E t \in Targets : Import(t) \/ Activate(t) \/ GcTarget(t)
           \/ \E s \in Secrets : EditSource(s)
           \/ Export \/ ImportAdmin \/ GcAdmin \/ Evaluate \/ Tick
  <2>1. /\ UNCHANGED <<scene, procs>>
        /\ deployed' \in Versions /\ clock' \in Nat /\ DOMAIN dest' = Targets
    BY <1>8 DEF TypeInv, Provision, Approve, Import, Activate, GcTarget, EditSource, Export,
                ImportAdmin, GcAdmin, Evaluate, Tick, world, procs
  <2>2. \A q \in Procs : JobInv(q)'
    BY <2>1 DEF TypeInv, JobInv, procs
  <2> QED BY <2>1, <2>2 DEF TypeInv, procs
<1> QED BY <1>1, <1>2, <1>3, <1>4, <1>5, <1>6, <1>7, <1>8 DEF Next, Prepare

\* Every step leaves an activation that was approved.
LEMMA ActiveStep ==
  ASSUME IndInv, [Next]_vars
  PROVE  ActiveInv'
<1>1. approvals \subseteq approvals'
  BY StepKeeps
<1>2. CASE active' = active
  <2> SUFFICES ASSUME active # NoActivation
               PROVE  /\ active.version \in Versions /\ active.target \in Targets
                      /\ \A s \in SecretsOf(active.version, active.target) :
                           \E r \in active.records :
                             /\ Approved(r, active.version, active.target, s)'
                             /\ r.envelope.payload.expires # Never =>
                                  active.now < r.envelope.payload.expires
    BY <1>2 DEF ActiveInv, NoActivation, SecretsOf, Policy
  <2>1. active.version \in Versions /\ active.target \in Targets
    BY DEF IndInv, ActiveInv
  <2>2. ASSUME NEW s \in SecretsOf(active.version, active.target)
        PROVE  \E r \in active.records :
                 /\ Approved(r, active.version, active.target, s)'
                 /\ r.envelope.payload.expires # Never => active.now < r.envelope.payload.expires
    <3>1. PICK r \in active.records :
            /\ Approved(r, active.version, active.target, s)
            /\ r.envelope.payload.expires # Never => active.now < r.envelope.payload.expires
      BY <2>2 DEF IndInv, ActiveInv
    <3>2. Approved(r, active.version, active.target, s)'
      BY <1>1, <1>2, <2>1, <2>2, <3>1, ApprovalsStay
    <3> QED BY <3>1, <3>2
  <2> QED BY <2>1, <2>2
<1>3. ASSUME NEW t \in Targets, Activate(t)
      PROVE  ActiveInv'
  <2>1. PICK v \in Versions :
          /\ Ready(dest[t], v, t, clock, SpecSkew)
          /\ active' = [target |-> t, version |-> v, now |-> clock,
                        records |-> Found(Inspect(dest[t], v, t, clock, SpecSkew))]
    BY <1>3 DEF Activate
  <2>2. \A r \in dest[t] : Genuine(r)
    BY Places DEF IndInv, RecordInv
  <2>3. \A s \in SecretsOf(v, t) :
          \E r \in Found(Inspect(dest[t], v, t, clock, SpecSkew)) :
            /\ Approved(r, v, t, s)
            /\ r.envelope.payload.expires # Never => clock < r.envelope.payload.expires
    BY <2>1, <2>2, ReadyIsApproved
  <2>4. \A s \in SecretsOf(v, t) :
          \E r \in active'.records :
            /\ Approved(r, v, t, s)'
            /\ r.envelope.payload.expires # Never => active'.now < r.envelope.payload.expires
    BY <1>1, <2>1, <2>3, ApprovalsStay
  <2>5. active'.version = v /\ active'.target = t
    BY <2>1
  <2> QED BY <2>4, <2>5 DEF ActiveInv, SecretsOf, Policy
<1>4. active' = active \/ \E t \in Targets : Activate(t)
  BY DEF Next, Prepare, MakeRequest, CheckBatch, RefuseBatch, SelectTarget, CreateMissing,
         CreateFails, CollectTarget, CollectFails, InvokeTimesOut, AnswerIsLost, AnswerDiffers,
         StageResponse, StageFails, InstallTarget, InstallFails, ReportReadiness, Provision,
         Approve, Import, GcTarget, EditSource, Export, ImportAdmin, GcAdmin, Evaluate, Tick,
         world, vars
<1> QED BY <1>2, <1>3, <1>4

\* Every step of a preparer, and every step beside it, leaves what is being
\* installed complete.
LEMMA CompleteStep ==
  ASSUME IndInv, [Next]_vars, NEW p \in Procs
  PROVE  CompleteInv(p)'
<1> DEFINE v == job[p].version
<1>1. approvals \subseteq approvals'
  BY StepKeeps
<1>2. ASSUME pc'[p] = "install", pc[p] # "install"
      PROVE  StageResponse(p)
  BY <1>2 DEF Next, vars, Prepare, MakeRequest, CheckBatch, RefuseBatch, SelectTarget, CreateMissing,
         CreateFails, CollectTarget, CollectFails, InvokeTimesOut, AnswerIsLost, AnswerDiffers,
         StageResponse, StageFails, InstallTarget, InstallFails, ReportReadiness, Return, Provision,
         Approve, Import, Activate, GcTarget, EditSource, Export, ImportAdmin, GcAdmin, Evaluate,
         Tick, procs, IndInv, TypeInv
<1>3. ASSUME pc'[p] = "install"
      PROVE  job'[p].version = v /\ response'[p] = response[p] /\ v \in Versions
  <2>1. CASE StageResponse(p)
    BY <2>1 DEF StageResponse, IndInv, TypeInv, JobInv
  <2>2. CASE pc[p] = "install"
    <3>1. v \in Versions
      BY <2>2 DEF IndInv, TypeInv, JobInv
    <3>2. job'[p] = job[p] /\ response'[p] = response[p]
      BY <1>3, <2>2 DEF Next, vars, Prepare, MakeRequest, CheckBatch, RefuseBatch, SelectTarget,
         CreateMissing, CreateFails, CollectTarget, CollectFails, InvokeTimesOut, AnswerIsLost,
         AnswerDiffers, StageResponse, StageFails, InstallTarget, InstallFails, ReportReadiness,
         Return, Provision, Approve, Import, Activate, GcTarget, EditSource, Export, ImportAdmin,
         GcAdmin, Evaluate, Tick, procs, IndInv, TypeInv
    <3> QED BY <3>1, <3>2
  <2> QED BY <1>2, <1>3, <2>1, <2>2
<1>4. ASSUME pc'[p] = "install", NEW t \in Targets, NEW s \in SecretsOf(v, t)
      PROVE  \E r \in response[p] : Approved(r, v, t, s)
  <2>1. CASE StageResponse(p)
    <3>1. Ready(response[p], v, t, clock, SpecSkew)
      BY <2>1 DEF StageResponse, StageIsComplete
    <3>2. \A r \in response[p] : Genuine(r)
      BY Places DEF IndInv, RecordInv
    <3> QED BY <1>3, <1>4, <3>1, <3>2, ReadyIsApproved
  <2>2. CASE pc[p] = "install"
    BY <1>4, <2>2 DEF IndInv, CompleteInv
  <2> QED BY <1>2, <1>4, <2>1, <2>2
<1>5. ASSUME pc'[p] = "install", NEW t \in Targets, NEW s \in SecretsOf(v, t)
      PROVE  \E r \in response[p] : Approved(r, v, t, s)'
  <2>1. PICK r \in response[p] : Approved(r, v, t, s)
    BY <1>4, <1>5
  <2>2. PICK version \in Versions : version = v
    BY <1>3, <1>5
  <2>3. Approved(r, version, t, s)'
    BY <1>1, <1>5, <2>1, <2>2, ApprovalsStay
  <2> QED BY <1>3, <1>5, <2>2, <2>3
<1> QED BY <1>3, <1>5 DEF CompleteInv, SecretsOf, Policy

-----------------------------------------------------------------------------
(* The theorems *)

\* The invariant holds at first: whatever lies in the caches was signed by
\* whoever could sign it.
LEMMA InitInv == Init => IndInv
<1> SUFFICES ASSUME Init PROVE IndInv
  OBVIOUS
<1>1. TypeInv
  <2>1. scene \in Scenes /\ deployed \in Versions
    BY PreparationAssumption DEF Init
  <2>2. \A p \in Procs : JobInv(p)
    BY DEF Init, JobInv, NoJob
  <2> QED BY <2>1, <2>2 DEF Init, TypeInv
<1>2. RecordInv
  <2>1. Records = scene.admin \cup scene.dest
    BY DEF Init, Records
  <2>2. ASSUME NEW r \in Records
        PROVE  Genuine(r)
    <3>1. WellTyped(r)
      BY <2>1, PreparationAssumption DEF Init
    <3>2. approvals = Signed(scene.admin \cup scene.dest)
      BY DEF Init
    <3>3. \A i \in DOMAIN r.envelope.entries :
            <<r.envelope.entries[i].by, r.envelope.entries[i].over[2]>> \in approvals
      BY <2>1, <3>2 DEF Signed
    <3> QED BY <3>1, <3>3 DEF Genuine, GenuineIn
  <2> QED BY <2>2 DEF RecordInv
<1>3. ActiveInv /\ \A p \in Procs : CompleteInv(p)
  BY DEF Init, ActiveInv, CompleteInv
<1> QED BY <1>1, <1>2, <1>3 DEF IndInv

\* The inductive invariant of approvals on their way: nobody ever holds a
\* signature that was not made, and an installation has everything it needs.
\* (verify, install_response)
THEOREM PreparationInductive == Spec => []IndInv
<1>1. ASSUME IndInv, [Next]_vars
      PROVE  IndInv'
  <2>1. TypeInv' /\ RecordInv' /\ ActiveInv'
    BY <1>1, TypeStep, RecordStep, ActiveStep DEF IndInv
  <2>2. \A p \in Procs : CompleteInv(p)'
    BY <1>1, CompleteStep
  <2> QED BY <2>1, <2>2 DEF IndInv
<1> QED BY InitInv, <1>1, PTL DEF Spec

\* What a target activates was approved by as many distinct trusted signers as
\* its policy asks for, for exactly this target, secret, source and ciphertext,
\* and had not expired, whatever its cache was fed.  (inspect_activation_artifacts)
THEOREM ActivatedIsAlwaysApproved == Spec => []ActivatedIsApproved
<1>1. IndInv => ActivatedIsApproved
  BY DEF IndInv, ActiveInv, ActivatedIsApproved
<1> QED BY <1>1, PreparationInductive, PTL

\* A preparation writes to no destination unless every destination of the
\* deployment can be completed from the same answer.  (install_response)
THEOREM InstallIsAllOrNothing == Spec => AllOrNothing
<1>1. IndInv => \A p \in Procs :
        pc[p] = "install" =>
          \A t \in Targets : \A s \in SecretsOf(job[p].version, t) :
            \E r \in response[p] : Approved(r, job[p].version, t, s)
  BY DEF IndInv, CompleteInv
<1>2. IndInv /\ [Next]_vars =>
        [\A p \in Procs :
           pc[p] = "install" /\ left'[p] # left[p] /\ dest' # dest =>
             \A t \in Targets : \A s \in SecretsOf(job[p].version, t) :
               \E r \in response[p] : Approved(r, job[p].version, t, s)]_vars
  BY <1>1
<1> QED BY <1>2, PreparationInductive, PTL DEF Spec, AllOrNothing

-----------------------------------------------------------------------------
(* Collection *)

\* The collector keeps what activation would take as a candidate, when it allows
\* at least the same skew and the checkout holds the pinned ciphertext.
\* (artifact_is_active)
LEMMA CandidateIsActive ==
  ASSUME SpecSkew <= ToolSkew, TypeInv, NEW t \in Targets, Pinned(deployed, t),
         NEW s \in SecretsOf(deployed, t), NEW r, WellTyped(r),
         Candidate(r, Policy(deployed, t), s, Tool, clock, SpecSkew)
  PROVE  ArtifactIsActive(r, {Policy(deployed, u) : u \in Targets}, disk, clock, ToolSkew)
<1> DEFINE policy == Policy(deployed, t)
           manifest == r.envelope.payload
           secret == policy.secrets[s]
           binding == Binding(policy, s, secret.source, manifest.generation)
<1>1. /\ Decodes(r.envelope) /\ BoundTo(manifest, binding) /\ r.address = binding
      /\ manifest.cipher = r.cipher
      /\ Verify(r.envelope, secret.signers, secret.threshold, binding, clock, SpecSkew)
  BY DEF Candidate
<1>2. /\ manifest.target = policy.target /\ manifest.secret = s /\ manifest.policy = secret.hash
  BY <1>1 DEF BoundTo, Binding
<1>3. disk[s] = secret.source
  BY DEF Pinned
<1>4. InTime(manifest, clock, ToolSkew)
  <2>1. manifest.issued <= clock + SpecSkew /\ (manifest.expires # Never => clock < manifest.expires)
    BY <1>1 DEF Verify, InTime
  <2>2. manifest.issued \in Nat /\ clock \in Nat /\ SpecSkew \in Nat /\ ToolSkew \in Nat
    BY PreparationAssumption DEF WellTyped, TypeInv
  <2>3. manifest.issued <= clock + ToolSkew
    BY <2>1, <2>2
  <2> QED BY <2>1, <2>3 DEF InTime
<1>5. Verify(r.envelope, secret.signers, secret.threshold, binding, clock, ToolSkew)
  BY <1>1, <1>4 DEF Verify
<1>6. s \in DOMAIN policy.secrets /\ policy \in {Policy(deployed, u) : u \in Targets}
  BY DEF SecretsOf
<1> HIDE DEF policy, binding
<1>7. binding = Binding(policy, manifest.secret, disk[manifest.secret], manifest.generation)
  BY <1>2, <1>3 DEF binding
<1> QED BY <1>1, <1>2, <1>5, <1>6, <1>7 DEF ArtifactIsActive

\* A cache that lost no candidate is inspected alike.
LEMMA SameCandidates ==
  ASSUME NEW cache, NEW rest \in SUBSET cache, NEW v, NEW t, NEW now, NEW skew,
         \A s \in SecretsOf(v, t), r \in cache :
           Candidate(r, Policy(v, t), s, Tool, now, skew) => r \in rest
  PROVE  Inspect(rest, v, t, now, skew) = Inspect(cache, v, t, now, skew)
<1>1. ASSUME NEW s \in SecretsOf(v, t)
      PROVE  Selected(rest, Policy(v, t), s, Tool, now, skew)
               = Selected(cache, Policy(v, t), s, Tool, now, skew)
  <2> DEFINE candidates(c) == {r \in c : Candidate(r, Policy(v, t), s, Tool, now, skew)}
             newest(c) == {r \in candidates(c) : \A z \in candidates(c) :
                             z.envelope.payload.generation <= r.envelope.payload.generation}
  <2>1. candidates(rest) = candidates(cache)
    BY <1>1
  <2>2. newest(rest) = newest(cache)
    BY <2>1
  <2>3. \A c : Selected(c, Policy(v, t), s, Tool, now, skew)
                = IF newest(c) = {} THEN NoRecord ELSE CHOOSE r \in newest(c) : TRUE
    BY DEF Selected
  <2> HIDE DEF newest
  <2> QED BY <2>2, <2>3
<1> QED BY <1>1 DEF Inspect, InspectActivationArtifacts, SecretsOf

\* Only a collection takes records from a target's cache.
LEMMA OnlyGcTakes ==
  ASSUME TypeInv, [Next]_vars, NEW t \in Targets, ~(dest[t] \subseteq dest'[t])
  PROVE  GcTarget(t)
<1>1. CASE \E u \in Targets : GcTarget(u)
  BY <1>1 DEF GcTarget, TypeInv
<1>2. ASSUME NEW p \in Procs, Prepare(p)
      PROVE  FALSE
  <2>1. CASE InstallTarget(p) \/ InstallFails(p)
    BY <2>1 DEF InstallTarget, InstallFails, TypeInv
  <2>2. ~(InstallTarget(p) \/ InstallFails(p)) => dest' = dest
    BY <1>2 DEF Prepare, MakeRequest, CheckBatch, RefuseBatch, SelectTarget,
                CreateMissing, CreateFails, CollectTarget, CollectFails, InvokeTimesOut,
                AnswerIsLost, AnswerDiffers, StageResponse, StageFails, ReportReadiness
  <2> QED BY <2>1, <2>2
<1>3. ~(\E p \in Procs : Prepare(p)) => \E u \in Targets : GcTarget(u)
  BY DEF Next, vars, Provision, Approve, Import, Activate, EditSource, Export, ImportAdmin,
         GcAdmin, Evaluate, Tick, TypeInv
<1> QED BY <1>1, <1>2, <1>3

\* A collection keeps everything that activation of the deployed evaluation would
\* select, when activation allows no more clock skew than the collector.
\* (authenticated_gc_retention)
THEOREM GcAlwaysKeepsSelectable ==
  ASSUME SpecSkew <= ToolSkew
  PROVE  Spec => GcKeepsSelectable
<1>1. ASSUME IndInv, [Next]_vars, NEW t \in Targets, ~(dest[t] \subseteq dest'[t]),
             Pinned(deployed, t)
      PROVE  Inspect(dest'[t], deployed, t, clock, SpecSkew)
               = Inspect(dest[t], deployed, t, clock, SpecSkew)
  <2>1. TypeInv /\ \A r \in dest[t] : WellTyped(r)
    BY <1>1, Places DEF IndInv, RecordInv, Genuine, GenuineIn
  <2>2. GcTarget(t)
    BY <1>1, <2>1, OnlyGcTakes
  <2>3. dest'[t] = Retained(dest[t], clock)
    BY <2>1, <2>2 DEF GcTarget, TypeInv
  <2>4. \A s \in SecretsOf(deployed, t), r \in dest[t] :
          Candidate(r, Policy(deployed, t), s, Tool, clock, SpecSkew) => r \in dest'[t]
    BY <1>1, <2>1, <2>3, CandidateIsActive DEF Retained, AuthenticatedGcRetention
  <2>5. dest'[t] \subseteq dest[t]
    BY <2>3 DEF Retained, AuthenticatedGcRetention
  <2> QED BY <2>4, <2>5, SameCandidates
<1>2. IndInv /\ [Next]_vars =>
        [\A t \in Targets :
           /\ ~(dest[t] \subseteq dest'[t])
           /\ Pinned(deployed, t)
           => Inspect(dest'[t], deployed, t, clock, SpecSkew)
                = Inspect(dest[t], deployed, t, clock, SpecSkew)]_vars
  BY <1>1
<1> QED BY <1>2, PreparationInductive, PTL DEF Spec, GcKeepsSelectable
=============================================================================
