----------------------------- MODULE Preparation -----------------------------
(***************************************************************************)
(* From a policy to an activated artifact across machines                  *)
(* (crates/nix-seal-cli): prepare, provision, artifact approve, cache      *)
(* export, import and gc, readiness and the selection made by activate.    *)
(*                                                                         *)
(* A deployment is one evaluation of the configuration: it pins, for every *)
(* target, the policy and the hash of every canonical source.  A preparer  *)
(* sends it to a worker on the administrator's machine, which reuses or    *)
(* creates artifacts in its own cache and answers with a bundle; the       *)
(* preparer verifies the bundle and installs it target by target.  The     *)
(* caches here are sets of complete records: Cache models how one is       *)
(* written, and Activation what activate does with its selection.          *)
(***************************************************************************)
EXTENDS Selection

CONSTANTS
  Procs,        \* concurrent prepare commands
  Targets,
  Secrets,
  Versions,     \* evaluations of the configuration
  Deployment,   \* the target policies of each version
  Sources,      \* the canonical ciphertexts each secret may have
  AdminKey,     \* the signing key of the preparers
  OtherKeys,    \* the approvers' signing keys
  Generations,  \* values of --generation
  Expiries,     \* values of --expires-at
  Scenes,       \* commands in use together, the faults they meet ("timeout",
                \* "answer", "install"), the caches they start with, and the bounds on the
                \* clock and on the signatures made
  Tool,         \* this build's version
  ToolSkew,     \* the skew of prepare, provision and gc
  SpecSkew,     \* the skew of the activation specifications
  AdminLead,    \* how far the administrator's clock is ahead
  NoGeneration

\* A record has an envelope with a list of entries, and its clocks are numbers.
WellTyped(record) ==
  LET entries == record.envelope.entries
  IN /\ "envelope" \in DOMAIN record
     /\ {"type", "payload", "entries"} \subseteq DOMAIN record.envelope
     /\ entries \in Seq({entries[i] : i \in DOMAIN entries})
     /\ record.envelope.payload.issued \in Nat

ASSUME PreparationAssumption ==
  /\ {ToolSkew, SpecSkew, AdminLead} \subseteq Nat
  /\ \A v \in Versions, t \in Targets :
       /\ Deployment[v][t].target = t
       /\ DOMAIN Deployment[v][t].secrets \subseteq Secrets
       /\ \A s \in DOMAIN Deployment[v][t].secrets :
            /\ IsFiniteSet(Deployment[v][t].secrets[s].signers)
            /\ Deployment[v][t].secrets[s].threshold \in Nat
  /\ \A setting \in Scenes :
       /\ setting.versions \subseteq Versions
       /\ \A record \in setting.admin \cup setting.dest : WellTyped(record)

VARIABLES
  scene,      \* the commands in use; it never changes
  deployed,   \* the version last evaluated
  disk,       \* the canonical ciphertext of each secret in the checkout
  clock,      \* the time at the targets
  admin,      \* the administrator's cache
  dest,       \* the cache of each target
  exchange,   \* an exported cache on its way
  approvals,  \* history: every signature made, as key and manifest
  pc,         \* where each preparer, or the worker it left behind, is
  job,        \* its deployment, generation, start of the worker and waiting state
  todo,       \* the secrets the worker still creates for its current target
  left,       \* the targets still to be worked on
  response,   \* the bundle collected by the worker
  active      \* the last activation: its target, version, instant and records

vars == <<scene, deployed, disk, clock, admin, dest, exchange, approvals, pc, job, todo, left,
          response, active>>

NoJob == [version |-> CHOOSE v \in Versions : TRUE, given |-> NoGeneration,
          now |-> 0, generation |-> 0, waiting |-> FALSE]

NoActivation == [target |-> NoRecord, version |-> NoRecord, now |-> 0, records |-> {}]

Policy(v, t) == Deployment[v][t]
SecretsOf(v, t) == DOMAIN Policy(v, t).secrets

Inspect(cache, v, t, now, skew) ==
  InspectActivationArtifacts(cache, Policy(v, t), Tool, now, skew)

Ready(cache, v, t, now, skew) == IsReady(cache, Policy(v, t), Tool, now, skew)

\* A checkout matches an evaluation when it holds the ciphertexts it pins.
Pinned(v, t) == \A s \in SecretsOf(v, t) : disk[s] = Policy(v, t).secrets[s].source

AdminNow == clock + AdminLead

TypeOK ==
  /\ deployed \in Versions
  /\ \A s \in Secrets : disk[s] \in Sources[s]
  /\ clock \in 0 .. scene.maxClock
  /\ pc \in [Procs -> {"idle", "check", "select", "create", "collect", "stage", "install", "ready"}]
  /\ \A p \in Procs : todo[p] \subseteq Secrets /\ left[p] \subseteq Targets

Signed(records) ==
  UNION {{<<r.envelope.entries[i].by, r.envelope.entries[i].over[2]>> :
            i \in DOMAIN r.envelope.entries} : r \in records}

Init ==
  /\ scene \in Scenes
  /\ deployed \in scene.versions
  /\ disk \in [Secrets -> UNION {Sources[s] : s \in Secrets}]
  /\ \A t \in Targets : Pinned(deployed, t)
  /\ clock = 0
  /\ admin = scene.admin
  /\ dest = [t \in Targets |-> scene.dest]
  /\ exchange = {}
  /\ approvals = Signed(admin \cup scene.dest)
  /\ pc = [p \in Procs |-> "idle"]
  /\ job = [p \in Procs |-> NoJob]
  /\ todo = [p \in Procs |-> {}]
  /\ left = [p \in Procs |-> {}]
  /\ response = [p \in Procs |-> {}]
  /\ active = NoActivation

\* Bound: the signatures still made.
MaySign == Cardinality(approvals) < Cardinality(Signed(scene.admin \cup scene.dest)) + scene.maxSigned

world == <<scene, deployed, disk, clock, active>>
procs == <<pc, job, todo, left, response>>

-----------------------------------------------------------------------------
(* Writing the administrator's cache *)

\* A ciphertext that no one has made before; direct delivery copies the source.
Encrypt(v, t, s) ==
  LET policy == Policy(v, t).secrets[s]
  IN <<s, policy.source, IF policy.delivery = "direct" THEN 0 ELSE Cardinality(approvals) + 1>>

Address(v, t, s, generation) ==
  Binding(Policy(v, t), s, Policy(v, t).secrets[s].source, generation)

\* A record that is already there, or that a racing writer put there, is reused
\* only when the caller's own key signed it no later than now.
AuthenticateRecord(record, key, v, t, s, generation, now) ==
  /\ record.envelope.payload.tool = Tool
  /\ record.envelope.payload.cipher = record.cipher
  /\ Verify(record.envelope, {key}, 1, Address(v, t, s, generation), now, 0)

Existing(cache, v, t, s, generation) ==
  {r \in cache : r.address = Address(v, t, s, generation)}

CanCreate(v, t, s, key, generation, now) ==
  \A r \in Existing(admin, v, t, s, generation) :
    AuthenticateRecord(r, key, v, t, s, generation, now)

\* create_target_artifact: what exists is reused, the rest is encrypted, signed
\* and published.
CreateTargetArtifacts(v, t, secrets, key, generation, now, expires) ==
  LET new == {NewRecord(Policy(v, t), s, generation, now, expires, Tool, Encrypt(v, t, s),
                        key, "native") :
                s \in {z \in secrets : Existing(admin, v, t, z, generation) = {}}}
  IN /\ admin' = admin \cup new
     /\ approvals' = approvals \cup Signed(new)

-----------------------------------------------------------------------------
(* prepare *)

Return(p) ==
  /\ pc' = [pc EXCEPT ![p] = "idle"]
  /\ job' = [job EXCEPT ![p] = NoJob]
  /\ todo' = [todo EXCEPT ![p] = {}]
  /\ left' = [left EXCEPT ![p] = {}]
  /\ response' = [response EXCEPT ![p] = {}]

\* make_request: the checkout must hold what the evaluation pinned.
MakeRequest(p) ==
  /\ pc[p] = "idle"
  /\ p \in scene.preparers
  /\ \A t \in Targets : Pinned(deployed, t)
  /\ \E given \in Generations \cup {NoGeneration} :
       job' = [job EXCEPT ![p] = [NoJob EXCEPT !.version = deployed, !.given = given,
                                               !.waiting = TRUE]]
  /\ pc' = [pc EXCEPT ![p] = "check"]
  /\ UNCHANGED <<world, admin, dest, exchange, approvals, todo, left, response>>

\* A missing artifact can be created by this key alone.
MayCreate(v, t, s) ==
  /\ EnsureSigningKeyAuthorized(Policy(v, t), s, AdminKey)
  /\ Policy(v, t).secrets[s].threshold = 1

BatchIsValid(v) ==
  \A t \in Targets :
    LET found == Inspect(admin, v, t, AdminNow, ToolSkew)
    IN \A s \in SecretsOf(v, t) : found[s] = NoRecord => MayCreate(v, t, s)

\* The whole batch is validated before the first write.
CheckBatch(p) ==
  /\ pc[p] = "check"
  /\ BatchIsValid(job[p].version)
  /\ job' = [job EXCEPT ![p].now = AdminNow]
  /\ left' = [left EXCEPT ![p] = Targets]
  /\ pc' = [pc EXCEPT ![p] = "select"]
  /\ UNCHANGED <<world, admin, dest, exchange, approvals, todo, response>>

RefuseBatch(p) ==
  /\ pc[p] = "check"
  /\ ~BatchIsValid(job[p].version)
  /\ Return(p)
  /\ UNCHANGED <<world, admin, dest, exchange, approvals>>

\* The targets are worked on in the order of the deployment description, which
\* is any order.
Current(p) == CHOOSE t \in left[p] : TRUE

Highest(selection) == Max({0} \cup {r.envelope.payload.generation : r \in Found(selection)})

\* For one target: what is missing, and a generation above all that is selected.
SelectTarget(p) ==
  /\ pc[p] = "select"
  /\ LET found == Inspect(admin, job[p].version, Current(p), AdminNow, ToolSkew)
         next == Max({job[p].now, Highest(found) + 1})
     IN /\ todo' = [todo EXCEPT ![p] = {s \in DOMAIN found : found[s] = NoRecord}]
        /\ job' = [job EXCEPT ![p].generation =
                     IF job[p].given = NoGeneration THEN next ELSE job[p].given]
  /\ pc' = [pc EXCEPT ![p] = "create"]
  /\ UNCHANGED <<world, admin, dest, exchange, approvals, left, response>>

CreateMissing(p) ==
  /\ pc[p] = "create"
  /\ \E s \in todo[p] :
       LET j == job[p]
       IN /\ CanCreate(j.version, Current(p), s, AdminKey, j.generation, j.now)
          /\ MaySign
          /\ CreateTargetArtifacts(j.version, Current(p), {s}, AdminKey, j.generation, j.now, Never)
          /\ todo' = [todo EXCEPT ![p] = @ \ {s}]
  /\ UNCHANGED <<world, dest, exchange, pc, job, left, response>>

\* A record at the address that cannot be authenticated, or any failure of the
\* decryption, the encryption or the cache.
CreateFails(p) ==
  /\ pc[p] = "create" /\ todo[p] # {}
  /\ Return(p)
  /\ UNCHANGED <<world, admin, dest, exchange, approvals>>

\* Every created artifact is selected again before it is answered.
Collected(p) == Inspect(admin, job[p].version, Current(p), AdminNow, ToolSkew)

CollectTarget(p) ==
  /\ pc[p] = "create" /\ todo[p] = {}
  /\ \A s \in DOMAIN Collected(p) : Collected(p)[s] # NoRecord
  /\ response' = [response EXCEPT ![p] = @ \cup Found(Collected(p))]
  /\ left' = [left EXCEPT ![p] = @ \ {Current(p)}]
  /\ pc' = [pc EXCEPT ![p] = IF left'[p] = {} THEN "stage" ELSE "select"]
  /\ UNCHANGED <<world, admin, dest, exchange, approvals, job, todo>>

CollectFails(p) ==
  /\ pc[p] = "create" /\ todo[p] = {}
  /\ \E s \in DOMAIN Collected(p) : Collected(p)[s] = NoRecord
  /\ Return(p)
  /\ UNCHANGED <<world, admin, dest, exchange, approvals>>

\* The preparer's deadline passes.  Its ssh client is killed; the remote worker
\* goes on, and nobody reads its answer.
InvokeTimesOut(p) ==
  /\ pc[p] \in {"check", "select", "create"}
  /\ job[p].waiting
  /\ "timeout" \in scene.faults
  /\ job' = [job EXCEPT ![p].waiting = FALSE]
  /\ UNCHANGED <<world, admin, dest, exchange, approvals, pc, todo, left, response>>

AnswerIsLost(p) ==
  /\ pc[p] = "stage"
  /\ ~job[p].waiting
  /\ Return(p)
  /\ UNCHANGED <<world, admin, dest, exchange, approvals>>

\* The administrator's machine need not run this build: its answer may lack a
\* record and hold others that nobody asked for.
AnswerDiffers(p) ==
  /\ pc[p] = "stage"
  /\ job[p].waiting
  /\ "answer" \in scene.faults
  /\ \E r \in response[p] :
       response' = [response EXCEPT ![p] = (@ \ {r}) \cup scene.dest]
  /\ UNCHANGED <<world, admin, dest, exchange, approvals, pc, job, todo, left>>

\* Mutant: the answer is verified for the target that is installed first.
StageIsCompleteForFirst(p) ==
  \E t \in Targets : Ready(response[p], job[p].version, t, clock, ToolSkew)

\* The preparer verifies the answer for every target, by its own rule and by
\* that of the activation specifications, before the first import.
StageIsComplete(p) ==
  /\ ~ImportConflicts(response[p], response[p])
  /\ \A t \in Targets :
       /\ Ready(response[p], job[p].version, t, clock, ToolSkew)
       /\ Ready(response[p], job[p].version, t, clock, SpecSkew)

StageResponse(p) ==
  /\ pc[p] = "stage"
  /\ job[p].waiting
  /\ StageIsComplete(p)
  /\ left' = [left EXCEPT ![p] = Targets]
  /\ pc' = [pc EXCEPT ![p] = "install"]
  /\ UNCHANGED <<world, admin, dest, exchange, approvals, job, todo, response>>

StageFails(p) ==
  /\ pc[p] = "stage"
  /\ job[p].waiting
  /\ ~StageIsComplete(p)
  /\ Return(p)
  /\ UNCHANGED <<world, admin, dest, exchange, approvals>>

\* What one destination is sent, selected once more from the staged answer.
TargetBundle(p) == Found(Inspect(response[p], job[p].version, Current(p), clock, ToolSkew))

InstallTarget(p) ==
  /\ pc[p] = "install"
  /\ ~ImportConflicts(dest[Current(p)], TargetBundle(p))
  /\ dest' = [dest EXCEPT ![Current(p)] = @ \cup TargetBundle(p)]
  /\ left' = [left EXCEPT ![p] = @ \ {Current(p)}]
  /\ pc' = [pc EXCEPT ![p] = IF left'[p] = {} THEN "ready" ELSE "install"]
  /\ UNCHANGED <<world, admin, exchange, approvals, job, todo, response>>

\* A conflicting destination is left alone; an import that fails otherwise has
\* imported a part.  The later targets are not tried.
InstallFails(p) ==
  /\ pc[p] = "install"
  /\ \/ ImportConflicts(dest[Current(p)], TargetBundle(p)) /\ UNCHANGED dest
     \/ /\ "install" \in scene.faults
        /\ ~ImportConflicts(dest[Current(p)], TargetBundle(p))
        /\ \E part \in SUBSET TargetBundle(p) :
             dest' = [dest EXCEPT ![Current(p)] = @ \cup part]
  /\ Return(p)
  /\ UNCHANGED <<world, admin, exchange, approvals>>

\* The readiness of every destination is reported; the command returns either way.
ReportReadiness(p) ==
  /\ pc[p] = "ready"
  /\ Return(p)
  /\ UNCHANGED <<world, admin, dest, exchange, approvals>>

-----------------------------------------------------------------------------
(* The other commands *)

\* provision: every secret of a target at an explicit generation.  It stops at the
\* first artifact it cannot create and keeps those it has created; rekey is the
\* same for one chosen secret.
Provision(t, key) ==
  /\ "provision" \in scene.commands
  /\ MaySign
  /\ \E generation \in Generations, expires \in Expiries, made \in SUBSET SecretsOf(deployed, t) :
       /\ \A s \in made :
            /\ EnsureSigningKeyAuthorized(Policy(deployed, t), s, key)
            /\ disk[s] = Policy(deployed, t).secrets[s].source
            /\ CanCreate(deployed, t, s, key, generation, AdminNow)
       /\ expires # Never => expires > AdminNow
       /\ CreateTargetArtifacts(deployed, t, made, key, generation, AdminNow, expires)
  /\ UNCHANGED <<world, dest, exchange, procs>>

\* cache export copies the whole cache to a new directory.
Export ==
  /\ "exchange" \in scene.commands
  /\ exchange = {}
  /\ exchange' = admin
  /\ UNCHANGED <<world, admin, dest, approvals, procs>>

\* artifact approve, on an envelope of the exchange.
Approve(key) ==
  /\ MaySign
  /\ \E r \in exchange :
       /\ CanAddSignature(r.envelope, key)
       /\ LET approved == [r EXCEPT !.envelope = AddSignature(@, key, "native")]
          IN /\ exchange' = (exchange \ {r}) \cup {approved}
             /\ approvals' = approvals \cup Signed({approved})
  /\ UNCHANGED <<world, admin, dest, procs>>

\* cache import at a target: all of the exchange, or nothing when any of it
\* conflicts.
Import(t) ==
  /\ exchange # {} /\ ~ImportConflicts(dest[t], exchange)
  /\ dest' = [dest EXCEPT ![t] = @ \cup exchange]
  /\ exchange' = {}
  /\ UNCHANGED <<world, admin, approvals, procs>>

ImportAdmin ==
  /\ exchange # {} /\ ~ImportConflicts(admin, exchange)
  /\ admin' = admin \cup exchange
  /\ exchange' = {}
  /\ UNCHANGED <<world, dest, approvals, procs>>

\* activate: any evaluation that was built may be switched to.
Activate(t) ==
  /\ \E v \in Versions :
       /\ Ready(dest[t], v, t, clock, SpecSkew)
       /\ active' = [target |-> t, version |-> v, now |-> clock,
                     records |-> Found(Inspect(dest[t], v, t, clock, SpecSkew))]
  /\ UNCHANGED <<scene, deployed, disk, clock, admin, dest, exchange, approvals, procs>>

\* Mutant: the collector allows no clock skew.
RetainedWithoutSkew(cache, now) ==
  AuthenticatedGcRetention(cache, {Policy(deployed, t) : t \in Targets}, disk, now, 0)

\* cache gc --execute with the deployed plan, on the administrator's machine and
\* at a target.
Retained(cache, now) ==
  AuthenticatedGcRetention(cache, {Policy(deployed, t) : t \in Targets}, disk, now, ToolSkew)

GcAdmin ==
  /\ "gc" \in scene.commands
  /\ admin' = Retained(admin, AdminNow)
  /\ UNCHANGED <<world, dest, exchange, approvals, procs>>

GcTarget(t) ==
  /\ "gc" \in scene.commands
  /\ dest' = [dest EXCEPT ![t] = Retained(@, clock)]
  /\ UNCHANGED <<world, admin, exchange, approvals, procs>>

\* The canonical ciphertext of a secret is written again.
EditSource(s) ==
  /\ "edit" \in scene.commands
  /\ \E source \in Sources[s] : disk' = [disk EXCEPT ![s] = source]
  /\ UNCHANGED <<scene, deployed, clock, admin, dest, exchange, approvals, procs, active>>

\* The configuration is evaluated; it pins what the checkout holds.
Evaluate ==
  /\ "edit" \in scene.commands
  /\ \E v \in Versions :
       /\ \A t \in Targets : Pinned(v, t)
       /\ deployed' = v
  /\ UNCHANGED <<scene, disk, clock, admin, dest, exchange, approvals, procs, active>>

Tick ==
  /\ clock < scene.maxClock
  /\ clock' = clock + 1
  /\ UNCHANGED <<scene, deployed, disk, admin, dest, exchange, approvals, procs, active>>

Prepare(p) ==
  \/ MakeRequest(p) \/ CheckBatch(p) \/ RefuseBatch(p) \/ SelectTarget(p) \/ CreateMissing(p)
  \/ CreateFails(p) \/ CollectTarget(p) \/ CollectFails(p) \/ InvokeTimesOut(p)
  \/ AnswerIsLost(p) \/ AnswerDiffers(p) \/ StageResponse(p) \/ StageFails(p) \/ InstallTarget(p)
  \/ InstallFails(p) \/ ReportReadiness(p)

Next ==
  \/ \E p \in Procs : Prepare(p)
  \/ \E t \in Targets : \E key \in OtherKeys \cup {AdminKey} : Provision(t, key)
  \/ \E key \in OtherKeys : Approve(key)
  \/ \E t \in Targets : Import(t) \/ Activate(t) \/ GcTarget(t)
  \/ \E s \in Secrets : EditSource(s)
  \/ Export \/ ImportAdmin \/ GcAdmin \/ Evaluate \/ Tick

Spec == Init /\ [][Next]_vars

-----------------------------------------------------------------------------
(* Properties *)

\* The signers a policy trusts that really signed a manifest.
SignedBy(manifest, v, t, s) ==
  {key \in Policy(v, t).secrets[s].signers : <<key, manifest>> \in approvals}

Approved(r, v, t, s) ==
  LET manifest == r.envelope.payload
      secret == Policy(v, t).secrets[s]
  IN /\ Cardinality(SignedBy(manifest, v, t, s)) >= secret.threshold
     /\ manifest.target = t /\ manifest.secret = s
     /\ manifest.recipient = Policy(v, t).recipient
     /\ manifest.policy = secret.hash /\ manifest.source = secret.source
     /\ manifest.cipher = r.cipher

\* Whatever a target's cache holds, activation delivers for every secret of its
\* policy an artifact that enough distinct trusted signers approved for exactly
\* this target, secret, source, policy and ciphertext, and that had not expired.
\* (inspect_activation_artifacts, verify)
ActivatedIsApproved ==
  active # NoActivation =>
    \A s \in SecretsOf(active.version, active.target) :
      \E r \in active.records :
        /\ Approved(r, active.version, active.target, s)
        /\ r.envelope.payload.expires # Never => active.now < r.envelope.payload.expires

\* No destination is written by a preparation that lacks an approved artifact of
\* any other destination of the same deployment.  (install_response)
AllOrNothing ==
  [][\A p \in Procs :
       pc[p] = "install" /\ left'[p] # left[p] /\ dest' # dest =>
         \A t \in Targets : \A s \in SecretsOf(job[p].version, t) :
           \E r \in response[p] : Approved(r, job[p].version, t, s)]_vars

\* A collection with the deployed plan never takes from a cache what an
\* activation of that deployment would select, as long as the checkout holds the
\* ciphertexts it pins.  (artifact_is_active against inspect_activation_artifacts)
GcKeepsSelectable ==
  [][\A t \in Targets :
       /\ ~(dest[t] \subseteq dest'[t])
       /\ Pinned(deployed, t)
       => Inspect(dest'[t], deployed, t, clock, SpecSkew)
            = Inspect(dest[t], deployed, t, clock, SpecSkew)]_vars
=============================================================================
