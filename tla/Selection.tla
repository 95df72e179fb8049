------------------------------ MODULE Selection ------------------------------
(***************************************************************************)
(* Which cached artifact a target activates, when a target is ready, and   *)
(* which artifacts a collection retains (crates/nix-seal-cli).             *)
(*                                                                         *)
(* A cache record is the address it is stored under, its envelope and the  *)
(* hash of its ciphertext bytes.  Nothing in it is trusted.  A target      *)
(* policy has the target, its recipient and, for every secret the target   *)
(* may activate, the hash of the secret's artifact policy, the pinned      *)
(* source, the trusted signers and their threshold.                        *)
(***************************************************************************)
EXTENDS Manifest, FiniteSetsExt

CONSTANT NoRecord

\* What an artifact is bound to.  The address and the expected binding are made
\* of the same fields.
Binding(policy, s, source, generation) ==
  [policy |-> policy.secrets[s].hash, source |-> source, recipient |-> policy.recipient,
   target |-> policy.target, secret |-> s, generation |-> generation]

\* The checks activation, readiness and preparation make of one record.
Candidate(record, policy, s, version, now, skew) ==
  LET manifest == record.envelope.payload
      binding == Binding(policy, s, policy.secrets[s].source, manifest.generation)
  IN /\ Decodes(record.envelope)
     /\ BoundTo(manifest, binding)
     /\ record.address = binding
     /\ manifest.tool = version
     /\ manifest.cipher = record.cipher
     /\ Verify(record.envelope, policy.secrets[s].signers, policy.secrets[s].threshold,
               binding, now, skew)

\* The verified record of the highest generation.
Selected(cache, policy, s, version, now, skew) ==
  LET candidates == {r \in cache : Candidate(r, policy, s, version, now, skew)}
      newest == {r \in candidates : \A z \in candidates :
                   z.envelope.payload.generation <= r.envelope.payload.generation}
  IN IF newest = {} THEN NoRecord ELSE CHOOSE r \in newest : TRUE

InspectActivationArtifacts(cache, policy, version, now, skew) ==
  [s \in DOMAIN policy.secrets |-> Selected(cache, policy, s, version, now, skew)]

\* Records worth reusing: what the inspection selected.
Found(selection) == {selection[s] : s \in DOMAIN selection} \ {NoRecord}

IsReady(cache, policy, version, now, skew) ==
  NoRecord \notin {Selected(cache, policy, s, version, now, skew) : s \in DOMAIN policy.secrets}

\* The collector's own rule: the source is hashed on disk, the producer's
\* version is taken as signed, and the skew is fixed.
ArtifactIsActive(record, policies, disk, now, skew) ==
  LET manifest == record.envelope.payload
  IN \E policy \in policies :
       /\ Decodes(record.envelope)
       /\ manifest.target = policy.target
       /\ manifest.secret \in DOMAIN policy.secrets
       /\ manifest.policy = policy.secrets[manifest.secret].hash
       /\ LET binding == Binding(policy, manifest.secret, disk[manifest.secret],
                                 manifest.generation)
              secret == policy.secrets[manifest.secret]
          IN /\ BoundTo(manifest, binding)
             /\ record.address = binding
             /\ manifest.cipher = record.cipher
             /\ Verify(record.envelope, secret.signers, secret.threshold, binding, now, skew)

AuthenticatedGcRetention(cache, policies, disk, now, skew) ==
  {r \in cache : ArtifactIsActive(r, policies, disk, now, skew)}

-----------------------------------------------------------------------------
(* Writing records *)

\* Publishing never replaces: a record whose address is taken by other bytes is
\* a conflict.
ConflictsWith(cache, record) == \E r \in cache : r.address = record.address /\ r # record

ImportConflicts(cache, records) == \E r \in records : ConflictsWith(cache, r)

\* create_target_artifact signs a fresh encryption of the pinned source.
NewRecord(policy, s, generation, issued, expires, version, cipher, key, form) ==
  LET manifest ==
        [policy |-> policy.secrets[s].hash, source |-> policy.secrets[s].source,
         recipient |-> policy.recipient, target |-> policy.target, secret |-> s,
         generation |-> generation, issued |-> issued, expires |-> expires,
         tool |-> version, cipher |-> cipher]
  IN [address |-> Binding(policy, s, policy.secrets[s].source, generation),
      envelope |-> SignManifest(manifest, key, form), cipher |-> cipher]

EnsureSigningKeyAuthorized(policy, s, key) == key \in policy.secrets[s].signers
=============================================================================
