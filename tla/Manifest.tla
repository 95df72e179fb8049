------------------------------ MODULE Manifest ------------------------------
(***************************************************************************)
(* Signed manifests (crates/nix-seal-manifest): what an approval signs,    *)
(* how approvals are collected in an envelope, and when an envelope is     *)
(* believed.                                                               *)
(*                                                                         *)
(* A key is its Ed25519 material.  The same material may be configured and *)
(* used in the native and in the OpenSSH form, which have different wire   *)
(* identifiers.  A signature is the pair of the signing material and the   *)
(* message; that it cannot be made otherwise is the external assumption.   *)
(***************************************************************************)
EXTENDS Naturals, Sequences, FiniteSets

CONSTANT Never     \* the expiry of a manifest that has none

MaxSignatures == 256

Forms == {"native", "ssh"}

\* The wire identifiers under which one verification key accepts entries.
WireIds(key) == {<<form, key>> : form \in Forms}

\* The pre-authentication encoding binds the payload to its type.
Pae(type, payload) == <<type, payload>>

Sign(key, form, message) ==
  [wire |-> <<form, key>>, algorithm |-> form, by |-> key, over |-> message]

\* Both algorithms verify against the same material.
VerifySignatureEntry(entry, key, message) == entry.by = key /\ entry.over = message

ValidStructure(manifest) ==
  /\ manifest.generation > 0
  /\ manifest.expires # Never => manifest.expires > manifest.issued

\* The two clocks of a manifest: issued in the past up to the allowed skew, and
\* not yet expired.
InTime(manifest, now, skew) ==
  /\ manifest.issued <= now + skew
  /\ manifest.expires # Never => now < manifest.expires

BoundTo(manifest, expected) == \A field \in DOMAIN expected : manifest[field] = expected[field]

\* The artifact type; envelopes of any other type are refused.
Artifact == "artifact"

Decodes(envelope) ==
  /\ envelope.type = Artifact
  /\ Len(envelope.entries) <= MaxSignatures
  /\ ValidStructure(envelope.payload)

SignManifest(manifest, key, form) ==
  [type |-> Artifact, payload |-> manifest,
   entries |-> <<Sign(key, form, Pae(Artifact, manifest))>>]

\* One approval per material, whichever form its entry has.
CanAddSignature(envelope, key) ==
  /\ Decodes(envelope)
  /\ Len(envelope.entries) < MaxSignatures
  /\ \A i \in DOMAIN envelope.entries : envelope.entries[i].wire \notin WireIds(key)

AddSignature(envelope, key, form) ==
  [envelope EXCEPT !.entries =
     Append(@, Sign(key, form, Pae(envelope.type, envelope.payload)))]

\* The trusted material that answers to an entry.
SignerOf(entry, trusted) == {key \in trusted : entry.wire \in WireIds(key)}

\* Mutant: repeated approvals are recognised by their wire identifier.
EntriesVerifyByWireId(envelope, trusted) ==
  /\ \A i \in DOMAIN envelope.entries :
       \E key \in SignerOf(envelope.entries[i], trusted) :
         VerifySignatureEntry(envelope.entries[i], key, Pae(envelope.type, envelope.payload))
  /\ \A i, j \in DOMAIN envelope.entries :
       i # j => envelope.entries[i].wire # envelope.entries[j].wire

\* Every entry is checked, also those beyond the threshold: one entry that is
\* untrusted, repeated or wrong refuses the envelope.
EntriesVerify(envelope, trusted) ==
  /\ \A i \in DOMAIN envelope.entries :
       \E key \in SignerOf(envelope.entries[i], trusted) :
         VerifySignatureEntry(envelope.entries[i], key, Pae(envelope.type, envelope.payload))
  /\ \A i, j \in DOMAIN envelope.entries :
       i # j => SignerOf(envelope.entries[i], trusted)
                  \cap SignerOf(envelope.entries[j], trusted) = {}

Verify(envelope, trusted, threshold, expected, now, skew) ==
  /\ threshold \in 1 .. Cardinality(trusted)
  /\ Decodes(envelope)
  /\ InTime(envelope.payload, now, skew)
  /\ BoundTo(envelope.payload, expected)
  /\ EntriesVerify(envelope, trusted)
  /\ Len(envelope.entries) >= threshold
-----------------------------------------------------------------------------
(* Delegated creation.  Time is counted in units of 300 seconds. *)

Delegation == "delegated-create"
MaxCapabilityAge == 3     \* 900 seconds
MaxDelegatedSize == 2     \* stands for 65536 bytes; 1 is an ordinary size

\* validate_delegated_capability
ValidCapability(capability) ==
  /\ capability.size \in 1 .. MaxDelegatedSize
  /\ capability.not_before >= capability.issued
  /\ capability.expires > capability.not_before
  /\ capability.expires - capability.issued <= MaxCapabilityAge

SignCapability(capability, key, form) ==
  [type |-> Delegation, payload |-> capability,
   entries |-> <<Sign(key, form, Pae(Delegation, capability))>>]

\* Exactly one signature, by an authorizer, inside the window.
VerifyCapability(envelope, trusted, now, skew) ==
  /\ envelope.type = Delegation
  /\ Len(envelope.entries) = 1
  /\ ValidCapability(envelope.payload)
  /\ envelope.payload.issued <= now + skew
  /\ envelope.payload.not_before <= now
  /\ now < envelope.payload.expires
  /\ \E key \in SignerOf(envelope.entries[1], trusted) :
       VerifySignatureEntry(envelope.entries[1], key, Pae(envelope.type, envelope.payload))
=============================================================================
