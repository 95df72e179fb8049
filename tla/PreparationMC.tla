---------------------------- MODULE PreparationMC ----------------------------
(***************************************************************************)
(* A small instance of Preparation: a target with a secret one signer      *)
(* approves and a target with a secret that needs two, three evaluations   *)
(* of the configuration, and target caches that start empty or full of     *)
(* records that must never be activated.                                   *)
(***************************************************************************)
EXTENDS Preparation, TLC

CONSTANTS t1, t2, s1, s2, ka, kb, kx, q1, q2

MCSecret(hash, source, delivery, signers, threshold) ==
  [hash |-> hash, source |-> source, delivery |-> delivery,
   signers |-> signers, threshold |-> threshold]

MCPolicy(t, secrets) == [target |-> t, recipient |-> t, secrets |-> secrets]

\* "plain" and "edited" differ in the ciphertext of s1; "guarded" asks for two
\* approvals of s2.
MCDeployment ==
  [v \in {"plain", "edited", "guarded"} |->
     t1 :> MCPolicy(t1, s1 :> MCSecret("p1", IF v = "edited" THEN "b" ELSE "a", "rekeyed", {ka}, 1))
     @@ t2 :> MCPolicy(t2,
          s2 :> IF v = "guarded" THEN MCSecret("p2two", "a", "direct", {ka, kb}, 2)
                ELSE MCSecret("p2", "a", "direct", {ka}, 1))]

\* An otherwise perfect record for a secret of the given version.
MCRecord(v, t, s, generation, expires, keys) ==
  LET policy == MCDeployment[v][t]
      r == NewRecord(policy, s, generation, 0, expires, "now", <<s, "a", 9>>, ka, "native")
  IN [r EXCEPT !.envelope.entries =
        [i \in DOMAIN keys |-> Sign(keys[i][1], keys[i][2], Pae(Artifact, r.envelope.payload))]]

\* One key in both of its forms, a signer nobody trusts, a claimed signer, an
\* expired approval, foreign bytes, another build, another target's artifact.
MCForeignRecords ==
  {MCRecord("guarded", t2, s2, 5, Never, <<<<ka, "native">>, <<ka, "ssh">>>>),
   MCRecord("guarded", t2, s2, 6, Never, <<<<ka, "native">>, <<kx, "native">>>>),
   MCRecord("guarded", t2, s2, 7, Never, <<<<kb, "ssh">>>>),
   [MCRecord("plain", t1, s1, 5, Never, <<<<kx, "native">>>>)
      EXCEPT !.envelope.entries[1].wire = <<"native", ka>>],
   MCRecord("plain", t1, s1, 6, 1, <<<<ka, "native">>>>),
   [MCRecord("plain", t1, s1, 7, Never, <<<<ka, "native">>>>) EXCEPT !.cipher = <<s1, "b", 9>>],
   [MCRecord("plain", t1, s1, 8, Never, <<<<ka, "native">>>>)
      EXCEPT !.address.target = t2, !.envelope.payload.target = t2]}

MCSources == s1 :> {"a", "b"} @@ s2 :> {"a"}

\* Twice approved, but not for long.
MCApproved == MCRecord("guarded", t2, s2, 1, 2, <<<<ka, "native">>, <<kb, "ssh">>>>)

MCScene(preparers, commands, faults, versions, adminCache, destCache, clocks, signatures) ==
  [preparers |-> preparers, commands |-> commands, faults |-> faults, versions |-> versions,
   admin |-> adminCache, dest |-> destCache, maxClock |-> clocks, maxSigned |-> signatures]

\* Two preparers race; a preparer meets edits, a collector, an explicit
\* provision, foreign caches; approvals travel by hand.
MCScenes ==
  {MCScene({q1, q2}, {}, {"timeout"}, {"plain"}, {}, {}, 1, 2),
   MCScene({q1}, {"edit"}, {"install"}, {"plain"}, {}, {}, 0, 3),
   MCScene({q1}, {"gc"}, {"install"}, {"guarded"}, {MCApproved}, {}, 2, 2),
   MCScene({q1}, {"provision"}, {}, {"plain"}, {}, {}, 1, 2),
   MCScene({q1}, {}, {"answer"}, {"plain"}, {}, MCForeignRecords, 1, 3),
   MCScene({}, {"provision", "exchange", "gc"}, {}, {"guarded"}, {}, {}, 2, 2),
   MCScene({}, {"edit", "gc"}, {}, {"plain", "guarded"}, {}, MCForeignRecords, 2, 0)}
=============================================================================
