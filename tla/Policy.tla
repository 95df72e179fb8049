------------------------------- MODULE Policy -------------------------------
(***************************************************************************)
(* The policy compiler (crates/nix-seal-policy): merging two plan sources, *)
(* validating the merged plan, and projecting it for one target or one     *)
(* canonical source.                                                       *)
(*                                                                         *)
(* A plan is a record of finite functions, one per object collection, from *)
(* the declared IDs to the declared objects.  Text (paths, recipients,     *)
(* hashes, modes) is a model value; what its grammar checks decide is not  *)
(* modelled.  The canonical hash of a projection is the projection itself: *)
(* two hashes are equal exactly when the projections are.                  *)
(***************************************************************************)
EXTENDS Naturals, FiniteSets

CONSTANT NoId      \* an absent optional reference

-----------------------------------------------------------------------------
(* Plans *)

Collections ==
  {"identities", "groups", "targets", "secrets", "generators", "templates", "approvals"}

NoObjects == [i \in {} |-> NoId]

EmptyPlan == [c \in Collections |-> NoObjects]

\* TargetSelectors::default: no field is given.  The system, user name,
\* configuration and environment selectors behave as the kinds do.
NoSelectors == [targets |-> {}, groups |-> {}, kinds |-> {}, tags |-> {}]

Ids(plan, c) == DOMAIN plan[c]

Identity(plan, i) == plan.identities[i]
Secret(plan, s) == plan.secrets[s]

OfKind(plan, kinds) == {i \in Ids(plan, "identities") : Identity(plan, i).kind \in kinds}

\* Who may administer a canonical source.
Custodians == {"administrator", "recovery"}

\* An overlapping ID of one collection is fatal, whatever the two objects are.
Conflicts(left, right) == \E c \in Collections : DOMAIN left[c] \cap DOMAIN right[c] # {}

Merge(left, right) ==
  [c \in Collections |->
     [i \in DOMAIN left[c] \cup DOMAIN right[c] |->
        IF i \in DOMAIN left[c] THEN left[c][i] ELSE right[c][i]]]

-----------------------------------------------------------------------------
(* Groups *)

SubGroups(plan, g) == plan.groups[g] \cap Ids(plan, "groups")

\* Kahn's algorithm, a generation at a time: the groups popped after n rounds
\* are those whose group members were all popped before.
Popped(plan) ==
  LET round[n \in 0 .. Cardinality(Ids(plan, "groups"))] ==
        IF n = 0 THEN {}
        ELSE {g \in Ids(plan, "groups") : SubGroups(plan, g) \subseteq round[n - 1]}
  IN round[Cardinality(Ids(plan, "groups"))]

ResolvesOnce(plan, m) ==
  Cardinality({c \in {"groups", "targets", "identities"} : m \in Ids(plan, c)}) = 1

ValidGroupGraph(plan) ==
  /\ \A g \in Ids(plan, "groups") : \A m \in plan.groups[g] : ResolvesOnce(plan, m)
  /\ Popped(plan) = Ids(plan, "groups")

\* The groups a worklist started from refs visits.
Visited(plan, refs) ==
  LET round[n \in 0 .. Cardinality(Ids(plan, "groups"))] ==
        IF n = 0 THEN refs \cap Ids(plan, "groups")
        ELSE round[n - 1] \cup UNION {SubGroups(plan, g) : g \in round[n - 1]}
  IN round[Cardinality(Ids(plan, "groups"))]

\* What the references stand for once every group is replaced by its members.
\* A reference that is no group is a leaf, whatever it names.
ExpandGroupLeaves(plan, refs) ==
  (refs \cup UNION {plan.groups[g] : g \in Visited(plan, refs)}) \ Ids(plan, "groups")

-----------------------------------------------------------------------------
(* The consumers of a secret *)

\* The fields are ANDed and an empty one selects everything; the values of a
\* field are ORed, except that every listed tag is required.
MatchesSelectors(target, selectors) ==
  /\ selectors.kinds # {} => target.kind \in selectors.kinds
  /\ selectors.tags \subseteq target.tags

Candidates(plan, selectors) ==
  IF selectors.targets \cup selectors.groups # {}
  THEN selectors.targets \cup ExpandGroupLeaves(plan, selectors.groups)
  ELSE Ids(plan, "targets")

SelectedConsumerTargets(plan, secret) ==
  ExpandGroupLeaves(plan, secret.consumers) \cup
    (IF secret.selectors = NoSelectors THEN {}
     ELSE {t \in Candidates(plan, secret.selectors) \cap Ids(plan, "targets") :
             MatchesSelectors(plan.targets[t], secret.selectors)})

\* The selection is an error when selectors are given and a leaf is no target.
SelectionFails(plan, secret) ==
  /\ secret.selectors # NoSelectors
  /\ ~(SelectedConsumerTargets(plan, secret) \subseteq Ids(plan, "targets"))

\* The projection asks target by target, with a walk of its own to fall back on.
TargetIsConsumer(plan, secret, t) ==
  \/ ~SelectionFails(plan, secret) /\ t \in SelectedConsumerTargets(plan, secret)
  \/ t \in secret.consumers
  \/ \E g \in Visited(plan, secret.consumers) : t \in plan.groups[g]

-----------------------------------------------------------------------------
(* Validation *)

ValidNamespace(plan) ==
  /\ Ids(plan, "identities") \cap Ids(plan, "groups") = {}
  /\ Ids(plan, "identities") \cap Ids(plan, "targets") = {}
  /\ Ids(plan, "groups") \cap Ids(plan, "targets") = {}

\* Two signing identities never share key material.
DistinctSigningKeys(plan) ==
  \A i, j \in OfKind(plan, {"signer", "authorizer"}) :
    Identity(plan, i).public = Identity(plan, j).public => i = j

ValidTargets(plan) ==
  \A t \in Ids(plan, "targets") : plan.targets[t].identity \in OfKind(plan, {"target"})

\* Mutant: a selector may name a group that is not declared.
ValidSelectorsUndeclared(plan, secret) ==
  /\ secret.selectors.targets \subseteq Ids(plan, "targets")
  /\ \A g \in secret.selectors.groups \cap Ids(plan, "groups") :
       ExpandGroupLeaves(plan, {g}) \subseteq Ids(plan, "targets")

ValidSelectors(plan, secret) ==
  /\ secret.selectors.targets \subseteq Ids(plan, "targets")
  /\ secret.selectors.groups \subseteq Ids(plan, "groups")
  /\ \A g \in secret.selectors.groups :
       ExpandGroupLeaves(plan, {g}) \subseteq Ids(plan, "targets")

ValidRepositoryOnly(secret) ==
  secret.repositoryOnly =>
    secret.consumers = {} /\ secret.selectors = NoSelectors /\ secret.delivery = "rekeyed"

HasAdministrator(plan, secret) ==
  \/ ExpandGroupLeaves(plan, secret.administrators) # {}
  \/ secret.administrators = {} /\ OfKind(plan, Custodians) # {}

ValidSecret(plan, secret) ==
  /\ secret.consumers \subseteq Ids(plan, "targets") \cup Ids(plan, "groups")
  /\ secret.administrators \subseteq Ids(plan, "identities") \cup Ids(plan, "groups")
  /\ ValidSelectors(plan, secret)
  /\ ValidRepositoryOnly(secret)
  /\ ExpandGroupLeaves(plan, secret.administrators) \subseteq OfKind(plan, Custodians)
  /\ ~SelectionFails(plan, secret)
  /\ SelectedConsumerTargets(plan, secret) \subseteq Ids(plan, "targets")
  /\ \/ HasAdministrator(plan, secret)
     \/ secret.delivery = "direct" /\ SelectedConsumerTargets(plan, secret) # {}
  /\ IF secret.approval = NoId THEN OfKind(plan, {"signer"}) # {}
     ELSE secret.approval \in Ids(plan, "approvals")
  /\ \A t \in DOMAIN secret.overrides :
       t \in Ids(plan, "targets") /\ TargetIsConsumer(plan, secret, t)

\* No two secrets share a canonical ciphertext source.
DistinctSources(plan) ==
  \A s, z \in Ids(plan, "secrets") :
    Secret(plan, s).source = Secret(plan, z).source => s = z

\* A template reads declared secrets of one activation phase only.
ValidTemplate(plan, template) ==
  /\ template # {}
  /\ template \subseteq Ids(plan, "secrets")
  /\ \A s, z \in template : Secret(plan, s).phase = Secret(plan, z).phase

ValidApproval(plan, policy) ==
  /\ policy.threshold \in 1 .. Cardinality(policy.signers)
  /\ policy.signers \subseteq OfKind(plan, {"signer"})

\* The generator that produces a secret.
Producers(plan, s) == {g \in Ids(plan, "generators") : s \in plan.generators[g].outputs}

\* A generated secret, a public output and a public destination each have one
\* producer, and no public destination is a ciphertext source.
ValidOutputs(plan) ==
  LET generators == Ids(plan, "generators")
      publicOf(g) == plan.generators[g].publicOutputs
  IN /\ \A g \in generators :
          /\ plan.generators[g].outputs \cup publicOf(g) # {}
          /\ plan.generators[g].outputs \subseteq Ids(plan, "secrets")
          /\ publicOf(g) \cap {Secret(plan, s).source : s \in Ids(plan, "secrets")} = {}
     /\ \A g, h \in generators :
          g # h =>
            /\ plan.generators[g].outputs \cap plan.generators[h].outputs = {}
            /\ publicOf(g) \cap publicOf(h) = {}

\* A secret input is declared and is no output of the generator itself; only an
\* external program takes one.
ValidSecretInputs(plan, generator) ==
  /\ generator.secretDependencies \subseteq Ids(plan, "secrets")
  /\ generator.secretDependencies \cap generator.outputs = {}
  /\ generator.builtin => generator.secretDependencies = {}

\* Kahn's algorithm over the declared dependencies.
Ordered(plan) ==
  LET round[n \in 0 .. Cardinality(Ids(plan, "generators"))] ==
        IF n = 0 THEN {}
        ELSE {g \in Ids(plan, "generators") :
                plan.generators[g].dependencies \subseteq round[n - 1]}
  IN round[Cardinality(Ids(plan, "generators"))]

\* Whoever reads a generated secret depends directly on its producer.
ReadersDepend(plan) ==
  \A g \in Ids(plan, "generators") :
    \A s \in plan.generators[g].secretDependencies :
      Producers(plan, s) \subseteq plan.generators[g].dependencies

ValidGeneratorGraph(plan) ==
  /\ ValidOutputs(plan)
  /\ \A g \in Ids(plan, "generators") :
       /\ ValidSecretInputs(plan, plan.generators[g])
       /\ plan.generators[g].dependencies \subseteq Ids(plan, "generators")
  /\ Ordered(plan) = Ids(plan, "generators")
  /\ ReadersDepend(plan)

Validate(plan) ==
  /\ ValidNamespace(plan)
  /\ ValidGroupGraph(plan)
  /\ DistinctSigningKeys(plan)
  /\ ValidTargets(plan)
  /\ DistinctSources(plan)
  /\ \A s \in Ids(plan, "secrets") : ValidSecret(plan, Secret(plan, s))
  /\ \A m \in Ids(plan, "templates") : ValidTemplate(plan, plan.templates[m])
  /\ \A a \in Ids(plan, "approvals") : ValidApproval(plan, plan.approvals[a])
  /\ ValidGeneratorGraph(plan)

-----------------------------------------------------------------------------
(* Projections of a validated plan *)

\* The identities a canonical ciphertext is encrypted to.
AdministratorIds(plan, secret) ==
  IF secret.administrators = {} THEN OfKind(plan, Custodians)
  ELSE ExpandGroupLeaves(plan, secret.administrators)

\* Mutant: direct delivery forgets the targets that selectors add.
SecretRecipientsExplicit(plan, s) ==
  AdministratorIds(plan, Secret(plan, s))
    \cup OfKind(plan, {"recovery"})
    \cup (IF Secret(plan, s).delivery # "direct" THEN {}
          ELSE {plan.targets[t].identity :
                  t \in ExpandGroupLeaves(plan, Secret(plan, s).consumers)})

SecretRecipients(plan, s) ==
  AdministratorIds(plan, Secret(plan, s))
    \cup OfKind(plan, {"recovery"})
    \cup (IF Secret(plan, s).delivery # "direct" THEN {}
          ELSE {plan.targets[t].identity :
                  t \in SelectedConsumerTargets(plan, Secret(plan, s))})

\* The public recipients, which is what the encryption really uses.
RecipientKeys(plan, s) ==
  {Identity(plan, i).public : i \in SecretRecipients(plan, s) \cap Ids(plan, "identities")}

RecipientsFail(plan, s) ==
  \/ ~(AdministratorIds(plan, Secret(plan, s)) \subseteq OfKind(plan, Custodians))
  \/ SelectionFails(plan, Secret(plan, s))
  \/ SecretRecipients(plan, s) = {}
  \/ ~(SecretRecipients(plan, s) \subseteq Ids(plan, "identities"))

\* The explicit policy, or one approval by any declared signer.
ApprovalSigners(plan, secret) ==
  IF secret.approval = NoId THEN OfKind(plan, {"signer"})
  ELSE plan.approvals[secret.approval].signers

ApprovalThreshold(plan, secret) ==
  IF secret.approval = NoId THEN 1 ELSE plan.approvals[secret.approval].threshold

TargetApprovalPolicy(plan, secret) ==
  [threshold |-> ApprovalThreshold(plan, secret),
   signers |-> [i \in ApprovalSigners(plan, secret) |-> Identity(plan, i).public]]

ApprovalFails(plan, secret) ==
  \/ secret.approval # NoId /\ secret.approval \notin Ids(plan, "approvals")
  \/ ~(ApprovalSigners(plan, secret) \subseteq OfKind(plan, {"signer"}))
  \/ ApprovalThreshold(plan, secret) \notin 1 .. Cardinality(ApprovalSigners(plan, secret))

RuntimeForTarget(secret, t) ==
  IF t \in DOMAIN secret.overrides THEN secret.overrides[t] ELSE secret.runtime

TargetSecrets(plan, t) ==
  {s \in Ids(plan, "secrets") : TargetIsConsumer(plan, Secret(plan, s), t)}

TargetSecretPolicy(plan, t, s) ==
  LET secret == Secret(plan, s)
  IN [source |-> secret.source, hash |-> secret.hash, delivery |-> secret.delivery,
      phase |-> secret.phase, runtime |-> RuntimeForTarget(secret, t),
      approval |-> TargetApprovalPolicy(plan, secret)]

\* A template reaches a target only with every secret it reads.
TargetTemplates(plan, t) ==
  {m \in Ids(plan, "templates") : plan.templates[m] \subseteq TargetSecrets(plan, t)}

TargetPolicyFails(plan, t) ==
  \/ plan.targets[t].identity \notin Ids(plan, "identities")
  \/ \E s \in TargetSecrets(plan, t) : ApprovalFails(plan, Secret(plan, s))
  \/ \E m \in TargetTemplates(plan, t) : ~ValidTemplate(plan, plan.templates[m])

\* What an artifact's policy hash covers: the target, its recipient and the
\* secret's own policy, and nothing else of the plan.
SecretArtifactPolicy(plan, t, s) ==
  [target |-> t, kind |-> plan.targets[t].kind,
   identity |-> plan.targets[t].identity,
   recipient |-> Identity(plan, plan.targets[t].identity).public,
   secret |-> s, policy |-> TargetSecretPolicy(plan, t, s)]
=============================================================================
