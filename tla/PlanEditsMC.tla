----------------------------- MODULE PlanEditsMC -----------------------------
(***************************************************************************)
(* A small instance of PlanEdits: one target and one secret in the TOML    *)
(* plan, two groups in every arrangement, and a Nix-emitted plan that      *)
(* names TOML groups and identities.                                       *)
(***************************************************************************)
EXTENDS PlanEdits, TLC

CONSTANTS adm, rec, sig, sig2, k1, k2, g1, g2, t1, t2, s1, s2, m1, a1, gen1, gen2

Key(kind, public) == [kind |-> kind, public |-> public]

MCSecret(source, consumers, selectors, administrators, delivery, approval) ==
  [source |-> source, hash |-> source, delivery |-> delivery, phase |-> "activation",
   administrators |-> administrators, consumers |-> consumers, selectors |-> selectors,
   approval |-> approval, repositoryOnly |-> consumers = {} /\ selectors = NoSelectors,
   runtime |-> "default", overrides |-> NoObjects]

MCTarget(identity) == [identity |-> identity, kind |-> "nixos", tags |-> {"web"}]

MCGenerator(dependencies, inputs, outputs) ==
  [dependencies |-> dependencies, secretDependencies |-> inputs, outputs |-> outputs,
   publicOutputs |-> {}, builtin |-> FALSE]

BaseToml ==
  [EmptyPlan EXCEPT
     !.identities = adm :> Key("administrator", "adm") @@ k1 :> Key("target", "k1")
                      @@ sig :> Key("signer", "sig"),
     !.targets = t1 :> MCTarget(k1),
     !.approvals = a1 :> [threshold |-> 1, signers |-> {sig}]]

\* Every membership of two groups, and a secret that reaches the target through
\* explicit consumers, selectors or both.
MCTomlPlans ==
  {[BaseToml EXCEPT
      !.groups = g1 :> members @@ g2 :> inner,
      !.secrets = s1 :> MCSecret("s1", consumers, selectors, administrators,
                                 IF consumers = {g1} THEN "direct" ELSE "rekeyed",
                                 IF administrators = {} THEN a1 ELSE NoId),
      !.templates = m1 :> {s1},
      !.generators = gen1 :> MCGenerator({}, {}, {s1})] :
     members \in {{}, {t1}, {t1, g2}}, inner \in {{}, {t1}, {g1}, {adm}},
     consumers \in {{}, {t1}, {g1}},
     selectors \in {NoSelectors, [NoSelectors EXCEPT !.groups = {g2}],
                    [NoSelectors EXCEPT !.tags = {"web"}]},
     administrators \in {{}, {adm}}}
    \cup {BaseToml}

MCNixPlans ==
  {EmptyPlan,
   [EmptyPlan EXCEPT
      !.identities = k2 :> Key("target", "k2"),
      !.targets = t2 :> MCTarget(k2),
      !.secrets = s2 :> MCSecret("s2", {t2}, [NoSelectors EXCEPT !.groups = {g1}], {adm},
                                 "direct", NoId),
      !.generators = gen2 :> MCGenerator({gen1}, {s1}, {s2})]}

MCMutations ==
  {[op |-> "add_identity", id |-> rec, object |-> Key("recovery", "rec")],
   [op |-> "add_identity", id |-> sig2, object |-> Key("signer", "sig2")],
   [op |-> "add_identity", id |-> k2, object |-> Key("target", "k2")],
   [op |-> "remove_identity", id |-> adm, object |-> NoId],
   [op |-> "remove_identity", id |-> sig, object |-> NoId],
   [op |-> "rotate_identity", id |-> sig, object |-> "sig2"],
   [op |-> "add_group", id |-> g1, object |-> {g1}],
   [op |-> "add_group", id |-> g1, object |-> {t1}],
   [op |-> "add_group", id |-> g2, object |-> {t1, g1}],
   [op |-> "remove_group", id |-> g1, object |-> NoId],
   [op |-> "remove_group", id |-> g2, object |-> NoId]}

\* Every mutation with the Nix-emitted plan, and without it the ones that meet
\* what that plan declares or names.
MCEdits ==
  {[op |-> m.op, id |-> m.id, object |-> m.object, nix |-> TRUE] :
     m \in MCMutations}
    \cup
  {[op |-> m.op, id |-> m.id, object |-> m.object, nix |-> FALSE] :
     m \in {n \in MCMutations : n.id \in {k2, g1, adm}}}

MCSymmetry == Permutations(Procs)
=============================================================================
