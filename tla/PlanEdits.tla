------------------------------ MODULE PlanEdits ------------------------------
(***************************************************************************)
(* The commands that edit the public TOML plan: nix-seal identity          *)
(* add|remove|rotate and nix-seal group add|remove (crates/nix-seal-cli,   *)
(* run_identity, run_group, mutate_toml_plan).  An editor takes the plan   *)
(* lock, loads the TOML plan, applies its mutation, validates the result,  *)
(* merged with the Nix-emitted plan if it was given one, stages the new    *)
(* text beside the old and renames it into place.                          *)
(*                                                                         *)
(* nix is the Nix-emitted plan, a validation input no command rewrites.    *)
(* Initially the TOML plan is any the administrator may have written,      *)
(* valid or not.                                                           *)
(***************************************************************************)
EXTENDS Policy

CONSTANTS
  Procs,       \* concurrent nix-seal commands
  Edits,       \* the invocations considered: records with fields op, id, object, and
               \* nix, whether --nix-plan was given
  TomlPlans,   \* hand-written TOML plans
  NixPlans,    \* Nix-emitted plans
  Faults,      \* "io": staging or renaming fails; "sync"; "kill"
  NoProc,
  NoEdit

Operations ==
  {"add_identity", "remove_identity", "rotate_identity", "add_group", "remove_group"}

\* A plan has all its collections, each a finite map.
IsPlan(plan) ==
  DOMAIN plan = Collections /\ \A c \in Collections : IsFiniteSet(DOMAIN plan[c])

ASSUME PlanEditsAssumption ==
  /\ NoProc \notin Procs
  /\ \A e \in Edits : e.op \in Operations /\ e.nix \in BOOLEAN
  /\ \A plan \in TomlPlans \cup NixPlans : IsPlan(plan)

VARIABLES
  toml,     \* the TOML plan on disk
  nix,      \* the Nix-emitted plan
  lock,     \* the holder of .nix-seal-plan.lock
  pc,       \* where each command is
  edit,     \* the edit a command applies
  staged    \* the plan a command has mutated in memory or staged

vars == <<toml, nix, lock, pc, edit, staged>>

TypeOK ==
  /\ lock \in Procs \cup {NoProc}
  /\ pc \in [Procs -> {"idle", "load", "validate", "persist", "sync"}]
  /\ edit \in [Procs -> Edits \cup {NoEdit}]
  /\ DOMAIN toml = Collections

Init ==
  /\ toml \in TomlPlans
  /\ nix \in NixPlans
  /\ lock = NoProc
  /\ pc = [p \in Procs |-> "idle"]
  /\ edit = [p \in Procs |-> NoEdit]
  /\ staged = [p \in Procs |-> EmptyPlan]

-----------------------------------------------------------------------------
(* The mutations *)

\* Where the TOML plan itself names an identity.
IdentityReferences(plan, i) ==
  \/ \E g \in Ids(plan, "groups") : i \in plan.groups[g]
  \/ \E t \in Ids(plan, "targets") : plan.targets[t].identity = i
  \/ \E s \in Ids(plan, "secrets") : i \in Secret(plan, s).administrators
  \/ \E a \in Ids(plan, "approvals") : i \in plan.approvals[a].signers

\* Where the TOML plan itself names a group.  Selectors are not searched.
GroupReferences(plan, g) ==
  \/ \E h \in Ids(plan, "groups") \ {g} : g \in plan.groups[h]
  \/ \E s \in Ids(plan, "secrets") :
       g \in Secret(plan, s).administrators \cup Secret(plan, s).consumers

EditRefused(e, plan) ==
  CASE e.op = "add_identity" -> e.id \in Ids(plan, "identities")
    [] e.op = "remove_identity" ->
         e.id \notin Ids(plan, "identities") \/ IdentityReferences(plan, e.id)
    [] e.op = "rotate_identity" -> e.id \notin Ids(plan, "identities")
    [] e.op = "add_group" -> e.id \in Ids(plan, "groups")
    [] e.op = "remove_group" -> e.id \notin Ids(plan, "groups") \/ GroupReferences(plan, e.id)

With(objects, i, object) ==
  [j \in DOMAIN objects \cup {i} |-> IF j = i THEN object ELSE objects[j]]

Without(objects, i) == [j \in DOMAIN objects \ {i} |-> objects[j]]

Mutate(e, plan) ==
  CASE e.op = "add_identity" ->
         [plan EXCEPT !.identities = With(@, e.id, e.object)]
    [] e.op = "remove_identity" -> [plan EXCEPT !.identities = Without(@, e.id)]
    [] e.op = "rotate_identity" -> [plan EXCEPT !.identities[e.id].public = e.object]
    [] e.op = "add_group" -> [plan EXCEPT !.groups = With(@, e.id, e.object)]
    [] e.op = "remove_group" -> [plan EXCEPT !.groups = Without(@, e.id)]

-----------------------------------------------------------------------------
(* One command *)

\* Mutant: the plan is edited without its lock.
LockUnguarded(p) ==
  /\ pc[p] = "idle"
  /\ \E e \in Edits : edit' = [edit EXCEPT ![p] = e]
  /\ lock' = p
  /\ pc' = [pc EXCEPT ![p] = "load"]
  /\ UNCHANGED <<toml, nix, staged>>

\* mutate_toml_plan opens and locks the lock file before it reads the plan.
Lock(p) ==
  /\ pc[p] = "idle"
  /\ lock = NoProc
  /\ \E e \in Edits : edit' = [edit EXCEPT ![p] = e]
  /\ lock' = p
  /\ pc' = [pc EXCEPT ![p] = "load"]
  /\ UNCHANGED <<toml, nix, staged>>

\* Every return, with or without an error, drops the staged file and the lock.
Return(p) ==
  /\ pc' = [pc EXCEPT ![p] = "idle"]
  /\ edit' = [edit EXCEPT ![p] = NoEdit]
  /\ staged' = [staged EXCEPT ![p] = EmptyPlan]
  /\ lock' = IF lock = p THEN NoProc ELSE lock

Load(p) ==
  /\ pc[p] = "load"
  /\ ~EditRefused(edit[p], toml)
  /\ staged' = [staged EXCEPT ![p] = Mutate(edit[p], toml)]
  /\ pc' = [pc EXCEPT ![p] = "validate"]
  /\ UNCHANGED <<toml, nix, lock, edit>>

Refuse(p) ==
  /\ pc[p] = "load"
  /\ EditRefused(edit[p], toml)
  /\ Return(p)
  /\ UNCHANGED <<toml, nix>>

\* The policy a command sees: the Nix-emitted plan is part of it only if the
\* command was given it.
Given(e, plan) == IF e.nix THEN Merge(plan, nix) ELSE plan

\* Mutant: the TOML plan is validated without the Nix-emitted one.
AcceptedAlone(e, plan) == Validate(plan)

Accepted(e, plan) == (e.nix => ~Conflicts(plan, nix)) /\ Validate(Given(e, plan))

Check(p) ==
  /\ pc[p] = "validate"
  /\ Accepted(edit[p], staged[p])
  /\ pc' = [pc EXCEPT ![p] = "persist"]
  /\ UNCHANGED <<toml, nix, lock, edit, staged>>

Reject(p) ==
  /\ pc[p] = "validate"
  /\ ~Accepted(edit[p], staged[p])
  /\ Return(p)
  /\ UNCHANGED <<toml, nix>>

\* The atomic rename of the staged text over the TOML plan.
Persist(p) ==
  /\ pc[p] = "persist"
  /\ toml' = staged[p]
  /\ pc' = [pc EXCEPT ![p] = "sync"]
  /\ UNCHANGED <<nix, lock, edit, staged>>

PersistFails(p) ==
  /\ pc[p] = "persist"
  /\ "io" \in Faults
  /\ Return(p)
  /\ UNCHANGED <<toml, nix>>

\* The directory sync; when it fails the plan has changed although the command
\* reports an error.
Sync(p) ==
  /\ pc[p] = "sync"
  /\ Return(p)
  /\ UNCHANGED <<toml, nix>>

\* The kernel drops the lock of a killed command.
Kill(p) ==
  /\ pc[p] # "idle"
  /\ "kill" \in Faults
  /\ Return(p)
  /\ UNCHANGED <<toml, nix>>

Next ==
  \E p \in Procs :
    \/ Lock(p) \/ Load(p) \/ Refuse(p) \/ Check(p) \/ Reject(p)
    \/ Persist(p) \/ PersistFails(p) \/ Sync(p) \/ Kill(p)

Spec == Init /\ [][Next]_vars

-----------------------------------------------------------------------------
(* Properties *)

Merged == Merge(toml, nix)

\* The plan every other command compiles from the two sources.
Compiles == ~Conflicts(toml, nix) /\ Validate(Merged)

\* What a validated plan means, stated without its algorithms: nothing is named
\* that is not declared, membership is acyclic, every approval can be given.
Members(plan, g) ==
  {x \in UNION {plan.groups[h] : h \in Ids(plan, "groups")} :
     \A closed \in SUBSET (UNION {plan.groups[h] : h \in Ids(plan, "groups")}) :
       (/\ plan.groups[g] \subseteq closed
        /\ \A h \in closed \cap Ids(plan, "groups") : plan.groups[h] \subseteq closed)
       => x \in closed}

Referenced(plan) ==
  UNION ({plan.groups[g] : g \in Ids(plan, "groups")}
    \cup {Secret(plan, s).administrators : s \in Ids(plan, "secrets")}
    \cup {Secret(plan, s).consumers : s \in Ids(plan, "secrets")}
    \cup {Secret(plan, s).selectors.groups : s \in Ids(plan, "secrets")}
    \cup {plan.approvals[a].signers : a \in Ids(plan, "approvals")}
    \cup {{plan.targets[t].identity} : t \in Ids(plan, "targets")})

WellFormed(plan) ==
  /\ Referenced(plan) \subseteq
       Ids(plan, "identities") \cup Ids(plan, "groups") \cup Ids(plan, "targets")
  /\ \A g \in Ids(plan, "groups") : g \notin Members(plan, g)
  /\ \A s \in Ids(plan, "secrets") : ~ApprovalFails(plan, Secret(plan, s))

\* The step in which the command p replaces the TOML plan.
Commits(p) == toml' # toml /\ pc[p] = "persist" /\ pc'[p] = "sync"

\* No command leaves the policy it was given in a state that names an undeclared
\* object, has a group inside itself or a secret nobody can approve, although
\* the commands look for references in the TOML plan only and not in selectors.
\* The policy is the merge of both sources with --nix-plan, and the TOML plan by
\* itself without.
\* (mutate_toml_plan_locked, group_references, identity_references)
CommitsAreWellFormed ==
  [][\A p \in Procs : Commits(p) => WellFormed(Given(edit[p], toml'))]_vars

\* Every commit leaves a well-formed merge of both sources, whether or not the
\* command was given the Nix-emitted plan.  No run checks this: it fails when
\* --nix-plan is left out.  (README.md: "It validates the merged Nix/TOML policy
\* before committing and refuses to remove referenced IDs")
MergeIsWellFormed == [][toml' # toml => WellFormed(Merged')]_vars

\* Concurrent editors are serialised: each commit is its own edit applied to the
\* plan it replaces, so that no edit is lost.  (mutate_toml_plan)
EditsSerialized == [][toml' # toml => \E p \in Procs : toml' = Mutate(edit[p], toml)]_vars

\* What the commit of one command leaves of the authority its policy grants.
KeepsAuthority(p) ==
  LET old == Given(edit[p], toml)
      new == Given(edit[p], toml')
      moved(s) == (SecretRecipients(old, s) \cup SecretRecipients(new, s))
                    \ (SecretRecipients(old, s) \cap SecretRecipients(new, s))
  IN /\ \A t \in Ids(new, "targets") : TargetSecrets(new, t) = TargetSecrets(old, t)
     /\ \A s \in Ids(new, "secrets") : moved(s) \subseteq {edit[p].id}
     /\ edit[p].op \in {"add_group", "remove_group"} =>
          \A t \in Ids(new, "targets") : \A s \in TargetSecrets(new, t) :
            SecretArtifactPolicy(new, t, s) = SecretArtifactPolicy(old, t, s)

\* In a policy that was valid before, no identity or group command that was given
\* it changes which secrets a target may activate, none but the edited identity
\* gains or loses a canonical ciphertext, and a group command leaves every
\* artifact valid.  (run_identity, run_group, target_policy, secret_recipients)
EditsKeepAuthority ==
  [][\A p \in Procs : Commits(p) /\ Accepted(edit[p], toml) => KeepsAuthority(p)]_vars

\* Every projection of a plan that compiles succeeds, and the two ways the code
\* decides who consumes a secret agree: a target that may activate a directly
\* delivered secret can decrypt it, and recovery identities always can.
\* (validate, selected_consumer_targets, target_is_consumer, secret_recipients)
ProjectionsAgree ==
  Compiles =>
    /\ \A s \in Ids(Merged, "secrets") :
         /\ ~RecipientsFail(Merged, s)
         /\ OfKind(Merged, {"recovery"}) \subseteq SecretRecipients(Merged, s)
         /\ Secret(Merged, s).repositoryOnly =>
              \A t \in Ids(Merged, "targets") : s \notin TargetSecrets(Merged, t)
    /\ \A t \in Ids(Merged, "targets") :
         /\ ~TargetPolicyFails(Merged, t)
         /\ \A s \in TargetSecrets(Merged, t) :
              Secret(Merged, s).delivery = "direct" =>
                Merged.targets[t].identity \in SecretRecipients(Merged, s)
=============================================================================
