--------------------------- MODULE SecretCommands ---------------------------
(***************************************************************************)
(* nix-seal secret (crates/nix-seal-cli/src/main.rs): writing, editing,    *)
(* rekeying, deleting and batch-authoring the secrets of a plan, and       *)
(* creating a declared secret that is still missing, by its authorizer or  *)
(* by the holder of a capability the authorizer signed.                    *)
(*                                                                         *)
(* A secret is named by the path of its source; Policy has distinct        *)
(* sources for distinct secrets.                                           *)
(***************************************************************************)
EXTENDS Generators, Manifest

CapabilitySkew == 1     \* 300 seconds

ASSUME SecretAssumption ==
  /\ \A plan \in Range(Plans) : DOMAIN plan.readers \subseteq Paths
  /\ \A c \in AllCommands :
       /\ c.op = "rekey" => c.path \in Paths
       /\ c.op = "batch" => c.entries \in Seq(Range(c.entries))
       /\ c.op = "redeem" => c.plan \in DOMAIN Plans

PlanOf(cmd) == Plans[cmd.plan]

\* Ordinary commands refuse a bootstrap plan, and the other way round.
Declares(cmd, schema, d) == PlanOf(cmd).schema = schema /\ d \in DOMAIN PlanOf(cmd).readers

MayAuthor(cmd, d) == Declares(cmd, "plan", d) /\ Authorized(PlanOf(cmd), d, cmd.key)

\* read_structured_secret_input: the whole input, checked against its format.
WellFormed(cmd) == cmd.input # "malformed"

NewBody(cmd, part) == [by |-> cmd.op, part |-> part, n |-> 0]
NewItem(cmd, d, part) ==
  Item(d, "output", [body |-> NewBody(cmd, part), to |-> PlanOf(cmd).readers[d]])

JobOf(cmd, mode, items) == [NoJob EXCEPT !.cmd = cmd, !.mode = mode, !.items = items]

ModeOf(cmd) == IF cmd.replace THEN "replace" ELSE "create"

-----------------------------------------------------------------------------
(* Ordinary authoring *)

\* secret create, secret import and rotate: run_secret_write
Write(p) ==
  LET cmd == Head(todo[p])
  IN /\ Upcoming(p, "write")
     /\ Launch(p, MayAuthor(cmd, cmd.path) /\ WellFormed(cmd),
               JobOf(cmd, ModeOf(cmd), <<NewItem(cmd, cmd.path, <<cmd.input>>)>>), "lock")
     /\ UNCHANGED <<world, files, runs, history>>

\* read_collection_mapping: an entry names a secret and a field, each once.
ValidMapping(entries) ==
  entries # <<>> /\ \A n \in {1, 2} : IsInjective([i \in DOMAIN entries |-> entries[i][n]])

\* extract_collection_values: every field is in the document and is a scalar.
Extractable(cmd) ==
  \A e \in Range(cmd.entries) : e[2] \in DOMAIN cmd.document /\ cmd.document[e[2]] # "object"

\* The fields of a document, as given or as its editor left it, each for the
\* secret its entry maps to.
Batch(p) ==
  LET cmd == Head(todo[p])
      Value(e) == <<cmd.document[e[2]]>>
  IN /\ Upcoming(p, "batch")
     /\ Launch(p,
          /\ ValidMapping(cmd.entries) /\ WellFormed(cmd) /\ Extractable(cmd)
          /\ \A e \in Range(cmd.entries) : MayAuthor(cmd, e[1]),
          JobOf(cmd, ModeOf(cmd),
                [i \in DOMAIN cmd.entries |->
                   NewItem(cmd, cmd.entries[i][1], Value(cmd.entries[i]))]),
          "lock")
     /\ UNCHANGED <<world, files, runs, history>>

\* The ciphertext is decrypted into a private workspace before the lock is
\* taken, and the editor runs for as long as it likes.
Edit(p) ==
  LET cmd == Head(todo[p])
  IN /\ Upcoming(p, "edit")
     /\ Launch(p,
          /\ MayAuthor(cmd, cmd.path)
          /\ Exists(cmd.path)
          /\ cmd.key \in files[cmd.path].to,
          [JobOf(cmd, "replace", <<>>) EXCEPT !.inputs = {<<cmd.path, files[cmd.path].body.n>>}],
          "editing")
     /\ UNCHANGED <<world, files, runs, history>>

\* The editor saves; what it leaves is written like any other input.
EditorSaves(p) ==
  /\ pc[p] = "editing"
  /\ WellFormed(Cmd(p))
  /\ Update(p, [job[p] EXCEPT
       !.items = <<NewItem(Cmd(p), Cmd(p).path, <<Cmd(p).input, job[p].inputs>>)>>])
  /\ Goto(p, "lock")
  /\ UNCHANGED <<world, files, lock, todo, runs, history>>

EditorFails(p) ==
  /\ pc[p] = "editing"
  /\ ~WellFormed(Cmd(p)) \/ Fails("editor")
  /\ Return(p)
  /\ UNCHANGED <<world, files, todo, runs, history>>

\* Without --yes the rekey is only reported.
Rekey(p) ==
  LET cmd == Head(todo[p])
  IN /\ Upcoming(p, "rekey")
     /\ Launch(p, Exists(cmd.path) /\ cmd.yes /\ MayAuthor(cmd, cmd.path),
               [JobOf(cmd, "replace", <<ItemFrom(cmd.path, cmd.path)>>) EXCEPT
                  !.to = PlanOf(cmd).readers[cmd.path]],
               "lock")
     /\ UNCHANGED <<world, files, runs, history>>

\* The plan names the secret; no identity is asked for.
Delete(p) ==
  LET cmd == Head(todo[p])
  IN /\ Upcoming(p, "delete")
     /\ Launch(p, cmd.yes /\ Declares(cmd, "plan", cmd.path),
               JobOf(cmd, "replace", <<Item(cmd.path, "output", NoFile)>>), "lock")
     /\ UNCHANGED <<world, files, runs, history>>

-----------------------------------------------------------------------------
(* Creating what is declared and missing *)

\* run_bootstrap_complete: the authorizer proves that it holds its key, then
\* the value is read.
Bootstrap(p) ==
  LET cmd == Head(todo[p])
  IN /\ Upcoming(p, "bootstrap")
     /\ Launch(p,
          /\ Declares(cmd, "bootstrap", cmd.path)
          /\ cmd.key \in PlanOf(cmd).authorizers
          /\ cmd.input # "empty",
          JobOf(cmd, "create", <<NewItem(cmd, cmd.path, <<cmd.input>>)>>), "lock")
     /\ UNCHANGED <<world, files, runs, history>>

\* run_delegated_issue, by a clock that may be ahead of the delegate's.
Capability(cmd, now) ==
  [id |-> Cardinality(caps) + 1, plan |-> cmd.plan, secret |-> cmd.path, source |-> cmd.path,
   recipients |-> PlanOf(cmd).readers[cmd.path], plaintext |-> cmd.input, size |-> cmd.size,
   issued |-> now, not_before |-> now, expires |-> now + cmd.lifetime]

Issue(p) ==
  LET cmd == Head(todo[p])
  IN /\ Upcoming(p, "issue")
     /\ Start(p)
     /\ caps' = IF /\ cmd.lifetime \in 1 .. MaxCapabilityAge
                   /\ cmd.size \in 1 .. MaxDelegatedSize
                   /\ Declares(cmd, "bootstrap", cmd.path)
                   /\ cmd.key \in PlanOf(cmd).authorizers
                THEN caps \cup {SignCapability(Capability(cmd, clock + cmd.ahead), cmd.key, "ssh")}
                ELSE caps
     /\ UNCHANGED <<scene, files, prompts, clock, lock, pc, job, runs, history>>

\* Mutant of BoundToPlan: the capability names a secret of the plan.
NamesSecretOf(capability, cmd) == Declares(cmd, "bootstrap", capability.secret)

\* The capability was made for this plan, and so for these recipients.
BoundToPlan(capability, cmd) ==
  /\ capability.plan = cmd.plan
  /\ Declares(cmd, "bootstrap", capability.secret)
  /\ capability.source = capability.secret
  /\ capability.recipients = PlanOf(cmd).readers[capability.secret]

Accepted(envelope, cmd) ==
  /\ PlanOf(cmd).schema = "bootstrap"
  /\ PlanOf(cmd).authorizers # {}
  /\ VerifyCapability(envelope, PlanOf(cmd).authorizers, clock, CapabilitySkew)
  /\ BoundToPlan(envelope.payload, cmd)

\* run_delegated_create: the capability is verified before its holder is asked
\* for the plaintext.
Redeem(p) ==
  LET cmd == Head(todo[p])
      presented == {e \in caps : e.payload.id = cmd.capability /\ Accepted(e, cmd)}
  IN /\ Upcoming(p, "redeem")
     /\ Launch(p, presented # {},
               [JobOf(cmd, "create", <<>>) EXCEPT
                  !.note = <<"spent", CHOOSE e \in presented : TRUE>>], "stdin")
     /\ UNCHANGED <<world, files, runs, history>>

\* Mutant of Committed: the value has an authorized size.
HasAuthorizedSize(cmd, capability) == cmd.bytes \in 1 .. capability.size

\* The value is the one the capability commits to.
Committed(cmd, capability) ==
  cmd.bytes \in 1 .. capability.size /\ cmd.input = capability.plaintext

RedeemReads(p) ==
  LET capability == job[p].note[2].payload
  IN /\ pc[p] = "stdin"
     /\ IF Committed(Cmd(p), capability)
        THEN /\ Update(p, [job[p] EXCEPT
                  !.items = <<NewItem(Cmd(p), capability.secret, <<Cmd(p).input>>)>>])
             /\ Goto(p, "lock")
             /\ UNCHANGED lock
        ELSE Return(p)
     /\ UNCHANGED <<world, files, todo, runs, history>>

SecretNext(p) ==
  \/ Write(p) \/ Batch(p) \/ Edit(p) \/ EditorSaves(p) \/ EditorFails(p) \/ Rekey(p)
  \/ Delete(p) \/ Bootstrap(p) \/ Issue(p) \/ Redeem(p) \/ RedeemReads(p)

-----------------------------------------------------------------------------
(* Properties *)

\* What a delegate is about to show is what an authorizer of the plan in force
\* signed for: that source, those recipients, that value, recorded as spent; and
\* it is created where nothing is.  (run_delegated_create,
\* write_secret_create_delegated)
DelegatedCreateIsBound ==
  \A p \in Procs :
    pc[p] = "commit" /\ Cmd(p).op = "redeem" =>
      \A i \in DOMAIN job[p].items : \E e \in caps :
        LET item == job[p].items[i]
        IN /\ e.payload.source = item.path /\ ~Exists(item.path)
           /\ <<e.payload.plaintext>> = item.file.body.part
           /\ e.payload.recipients = item.file.to
           /\ e.payload.plan = Cmd(p).plan
           /\ e.entries[1].by \in PlanOf(Cmd(p)).authorizers
           /\ job[p].note = <<"spent", e>>

\* A capability creates one secret once.  (run_delegated_create)
CapabilitiesAreOneUse ==
  \A i, k \in DOMAIN history :
    history[i][1] = "spent" /\ history[i] = history[k] => i = k
=============================================================================
