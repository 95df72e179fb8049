----------------------------- MODULE Generators -----------------------------
(***************************************************************************)
(* nix-seal generate (crates/nix-seal-cli/src/main.rs): the generators a   *)
(* request depends on run in order; each is left alone, created or         *)
(* replaced, and commits its secrets, its public outputs and its           *)
(* validation state in one transaction.  What it asked the operator is     *)
(* remembered afterwards.                                                  *)
(*                                                                         *)
(* A declaration has the IDs it depends on, the paths of the secrets it    *)
(* reads, of its secret and of its public outputs, the path of its state,  *)
(* its validation value, its kind of prompt and its executable.            *)
(***************************************************************************)
EXTENDS Repository

CONSTANT NoValidation
CONSTANT LegacyPromptState   \* the path prompts were kept at before a release

Plan(p) == Plans[Cmd(p).plan]
GeneratorId(p) == job[p].order[job[p].next]
Decl(p) == Plan(p).generators[GeneratorId(p)]

\* ensure_canonical_authoring_identity_authorized: an administrator among the
\* recipients; a target's key is not enough.
Authorized(plan, d, key) == key \in plan.readers[d] \cap plan.admins

\* What a state file records of the declaration it was written for; its outputs,
\* which the code records by their IDs, are named by their paths.
StateOf(decl) == <<"state", decl.validation, decl.outputs, decl.public>>

\* A generator's state is kept at a path derived from its ID alone, no command is
\* taken for a generator, and no generator has run at first.
ASSUME GeneratorAssumption ==
  /\ IsFiniteSet(Generators)
  /\ Generators \cap InMemory = {}
  /\ \A s \in Scenes : \A d \in Paths :
       s.files[d] # NoFile =>
         /\ s.files[d].body.by \notin Generators
         /\ \A plan \in Range(Plans) : \A g \in DOMAIN plan.generators :
              s.files[d].body.part # StateOf(plan.generators[g])
  /\ \A c \in AllCommands : c.op = "generate" => c.plan \in DOMAIN Plans /\ c.generator \in Generators
  /\ \A plan \in Range(Plans) : \A g \in DOMAIN plan.generators :
       /\ g \in Generators
       /\ plan.generators[g].outputs \in Seq(Paths)
       /\ plan.generators[g].public \in Seq(Paths)
       /\ plan.generators[g].state \in Paths
       /\ \A other \in Range(Plans) :
            g \in DOMAIN other.generators => other.generators[g].state = plan.generators[g].state

\* What validate_generator_graph has checked of a plan before a command runs with
\* it: generators depend on declared generators and not in a cycle, and directly
\* on those that make a secret they read, which is none of their own.
ASSUME GraphAssumption ==
  \A plan \in Range(Plans) :
    /\ \A g \in DOMAIN plan.generators :
         /\ plan.generators[g].dependencies \in Seq(DOMAIN plan.generators)
         /\ Range(plan.generators[g].inputs) \subseteq Paths
         /\ \A d \in Range(plan.generators[g].inputs) :
              /\ d \notin Range(plan.generators[g].outputs)
              /\ d \notin Range(plan.generators[g].public)
              /\ \A h \in DOMAIN plan.generators :
                   d \in Range(plan.generators[h].outputs) =>
                     h \in Range(plan.generators[g].dependencies)
    /\ \A set \in SUBSET DOMAIN plan.generators :
         set # {} => \E g \in set : Range(plan.generators[g].dependencies) \cap set = {}

-----------------------------------------------------------------------------
(* Before the first generator runs *)

Dependencies(plan, g) ==
  IF g \in DOMAIN plan.generators THEN plan.generators[g].dependencies ELSE <<>>

\* The dependencies of the innermost call that have not been visited.  A generator
\* has been visited when its call has not returned yet or it is in the order.
Unvisited(plan, c) ==
  LET dependencies == Dependencies(plan, Last(c.calls))
  IN {i \in DOMAIN dependencies : dependencies[i] \notin Range(c.calls) \cup Range(c.order)}

Call(plan, c) == Append(c.calls, Dependencies(plan, Last(c.calls))[Min(Unvisited(plan, c))])

\* Mutant of CollectStep: a generator comes before what it depends on.
CollectDependentsFirst(plan, c) ==
  IF c.calls = <<>> THEN c
  ELSE [calls |-> IF Unvisited(plan, c) # {} THEN Call(plan, c) ELSE Front(c.calls),
        order |-> IF Last(c.calls) \in Range(c.order) THEN c.order ELSE Append(c.order, Last(c.calls))]

\* The innermost call makes the call for its next dependency, or adds its
\* generator to the order and returns.
CollectStep(plan, c) ==
  IF c.calls = <<>> THEN c
  ELSE IF Unvisited(plan, c) # {} THEN [c EXCEPT !.calls = Call(plan, c)]
  ELSE [calls |-> Front(c.calls), order |-> Append(c.order, Last(c.calls))]

\* The dependencies of a generator, each once, before the generator.  Every
\* generator is called and returns at most once.
CollectGeneratorOrder(plan, g) ==
  LET Step == [c \in [calls : Seq(Generators), order : Seq(Generators)] |-> CollectStep(plan, c)]
      Collected[n \in 0 .. 2 * Cardinality(Generators)] ==
        IF n = 0 THEN [calls |-> <<g>>, order |-> <<>>] ELSE Step[Collected[n - 1]]
  IN Collected[2 * Cardinality(Generators)].order

\* A request for an unknown generator, or that depends on one, is refused.
AllDeclared(plan, g, order) ==
  g \in Range(order) /\ order \in Seq(DOMAIN plan.generators)

\* Where the answer to g's prompt will come from.  A stored answer is only a
\* path here; it is read when the generator runs.
PromptSource(cmd, decl, g) ==
  IF decl.prompt = "none" THEN "none"
  ELSE IF g \in DOMAIN cmd.answers THEN "file"
  ELSE IF decl.prompt = "persistent" /\ prompts[g] # NoAnswer THEN "stored"
  ELSE IF cmd.interactive THEN "terminal" ELSE "missing"

\* validate_generator_prompt_files: every prompt has a source, and every file
\* given belongs to a prompt.
PromptsResolve(cmd, plan, order) ==
  /\ \A g \in Range(order) : PromptSource(cmd, plan.generators[g], g) # "missing"
  /\ DOMAIN cmd.answers \subseteq {g \in Range(order) : plan.generators[g].prompt # "none"}

\* The generators whose prompts will be answered at the terminal.
Asked(cmd, plan, order) ==
  {g \in Range(order) : PromptSource(cmd, plan.generators[g], g) = "terminal"}

Generate(p) ==
  LET cmd == Head(todo[p])
      plan == Plans[cmd.plan]
      order == CollectGeneratorOrder(plan, cmd.generator)
  IN /\ Upcoming(p, "generate")
     /\ Launch(p,
          /\ AllDeclared(plan, cmd.generator, order)
          /\ ~Exists(LegacyPromptState)
          /\ \A g \in Range(order) : \A d \in Range(plan.generators[g].outputs) :
               Authorized(plan, d, cmd.key)
          /\ PromptsResolve(cmd, plan, order),
          [NoJob EXCEPT !.cmd = cmd, !.order = order, !.next = 1, !.asks = Asked(cmd, plan, order)],
          "decide")
     /\ UNCHANGED <<world, files, runs, history>>

-----------------------------------------------------------------------------
(* One generator: leave it, create it or replace it *)

StateMatches(decl) == files[decl.state].body.part = StateOf(decl)

Present(decl) == {d \in Range(decl.outputs \o decl.public) : Exists(d)}
AllPresent(decl) == Present(decl) = Range(decl.outputs \o decl.public)

GeneratorAction(decl, replace) ==
  IF replace THEN "replace"
  ELSE IF Present(decl) # {} /\ ~AllPresent(decl) THEN "partial"
  ELSE IF decl.validation = NoValidation THEN "create"
  ELSE IF Exists(decl.state) THEN
         IF ~AllPresent(decl) THEN "create"
         ELSE IF StateMatches(decl) THEN "unchanged" ELSE "replace"
  ELSE IF Present(decl) = {} THEN "create" ELSE "no_state"

\* The generator is done with; the command ends with its last one.
Advance(p) ==
  IF job[p].next = Len(job[p].order) THEN Return(p)
  ELSE /\ Update(p, [job[p] EXCEPT !.next = @ + 1, !.items = <<>>, !.note = <<>>,
                                   !.answer = NoAnswer, !.inputs = {}])
       /\ Goto(p, "decide")
       /\ UNCHANGED lock

\* The decision is made without the lock, from what is there now.
Decide(p) ==
  LET action == GeneratorAction(Decl(p), Cmd(p).replace)
  IN /\ pc[p] = "decide"
     /\ CASE action = "unchanged" -> Advance(p)
          [] action \in {"create", "replace"} ->
               /\ Update(p, [job[p] EXCEPT !.mode = action])
               /\ Goto(p, "values")
               /\ UNCHANGED lock
          [] OTHER -> Return(p)
     /\ UNCHANGED <<world, files, todo, runs, history>>

-----------------------------------------------------------------------------
(* Its values *)

\* read_generator_prompts: from the source the command chose when it began,
\* whatever has been remembered since.
Answer(p) ==
  LET g == GeneratorId(p)
  IN IF Decl(p).prompt = "none" THEN NoAnswer
     ELSE IF g \in DOMAIN Cmd(p).answers THEN Cmd(p).answers[g]
     ELSE IF g \in job[p].asks THEN "typed"
     ELSE prompts[g]

IsBuiltin(decl) == decl.executable # "external"

\* A key pair: one secret, and at most the public half of the same key.
KeyPairs == {"builtin:ssh-ed25519", "builtin:wireguard-private-key"}
KeyPairAccepts(decl) ==
  decl.parameters = "none" /\ Len(decl.outputs) = 1 /\ Len(decl.public) <= 1

\* random, hex, base64, token, passphrase and uuid: one fresh value per output.
DrawAccepts(decl) == decl.parameters # "bad" /\ decl.public = <<>>

\* The one built-in that asks: a hidden prompt that is not remembered.
PasswordHashAccepts(decl) ==
  decl.parameters # "bad" /\ Len(decl.outputs) = 1 /\ decl.public = <<>> /\ decl.prompt = "once"

BuiltinAccepts(decl) ==
  IF decl.executable = "builtin:argon2id-password-hash" THEN PasswordHashAccepts(decl)
  ELSE /\ decl.prompt = "none" /\ decl.inputs = <<>>
       /\ IF decl.executable \in KeyPairs THEN KeyPairAccepts(decl) ELSE DrawAccepts(decl)

\* materialize_generator_secret_dependencies, without the lock.
InputsReadable(p) ==
  \A d \in Range(Decl(p).inputs) :
    Exists(d) /\ Cmd(p).key \in Plan(p).readers[d] \cap files[d].to

\* Outputs are files named by their index, read in the order of a set of
\* strings: "10" comes before "2".  Bound: a generator has at most 100 outputs.
Digits(k) == IF k < 10 THEN <<k>> ELSE <<k \div 10, k % 10>>
Before(a, b) ==
  \/ Digits(a)[1] < Digits(b)[1]
  \/ Digits(a)[1] = Digits(b)[1] /\ a < b
ReadOrder(n) ==
  [i \in 1 .. n |->
     CHOOSE k \in 0 .. n - 1 : Cardinality({j \in 0 .. n - 1 : Before(j, k)}) = i - 1]

DeclaredOrder(n) == [i \in 1 .. n |-> i - 1]
OutputOrder(decl, n) == IF IsBuiltin(decl) THEN DeclaredOrder(n) ELSE ReadOrder(n)

\* The values in the order read, each with the destination declared at its place.
OutputItems(g, decl, dests, class, readers) ==
  [i \in DOMAIN dests |->
     Item(dests[i], "output",
          [body |-> [by |-> g, part |-> <<class, OutputOrder(decl, Len(dests))[i]>>, n |-> 0],
           to |-> readers[i]])]

\* The state is written with the outputs, or removed when nothing is validated.
StateItem(g, decl) ==
  IF decl.validation = NoValidation THEN Item(decl.state, "delete", NoFile)
  ELSE Item(decl.state, "private",
            [body |-> [by |-> g, part |-> StateOf(decl), n |-> 0], to |-> {}])

ItemsOf(p) ==
  LET g == GeneratorId(p)
      decl == Decl(p)
      readers == [i \in DOMAIN decl.outputs |-> Plan(p).readers[decl.outputs[i]]]
  IN OutputItems(g, decl, decl.outputs, "secret", readers)
       \o OutputItems(g, decl, decl.public, "public", [i \in DOMAIN decl.public |-> {}])
       \o <<StateItem(g, decl)>>

Produced(p, j) ==
  /\ Update(p, [j EXCEPT !.items = ItemsOf(p), !.note = <<"answer", GeneratorId(p), j.answer>>])
  /\ Goto(p, "lock")

\* Prompts and secret dependencies are read; a built-in draws its values at once.
Values(p) ==
  LET j == [job[p] EXCEPT !.answer = Answer(p),
              !.inputs = {<<d, files[d].body.n, files[d].body.by>> : d \in Range(Decl(p).inputs)}]
  IN /\ pc[p] = "values"
     /\ IF IsBuiltin(Decl(p))
        THEN BuiltinAccepts(Decl(p)) /\ Produced(p, [j EXCEPT !.inputs = {}])
        ELSE InputsReadable(p) /\ Update(p, j) /\ Goto(p, "running")
     /\ UNCHANGED <<world, files, lock, todo, runs, history>>

ValuesRefused(p) ==
  /\ pc[p] = "values"
  /\ IF IsBuiltin(Decl(p)) THEN ~BuiltinAccepts(Decl(p)) ELSE ~InputsReadable(p)
  /\ Return(p)
  /\ UNCHANGED <<world, files, todo, runs, history>>

\* The executable, isolated by a worker or run directly, exits in time with
\* success and exactly the declared files.
GeneratorExits(p) ==
  /\ pc[p] = "running"
  /\ Produced(p, job[p])
  /\ UNCHANGED <<world, files, lock, todo, runs, history>>

\* Only a persistent prompt is remembered.
Remembered(p) ==
  IF Decl(p).prompt = "persistent" THEN [prompts EXCEPT ![GeneratorId(p)] = job[p].answer]
  ELSE prompts

\* Mutant of GeneratorFails: the answer is remembered although nothing was made.
GeneratorFailsRemembering(p) ==
  /\ pc[p] = "running"
  /\ Fails("generator")
  /\ prompts' = Remembered(p)
  /\ Return(p)
  /\ UNCHANGED <<scene, caps, clock, files, todo, runs, history>>

\* The worker does not report, the executable fails or is killed at its
\* deadline, or its output directories are not exactly as declared.
GeneratorFails(p) ==
  /\ pc[p] = "running"
  /\ Fails("generator")
  /\ Return(p)
  /\ UNCHANGED <<world, files, todo, runs, history>>

\* persist_generator_prompts, after the outputs have committed.
Persist(p) ==
  /\ pc[p] = "persist"
  /\ prompts' = Remembered(p)
  /\ Advance(p)
  /\ UNCHANGED <<scene, caps, clock, files, todo, runs, history>>

PersistFails(p) ==
  /\ pc[p] = "persist"
  /\ Fails("prompt") /\ Decl(p).prompt = "persistent"
  /\ Return(p)
  /\ UNCHANGED <<world, files, todo, runs, history>>

GeneratorNext(p) ==
  \/ Generate(p) \/ Decide(p) \/ Values(p) \/ ValuesRefused(p) \/ GeneratorExits(p)
  \/ GeneratorFails(p) \/ Persist(p) \/ PersistFails(p)

-----------------------------------------------------------------------------
(* Properties *)

\* Whatever was interrupted or raced, outputs that a later run would report as
\* unchanged were made together by one run of their generator: a private key and
\* the public key beside it belong together.  (generator_action,
\* write_secret_public_private_batch)
OutputsFromOneRun ==
  \A plan \in Range(Plans) : \A g \in DOMAIN plan.generators :
    LET decl == plan.generators[g]
    IN GeneratorAction(decl, FALSE) = "unchanged" =>
         \A d, e \in {x \in Present(decl) : files[x].body.by = g} :
           files[d].body.n = files[e].body.n

\* A generator works from what the generators it depends on have made, each
\* before it in the order of the command, and never from a generated value that is
\* older than the one the same command has committed there, whoever replaces,
\* rekeys or restores it meanwhile.  (collect_generator_order, the loop of
\* run_generate)
DependenciesFirst ==
  \A p \in {q \in Procs : pc[q] # "idle" /\ Cmd(q).op = "generate"} : \A i \in job[p].inputs :
    /\ \A m \in job[p].made : i[1] = m[1] /\ i[3] \in Generators => i[2] >= m[2]
    /\ \A g \in DOMAIN Plan(p).generators :
         i[1] \in Range(Plan(p).generators[g].outputs) =>
           g \in Range(SubSeq(job[p].order, 1, job[p].next - 1))

\* A remembered response was used by a run whose outputs committed: a failed
\* generation cannot update it.  (persist_generator_prompts)
PromptsWereUsed ==
  \A g \in Generators :
    prompts[g] # NoAnswer => <<"answer", g, prompts[g]>> \in Range(history)

\* The file a generator names by an index goes to the output declared at that
\* index.  (generate_external_values, run_generate)
OutputsMatchDeclaration ==
  \A plan \in Range(Plans) : \A g \in DOMAIN plan.generators :
    \A i \in DOMAIN plan.generators[g].outputs :
      LET file == files[plan.generators[g].outputs[i]]
      IN file # NoFile /\ file.body.by = g => file.body.part = <<"secret", i - 1>>
=============================================================================
