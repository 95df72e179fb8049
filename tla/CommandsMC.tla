----------------------------- MODULE CommandsMC -----------------------------
(***************************************************************************)
(* Small instances of Commands: two operators, a key-pair generator and    *)
(* one that depends on it, two versions of the plan and of a bootstrap     *)
(* plan, and scenes in which a few commands meet.                          *)
(***************************************************************************)
EXTENDS Commands, TLC

CONSTANTS q1, q2

P(stem, extension) == <<<<stem, extension>>>>
Age(stem) == P(stem, "age")
In(dir, path) == <<<<dir, "">>>> \o path

KeyFile == Age("key")
PublicFile == P("key", "pub")
TokenFile == Age("token")
KeyState == P("key", "state")
TokenState == P("token", "state")
SshState == P("ssh", "state")
HashState == P("hash", "state")
HexFile == Age("hex")
HexPublic == P("hex", "pub")
HexState == P("hex", "state")
Legacy == In("old", Age("x"))
LegacyToo == In("old", Age("y"))
Var(output) == In("vars", In("m", In("g", <<output, <<"value", "">>>>)))
Fact == In("facts", In("m", In("facts", P("f", ""))))
NestedFact == In("facts", In("m", In("facts", In("d", Age("f")))))
Document == P("doc", "yaml")

MCLegacyPromptState == P("prompts", "")

MCPaths ==
  {KeyFile, PublicFile, TokenFile, KeyState, TokenState, P("prompts", ""), Document,
   HashState, HexFile, HexPublic, HexState, SshState,
   Legacy, LegacyToo, In("new", Age("x")), In("new", Age("y")), In("new", Legacy),
   Var(<<"id", "">>), Var(<<"id", "pub">>), In("new", In("m", In("g", Age("id")))),
   Fact, NestedFact, In("new", In("m", In("facts", P("f", ""))))}

Declaration(dependencies, inputs, outputs, public, state, validation, prompt) ==
  [dependencies |-> dependencies, inputs |-> inputs, outputs |-> outputs, public |-> public,
   state |-> state, validation |-> validation, prompt |-> prompt,
   executable |-> "external", parameters |-> "none"]

KeyPair(validation) ==
  Declaration(<<>>, <<>>, <<KeyFile>>, <<PublicFile>>, KeyState, validation, "persistent")
Token(validation) ==
  Declaration(<<"key">>, <<KeyFile>>, <<TokenFile>>, <<>>, TokenState, validation, "none")

APlan(schema, generators, readers, authorizers) ==
  [schema |-> schema, generators |-> generators, readers |-> readers,
   admins |-> {"adm", "rec"}, authorizers |-> authorizers]

MCReaders(tokenReaders) ==
  [d \in {KeyFile, TokenFile, HexFile, Legacy, NestedFact} |->
     IF d = TokenFile THEN tokenReaders ELSE {"adm", "target"}]

MCPlans ==
  "one" :> APlan("plan", "key" :> KeyPair("a") @@ "token" :> Token(NoValidation),
                 MCReaders({"adm", "target"}), {})
  @@ "two" :> APlan("plan", "key" :> KeyPair("b") @@ "token" :> Token("a"),
                    MCReaders({"adm", "rec"}), {})
  @@ "builtin" :> APlan("plan",
       "ssh" :> [KeyPair("a") EXCEPT !.executable = "builtin:ssh-ed25519", !.prompt = "none",
                   !.state = SshState]
       @@ "hash" :> [Token(NoValidation) EXCEPT !.executable = "builtin:argon2id-password-hash",
                       !.prompt = "once", !.dependencies = <<"ssh">>, !.inputs = <<>>,
                       !.state = HashState]
       @@ "hex" :> [Declaration(<<>>, <<>>, <<HexFile>>, <<HexPublic>>, HexState, NoValidation, "none")
                      EXCEPT !.executable = "builtin:hex"],
       MCReaders({"adm", "target"}), {})
  @@ "boot" :> APlan("bootstrap", <<>>, MCReaders({"adm", "target"}), {"auth"})
  @@ "boot2" :> APlan("bootstrap", <<>>, MCReaders({"adm"}), {"auth", "auth2"})

File(n, to) == [body |-> [by |-> "earlier", part |-> <<"earlier">>, n |-> n], to |-> to]

\* Files there at first, numbered apart from those that transactions make.
Holding(paths) ==
  [d \in MCPaths |-> IF d \in paths THEN File(0, {"adm", "target"}) ELSE NoFile]

Scene(paths, first, second, faults, maxClock) ==
  [files |-> Holding(paths), todo |-> q1 :> first @@ q2 :> second,
   faults |-> faults, maxClock |-> maxClock]

GenerateWith(generator, plan, replace, answers) ==
  [op |-> "generate", generator |-> generator, plan |-> plan, key |-> "adm",
   replace |-> replace, answers |-> answers, interactive |-> TRUE]
Gen(generator, plan, replace) == GenerateWith(generator, plan, replace, <<>>)
Batchwise(generator, plan) == [Gen(generator, plan, FALSE) EXCEPT !.interactive = FALSE]

Author(op, plan, path, replace, input) ==
  [op |-> op, plan |-> plan, path |-> path, replace |-> replace, input |-> input,
   key |-> "adm", verify |-> "adm", yes |-> TRUE]
BatchOf(entries) ==
  [op |-> "batch", plan |-> "one", entries |-> entries, replace |-> TRUE, input |-> "good",
   document |-> [user |-> "name", db |-> "object"], key |-> "adm"]

IssueBy(key, plan, lifetime, ahead) ==
  [op |-> "issue", plan |-> plan, path |-> TokenFile, key |-> key, input |-> "value",
   size |-> 1, lifetime |-> lifetime, ahead |-> ahead]
RedeemOf(capability, plan, input) ==
  [op |-> "redeem", capability |-> capability, plan |-> plan, input |-> input, bytes |-> 1]

Migrating(op, layout, source, destination, execute) ==
  [op |-> op, layout |-> layout, source |-> source, path |-> destination, root |-> source,
   sources |-> {source}, destination |-> destination, key |-> "adm", verify |-> "adm",
   to |-> {"adm"}, replace |-> FALSE, execute |-> execute]

\* Generators race, with two versions of the plan and a replacement; they meet
\* faults and are retried; their outputs are edited, deleted and written.
GeneratorScenes ==
  {Scene({}, <<Gen("token", "one", FALSE), Gen("token", "one", TRUE)>>,
         <<GenerateWith("token", "two", FALSE, "key" :> "given")>>, {}, 0),
   Scene({}, <<Gen("token", "one", FALSE), Gen("token", "two", FALSE), Gen("token", "two", FALSE)>>,
         <<>>, {"kill", "generator", "prompt", "stage"}, 0),
   Scene({TokenFile}, <<Batchwise("key", "two"), Gen("key", "two", FALSE), Batchwise("key", "one")>>,
         <<Author("delete", "one", KeyFile, TRUE, ""), Author("write", "one", KeyFile, FALSE, "good")>>,
         {}, 0),
   Scene({KeyFile, PublicFile, TokenFile}, <<Gen("token", "one", TRUE), Gen("token", "two", FALSE)>>,
         <<Author("edit", "one", KeyFile, TRUE, "good"), Gen("token", "two", TRUE)>>, {"generator"}, 0),
   Scene({}, <<Gen("token", "one", FALSE)>>,
         <<Gen("token", "two", FALSE), GenerateWith("key", "one", TRUE, "key" :> "given")>>, {"kill"}, 0),
   Scene({}, <<Gen("hash", "builtin", FALSE), Gen("hash", "builtin", TRUE)>>,
         <<Gen("hex", "builtin", FALSE), Gen("ssh", "builtin", FALSE)>>, {"kill"}, 0),
   Scene({P("prompts", "")}, <<Gen("key", "one", FALSE)>>, <<Gen("absent", "one", FALSE)>>, {}, 0)}

SecretScenes ==
  {Scene({TokenFile}, <<Author("edit", "one", TokenFile, TRUE, "good"), Author("rekey", "two", TokenFile, TRUE, "")>>,
         <<BatchOf(<<<<TokenFile, "db">>, <<KeyFile, "user">>>>), BatchOf(<<<<TokenFile, "user">>>>), Author("write", "one", TokenFile, TRUE, "more")>>,
         {"editor", "stage", "kill"}, 0),
   Scene({TokenFile},
         <<Author("rekey", "one", TokenFile, TRUE, ""), [Author("rekey", "two", TokenFile, TRUE, "") EXCEPT !.key = "target"],
           Author("edit", "one", TokenFile, TRUE, "malformed"), Author("write", "one", KeyFile, FALSE, "malformed")>>,
         <<Author("delete", "one", TokenFile, TRUE, ""), [Author("delete", "one", KeyFile, TRUE, "") EXCEPT !.yes = FALSE]>>,
         {}, 0)}

\* Capabilities of two plans, presented with either, early, late and twice, with
\* the committed value and another.
DelegationScenes ==
  {Scene({}, <<IssueBy(key, plan, lifetime, ahead), IssueBy("auth2", "boot2", 1, 0)>>,
         <<RedeemOf(1, "boot", input), RedeemOf(1, "boot2", "value"), RedeemOf(2, "boot2", "value")>>,
         {}, 3)
     : key \in {"auth", "auth2"}, plan \in {"boot", "boot2"}, lifetime \in {1, 4},
       ahead \in {0, 1}, input \in {"value", "other"}}
  \cup {Scene({}, <<IssueBy("auth", "boot", 2, 0), [Author("bootstrap", "boot", TokenFile, FALSE, "direct") EXCEPT !.key = "auth"]>>,
              <<RedeemOf(1, "boot", "value"), Author("delete", "one", TokenFile, TRUE, ""), Author("bootstrap", "boot", TokenFile, FALSE, "direct")>>,
              {}, 0)}

MigrationScenes ==
  {Scene({Legacy, LegacyToo}, <<Migrating("ciphertext", "", Legacy, TokenFile, TRUE), Migrating("tree", "agenix", <<<<"old", "">>>>, <<<<"new", "">>>>, TRUE)>>,
         <<Author("write", "one", Legacy, TRUE, "good"), Author("delete", "one", Legacy, TRUE, "")>>,
         {"kill"}, 0),
   Scene({Legacy, LegacyToo, Fact, Var(<<"id", "">>)},
         <<Migrating("tree", "agenix", <<<<"old", "">>>>, <<<<"old", "">>, <<"new", "">>>>, TRUE),
           Migrating("tree", "agenix-rekey", Legacy, <<<<"new", "">>>>, TRUE),
           Migrating("plain", "facts", <<<<"facts", "">>>>, <<<<"new", "">>>>, TRUE)>>,
         <<Migrating("plain", "vars", <<<<"vars", "">>>>, <<<<"new", "">>>>, TRUE), Author("edit", "one", Legacy, TRUE, "good")>>,
         {"stage"}, 0),
   Scene({Var(<<"id", "">>), Var(<<"id", "pub">>)},
         <<Migrating("plain", "vars", <<<<"vars", "">>>>, <<<<"new", "">>>>, TRUE)>>,
         <<Migrating("tree", "agenix", <<<<"old", "">>>>, <<<<"new", "">>>>, FALSE)>>, {}, 0),
   Scene({Fact}, <<Migrating("plain", "facts", <<<<"facts", "">>>>, <<<<"new", "">>>>, TRUE)>>,
         <<Author("write", "one", NestedFact, FALSE, "good")>>, {}, 0)}
  \cup {Scene({Document}, <<Migrating("external", "", Document, TokenFile, TRUE)>>,
              <<Author("write", "one", TokenFile, replace, "good")>>, faults, 0)
          : replace \in BOOLEAN, faults \in {{"stage"}, {"helper"}, {"kill"}, {"source", "helper"}, {"helper", "unread"}}}

MCScenes == GeneratorScenes \cup SecretScenes \cup DelegationScenes \cup MigrationScenes

\* A capability is presented again after what it created was deleted.
ReplayScenes ==
  {Scene({}, <<IssueBy("auth", "boot", 3, 0), Author("delete", "one", TokenFile, TRUE, "")>>,
         <<RedeemOf(1, "boot", "value"), RedeemOf(1, "boot", "value")>>, {}, 2)}

-----------------------------------------------------------------------------
(* A generator with eleven outputs *)

Outputs == [i \in 1 .. 11 |-> In("out", P(ToString(i), "age"))]
WidePaths == Range(Outputs) \cup {KeyState, P("prompts", "")}
WidePlans ==
  "wide" :> APlan("plan",
                  "wide" :> Declaration(<<>>, <<>>, Outputs, <<>>, KeyState, NoValidation, "none"),
                  [d \in Range(Outputs) |-> {"adm"}], {})
WideScenes ==
  {[files |-> [d \in WidePaths |-> NoFile], todo |-> q1 :> <<Gen("wide", "wide", FALSE)>> @@ q2 :> <<>>,
    faults |-> {}, maxClock |-> 0]}
=============================================================================
