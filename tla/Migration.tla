------------------------------ MODULE Migration ------------------------------
(***************************************************************************)
(* nix-seal migrate (crates/nix-seal-cli/src/migration.rs): one age file,  *)
(* an agenix or agenix-rekey tree, Clan variables and facts, and documents *)
(* that an external SOPS or GnuPG decrypts.                                *)
(*                                                                         *)
(* The decryptor runs in a process group of its own, fed by a writer       *)
(* thread and watched by a watchdog, while the process encrypts its output *)
(* under the repository lock.                                              *)
(***************************************************************************)
EXTENDS SecretCommands

\* Sources are files of the working copy, and nothing an operator types or a file
\* holds at first reads like the mark of a truncated document.
ASSUME MigrationAssumption ==
  /\ \A c \in AllCommands :
       /\ c.op \in {"ciphertext", "external"} => c.source \in Paths
       /\ c.op = "tree" /\ c.layout # "agenix" => c.sources \subseteq Paths
       /\ c.op \in {"write", "bootstrap", "redeem"} => c.input # "truncated"
       /\ c.op = "batch" => "truncated" \notin Range(c.document)
  /\ \A s \in Scenes : \A d \in Paths :
       s.files[d] # NoFile => s.files[d].body.part # <<"truncated">>

Extension(path) == Last(path)[2]
Relative(root, path) == SubSeq(path, Len(root) + 1, Len(path))
Inside(root, path) == IsPrefix(root, path) /\ root # path
SideBySide(a, b) == ~IsPrefix(a, b) /\ ~IsPrefix(b, a)

\* What a command that is to be executed starts with; a dry run ends here.
Migrate(p, op, accepted, items) ==
  LET cmd == Head(todo[p])
  IN /\ Upcoming(p, op)
     /\ Launch(p, accepted /\ cmd.execute,
               [JobOf(cmd, ModeOf(cmd), items) EXCEPT !.to = cmd.to], "lock")
     /\ UNCHANGED <<world, files, runs, history>>

-----------------------------------------------------------------------------
(* Age files and trees *)

MigrateCiphertext(p) ==
  LET cmd == Head(todo[p])
  IN Migrate(p, "ciphertext", cmd.to # {}, <<ItemFrom(cmd.source, cmd.path)>>)

\* scan_agenix_ciphertexts: the .age files below the root, without the lock.
ScanAgenix(root) == {d \in Paths : Inside(root, d) /\ Exists(d) /\ Extension(d) = "age"}

\* An export of agenix-rekey lists its files instead of a root.
TreeSources(cmd) == IF cmd.layout = "agenix" THEN ScanAgenix(cmd.root) ELSE cmd.sources

TreeDestination(cmd, s) ==
  cmd.destination \o (IF cmd.layout = "agenix" THEN Relative(cmd.root, s) ELSE s)

TreeIsBeside(cmd) ==
  IF cmd.layout = "agenix" THEN SideBySide(cmd.root, cmd.destination)
  ELSE \A s \in cmd.sources :
         Exists(s) /\ Extension(s) = "age" /\ SideBySide(s, cmd.destination)

Pairs(destinations) ==
  LET order == SetToSeq(DOMAIN destinations)
  IN [i \in DOMAIN order |-> ItemFrom(order[i], destinations[order[i]])]

MigrateTree(p) ==
  LET cmd == Head(todo[p])
  IN Migrate(p, "tree",
       TreeSources(cmd) # {} /\ TreeIsBeside(cmd) /\ cmd.to # {},
       Pairs([s \in TreeSources(cmd) |-> TreeDestination(cmd, s)]))

-----------------------------------------------------------------------------
(* Clan variables and facts, which are plaintext *)

\* machine/generator/output/value
ScanVars(root) ==
  {d \in Paths : Inside(root, d) /\ Exists(d) /\ Len(Relative(root, d)) = 4
                 /\ Last(d) = <<"value", "">>}

\* machine/facts/fact
ScanFacts(root) ==
  {d \in Paths : Inside(root, d) /\ Exists(d) /\ Len(Relative(root, d)) = 3
                 /\ Relative(root, d)[2] = <<"facts", "">>}

\* Both scans refuse a tree that is not laid out like that: a path below a value,
\* facts that are a file, and a directory among the facts.  Other files are
\* passed over.
ClanLayout(cmd) ==
  \A d \in Paths : Inside(cmd.root, d) /\ Exists(d) =>
    LET below == Relative(cmd.root, d)
    IN IF cmd.layout = "vars" THEN Len(below) <= 4
       ELSE Len(below) >= 2 /\ below[2] = <<"facts", "">> => Len(below) = 3

\* The output's directory becomes a file; an extension it has is replaced.
VarDestination(cmd, s) ==
  LET parent == Front(cmd.destination \o Relative(cmd.root, s))
  IN Append(Front(parent), <<Last(parent)[1], "age">>)

ClanSources(cmd) == IF cmd.layout = "vars" THEN ScanVars(cmd.root) ELSE ScanFacts(cmd.root)

ClanDestination(cmd, s) ==
  IF cmd.layout = "vars" THEN VarDestination(cmd, s)
  ELSE cmd.destination \o Relative(cmd.root, s)

MigrateClan(p) ==
  LET cmd == Head(todo[p])
  IN Migrate(p, "plain",
       /\ ClanLayout(cmd) /\ ClanSources(cmd) # {}
       /\ SideBySide(cmd.root, cmd.destination)
       /\ cmd.layout = "vars" => cmd.to # {},
       Pairs([s \in ClanSources(cmd) |-> ClanDestination(cmd, s)]))

-----------------------------------------------------------------------------
(* Documents an external program decrypts *)

\* The source is opened once; its descriptor is piped to the child whatever
\* becomes of its path.
StartExternal(p) ==
  LET cmd == Head(todo[p])
  IN /\ Upcoming(p, "external")
     /\ Launch(p, cmd.to # {} /\ cmd.execute /\ Exists(cmd.source),
          [JobOf(cmd, ModeOf(cmd), <<Item(cmd.path, "output", [files[cmd.source] EXCEPT !.to = cmd.to])>>)
             EXCEPT !.child = "running", !.writer = "feeding", !.watchdog = TRUE],
          "lock")
     /\ UNCHANGED <<world, files, runs, history>>

Running(p) == job[p].child \in {"running", "closed"}
Only(p, j) == Update(p, j) /\ UNCHANGED <<world, files, lock, todo, pc, runs, history>>

\* Somebody holds the other end of the writer's pipe.
HasReader(p) == Running(p) \/ job[p].helper

\* The writer has put the whole source into the pipe.  What of it is still in the
\* pipe's buffer then, it cannot know.
Feed(p) ==
  /\ job[p].writer = "feeding" /\ HasReader(p)
  /\ Only(p, [job[p] EXCEPT !.writer = "done"])

\* The source cannot be read, or is longer than EXTERNAL_MIGRATION_MAX_SOURCE_BYTES:
\* the decryptor sees its input end early.
SourceFails(p) ==
  /\ Fails("source") /\ job[p].writer = "feeding" /\ HasReader(p)
  /\ Only(p, [job[p] EXCEPT !.writer = "broken"])

\* Nobody is left to read from the pipe.
WriterBreaks(p) ==
  /\ job[p].writer = "feeding" /\ ~HasReader(p)
  /\ Only(p, [job[p] EXCEPT !.writer = "broken"])

\* The child may fork a helper that inherits its pipes.
ChildForks(p) ==
  /\ Fails("helper") /\ job[p].child = "running" /\ ~job[p].helper
  /\ Only(p, [job[p] EXCEPT !.helper = TRUE])

HelperExits(p) ==
  /\ job[p].helper
  /\ Only(p, [job[p] EXCEPT !.helper = FALSE])

\* The child closes its output, complete or not, before it exits.
ChildCloses(p) ==
  /\ job[p].child = "running"
  /\ \E whole \in {FALSE, job[p].writer = "done"} :
       Only(p, [job[p] EXCEPT !.child = "closed", !.whole = whole])

\* A decryptor that succeeds has read what the writer put into the pipe, to the
\* end of its input.  The program cannot see whether it did.
ReadsAll == ~Fails("unread")

\* It succeeds only after writing all it has to say about what it has read.  One
\* that does not read everything leaves the rest in the pipe or to a helper.
ChildExits(p) ==
  /\ Running(p)
  /\ \/ \E whole \in {job[p].writer = "done", job[p].writer = "done" /\ ReadsAll} :
           /\ job[p].child = "closed" => whole = job[p].whole
           /\ job[p].writer = "feeding" /\ job[p].helper => ~ReadsAll
           /\ Only(p, [job[p] EXCEPT !.child = "ok", !.whole = whole])
     \/ Only(p, [job[p] EXCEPT !.child = "failed"])

\* SupervisedChild::terminate: the group is killed if its leader still runs.
Terminated(j) ==
  IF j.child \in {"running", "closed"} THEN [j EXCEPT !.child = "failed", !.helper = FALSE] ELSE j

\* Mutant of WatchdogFires: it gives up on a child that has its output open.
WatchdogSpares(p) ==
  /\ job[p].watchdog
  /\ pc[p] \in {"lock", "stage", "reading", "check", "commit"}
  /\ Only(p, [job[p] EXCEPT !.watchdog = FALSE])

WatchdogFires(p) ==
  /\ job[p].watchdog
  /\ pc[p] \in {"lock", "stage", "reading", "check", "commit"}
  /\ Only(p, [Terminated(job[p]) EXCEPT !.watchdog = FALSE])

\* write_secret_checked: the destination is checked, then output is encrypted
\* until its end.
OpenExternal(p) ==
  /\ pc[p] = "stage" /\ Cmd(p).op = "external"
  /\ IF Stageable(p, job[p].items) /\ Cmd(p).verify \in Cmd(p).to
     THEN Goto(p, "reading") /\ UNCHANGED lock
     ELSE Goto(p, "join") /\ lock' = NoProc
  /\ UNCHANGED <<world, files, todo, job, runs, history>>

\* Everyone who could write has closed the output.
AtEnd(p) == job[p].child # "running" /\ ~job[p].helper

Truncated(item) == [item EXCEPT !.file.body.part = <<"truncated">>]

ReadOutput(p) ==
  /\ pc[p] = "reading" /\ AtEnd(p)
  /\ runs' = runs + 1
  /\ Update(p, IF job[p].whole THEN job[p]
               ELSE [job[p] EXCEPT !.items = <<Truncated(job[p].items[1])>>])
  /\ Goto(p, "check")
  /\ UNCHANGED <<world, files, lock, todo, history>>

\* The output is too long, or cannot be encrypted and verified.
ReadFails(p) ==
  /\ pc[p] = "reading" /\ Fails("stage")
  /\ Goto(p, "join") /\ lock' = NoProc
  /\ UNCHANGED <<world, files, todo, job, runs, history>>

\* Mutant of CheckPasses: the exit status alone decides.
CheckStatusPasses(p) == job[p].child = "ok"

\* wait_for_external_migration, then wait_for_migration_source
CheckPasses(p) == job[p].child = "ok" /\ job[p].writer = "done"

Check(p) ==
  /\ pc[p] = "check" /\ CheckPasses(p)
  /\ Update(p, [job[p] EXCEPT !.at = 1])
  /\ Goto(p, "commit")
  /\ UNCHANGED <<world, files, lock, todo, runs, history>>

CheckFails(p) ==
  /\ pc[p] = "check"
  /\ ~CheckPasses(p)
  /\ <<job[p].child, job[p].writer>> \in {"failed"} \X {"feeding", "done", "broken"}
       \cup {<<"ok", "broken">>}
  /\ Goto(p, "join") /\ lock' = NoProc
  /\ UNCHANGED <<world, files, todo, job, runs, history>>

\* The child outlives its deadline.
CheckTimesOut(p) ==
  /\ pc[p] = "check" /\ Running(p)
  /\ Update(p, Terminated(job[p]))
  /\ Goto(p, "join") /\ lock' = NoProc
  /\ UNCHANGED <<world, files, todo, runs, history>>

\* After a failure the child is terminated and the writer joined, without the
\* lock.
TerminateExternal(p) ==
  /\ pc[p] = "join" /\ Running(p)
  /\ Only(p, Terminated(job[p]))

Join(p) ==
  /\ pc[p] = "join" /\ ~Running(p) /\ job[p].writer # "feeding"
  /\ Return(p)
  /\ UNCHANGED <<world, files, todo, runs, history>>

\* What the process and its threads do by themselves, and what the decryptor and
\* its source do as they please.
MigrationNext(p) ==
  \/ MigrateCiphertext(p) \/ MigrateTree(p) \/ MigrateClan(p) \/ StartExternal(p)
  \/ OpenExternal(p) \/ ReadOutput(p) \/ ReadFails(p) \/ Check(p) \/ CheckFails(p)
  \/ CheckTimesOut(p) \/ TerminateExternal(p) \/ Join(p)
ThreadNext(p) == WriterBreaks(p) \/ WatchdogFires(p)
DecryptorNext(p) ==
  \/ Feed(p) \/ SourceFails(p) \/ ChildForks(p) \/ HelperExits(p) \/ ChildCloses(p) \/ ChildExits(p)

-----------------------------------------------------------------------------
(* Property *)

\* Ciphertext made from the output of a decryptor that failed, was killed or timed
\* out, or was not handed its whole source, never becomes visible, whatever the
\* order in which it closes its output, exits and is timed out.  A decryptor that
\* exits with success and leaves part of its input unread is taken at its word.
\* (pipe_migration_source, write_secret_checked's final_input_check)
MigratedIsWhole ==
  ReadsAll => \A d \in Paths : Exists(d) => files[d].body.part # <<"truncated">>
=============================================================================
