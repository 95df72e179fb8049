--------------------------- MODULE CommandsProofs ---------------------------
(***************************************************************************)
(* Proofs about the commands that share the working copy, for any          *)
(* operators, paths, plans, lists of commands and faults.                  *)
(***************************************************************************)
EXTENDS Commands, RecursionLemmas, FiniteSetTheorems, TLAPS

-----------------------------------------------------------------------------
(* The inductive invariant *)

IsSeq(s) == s \in Seq(Range(s))

SharedInv ==
  /\ scene \in Scenes
  /\ DOMAIN files = Paths
  /\ \A d \in Paths : Exists(d) => IsFile(files[d])
  /\ DOMAIN todo = Procs /\ \A p \in Procs : todo[p] \in Seq(AllCommands)
  /\ DOMAIN pc = Procs
  /\ DOMAIN job = Procs
  /\ DOMAIN prompts = Generators
  /\ runs \in Nat
  /\ IsSeq(history)

IsItem(item) ==
  /\ DOMAIN item = {"path", "kind", "file", "from"}
  /\ item.file # NoFile => IsFile(item.file)

\* What a command has staged or is about to stage.
ItemsInv(items) == IsSeq(items) /\ \A i \in DOMAIN items : IsItem(items[i])

\* Where a process holds the lock.
Held == {"stage", "reading", "check", "backup", "commit"}

\* Where a command knows its outputs.
Prepared == {"lock"} \cup Held

\* Which command is where, and with what: j at label.
JobOK(j, label) ==
  /\ DOMAIN j = DOMAIN NoJob
  /\ label = "idle" => j = NoJob
  /\ label # "idle" => j.cmd \in AllCommands
  /\ ItemsInv(j.items)
  /\ label \in Prepared => Len(j.items) >= 1
  /\ label \in Prepared /\ ~IsBatch(j.cmd) => Len(j.items) = 1
  /\ label \in {"backup", "commit"} => j.at \in 1 .. Len(j.items)
  /\ label = "backup" => IsBatch(j.cmd)
  /\ label \in {"reading", "check", "join"} => j.cmd.op = "external"
  /\ label \in {"decide", "values", "running", "persist"} => j.cmd.op = "generate"
  /\ label = "editing" => j.cmd.op = "edit"
  /\ label = "stdin" => j.cmd.op = "redeem"
  /\ label = "idle" \/ j.cmd.op # "external" =>
       j.child = "none" /\ j.writer = "none" /\ ~j.watchdog /\ ~j.helper

JobInv(p) == JobOK(job[p], pc[p]) /\ (pc[p] \in Held <=> lock = p)

IsStatePart(part) ==
  \E plan \in Range(Plans) : \E g \in DOMAIN plan.generators : part = StateOf(plan.generators[g])

GeneratorPaths(decl) == {decl.state} \cup Range(decl.outputs \o decl.public)

\* A generator shows its outputs, all of one run, and then the state that vouches
\* for them.
GeneratorMade(j, g, decl) ==
  /\ \A i \in DOMAIN j.items : j.items[i].path \in GeneratorPaths(decl)
  /\ j.items[Len(j.items)].path = decl.state
  /\ \A d \in Range(decl.outputs \o decl.public) :
       \E i \in DOMAIN j.items : i < Len(j.items) /\ j.items[i].path = d
  /\ \A i, k \in DOMAIN j.items :
       j.items[i].file # NoFile /\ j.items[k].file # NoFile =>
         j.items[i].file.body.n = j.items[k].file.body.n
  /\ \A i \in DOMAIN j.items :
       j.items[i].file # NoFile =>
         /\ j.items[i].file.body.by = g
         /\ j.items[i].file.body.part # <<"truncated">>
         /\ IF i = Len(j.items) THEN j.items[i].file.body.part = StateOf(decl)
            ELSE ~IsStatePart(j.items[i].file.body.part)

\* What the outputs of a command are.
Made(j) ==
  /\ j.cmd.op \in Copying => \A i \in DOMAIN j.items : j.items[i].from \in Paths
  /\ j.cmd.op = "rekey" => \A i \in DOMAIN j.items : j.items[i].from = j.items[i].path
  /\ j.cmd.op \in InMemory \ {"generate"} =>
       \A i \in DOMAIN j.items : j.items[i].file # NoFile =>
         /\ j.items[i].file.body.by \notin Generators
         /\ j.items[i].file.body.part # <<"truncated">>
         /\ ~IsStatePart(j.items[i].file.body.part)
  /\ j.cmd.op = "external" => \A i \in DOMAIN j.items : IsFile(j.items[i].file)
  /\ j.cmd.op = "generate" =>
       LET g == j.order[j.next] IN GeneratorMade(j, g, Plans[j.cmd.plan].generators[g])

\* Which generator a command is at.
Ordered(j) ==
  /\ j.cmd.plan \in DOMAIN Plans
  /\ j.order \in Seq(DOMAIN Plans[j.cmd.plan].generators)
  /\ j.next \in 1 .. Len(j.order)

MadeInv(p) ==
  /\ pc[p] \in Prepared => Made(job[p])
  /\ pc[p] # "idle" /\ Cmd(p).op = "generate" => Ordered(job[p])

IndInv == SharedInv /\ \A p \in Procs : JobInv(p) /\ MadeInv(p)

\* A batch moves everything it replaces away before it shows anything.
BatchInv(p) ==
  pc[p] \in {"backup", "commit"} /\ IsBatch(Cmd(p)) =>
    /\ DistinctDestinations(job[p].items)
    /\ \A i \in DOMAIN job[p].items :
         LET item == job[p].items[i]
         IN item.path \in Paths =>
            /\ pc[p] = "backup" /\ (i < job[p].at \/ (item.kind = "output" /\ job[p].mode # "replace")) =>
                 ~Exists(item.path)
            /\ pc[p] = "commit" /\ i >= job[p].at => ~Exists(item.path)
            /\ pc[p] = "commit" /\ i < job[p].at => files[item.path] = item.file

\* A staged copy is a copy, and a batch writes nothing it reads.
CopyInv(p) ==
  pc[p] \in {"backup", "commit"} /\ Cmd(p).op \in Copying =>
    /\ \A i \in DOMAIN job[p].items :
         /\ Exists(job[p].items[i].from)
         /\ files[job[p].items[i].from].body = job[p].items[i].file.body
    /\ IsBatch(Cmd(p)) => Sources(p) \cap Destinations(p) = {}

IsTruncated(f) == f # NoFile /\ f.body.part = <<"truncated">>

HasTruncated(j) == \E i \in DOMAIN j.items : IsTruncated(j.items[i].file)

\* Truncated output stays with a decryptor whose check cannot pass.  One that has
\* succeeded before it was handed everything leaves nobody to read the rest.
DecryptorInv(p) ==
  LET j == job[p]
  IN /\ j.child = "ok" /\ ~j.whole => j.writer # "done"
     /\ j.child = "ok" /\ j.writer = "feeding" => ~j.helper
     /\ HasTruncated(j) =>
          /\ pc[p] \in {"check", "join"}
          /\ pc[p] = "check" =>
               /\ j.child # "running"
               /\ j.child = "closed" => ~j.whole
               /\ j.child = "ok" => j.writer # "done"

WholeInv(p) ==
  LET j == job[p]
  IN /\ pc[p] \in {"backup", "commit"} => j.cmd.op \in InMemory \cup Copying \cup {"external"}
     /\ ReadsAll =>
          /\ pc[p] \in {"backup", "commit"} /\ j.cmd.op \in Copying => ~HasTruncated(j)
          /\ pc[p] # "idle" /\ j.cmd.op = "external" => DecryptorInv(p)

\* The answer a generator used is noted, and then recorded with its outputs.
AnswerInv(p) ==
  pc[p] \in Prepared \cup {"persist"} /\ Cmd(p).op = "generate" =>
    /\ job[p].note = <<"answer", GeneratorId(p), job[p].answer>>
    /\ pc[p] = "persist" => job[p].note \in Range(history)

\* Envelope e authorizes job j.
Grants(e, j) ==
  /\ j.note = <<"spent", e>> /\ j.mode = "create"
  /\ e.payload.plan = j.cmd.plan
  /\ e.payload.source = e.payload.secret
  /\ e.payload.recipients = PlanOf(j.cmd).readers[e.payload.secret]
  /\ e.entries[1].by \in PlanOf(j.cmd).authorizers

\* The output is what e was signed for.
Creates(e, item) ==
  /\ item.path = e.payload.source /\ item.kind = "output"
  /\ item.file.body.part = <<e.payload.plaintext>>
  /\ item.file.to = e.payload.recipients

GrantInv(p) ==
  pc[p] \in Prepared \cup {"stdin"} /\ Cmd(p).op = "redeem" =>
    \E e \in caps :
      /\ Grants(e, job[p])
      /\ pc[p] # "stdin" => \A i \in DOMAIN job[p].items : Creates(e, job[p].items[i])
      /\ pc[p] = "commit" => \A i \in DOMAIN job[p].items : ~Exists(job[p].items[i].path)

\* What no generator made.
NotGenerated(body) == body.by \notin Generators /\ ~IsStatePart(body.part)
Foreign(f) == f # NoFile => NotGenerated(f.body)

\* Where generators keep what they make; it is nowhere else.
Owned ==
  {d \in Paths : \E plan \in Range(Plans) : \E g \in DOMAIN plan.generators :
                   d \in GeneratorPaths(plan.generators[g])}
OutsideInv == \A d \in Paths \ Owned : Foreign(files[d])

Migrations == {"ciphertext", "tree", "plain", "external"}

\* A migration reads only files that no generator keeps.
ReadsBeside(c) ==
  /\ c.op \in {"ciphertext", "external"} => c.source \notin Owned
  /\ c.op = "tree" =>
       IF c.layout = "agenix" THEN \A d \in Owned : ~Inside(c.root, d) ELSE c.sources \cap Owned = {}
  /\ c.op = "plain" => \A d \in Owned : ~Inside(c.root, d)

\* What j copies comes from beside what generators keep.
BesideJob(j) ==
  \A i \in DOMAIN j.items :
    IF j.cmd.op = "external" THEN NotGenerated(j.items[i].file.body)
    ELSE j.items[i].from \in Paths \ Owned /\ Foreign(j.items[i].file)
BesideInv(p) == pc[p] \in Prepared /\ Cmd(p).op \in Migrations => BesideJob(job[p])

\* Where a state file stands beside outputs it vouches for, they are of its run.
OneRun(plan, g) ==
  LET decl == plan.generators[g]
  IN Exists(decl.state) /\ StateMatches(decl) =>
       \A d \in Range(decl.outputs \o decl.public) :
         Exists(d) /\ files[d].body.by = g => files[d].body.n = files[decl.state].body.n
OneRunInv == \A plan \in Range(Plans) : \A g \in DOMAIN plan.generators : OneRun(plan, g)
-----------------------------------------------------------------------------
(* Sequences *)

LEMMA SingletonSeq ==
  ASSUME NEW x
  PROVE  IsSeq(<<x>>) /\ Len(<<x>>) = 1 /\ DOMAIN <<x>> = {1} /\ <<x>>[1] = x /\ Range(<<x>>) = {x}
<1>1. Len(<<x>>) = 1 /\ DOMAIN <<x>> = 1 .. 1 /\ <<x>>[1] = x
  OBVIOUS
<1>2. Range(<<x>>) = {x}
  BY <1>1 DEF Range
<1>3. <<x>> \in Seq({x})
  OBVIOUS
<1> QED BY <1>1, <1>2, <1>3 DEF IsSeq

\* Applying something to every member leaves a sequence of the same length.
LEMMA MappedSeq ==
  ASSUME NEW s, IsSeq(s), NEW t, t = [i \in DOMAIN s |-> t[i]]
  PROVE  IsSeq(t) /\ Len(t) = Len(s) /\ DOMAIN t = 1 .. Len(s) /\ DOMAIN s = 1 .. Len(s) /\ Len(s) \in Nat
<1>1. DOMAIN s = 1 .. Len(s) /\ Len(s) \in Nat
  BY DEF IsSeq
<1>2. t \in [1 .. Len(s) -> Range(t)]
  BY <1>1 DEF Range
<1>3. t \in Seq(Range(t)) /\ Len(t) = Len(s)
  BY <1>1, <1>2
<1> QED BY <1>1, <1>2, <1>3 DEF IsSeq

LEMMA AppendedSeq ==
  ASSUME NEW s, IsSeq(s), NEW x
  PROVE  IsSeq(Append(s, x)) /\ Range(Append(s, x)) = Range(s) \cup {x}
<1> DEFINE S == Range(s) \cup {x}
<1>1. s \in Seq(S)
  BY DEF Range, IsSeq
<1>2. /\ Append(s, x) \in Seq(S) /\ Len(Append(s, x)) = Len(s) + 1 /\ Append(s, x)[Len(s) + 1] = x
      /\ \A i \in 1 .. Len(s) : Append(s, x)[i] = s[i]
  BY <1>1
<1> QED BY <1>1, <1>2 DEF Range, IsSeq

-----------------------------------------------------------------------------
(* What a step of p may do to the others *)

Moves(p) == ProcessNext(p) \/ ThreadNext(p) \/ DecryptorNext(p) \/ Killed(p)

\* The steps that change files.
Renames(p) == Backup(p) \/ Commit(p) \/ CommitLast(p)

Frame(p) ==
  /\ DOMAIN pc' = Procs /\ DOMAIN job' = Procs
  /\ \A q \in Procs \ {p} : pc'[q] = pc[q] /\ job'[q] = job[q] /\ (lock' = q <=> lock = q)
  /\ DOMAIN todo' = Procs /\ \A q \in Procs : todo'[q] \in Seq(AllCommands)
  /\ scene' = scene /\ DOMAIN prompts' = Generators
  /\ Renames(p) \/ files' = files
  /\ history' = history \/ CommitLast(p)
  /\ caps \subseteq caps'
  /\ runs' \in Nat

LEMMA ReturnFrame ==
  ASSUME IndInv, NEW p \in Procs, Return(p)
  PROVE  /\ DOMAIN pc' = Procs /\ DOMAIN job' = Procs
         /\ \A q \in Procs \ {p} : pc'[q] = pc[q] /\ job'[q] = job[q] /\ (lock' = q <=> lock = q)
         /\ pc'[p] = "idle" /\ job'[p] = NoJob /\ lock' # p
BY RepositoryAssumption DEF IndInv, SharedInv, Return, Goto, Update

LEMMA LaunchFrame ==
  ASSUME IndInv, NEW p \in Procs, NEW accepted, NEW j, NEW label, Launch(p, accepted, j, label),
         todo[p] # <<>>
  PROVE  /\ DOMAIN pc' = Procs /\ DOMAIN job' = Procs
         /\ \A q \in Procs \ {p} : pc'[q] = pc[q] /\ job'[q] = job[q] /\ (lock' = q <=> lock = q)
         /\ DOMAIN todo' = Procs /\ \A q \in Procs : todo'[q] \in Seq(AllCommands)
BY DEF IndInv, SharedInv, Launch, Start, Goto, Update

LEMMA LaunchersFrame ==
  ASSUME IndInv, NEW p \in Procs,
         \/ Generate(p) \/ Write(p) \/ Batch(p) \/ Edit(p) \/ Rekey(p) \/ Delete(p) \/ Bootstrap(p) \/ Redeem(p)
         \/ MigrateCiphertext(p) \/ MigrateTree(p) \/ MigrateClan(p) \/ StartExternal(p)
  PROVE  Frame(p)
<1>1. UNCHANGED <<world, files, runs, history>>
  BY Zenon DEF Generate, Write, Batch, Edit, Rekey, Delete, Bootstrap, Redeem, MigrateCiphertext, MigrateTree,
         MigrateClan, StartExternal, Migrate
<1>2. todo[p] # <<>> /\ \E accepted, j, label : Launch(p, accepted, j, label)
  BY DEF Generate, Write, Batch, Edit, Rekey, Delete, Bootstrap, Redeem, MigrateCiphertext, MigrateTree,
         MigrateClan, StartExternal, Migrate, Upcoming
<1> QED BY <1>1, <1>2, LaunchFrame DEF Frame, world, IndInv, SharedInv

LEMMA ReturnersFrame ==
  ASSUME IndInv, NEW p \in Procs,
         \/ StageFails(p) \/ StageCopiesFails(p) \/ Killed(p) \/ ValuesRefused(p) \/ GeneratorFails(p)
         \/ PersistFails(p) \/ EditorFails(p) \/ Join(p)
  PROVE  Frame(p) /\ Return(p) /\ UNCHANGED <<world, files, todo, runs, history>>
<1>1. Return(p) /\ UNCHANGED <<world, files, todo, runs, history>>
  BY DEF StageFails, StageCopiesFails, Killed, ValuesRefused, GeneratorFails, PersistFails, EditorFails, Join
<1> QED BY <1>1, ReturnFrame DEF Frame, world, IndInv, SharedInv

LEMMA OnlyFrame ==
  ASSUME IndInv, NEW p \in Procs, NEW j, Only(p, j)
  PROVE  Frame(p) /\ job'[p] = j /\ pc' = pc /\ lock' = lock /\ UNCHANGED <<world, files, runs, history>>
BY DEF Only, Update, Frame, world, IndInv, SharedInv

LEMMA Framed ==
  ASSUME IndInv, NEW p \in Procs, Moves(p)
  PROVE  Frame(p)
<1>1. CASE \/ Generate(p) \/ Write(p) \/ Batch(p) \/ Edit(p) \/ Rekey(p) \/ Delete(p) \/ Bootstrap(p)
           \/ Redeem(p) \/ MigrateCiphertext(p) \/ MigrateTree(p) \/ MigrateClan(p) \/ StartExternal(p)
  BY <1>1, LaunchersFrame
<1>2. CASE \/ StageFails(p) \/ StageCopiesFails(p) \/ Killed(p) \/ ValuesRefused(p) \/ GeneratorFails(p)
           \/ PersistFails(p) \/ EditorFails(p) \/ Join(p)
  BY <1>2, ReturnersFrame
<1>3. CASE ThreadNext(p) \/ DecryptorNext(p) \/ TerminateExternal(p)
  <2>1. \E j : Only(p, j)
    BY <1>3 DEF ThreadNext, DecryptorNext, TerminateExternal, WriterBreaks, WatchdogFires, Feed, SourceFails,
         ChildForks, HelperExits, ChildCloses, ChildExits
  <2> QED BY <2>1, OnlyFrame
<1> USE DEF Goto, Update, world
<1>4. CASE Acquire(p) \/ Stage(p) \/ StageCopies(p)
  BY <1>4, RepositoryAssumption DEF Acquire, Stage, StageCopies, StageItems, Frame, IndInv, SharedInv
<1>5. CASE Backup(p)
  BY <1>5 DEF Backup, Renames, NextItem, Frame, IndInv, SharedInv
<1>6. CASE Commit(p)
  BY <1>6 DEF Commit, Renames, Frame, IndInv, SharedInv
<1>7. CASE CommitLast(p)
  <2>1. lock = p
    BY <1>7 DEF CommitLast, IndInv, JobInv, Held
  <2>2. /\ DOMAIN pc' = Procs /\ DOMAIN job' = Procs
        /\ \A q \in Procs \ {p} : pc'[q] = pc[q] /\ job'[q] = job[q] /\ (lock' = q <=> lock = q)
    <3>1. CASE Return(p)
      BY <3>1, ReturnFrame
    <3>2. CASE ~Return(p)
      BY <1>7, <2>1, <3>2, RepositoryAssumption DEF CommitLast, IndInv, SharedInv
    <3> QED BY <3>1, <3>2
  <2> QED BY <1>7, <2>2 DEF CommitLast, Renames, Frame, IndInv, SharedInv
<1>8. CASE Decide(p) \/ Persist(p)
  <2>1. /\ DOMAIN pc' = Procs /\ DOMAIN job' = Procs
        /\ \A q \in Procs \ {p} : pc'[q] = pc[q] /\ job'[q] = job[q] /\ (lock' = q <=> lock = q)
    <3>1. CASE Return(p)
      BY <3>1, ReturnFrame
    <3>2. CASE ~Return(p)
      BY <1>8, <3>2 DEF Decide, Persist, Advance, IndInv, SharedInv
    <3> QED BY <3>1, <3>2
  <2>2. DOMAIN prompts' = Generators /\ UNCHANGED <<scene, files, caps, todo, runs, history>>
    BY <1>8 DEF Decide, Persist, Remembered, IndInv, SharedInv
  <2> QED BY <2>1, <2>2 DEF Frame, IndInv, SharedInv
<1>9. CASE Values(p) \/ GeneratorExits(p)
  BY <1>9 DEF Values, GeneratorExits, Produced, Frame, IndInv, SharedInv
<1>10. CASE EditorSaves(p)
  BY <1>10 DEF EditorSaves, Frame, IndInv, SharedInv
<1>11. CASE RedeemReads(p)
  <2>1. CASE Return(p)
    BY <1>11, <2>1, ReturnFrame DEF RedeemReads, Frame, IndInv, SharedInv
  <2>2. CASE ~Return(p)
    BY <1>11, <2>2 DEF RedeemReads, Frame, IndInv, SharedInv
  <2> QED BY <2>1, <2>2
<1>12. CASE Issue(p)
  BY <1>12 DEF Issue, Upcoming, Start, Frame, IndInv, SharedInv
<1>13. CASE OpenExternal(p) \/ ReadOutput(p) \/ ReadFails(p) \/ Check(p) \/ CheckFails(p) \/ CheckTimesOut(p)
  <2>1. lock = p
    BY <1>13 DEF OpenExternal, ReadOutput, ReadFails, Check, CheckFails, CheckTimesOut, IndInv, JobInv, Held
  <2>2. UNCHANGED <<scene, files, prompts, caps, todo, history>> /\ runs' \in Nat
    BY <1>13 DEF OpenExternal, ReadOutput, ReadFails, Check, CheckFails, CheckTimesOut, IndInv, SharedInv
  <2>3. /\ DOMAIN pc' = Procs /\ DOMAIN job' = Procs
        /\ \A q \in Procs \ {p} : pc'[q] = pc[q] /\ job'[q] = job[q] /\ (lock' = q <=> lock = q)
    BY <1>13, <2>1, RepositoryAssumption DEF OpenExternal, ReadOutput, ReadFails, Check, CheckFails,
         CheckTimesOut, IndInv, SharedInv
  <2> QED BY <2>2, <2>3 DEF Frame, IndInv, SharedInv
<1> QED BY <1>1, <1>2, <1>3, <1>4, <1>5, <1>6, <1>7, <1>8, <1>9, <1>10, <1>11, <1>12, <1>13
      DEF Moves, ProcessNext, RepositoryNext, GeneratorNext, SecretNext, MigrationNext, ThreadNext, DecryptorNext

-----------------------------------------------------------------------------
(* Jobs *)

LEMMA Assemble ==
  ASSUME IndInv, NEW p \in Procs, Frame(p), SharedInv', JobInv(p)', MadeInv(p)'
  PROVE  IndInv'
<1>1. ASSUME NEW q \in Procs \ {p} PROVE JobInv(q)' /\ MadeInv(q)'
  BY <1>1 DEF IndInv, Frame, JobInv, MadeInv, Cmd
<1> QED BY <1>1 DEF IndInv

\* Steps that show or hide no file.
LEMMA SharedSame ==
  ASSUME IndInv, NEW p \in Procs, Frame(p), UNCHANGED <<files, history>>
  PROVE  SharedInv'
BY DEF IndInv, SharedInv, Frame, Exists, IsSeq

LEMMA NoItems == ItemsInv(<<>>) /\ Len(<<>>) = 0
<1>1. <<>> \in Seq(Range(<<>>)) /\ DOMAIN <<>> = {} /\ Len(<<>>) = 0
  OBVIOUS
<1> QED BY <1>1 DEF ItemsInv, IsSeq

LEMMA IdleJob == JobOK(NoJob, "idle")
BY NoItems DEF JobOK, NoJob, Prepared, Held

LEMMA OneItem ==
  ASSUME NEW x, IsItem(x)
  PROVE  ItemsInv(<<x>>) /\ Len(<<x>>) = 1
BY SingletonSeq DEF ItemsInv

LEMMA ReturnStep ==
  ASSUME IndInv, NEW p \in Procs, Frame(p), Return(p), SharedInv'
  PROVE  IndInv'
<1>1. pc'[p] = "idle" /\ job'[p] = NoJob /\ lock' # p
  BY ReturnFrame
<1>2. JobInv(p)' /\ MadeInv(p)'
  BY <1>1, IdleJob DEF JobInv, MadeInv, Prepared, Held
<1> QED BY <1>2, Assemble

\* A command that is launched with a job that fits.
LEMMA LaunchStep ==
  ASSUME IndInv, NEW p \in Procs, Frame(p), pc[p] = "idle", UNCHANGED <<files, history>>,
         NEW accepted, NEW j, NEW label, Launch(p, accepted, j, label),
         label \notin Held, accepted => JobOK(j, label) /\ (label = "lock" => Made(j)),
         accepted /\ j.cmd.op = "generate" => Ordered(j)
  PROVE  IndInv'
<1>1. SharedInv'
  BY SharedSame
<1>2. lock # p /\ JobInv(p) /\ MadeInv(p)
  BY DEF IndInv, JobInv, Held
<1>3. CASE accepted
  <2>1. job'[p] = j /\ pc'[p] = label /\ lock' = lock
    BY <1>3 DEF Launch, Update, Goto, IndInv, SharedInv
  <2>2. JobInv(p)' /\ MadeInv(p)'
    BY <1>2, <1>3, <2>1 DEF JobInv, MadeInv, Cmd, Prepared
  <2> QED BY <1>1, <2>2, Assemble
<1>4. CASE ~accepted
  <2>1. JobInv(p)' /\ MadeInv(p)'
    BY <1>2, <1>4 DEF Launch, JobInv, MadeInv, Cmd
  <2> QED BY <1>1, <2>1, Assemble
<1> QED BY <1>3, <1>4

\* The next command is one of the scene's.
LEMMA NextCommand ==
  ASSUME IndInv, NEW p \in Procs, NEW o, Upcoming(p, o)
  PROVE  pc[p] = "idle" /\ todo[p] # <<>> /\ Head(todo[p]) \in AllCommands /\ Head(todo[p]).op = o
BY DEF IndInv, SharedInv, Upcoming

\* A job with the command and its items, and whatever else.
LEMMA PreparedJob ==
  ASSUME NEW cmd \in AllCommands, NEW j, DOMAIN j = DOMAIN NoJob, j.cmd = cmd,
         ItemsInv(j.items), Len(j.items) >= 1, ~IsBatch(cmd) => Len(j.items) = 1,
         cmd.op # "external" => j.child = "none" /\ j.writer = "none" /\ ~j.watchdog /\ ~j.helper
  PROVE  JobOK(j, "lock")
BY DEF JobOK

\* What JobOf makes.
LEMMA JobOfFields ==
  ASSUME NEW cmd, NEW mode, NEW items
  PROVE  LET j == JobOf(cmd, mode, items)
         IN /\ DOMAIN j = DOMAIN NoJob /\ j.cmd = cmd /\ j.mode = mode /\ j.items = items
            /\ j.child = "none" /\ j.writer = "none" /\ ~j.watchdog /\ ~j.helper /\ j.note = <<>>
            /\ j.inputs = {} /\ ~j.whole /\ j.to = {}
BY DEF JobOf, NoJob

LEMMA ItemFields ==
  ASSUME NEW d, NEW kind, NEW file
  PROVE  LET x == Item(d, kind, file)
         IN /\ DOMAIN x = {"path", "kind", "file", "from"}
            /\ x.path = d /\ x.kind = kind /\ x.file = file /\ x.from = d
BY DEF Item

LEMMA ItemFromFields ==
  ASSUME NEW s, NEW d
  PROVE  LET x == ItemFrom(s, d)
         IN IsItem(x) /\ x.path = d /\ x.kind = "output" /\ x.file = NoFile /\ x.from = s
BY DEF Item, ItemFrom, IsItem

LEMMA NewItemFields ==
  ASSUME NEW cmd, NEW d, NEW part
  PROVE  LET x == NewItem(cmd, d, part)
         IN /\ IsItem(x) /\ IsFile(x.file) /\ x.path = d /\ x.kind = "output"
            /\ x.file.body = [by |-> cmd.op, part |-> part, n |-> 0]
            /\ x.file.to = PlanOf(cmd).readers[d]
BY DEF Item, NewItem, NewBody, IsItem, IsFile

\* What a command writes itself is neither a state nor truncated.
LEMMA NewItemMade ==
  ASSUME NEW cmd, cmd.op \in InMemory, NEW d, NEW part,
         part # <<"truncated">>, \A a, b, c, e : part # <<a, b, c, e>>
  PROVE  LET x == NewItem(cmd, d, part)
         IN /\ x.file.body.by \notin Generators /\ x.file.body.part # <<"truncated">>
            /\ ~IsStatePart(x.file.body.part)
<1> DEFINE x == NewItem(cmd, d, part)
<1>1. x.file.body.by = cmd.op /\ x.file.body.part = part
  BY DEF NewItem, Item, NewBody
<1> HIDE DEF x
<1>2. ~IsStatePart(part)
  BY DEF IsStatePart, StateOf
<1>3. x.file.body.by \notin Generators /\ x.file.body.part # <<"truncated">> /\ ~IsStatePart(x.file.body.part)
  BY <1>1, <1>2, GeneratorAssumption
<1> QED BY <1>3 DEF x

\* A new item whose file is well formed.
LEMMA FileItem ==
  ASSUME NEW d, NEW kind, NEW file, file # NoFile => IsFile(file)
  PROVE  IsItem(Item(d, kind, file))
BY ItemFields DEF IsItem

LEMMA WriteSteps ==
  ASSUME IndInv, NEW p \in Procs, Frame(p), Write(p) \/ Edit(p) \/ Delete(p) \/ Bootstrap(p) \/ Redeem(p)
  PROVE  IndInv'
<1> DEFINE cmd == Head(todo[p])
<1> HIDE DEF cmd
<1>1. ASSUME NEW o \in InMemory, Upcoming(p, o)
      PROVE  /\ cmd \in AllCommands /\ cmd.op = o /\ pc[p] = "idle"
             /\ cmd.op # "external" /\ (o # "batch" /\ o # "generate" => ~IsBatch(cmd))
  BY <1>1, NextCommand DEF cmd, InMemory, IsBatch
<1>2. CASE Write(p)
  <2> DEFINE x == NewItem(cmd, cmd.path, <<cmd.input>>)
             j == JobOf(cmd, ModeOf(cmd), <<x>>)
             ok == MayAuthor(cmd, cmd.path) /\ WellFormed(cmd)
  <2>1. Upcoming(p, "write") /\ Launch(p, ok, j, "lock") /\ UNCHANGED <<files, history>>
    BY <1>2 DEF Write, cmd
  <2>2. IsItem(x)
    BY NewItemFields
  <2> HIDE DEF x, ok
  <2>3. JobOK(j, "lock")
    BY <1>1, <2>1, <2>2, OneItem, JobOfFields, PreparedJob DEF InMemory
  <2>4. Made(j)
    <3>1. DOMAIN j.items = {1} /\ j.items[1] = x /\ j.cmd = cmd
      BY JobOfFields, SingletonSeq
    <3>2. cmd.input # "truncated"
      BY <1>1, <2>1, MigrationAssumption DEF InMemory
    <3>3. x.file.body.by \notin Generators /\ x.file.body.part # <<"truncated">> /\ ~IsStatePart(x.file.body.part)
      BY <1>1, <2>1, <3>2, NewItemMade DEF x, InMemory
    <3> HIDE DEF j
    <3> QED BY <1>1, <2>1, <3>1, <3>3 DEF Made, Copying, InMemory
  <2> QED BY <1>1, <2>1, <2>3, <2>4, JobOfFields, LaunchStep DEF Held, InMemory
<1>3. CASE Edit(p)
  <2> DEFINE j == [JobOf(cmd, "replace", <<>>) EXCEPT !.inputs = {<<cmd.path, files[cmd.path].body.n>>}]
             ok == /\ MayAuthor(cmd, cmd.path)
                   /\ Exists(cmd.path)
                   /\ cmd.key \in files[cmd.path].to
  <2>1. Upcoming(p, "edit") /\ Launch(p, ok, j, "editing") /\ UNCHANGED <<files, history>>
    BY <1>3 DEF Edit, cmd
  <2>2. JobOK(j, "editing")
    BY <1>1, <2>1, NoItems DEF InMemory, JobOK, Prepared, Held, JobOf, NoJob
  <2>3. j.cmd.op # "generate"
    BY <1>1, <2>1, JobOfFields DEF InMemory
  <2> HIDE DEF j, ok
  <2> QED BY <1>1, <2>1, <2>2, <2>3, LaunchStep DEF Held, InMemory
<1>4. CASE Delete(p)
  <2> DEFINE x == Item(cmd.path, "output", NoFile)
             j == JobOf(cmd, "replace", <<x>>)
             ok == cmd.yes /\ Declares(cmd, "plan", cmd.path)
  <2>1. Upcoming(p, "delete") /\ Launch(p, ok, j, "lock") /\ UNCHANGED <<files, history>>
    BY <1>4 DEF Delete, cmd
  <2>2. IsItem(x)
    BY FileItem
  <2> HIDE DEF x, ok
  <2>3. JobOK(j, "lock")
    BY <1>1, <2>1, <2>2, OneItem, JobOfFields, PreparedJob DEF InMemory
  <2>4. Made(j)
    <3>1. DOMAIN j.items = {1} /\ j.items[1].file = NoFile /\ j.cmd = cmd
      BY JobOfFields, SingletonSeq, ItemFields DEF x
    <3> HIDE DEF j
    <3> QED BY <1>1, <2>1, <3>1 DEF Made, Copying, InMemory
  <2> QED BY <1>1, <2>1, <2>3, <2>4, JobOfFields, LaunchStep DEF Held, InMemory
<1>5. CASE Bootstrap(p)
  <2> DEFINE x == NewItem(cmd, cmd.path, <<cmd.input>>)
             j == JobOf(cmd, "create", <<x>>)
             ok == /\ Declares(cmd, "bootstrap", cmd.path)
                   /\ cmd.key \in PlanOf(cmd).authorizers
                   /\ cmd.input # "empty"
  <2>1. Upcoming(p, "bootstrap") /\ Launch(p, ok, j, "lock") /\ UNCHANGED <<files, history>>
    BY <1>5 DEF Bootstrap, cmd
  <2>2. IsItem(x)
    BY NewItemFields
  <2> HIDE DEF x, ok
  <2>3. JobOK(j, "lock")
    BY <1>1, <2>1, <2>2, OneItem, JobOfFields, PreparedJob DEF InMemory
  <2>4. Made(j)
    <3>1. DOMAIN j.items = {1} /\ j.items[1] = x /\ j.cmd = cmd
      BY JobOfFields, SingletonSeq
    <3>2. cmd.input # "truncated"
      BY <1>1, <2>1, MigrationAssumption DEF InMemory
    <3>3. x.file.body.by \notin Generators /\ x.file.body.part # <<"truncated">> /\ ~IsStatePart(x.file.body.part)
      BY <1>1, <2>1, <3>2, NewItemMade DEF x, InMemory
    <3> HIDE DEF j
    <3> QED BY <1>1, <2>1, <3>1, <3>3 DEF Made, Copying, InMemory
  <2> QED BY <1>1, <2>1, <2>3, <2>4, JobOfFields, LaunchStep DEF Held, InMemory
<1>6. CASE Redeem(p)
  <2> DEFINE presented == {e \in caps : e.payload.id = cmd.capability /\ Accepted(e, cmd)}
             note == <<"spent", CHOOSE e \in presented : TRUE>>
             j == [JobOf(cmd, "create", <<>>) EXCEPT !.note = note]
             ok == presented # {}
  <2>1. Upcoming(p, "redeem") /\ Launch(p, ok, j, "stdin") /\ UNCHANGED <<files, history>>
    BY <1>6 DEF Redeem, cmd
  <2> HIDE DEF note
  <2>2. JobOK(j, "stdin")
    BY <1>1, <2>1, NoItems DEF InMemory, JobOK, Prepared, Held, JobOf, NoJob
  <2>3. j.cmd.op # "generate"
    BY <1>1, <2>1, JobOfFields DEF InMemory
  <2> HIDE DEF j, ok
  <2> QED BY <1>1, <2>1, <2>2, <2>3, LaunchStep DEF Held, InMemory
<1> QED BY <1>2, <1>3, <1>4, <1>5, <1>6

\* Every source, once, with its destination.
LEMMA PairsItems ==
  ASSUME NEW f, DOMAIN f \subseteq Paths, DOMAIN f # {}
  PROVE  /\ ItemsInv(Pairs(f)) /\ Len(Pairs(f)) >= 1
         /\ \A i \in DOMAIN Pairs(f) : Pairs(f)[i].from \in DOMAIN f /\ Pairs(f)[i].file = NoFile
<1> DEFINE S == DOMAIN f
           n == Cardinality(S)
           order == SetToSeq(S)
<1>1. IsFiniteSet(S)
  BY RepositoryAssumption, FS_Subset
<1>2. n \in Nat /\ \E g \in [1 .. n -> S] : IsInjective(g)
  BY <1>1, FS_CardinalityType DEF ExistsBijection, Bijection, Injection
<1>3. n # 0
  BY <1>1, FS_EmptySet
<1>4. order \in [1 .. n -> S]
  BY <1>2 DEF SetToSeq
<1> HIDE DEF n, order
<1>5. Pairs(f) = [i \in 1 .. n |-> ItemFrom(order[i], f[order[i]])]
  BY <1>4 DEF Pairs, order
<1> DEFINE t == Pairs(f)
<1>6. t \in [1 .. n -> Range(t)]
  BY <1>5 DEF Range
<1>7. t \in Seq(Range(t)) /\ Len(t) = n
  BY <1>2, <1>6
<1>8. \A i \in DOMAIN t : IsItem(t[i]) /\ t[i].from \in S /\ t[i].file = NoFile
  <2>1. SUFFICES ASSUME NEW i \in 1 .. n PROVE IsItem(t[i]) /\ t[i].from \in S /\ t[i].file = NoFile
    BY <1>5
  <2>2. order[i] \in S /\ t[i] = ItemFrom(order[i], f[order[i]])
    BY <1>4, <1>5
  <2> QED BY <2>2, ItemFromFields
<1> QED BY <1>2, <1>3, <1>7, <1>8 DEF ItemsInv, IsSeq

\* A migration that copies.
LEMMA MigrateStep ==
  ASSUME IndInv, NEW p \in Procs, Frame(p), NEW o \in {"ciphertext", "tree", "plain"}, NEW accepted, NEW items,
         Migrate(p, o, accepted, items),
         accepted => /\ ItemsInv(items) /\ Len(items) >= 1 /\ (o = "ciphertext" => Len(items) = 1)
                     /\ \A i \in DOMAIN items : items[i].from \in Paths
  PROVE  IndInv'
<1> DEFINE cmd == Head(todo[p])
           j == [JobOf(cmd, ModeOf(cmd), items) EXCEPT !.to = cmd.to]
           ok == accepted /\ cmd.execute
<1>1. Upcoming(p, o) /\ Launch(p, ok, j, "lock") /\ UNCHANGED <<files, history>>
  BY DEF Migrate
<1>2. cmd \in AllCommands /\ cmd.op = o /\ pc[p] = "idle"
  BY <1>1, NextCommand
<1> HIDE DEF cmd
<1>3. /\ DOMAIN j = DOMAIN NoJob /\ j.cmd = cmd /\ j.items = items
      /\ j.child = "none" /\ j.writer = "none" /\ ~j.watchdog /\ ~j.helper
  BY JobOfFields DEF NoJob
<1> HIDE DEF j
<1>4. ok => JobOK(j, "lock")
  BY <1>2, <1>3, PreparedJob DEF IsBatch
<1>5. ok => Made(j)
  BY <1>2, <1>3 DEF Made, InMemory
<1> QED BY <1>1, <1>2, <1>3, <1>4, <1>5, LaunchStep DEF Held

LEMMA MigrateSteps ==
  ASSUME IndInv, NEW p \in Procs, Frame(p), MigrateCiphertext(p) \/ MigrateTree(p) \/ MigrateClan(p)
  PROVE  IndInv'
<1> DEFINE cmd == Head(todo[p])
<1>1. CASE MigrateCiphertext(p)
  <2> DEFINE items == <<ItemFrom(cmd.source, cmd.path)>>
             ok == cmd.to # {}
  <2>1. Migrate(p, "ciphertext", ok, items)
    BY <1>1 DEF MigrateCiphertext
  <2>2. cmd \in AllCommands /\ cmd.op = "ciphertext"
    BY <2>1, NextCommand DEF Migrate
  <2>3. ItemsInv(items) /\ Len(items) = 1
    BY ItemFromFields, OneItem
  <2>4. \A i \in DOMAIN items : items[i].from \in Paths
    BY <2>2, ItemFromFields, SingletonSeq, MigrationAssumption
  <2> DEFINE o == "ciphertext"
  <2>5. Migrate(p, o, ok, items) /\ o \in {"ciphertext", "tree", "plain"}
    BY <2>1
  <2> HIDE DEF items, ok, o
  <2>6. Len(items) >= 1 /\ (o = "ciphertext" => Len(items) = 1)
    BY <2>3
  <2> QED BY <2>3, <2>4, <2>5, <2>6, MigrateStep
<1>2. CASE MigrateTree(p)
  <2> DEFINE f == [s \in TreeSources(cmd) |-> TreeDestination(cmd, s)]
             ok == TreeSources(cmd) # {} /\ TreeIsBeside(cmd) /\ cmd.to # {}
  <2>1. Migrate(p, "tree", ok, Pairs(f))
    BY <1>2 DEF MigrateTree
  <2>2. cmd \in AllCommands /\ cmd.op = "tree"
    BY <2>1, NextCommand DEF Migrate
  <2>3. TreeSources(cmd) \subseteq Paths
    BY <2>2, MigrationAssumption DEF TreeSources, ScanAgenix
  <2>4. DOMAIN f = TreeSources(cmd)
    OBVIOUS
  <2> HIDE DEF f
  <2>5. ok => /\ ItemsInv(Pairs(f)) /\ Len(Pairs(f)) >= 1
              /\ \A i \in DOMAIN Pairs(f) : Pairs(f)[i].from \in Paths
    BY <2>3, <2>4, PairsItems
  <2> HIDE DEF ok
  <2> QED BY <2>1, <2>5, MigrateStep
<1>3. CASE MigrateClan(p)
  <2> DEFINE f == [s \in ClanSources(cmd) |-> ClanDestination(cmd, s)]
             ok == /\ ClanLayout(cmd) /\ ClanSources(cmd) # {}
                   /\ SideBySide(cmd.root, cmd.destination)
                   /\ cmd.layout = "vars" => cmd.to # {}
  <2>1. Migrate(p, "plain", ok, Pairs(f))
    BY <1>3 DEF MigrateClan
  <2>3. ClanSources(cmd) \subseteq Paths
    BY DEF ClanSources, ScanVars, ScanFacts
  <2>4. DOMAIN f = ClanSources(cmd)
    OBVIOUS
  <2> HIDE DEF f
  <2>5. ok => /\ ItemsInv(Pairs(f)) /\ Len(Pairs(f)) >= 1
              /\ \A i \in DOMAIN Pairs(f) : Pairs(f)[i].from \in Paths
    BY <2>3, <2>4, PairsItems
  <2> HIDE DEF ok
  <2> QED BY <2>1, <2>5, MigrateStep
<1> QED BY <1>1, <1>2, <1>3

LEMMA RekeyStep ==
  ASSUME IndInv, NEW p \in Procs, Frame(p), Rekey(p)
  PROVE  IndInv'
<1> DEFINE cmd == Head(todo[p])
           items == <<ItemFrom(cmd.path, cmd.path)>>
           j == [JobOf(cmd, "replace", items) EXCEPT !.to = PlanOf(cmd).readers[cmd.path]]
           ok == Exists(cmd.path) /\ cmd.yes /\ MayAuthor(cmd, cmd.path)
<1>1. Upcoming(p, "rekey") /\ Launch(p, ok, j, "lock") /\ UNCHANGED <<files, history>>
  BY DEF Rekey
<1>2. cmd \in AllCommands /\ cmd.op = "rekey" /\ pc[p] = "idle"
  BY <1>1, NextCommand
<1> HIDE DEF cmd
<1>3. ItemsInv(items) /\ Len(items) = 1
  BY ItemFromFields, OneItem
<1>4. \A i \in DOMAIN items : items[i].from \in Paths /\ items[i].from = items[i].path
  BY <1>2, ItemFromFields, SingletonSeq, SecretAssumption
<1> HIDE DEF items
<1>5. /\ DOMAIN j = DOMAIN NoJob /\ j.cmd = cmd /\ j.items = items
      /\ j.child = "none" /\ j.writer = "none" /\ ~j.watchdog /\ ~j.helper
  BY JobOfFields DEF NoJob
<1> HIDE DEF j, ok
<1>6. JobOK(j, "lock")
  BY <1>2, <1>3, <1>5, PreparedJob DEF IsBatch
<1>7. Made(j)
  BY <1>2, <1>4, <1>5 DEF Made, InMemory
<1> QED BY <1>1, <1>2, <1>5, <1>6, <1>7, LaunchStep DEF Held

LEMMA BatchStep ==
  ASSUME IndInv, NEW p \in Procs, Frame(p), Batch(p)
  PROVE  IndInv'
<1> DEFINE cmd == Head(todo[p])
           Value(e) == <<cmd.document[e[2]]>>
           items == [i \in DOMAIN cmd.entries |-> NewItem(cmd, cmd.entries[i][1], Value(cmd.entries[i]))]
           j == JobOf(cmd, ModeOf(cmd), items)
           ok == /\ ValidMapping(cmd.entries) /\ WellFormed(cmd) /\ Extractable(cmd)
                 /\ \A e \in Range(cmd.entries) : MayAuthor(cmd, e[1])
<1>1. Upcoming(p, "batch") /\ Launch(p, ok, j, "lock") /\ UNCHANGED <<files, history>>
  BY DEF Batch
<1>2. /\ cmd \in AllCommands /\ cmd.op = "batch" /\ pc[p] = "idle"
  BY <1>1, NextCommand
<1>3. IsSeq(cmd.entries) /\ "truncated" \notin Range(cmd.document)
  BY <1>2, SecretAssumption, MigrationAssumption DEF IsSeq
<1>4. ok => cmd.entries # <<>> /\ \A i \in DOMAIN cmd.entries : cmd.entries[i][2] \in DOMAIN cmd.document
  BY DEF ValidMapping, Extractable, Range
<1> HIDE DEF cmd, ok
<1>5. IsSeq(items) /\ Len(items) = Len(cmd.entries) /\ DOMAIN items = DOMAIN cmd.entries
  <2>1. items = [i \in DOMAIN cmd.entries |-> items[i]]
    OBVIOUS
  <2> HIDE DEF items
  <2> QED BY <1>3, <2>1, MappedSeq
<1>6. ok => Len(items) >= 1
  BY <1>3, <1>4, <1>5 DEF IsSeq
<1>7. \A i \in DOMAIN items : IsItem(items[i])
  BY NewItemFields, ZenonT(60)
<1>8. ASSUME ok, NEW i \in DOMAIN items
      PROVE  /\ items[i].file.body.by \notin Generators /\ items[i].file.body.part # <<"truncated">>
             /\ ~IsStatePart(items[i].file.body.part)
  <2> DEFINE part == Value(cmd.entries[i])
  <2>1. part # <<"truncated">> /\ \A a, b, c, e : part # <<a, b, c, e>>
    BY <1>3, <1>4, <1>5, <1>8 DEF Range
  <2>2. items[i] = NewItem(cmd, cmd.entries[i][1], part)
    BY <1>5
  <2> HIDE DEF items, part
  <2> QED BY <1>2, <2>1, <2>2, NewItemMade DEF InMemory
<1> HIDE DEF items
<1>9. /\ DOMAIN j = DOMAIN NoJob /\ j.cmd = cmd /\ j.items = items
      /\ j.child = "none" /\ j.writer = "none" /\ ~j.watchdog /\ ~j.helper
  BY JobOfFields
<1> HIDE DEF j
<1>10. ok => JobOK(j, "lock")
  BY <1>2, <1>5, <1>6, <1>7, <1>9, PreparedJob DEF IsBatch, ItemsInv
<1>11. ok => Made(j)
  BY <1>2, <1>8, <1>9 DEF Made, Copying
<1> QED BY <1>1, <1>2, <1>9, <1>10, <1>11, LaunchStep, SMTT(20) DEF Held

LEMMA ExternalStep ==
  ASSUME IndInv, NEW p \in Procs, Frame(p), StartExternal(p)
  PROVE  IndInv'
<1> DEFINE cmd == Head(todo[p])
           file == [files[cmd.source] EXCEPT !.to = cmd.to]
           items == <<Item(cmd.path, "output", file)>>
           j == [JobOf(cmd, ModeOf(cmd), items) EXCEPT
                   !.child = "running", !.writer = "feeding", !.watchdog = TRUE]
           ok == cmd.to # {} /\ cmd.execute /\ Exists(cmd.source)
<1>1. Upcoming(p, "external") /\ Launch(p, ok, j, "lock") /\ UNCHANGED <<files, history>>
  BY DEF StartExternal
<1>2. cmd \in AllCommands /\ cmd.op = "external" /\ pc[p] = "idle" /\ cmd.source \in Paths
  BY <1>1, NextCommand, MigrationAssumption
<1> HIDE DEF cmd
<1>3. ok => IsFile(file)
  BY <1>2 DEF IndInv, SharedInv, IsFile
<1> HIDE DEF file
<1>4. ok => ItemsInv(items) /\ Len(items) = 1
  BY <1>3, FileItem, OneItem
<1>8. ok => \A i \in DOMAIN items : IsFile(items[i].file)
  BY <1>3, ItemFields, SingletonSeq
<1> HIDE DEF items
<1>5. DOMAIN j = DOMAIN NoJob /\ j.cmd = cmd /\ j.items = items
  BY JobOfFields DEF NoJob
<1> HIDE DEF j, ok
<1>6. ok => JobOK(j, "lock")
  BY <1>2, <1>4, <1>5, PreparedJob DEF IsBatch
<1>7. ok => Made(j)
  BY <1>2, <1>5, <1>8 DEF Made, InMemory, Copying
<1> QED BY <1>1, <1>2, <1>5, <1>6, <1>7, LaunchStep DEF Held

\* An order in which all is declared has a first generator.
LEMMA FirstDeclared ==
  ASSUME NEW plan, NEW g, NEW order, AllDeclared(plan, g, order)
  PROVE  order \in Seq(DOMAIN plan.generators) /\ 1 \in 1 .. Len(order)
<1>1. order \in Seq(DOMAIN plan.generators) /\ \E i \in DOMAIN order : order[i] = g
  BY DEF AllDeclared, Range
<1>2. Len(order) \in Nat /\ DOMAIN order = 1 .. Len(order)
  BY <1>1
<1>3. \E i \in 1 .. Len(order) : TRUE
  BY <1>1, <1>2, Zenon
<1> QED BY <1>1, <1>2, <1>3

LEMMA GenerateStep ==
  ASSUME IndInv, NEW p \in Procs, Frame(p), Generate(p)
  PROVE  IndInv'
<1> DEFINE cmd == Head(todo[p])
           plan == Plans[cmd.plan]
           order == CollectGeneratorOrder(plan, cmd.generator)
           asks == Asked(cmd, plan, order)
           j == [NoJob EXCEPT !.cmd = cmd, !.order = order, !.next = 1, !.asks = asks]
           ok == /\ AllDeclared(plan, cmd.generator, order)
                 /\ ~Exists(LegacyPromptState)
                 /\ \A g \in Range(order) : \A d \in Range(plan.generators[g].outputs) :
                      Authorized(plan, d, cmd.key)
                 /\ PromptsResolve(cmd, plan, order)
<1>1. Upcoming(p, "generate") /\ Launch(p, ok, j, "decide") /\ UNCHANGED <<files, history>>
  BY ZenonT(30) DEF Generate
<1>2. cmd \in AllCommands /\ cmd.op = "generate" /\ pc[p] = "idle" /\ cmd.plan \in DOMAIN Plans
  BY <1>1, NextCommand, GeneratorAssumption
<1>3. ok => order \in Seq(DOMAIN plan.generators) /\ 1 \in 1 .. Len(order)
  <2>1. AllDeclared(plan, cmd.generator, order)
           => order \in Seq(DOMAIN plan.generators) /\ 1 \in 1 .. Len(order)
    BY FirstDeclared, Zenon
  <2> QED BY <2>1
<1> HIDE DEF cmd, order, asks, ok
<1>4. JobOK(j, "decide")
  BY <1>2, NoItems DEF JobOK, NoJob, Prepared, Held
<1>5. ok => Ordered(j)
  BY <1>2, <1>3 DEF Ordered, NoJob
<1> HIDE DEF j
<1> QED BY <1>1, <1>2, <1>4, <1>5, LaunchStep DEF Held

-----------------------------------------------------------------------------
(* The steps of a command under way *)

LEMMA MoveStep ==
  ASSUME IndInv, NEW p \in Procs, Frame(p), SharedInv', NEW j, NEW label,
         job'[p] = j, pc'[p] = label, JobOK(j, label), label \in Held <=> lock' = p,
         label \in Prepared => Made(j), j.cmd.op = "generate" => Ordered(j)
  PROVE  IndInv'
<1>1. JobInv(p)' /\ MadeInv(p)'
  BY DEF JobInv, MadeInv, Cmd
<1> QED BY <1>1, Assemble

LEMMA AcquireStep ==
  ASSUME IndInv, NEW p \in Procs, Frame(p), Acquire(p)
  PROVE  IndInv'
<1>1. SharedInv'
  BY SharedSame DEF Acquire
<1>2. job'[p] = job[p] /\ pc'[p] = "stage" /\ lock' = p /\ pc[p] = "lock"
  BY DEF Acquire, Goto, IndInv, SharedInv
<1>3. JobOK(job[p], "stage") /\ Made(job[p]) /\ (job[p].cmd.op = "generate" => Ordered(job[p]))
  BY <1>2 DEF IndInv, JobInv, MadeInv, JobOK, Prepared, Held, Cmd
<1> QED BY <1>1, <1>2, <1>3, MoveStep DEF Held

\* Staging gives every output its content, and a number that nothing has.
LEMMA StagedStep ==
  ASSUME IndInv, NEW p \in Procs, Frame(p), pc[p] = "stage", Cmd(p).op # "external", NEW items,
         StageItems(p, items), ItemsInv(items), Len(items) = Len(job[p].items),
         Made([job[p] EXCEPT !.items = items, !.at = 1])
  PROVE  IndInv'
<1> DEFINE j == [job[p] EXCEPT !.items = items, !.at = 1]
           label == IF IsBatch(Cmd(p)) THEN "backup" ELSE "commit"
<1>1. SharedInv'
  BY SharedSame DEF StageItems
<1>2. job'[p] = j /\ pc'[p] = label /\ lock' = lock /\ lock = p
  BY DEF StageItems, Update, Goto, IndInv, SharedInv, JobInv, Held
<1>3. JobOK(job[p], "stage") /\ (job[p].cmd.op = "generate" => Ordered(job[p]))
  BY DEF IndInv, JobInv, MadeInv, Cmd
<1>4. /\ DOMAIN j = DOMAIN NoJob /\ j.cmd = job[p].cmd /\ j.items = items /\ j.at = 1
      /\ j.order = job[p].order /\ j.next = job[p].next /\ j.child = job[p].child
      /\ j.writer = job[p].writer /\ j.watchdog = job[p].watchdog /\ j.helper = job[p].helper
  BY <1>3 DEF JobOK, NoJob
<1>5. Len(items) \in Nat
  BY DEF ItemsInv, IsSeq
<1> HIDE DEF j
<1>6. JobOK(j, label)
  BY <1>3, <1>4, <1>5 DEF JobOK, Prepared, Held, Cmd
<1>7. j.cmd.op = "generate" => Ordered(j)
  BY <1>3, <1>4 DEF Ordered
<1>8. Made(j)
  BY DEF j
<1>9. label \in Held
  BY DEF Held
<1> HIDE DEF label
<1> QED BY <1>1, <1>2, <1>6, <1>7, <1>8, <1>9, MoveStep

LEMMA NumberedFields ==
  ASSUME runs \in Nat, NEW item, IsItem(item), NEW x, x = Numbered(item)
  PROVE  /\ IsItem(x) /\ x.path = item.path /\ x.kind = item.kind /\ x.from = item.from
         /\ x.file # NoFile => /\ item.file # NoFile /\ x.file.body.by = item.file.body.by
                               /\ x.file.body.n = runs + 1
         /\ x.file.body.part = item.file.body.part /\ x.file.to = item.file.to
<1>1. CASE item.file = NoFile
  BY <1>1 DEF Numbered
<1>2. CASE item.file # NoFile
  <2>1. IsFile(item.file) /\ x = [item EXCEPT !.file.body.n = runs + 1]
    BY <1>2 DEF Numbered, IsItem
  <2>2. x.path = item.path /\ x.kind = item.kind /\ x.from = item.from /\ DOMAIN x = DOMAIN item
    BY <2>1 DEF IsItem
  <2>3. x.file = [item.file EXCEPT !.body.n = runs + 1]
    BY <2>1 DEF IsItem
  <2>4. x.file.body = [item.file.body EXCEPT !.n = runs + 1] /\ x.file.to = item.file.to
        /\ DOMAIN x.file = {"body", "to"}
    BY <2>1, <2>3 DEF IsFile
  <2>5. /\ x.file.body.by = item.file.body.by /\ x.file.body.part = item.file.body.part
        /\ x.file.body.n = runs + 1 /\ DOMAIN x.file.body = {"by", "part", "n"}
    BY <2>1, <2>4 DEF IsFile
  <2> QED BY <1>2, <2>2, <2>4, <2>5 DEF IsItem, IsFile
<1> QED BY <1>1, <1>2

LEMMA StageStep ==
  ASSUME IndInv, NEW p \in Procs, Frame(p), Stage(p)
  PROVE  IndInv'
<1> DEFINE old == job[p].items
           items == [i \in DOMAIN old |-> Numbered(old[i])]
           j == [job[p] EXCEPT !.items = items, !.at = 1]
<1>1. pc[p] = "stage" /\ Cmd(p).op \in InMemory /\ StageItems(p, items)
  BY DEF Stage
<1>2. JobOK(job[p], "stage") /\ Made(job[p]) /\ runs \in Nat
  BY <1>1 DEF IndInv, SharedInv, JobInv, MadeInv, Prepared, Held
<1>3. IsSeq(items) /\ Len(items) = Len(old) /\ DOMAIN items = DOMAIN old /\ Len(old) \in Nat
      /\ DOMAIN old = 1 .. Len(old) /\ Len(old) >= 1
  <2>1. items = [i \in DOMAIN old |-> items[i]] /\ IsSeq(old)
    BY <1>2 DEF JobOK, ItemsInv
  <2>2. Len(old) >= 1
    BY <1>2 DEF JobOK, Prepared, Held
  <2> HIDE DEF items, old
  <2> QED BY <2>1, <2>2, MappedSeq
<1>4. \A i \in DOMAIN old : IsItem(old[i]) /\ items[i] = Numbered(old[i])
  BY <1>2 DEF JobOK, ItemsInv
<1> HIDE DEF items
<1>5. ASSUME NEW i \in DOMAIN old
      PROVE  /\ IsItem(items[i]) /\ items[i].path = old[i].path
             /\ items[i].file # NoFile => /\ old[i].file # NoFile /\ items[i].file.body.by = old[i].file.body.by
                                          /\ items[i].file.body.n = runs + 1
             /\ items[i].file.body.part = old[i].file.body.part
  BY <1>2, <1>4, NumberedFields
<1>6. /\ j.cmd = job[p].cmd /\ j.items = items /\ j.order = job[p].order /\ j.next = job[p].next
  BY <1>2 DEF JobOK, NoJob
<1> HIDE DEF j
<1>7. Made(j)
  <2>1. j.cmd.op \in InMemory
    BY <1>1, <1>6 DEF Cmd
  <2>2. CASE j.cmd.op # "generate"
    <3>1. ASSUME NEW i \in DOMAIN j.items, j.items[i].file # NoFile
          PROVE  /\ j.items[i].file.body.by \notin Generators
                 /\ j.items[i].file.body.part # <<"truncated">>
                 /\ ~IsStatePart(j.items[i].file.body.part)
      BY <1>2, <1>3, <1>5, <1>6, <2>1, <2>2, <3>1 DEF Made
    <3> QED BY <2>1, <2>2, <3>1 DEF Made, InMemory, Copying
  <2>3. CASE j.cmd.op = "generate"
    <3> DEFINE g == j.order[j.next]
               decl == Plans[j.cmd.plan].generators[g]
    <3>1. GeneratorMade(job[p], g, decl)
      BY <1>2, <1>6, <2>3 DEF Made
    <3> HIDE DEF g, decl
    <3>2. j.items[Len(j.items)].path = decl.state
      BY <1>3, <1>5, <1>6, <3>1 DEF GeneratorMade
    <3>3. \A d \in Range(decl.outputs \o decl.public) :
            \E i \in DOMAIN j.items : i < Len(j.items) /\ j.items[i].path = d
      BY <1>3, <1>5, <1>6, <3>1 DEF GeneratorMade
    <3>4. \A i, k \in DOMAIN j.items :
            j.items[i].file # NoFile /\ j.items[k].file # NoFile =>
              j.items[i].file.body.n = j.items[k].file.body.n
      BY <1>3, <1>5, <1>6
    <3>5. ASSUME NEW i \in DOMAIN j.items, j.items[i].file # NoFile
          PROVE  /\ j.items[i].file.body.by = g
                 /\ j.items[i].file.body.part # <<"truncated">>
                 /\ IF i = Len(j.items) THEN j.items[i].file.body.part = StateOf(decl)
                    ELSE ~IsStatePart(j.items[i].file.body.part)
      <4>1. i \in DOMAIN old /\ j.items[i] = items[i] /\ Len(j.items) = Len(old)
        BY <1>3, <1>6, <3>5
      <4>2. /\ old[i].file # NoFile /\ items[i].file.body.by = old[i].file.body.by
            /\ items[i].file.body.part = old[i].file.body.part
        BY <1>5, <3>5, <4>1, SMTT(20)
      <4>3. /\ old[i].file.body.by = g /\ old[i].file.body.part # <<"truncated">>
            /\ IF i = Len(old) THEN old[i].file.body.part = StateOf(decl)
               ELSE ~IsStatePart(old[i].file.body.part)
        BY <3>1, <4>1, <4>2 DEF GeneratorMade
      <4> HIDE DEF old
      <4> QED BY <4>1, <4>2, <4>3
    <3>6. \A i \in DOMAIN j.items : j.items[i].path \in GeneratorPaths(decl)
      BY <1>3, <1>5, <1>6, <3>1 DEF GeneratorMade
    <3>7. GeneratorMade(j, g, decl)
      BY <3>2, <3>3, <3>4, <3>5, <3>6 DEF GeneratorMade
    <3> QED BY <2>3, <3>7 DEF Made, InMemory, Copying, g, decl
  <2> QED BY <2>2, <2>3
<1>8. ItemsInv(items)
  BY <1>3, <1>5 DEF ItemsInv
<1>9. Cmd(p).op # "external"
  BY <1>1 DEF InMemory
<1> QED BY <1>1, <1>3, <1>7, <1>8, <1>9, StagedStep DEF j

LEMMA StageCopiesStep ==
  ASSUME IndInv, NEW p \in Procs, Frame(p), StageCopies(p)
  PROVE  IndInv'
<1> DEFINE old == job[p].items
           items == [i \in DOMAIN old |-> Copied(old[i], job[p].to)]
           j == [job[p] EXCEPT !.items = items, !.at = 1]
<1>1. pc[p] = "stage" /\ Cmd(p).op \in Copying /\ Copyable(p) /\ StageItems(p, items)
  BY DEF StageCopies
<1>2. JobOK(job[p], "stage") /\ Made(job[p])
  BY <1>1 DEF IndInv, JobInv, MadeInv, Prepared, Held
<1>3. IsSeq(items) /\ Len(items) = Len(old) /\ DOMAIN items = DOMAIN old
  <2>1. items = [i \in DOMAIN old |-> items[i]] /\ IsSeq(old)
    BY <1>2 DEF JobOK, ItemsInv
  <2> HIDE DEF items, old
  <2> QED BY <2>1, MappedSeq
<1>4. ASSUME NEW i \in DOMAIN old
      PROVE  IsItem(items[i]) /\ items[i].path = old[i].path /\ items[i].from = old[i].from
  <2>1. IsItem(old[i]) /\ items[i] = Copied(old[i], job[p].to)
    BY <1>2 DEF JobOK, ItemsInv
  <2>2. old[i].from \in Paths /\ Exists(old[i].from)
    BY <1>1, <1>2 DEF Made, Cmd, Copyable, Sources
  <2>3. IsFile(files[old[i].from])
    BY <2>2 DEF IndInv, SharedInv
  <2> HIDE DEF items
  <2>4. IsFile([files[old[i].from] EXCEPT !.to = job[p].to])
    BY <2>3 DEF IsFile
  <2> QED BY <2>1, <2>4 DEF Copied, IsItem
<1> HIDE DEF items
<1>5. /\ j.cmd = job[p].cmd /\ j.items = items
  BY <1>2 DEF JobOK, NoJob
<1> HIDE DEF j
<1>6. j.cmd.op \in Copying
  BY <1>1, <1>5 DEF Cmd
<1>7. Made(j)
  BY <1>2, <1>3, <1>4, <1>5, <1>6 DEF Made, InMemory, Copying
<1>8. ItemsInv(items)
  BY <1>3, <1>4 DEF ItemsInv
<1>9. Cmd(p).op # "external"
  BY <1>1 DEF Copying
<1> QED BY <1>1, <1>3, <1>7, <1>8, <1>9, StagedStep DEF j

\* A rename, or a move to a backup, leaves well-formed files.
LEMMA FilesStep ==
  ASSUME IndInv, NEW p \in Procs, Frame(p), NEW d, NEW file, file # NoFile => IsFile(file),
         files' = [files EXCEPT ![d] = file] \/ files' = files, IsSeq(history')
  PROVE  SharedInv'
<1>1. DOMAIN files' = Paths
  BY DEF IndInv, SharedInv
<1>2. ASSUME NEW e \in Paths, files'[e] # NoFile PROVE IsFile(files'[e])
  BY <1>2 DEF IndInv, SharedInv, Exists
<1> QED BY <1>1, <1>2 DEF IndInv, SharedInv, Frame, Exists

\* The item at hand.
LEMMA ItemAtHand ==
  ASSUME IndInv, NEW p \in Procs, pc[p] \in {"backup", "commit"}
  PROVE  /\ JobOK(job[p], pc[p]) /\ Made(job[p]) /\ (job[p].cmd.op = "generate" => Ordered(job[p])) /\ lock = p
         /\ job[p].at \in 1 .. Len(job[p].items) /\ Len(job[p].items) \in Nat
         /\ DOMAIN job[p].items = 1 .. Len(job[p].items) /\ IsItem(job[p].items[job[p].at])
<1>1. /\ JobOK(job[p], pc[p]) /\ Made(job[p]) /\ (job[p].cmd.op = "generate" => Ordered(job[p])) /\ lock = p
  BY DEF IndInv, JobInv, MadeInv, Prepared, Held, Cmd
<1>2. job[p].at \in 1 .. Len(job[p].items) /\ ItemsInv(job[p].items)
  BY <1>1 DEF JobOK
<1>3. Len(job[p].items) \in Nat /\ DOMAIN job[p].items = 1 .. Len(job[p].items)
  BY <1>2 DEF ItemsInv, IsSeq
<1> QED BY <1>1, <1>2, <1>3 DEF ItemsInv

LEMMA SameMade ==
  ASSUME NEW j, NEW i, Made(i), j.cmd = i.cmd, j.items = i.items, j.order = i.order, j.next = i.next
  PROVE  Made(j)
<1>1. \A g, decl : GeneratorMade(i, g, decl) => GeneratorMade(j, g, decl)
  BY DEF GeneratorMade
<1>2. i.cmd.op # "generate" => Made(j)
  BY DEF Made
<1>3. i.cmd.op = "generate" => Made(j)
  BY <1>1 DEF Made, InMemory, Copying
<1> QED BY <1>2, <1>3

\* The transaction goes on with another item.
LEMMA AtStep ==
  ASSUME IndInv, NEW p \in Procs, Frame(p), SharedInv', pc[p] \in {"backup", "commit"},
         NEW n \in 1 .. Len(job[p].items), job'[p] = [job[p] EXCEPT !.at = n],
         pc'[p] \in {pc[p], "commit"}, lock' = lock
  PROVE  IndInv'
<1> DEFINE j == [job[p] EXCEPT !.at = n]
<1>1. /\ JobOK(job[p], pc[p]) /\ Made(job[p]) /\ (job[p].cmd.op = "generate" => Ordered(job[p])) /\ lock = p
  BY ItemAtHand
<1>2. /\ DOMAIN j = DOMAIN NoJob /\ j.cmd = job[p].cmd /\ j.items = job[p].items /\ j.at = n
      /\ j.order = job[p].order /\ j.next = job[p].next /\ j.child = job[p].child
      /\ j.writer = job[p].writer /\ j.watchdog = job[p].watchdog /\ j.helper = job[p].helper
  BY <1>1 DEF JobOK, NoJob
<1> HIDE DEF j
<1>3. JobOK(j, pc'[p])
  BY <1>1, <1>2 DEF JobOK, Prepared, Held
<1>4. Made(j) /\ (j.cmd.op = "generate" => Ordered(j))
  BY <1>1, <1>2, SameMade DEF Ordered
<1>5. pc'[p] \in Held
  BY DEF Held
<1> QED BY <1>1, <1>3, <1>4, <1>5, MoveStep DEF j

LEMMA BackupStep ==
  ASSUME IndInv, NEW p \in Procs, Frame(p), Backup(p)
  PROVE  IndInv'
<1>1. pc[p] = "backup" /\ NextItem(p, "commit") /\ UNCHANGED <<lock, history>>
      /\ \E d : files' = [files EXCEPT ![d] = NoFile] \/ files' = files
  BY DEF Backup
<1>2. SharedInv'
  BY <1>1, FilesStep DEF IndInv, SharedInv, IsSeq
<1>3. job[p].at \in 1 .. Len(job[p].items) /\ Len(job[p].items) \in Nat /\ DOMAIN job[p] = DOMAIN NoJob
  BY <1>1, ItemAtHand DEF JobOK
<1>4. CASE job[p].at < Len(job[p].items)
  <2>1. job'[p] = [job[p] EXCEPT !.at = job[p].at + 1] /\ pc' = pc /\ job[p].at + 1 \in 1 .. Len(job[p].items)
    BY <1>1, <1>3, <1>4 DEF NextItem, Update, IndInv, SharedInv, NoJob
  <2> QED BY <1>1, <1>2, <2>1, AtStep
<1>5. CASE ~(job[p].at < Len(job[p].items))
  <2>1. job'[p] = [job[p] EXCEPT !.at = 1] /\ pc'[p] = "commit" /\ 1 \in 1 .. Len(job[p].items)
    BY <1>1, <1>3, <1>5 DEF NextItem, Update, Goto, IndInv, SharedInv
  <2> QED BY <1>1, <1>2, <2>1, AtStep
<1> QED BY <1>4, <1>5

LEMMA CommitStep ==
  ASSUME IndInv, NEW p \in Procs, Frame(p), Commit(p)
  PROVE  IndInv'
<1> DEFINE item == job[p].items[job[p].at]
<1>1. /\ pc[p] = "commit" /\ job[p].at < Len(job[p].items) /\ files' = [files EXCEPT ![item.path] = item.file]
      /\ Update(p, [job[p] EXCEPT !.at = @ + 1]) /\ UNCHANGED <<lock, pc, history>>
  BY DEF Commit
<1>2. IsItem(item) /\ job[p].at \in 1 .. Len(job[p].items) /\ Len(job[p].items) \in Nat /\ DOMAIN job[p] = DOMAIN NoJob
  BY <1>1, ItemAtHand DEF JobOK
<1>3. SharedInv'
  <2>1. item.file # NoFile => IsFile(item.file)
    BY <1>2 DEF IsItem
  <2>2. IsSeq(history')
    BY <1>1 DEF IndInv, SharedInv, IsSeq
  <2> HIDE DEF item
  <2> QED BY <1>1, <2>1, <2>2, FilesStep
<1>4. job'[p] = [job[p] EXCEPT !.at = job[p].at + 1] /\ job[p].at + 1 \in 1 .. Len(job[p].items)
  BY <1>1, <1>2 DEF Update, IndInv, SharedInv, NoJob
<1> QED BY <1>1, <1>3, <1>4, AtStep

\* What has committed, and what committed with it, is part of the history.
LEMMA LastRecorded ==
  ASSUME IndInv, NEW p \in Procs, CommitLast(p)
  PROVE  /\ IsSeq(history') /\ Range(history) \subseteq Range(history')
         /\ job[p].note # <<>> => job[p].note \in Range(history')
<1>1. IsSeq(history)
  BY DEF IndInv, SharedInv
<1>2. history' = IF job[p].note = <<>> THEN history ELSE Append(history, job[p].note)
  BY DEF CommitLast
<1>3. CASE job[p].note = <<>>
  BY <1>1, <1>2, <1>3
<1>4. CASE job[p].note # <<>>
  BY <1>1, <1>2, <1>4, AppendedSeq
<1> QED BY <1>3, <1>4

\* The job of a generator whose outputs are visible.
LEMMA CommittedJob ==
  ASSUME IndInv, NEW p \in Procs, CommitLast(p), Cmd(p).op = "generate"
  PROVE  /\ DOMAIN job'[p] = DOMAIN NoJob /\ job'[p].cmd = job[p].cmd /\ job'[p].items = job[p].items
         /\ job'[p].order = job[p].order /\ job'[p].next = job[p].next /\ job'[p].child = job[p].child
         /\ job'[p].writer = job[p].writer /\ job'[p].watchdog = job[p].watchdog
         /\ job'[p].helper = job[p].helper /\ job'[p].note = job[p].note /\ job'[p].answer = job[p].answer
         /\ pc'[p] = "persist" /\ lock' = NoProc
<1> DEFINE made == job[p].made \cup {<<i.path, i.file.body.n>> :
                     i \in {k \in Range(job[p].items) : k.kind = "output"}}
<1>1. pc[p] = "commit"
  BY DEF CommitLast
<1>2. DOMAIN job[p] = DOMAIN NoJob
  BY <1>1, ItemAtHand DEF JobOK
<1>3. Update(p, [job[p] EXCEPT !.at = 0, !.made = made]) /\ Goto(p, "persist") /\ lock' = NoProc
  BY <1>2 DEF CommitLast, NoJob
<1> HIDE DEF made
<1>4. job'[p] = [job[p] EXCEPT !.at = 0, !.made = made] /\ pc'[p] = "persist"
  BY <1>3 DEF Update, Goto, IndInv, SharedInv
<1> QED BY <1>2, <1>3, <1>4 DEF NoJob

LEMMA CommitLastStep ==
  ASSUME IndInv, NEW p \in Procs, Frame(p), CommitLast(p)
  PROVE  IndInv'
<1> DEFINE item == job[p].items[job[p].at]
<1>1. pc[p] = "commit" /\ files' = [files EXCEPT ![item.path] = item.file]
  BY DEF CommitLast
<1>2. SharedInv'
  <2>1. item.file # NoFile => IsFile(item.file)
    BY <1>1, ItemAtHand DEF IsItem
  <2> HIDE DEF item
  <2> QED BY <1>1, <2>1, LastRecorded, FilesStep
<1>3. CASE Cmd(p).op = "generate"
  <2> DEFINE j == job'[p]
  <2>1. JobOK(job[p], "commit") /\ Ordered(job[p])
    BY <1>1, <1>3, ItemAtHand DEF Cmd
  <2>2. JobOK(j, "persist")
    BY <1>3, <2>1, CommittedJob DEF JobOK, Prepared, Held, Cmd
  <2>3. Ordered(j)
    BY <1>3, <2>1, CommittedJob DEF Ordered
  <2>4. pc'[p] = "persist" /\ lock' # p
    BY <1>3, CommittedJob, RepositoryAssumption
  <2> HIDE DEF j
  <2> QED BY <1>2, <2>2, <2>3, <2>4, MoveStep DEF j, Prepared, Held
<1>4. CASE Cmd(p).op # "generate"
  <2>1. Return(p)
    BY <1>4 DEF CommitLast
  <2> QED BY <1>2, <2>1, ReturnStep
<1> QED BY <1>3, <1>4

-----------------------------------------------------------------------------
(* Generators *)

LEMMA AdvanceStep ==
  ASSUME IndInv, NEW p \in Procs, Frame(p), UNCHANGED <<files, history>>,
         pc[p] \in {"decide", "persist"}, Advance(p)
  PROVE  IndInv'
<1>1. SharedInv'
  BY SharedSame
<1>2. CASE Return(p)
  BY <1>1, <1>2, ReturnStep
<1>3. CASE ~Return(p)
  <2> DEFINE j == [job[p] EXCEPT !.next = @ + 1, !.items = <<>>, !.note = <<>>, !.answer = NoAnswer, !.inputs = {}]
  <2>1. /\ job[p].next # Len(job[p].order) /\ Update(p, j) /\ Goto(p, "decide") /\ UNCHANGED lock
    BY <1>3 DEF Advance
  <2>2. JobOK(job[p], pc[p]) /\ Ordered(job[p]) /\ lock # p
    BY DEF IndInv, JobInv, MadeInv, JobOK, Held, Cmd
  <2>3. /\ DOMAIN j = DOMAIN NoJob /\ j.cmd = job[p].cmd /\ j.items = <<>>
        /\ j.order = job[p].order /\ j.next = job[p].next + 1 /\ j.child = job[p].child
        /\ j.writer = job[p].writer /\ j.watchdog = job[p].watchdog /\ j.helper = job[p].helper
    BY <2>2 DEF JobOK, NoJob
  <2>4. job'[p] = j /\ pc'[p] = "decide" /\ lock' # p
    BY <2>1, <2>2 DEF Update, Goto, IndInv, SharedInv
  <2> HIDE DEF j
  <2>5. JobOK(j, "decide")
    BY <2>2, <2>3, NoItems DEF JobOK, Prepared, Held
  <2>6. Ordered(j)
    BY <2>1, <2>2, <2>3 DEF Ordered
  <2> QED BY <1>1, <2>4, <2>5, <2>6, MoveStep DEF Prepared, Held
<1> QED BY <1>2, <1>3

LEMMA DecideSteps ==
  ASSUME IndInv, NEW p \in Procs, Frame(p), Decide(p) \/ Persist(p)
  PROVE  IndInv'
<1>1. UNCHANGED <<files, history>> /\ pc[p] \in {"decide", "persist"}
  BY DEF Decide, Persist
<1>2. CASE Advance(p)
  BY <1>1, <1>2, AdvanceStep
<1>3. CASE Return(p)
  BY <1>1, <1>3, SharedSame, ReturnStep
<1>4. CASE ~Advance(p) /\ ~Return(p)
  <2>1. \E action : /\ Update(p, [job[p] EXCEPT !.mode = action]) /\ Goto(p, "values") /\ UNCHANGED lock
    BY <1>4 DEF Decide, Persist
  <2>2. PICK action : /\ Update(p, [job[p] EXCEPT !.mode = action]) /\ Goto(p, "values") /\ UNCHANGED lock
    BY <2>1
  <2> DEFINE j == [job[p] EXCEPT !.mode = action]
  <2>3. JobOK(job[p], pc[p]) /\ Ordered(job[p]) /\ lock # p
    BY <1>1 DEF IndInv, JobInv, MadeInv, JobOK, Held, Cmd
  <2>4. /\ DOMAIN j = DOMAIN NoJob /\ j.cmd = job[p].cmd /\ j.items = job[p].items
        /\ j.order = job[p].order /\ j.next = job[p].next /\ j.child = job[p].child
        /\ j.writer = job[p].writer /\ j.watchdog = job[p].watchdog /\ j.helper = job[p].helper
    BY <2>3 DEF JobOK, NoJob
  <2>5. job'[p] = j /\ pc'[p] = "values" /\ lock' # p
    BY <2>2, <2>3 DEF Update, Goto, IndInv, SharedInv
  <2> HIDE DEF j
  <2>6. JobOK(j, "values")
    BY <1>1, <2>3, <2>4 DEF JobOK, Prepared, Held
  <2>7. Ordered(j)
    BY <2>3, <2>4 DEF Ordered
  <2> QED BY <1>1, <2>5, <2>6, <2>7, SharedSame, MoveStep DEF Prepared, Held
<1> QED BY <1>2, <1>3, <1>4

LEMMA Concatenated ==
  ASSUME NEW S, NEW s \in Seq(S), NEW t \in Seq(S)
  PROVE  /\ s \o t \in Seq(S) /\ Len(s \o t) = Len(s) + Len(t)
         /\ \A i \in 1 .. Len(s) : (s \o t)[i] = s[i]
         /\ \A i \in 1 .. Len(t) : (s \o t)[Len(s) + i] = t[i]
OBVIOUS

\* The outputs of one class.
LEMMA OutputItemsMade ==
  ASSUME NEW g, NEW decl, NEW dests \in Seq(Paths), NEW class, NEW readers, NEW s,
         s = OutputItems(g, decl, dests, class, readers)
  PROVE  /\ s \in Seq(Range(s)) /\ Len(s) = Len(dests)
         /\ \A i \in 1 .. Len(dests) :
              /\ IsItem(s[i]) /\ s[i].path = dests[i] /\ s[i].file.body.by = g /\ s[i].file.body.n = 0
              /\ s[i].file.body.part # <<"truncated">> /\ ~IsStatePart(s[i].file.body.part)
<1> DEFINE F(i) == [body |-> [by |-> g, part |-> <<class, OutputOrder(decl, Len(dests))[i]>>, n |-> 0],
                    to |-> readers[i]]
<1>1. s = [i \in DOMAIN dests |-> Item(dests[i], "output", F(i))]
  BY DEF OutputItems
<1>2. ASSUME NEW i \in 1 .. Len(dests)
      PROVE  /\ IsItem(s[i]) /\ s[i].path = dests[i] /\ s[i].file.body.by = g /\ s[i].file.body.n = 0
             /\ s[i].file.body.part # <<"truncated">> /\ ~IsStatePart(s[i].file.body.part)
  <2>1. s[i] = Item(dests[i], "output", F(i))
    BY <1>1
  <2>2. F(i).body.by = g /\ F(i).body.n = 0 /\ IsFile(F(i))
    BY DEF IsFile
  <2>3. F(i).body.part = <<class, OutputOrder(decl, Len(dests))[i]>>
    OBVIOUS
  <2> HIDE DEF F
  <2>4. F(i).body.part # <<"truncated">> /\ ~IsStatePart(F(i).body.part)
    BY <2>3 DEF IsStatePart, StateOf
  <2> QED BY <2>1, <2>2, <2>4, FileItem, ItemFields
<1> HIDE DEF F
<1>3. IsSeq(dests)
  BY DEF IsSeq, Range
<1>4. s = [i \in DOMAIN dests |-> s[i]]
  BY <1>1
<1>5. IsSeq(s) /\ Len(s) = Len(dests)
  BY <1>3, <1>4, MappedSeq
<1> QED BY <1>2, <1>5 DEF IsSeq

\* What a generator has to show: its secret outputs, its public ones, its state.
Shown(g, decl, o, u, r1, r2) ==
  OutputItems(g, decl, o, "secret", r1) \o OutputItems(g, decl, u, "public", r2) \o <<StateItem(g, decl)>>

OutputsAndState(s, g, decl, o, u) ==
  /\ ItemsInv(s) /\ Len(s) >= 1 /\ s[Len(s)].path = decl.state
  /\ \A i \in DOMAIN s : s[i].path \in {decl.state} \cup Range(o \o u)
  /\ \A d \in Range(o \o u) : \E i \in DOMAIN s : i < Len(s) /\ s[i].path = d
  /\ \A i \in DOMAIN s :
       s[i].file # NoFile =>
         /\ s[i].file.body.n = 0 /\ s[i].file.body.by = g /\ s[i].file.body.part # <<"truncated">>
         /\ IF i = Len(s) THEN s[i].file.body.part = StateOf(decl)
            ELSE ~IsStatePart(s[i].file.body.part)

LEMMA OutputsThenState ==
  ASSUME NEW g, NEW decl, NEW o \in Seq(Paths), NEW u \in Seq(Paths), NEW r1, NEW r2, NEW s,
         s = Shown(g, decl, o, u, r1, r2)
  PROVE  OutputsAndState(s, g, decl, o, u)
<1> DEFINE s1 == OutputItems(g, decl, o, "secret", r1)
           s2 == OutputItems(g, decl, u, "public", r2)
           x == StateItem(g, decl)
           a == Len(o)
           b == Len(u)
           S == Range(s1) \cup Range(s2) \cup {x}
<1>1. s = s1 \o s2 \o <<x>>
  BY DEF Shown
<1>2. /\ s1 \in Seq(Range(s1)) /\ Len(s1) = a
      /\ \A i \in 1 .. a :
           /\ IsItem(s1[i]) /\ s1[i].path = o[i] /\ s1[i].file.body.by = g /\ s1[i].file.body.n = 0
           /\ s1[i].file.body.part # <<"truncated">> /\ ~IsStatePart(s1[i].file.body.part)
  <2> DEFINE t == s1
  <2>1. t = OutputItems(g, decl, o, "secret", r1)
    OBVIOUS
  <2> HIDE DEF t
  <2>2. /\ t \in Seq(Range(t)) /\ Len(t) = a
        /\ \A i \in 1 .. a :
             /\ IsItem(t[i]) /\ t[i].path = o[i] /\ t[i].file.body.by = g /\ t[i].file.body.n = 0
             /\ t[i].file.body.part # <<"truncated">> /\ ~IsStatePart(t[i].file.body.part)
    BY <2>1, OutputItemsMade
  <2> QED BY <2>2 DEF t
<1>3. /\ s2 \in Seq(Range(s2)) /\ Len(s2) = b
      /\ \A i \in 1 .. b :
           /\ IsItem(s2[i]) /\ s2[i].path = u[i] /\ s2[i].file.body.by = g /\ s2[i].file.body.n = 0
           /\ s2[i].file.body.part # <<"truncated">> /\ ~IsStatePart(s2[i].file.body.part)
  <2> DEFINE t == s2
  <2>1. t = OutputItems(g, decl, u, "public", r2)
    OBVIOUS
  <2> HIDE DEF t
  <2>2. /\ t \in Seq(Range(t)) /\ Len(t) = b
        /\ \A i \in 1 .. b :
             /\ IsItem(t[i]) /\ t[i].path = u[i] /\ t[i].file.body.by = g /\ t[i].file.body.n = 0
             /\ t[i].file.body.part # <<"truncated">> /\ ~IsStatePart(t[i].file.body.part)
    BY <2>1, OutputItemsMade
  <2> QED BY <2>2 DEF t
<1>4. /\ IsItem(x) /\ x.path = decl.state
      /\ x.file # NoFile => /\ x.file.body.by = g /\ x.file.body.n = 0 /\ x.file.body.part = StateOf(decl)
                            /\ x.file.body.part # <<"truncated">>
  <2>1. CASE decl.validation = NoValidation
    BY <2>1, FileItem, ItemFields DEF StateItem
  <2>2. CASE decl.validation # NoValidation
    <3> DEFINE f == [body |-> [by |-> g, part |-> StateOf(decl), n |-> 0], to |-> {}]
    <3>1. x = Item(decl.state, "private", f)
      BY <2>2 DEF StateItem
    <3>2. IsFile(f) /\ f.body.by = g /\ f.body.n = 0 /\ f.body.part = StateOf(decl)
      BY DEF IsFile
    <3>3. StateOf(decl) # <<"truncated">>
      BY DEF StateOf
    <3> HIDE DEF f, x
    <3>4. IsItem(x)
      BY <3>1, <3>2, FileItem
    <3>5. x.path = decl.state /\ x.file = f
      BY <3>1 DEF Item
    <3> QED BY <3>2, <3>3, <3>4, <3>5 DEF x
  <2> QED BY <2>1, <2>2
<1>5. a \in Nat /\ b \in Nat
  OBVIOUS
<1> HIDE DEF s1, s2, x, a, b
<1>6. /\ s \in Seq(S) /\ Len(s) = a + b + 1 /\ s[a + b + 1] = x
      /\ \A i \in 1 .. a : s[i] = s1[i]
      /\ \A i \in 1 .. b : s[a + i] = s2[i]
  <2>1. s1 \in Seq(S) /\ s2 \in Seq(S) /\ x \in S
    BY <1>2, <1>3
  <2> HIDE DEF S
  <2>2. <<x>> \in Seq(S) /\ Len(<<x>>) = 1 /\ <<x>>[1] = x
    BY <2>1
  <2> DEFINE t == s1 \o s2
             v == <<x>>
  <2>3. /\ t \in Seq(S) /\ Len(t) = Len(s1) + Len(s2)
        /\ \A i \in 1 .. Len(s1) : t[i] = s1[i]
        /\ \A i \in 1 .. Len(s2) : t[Len(s1) + i] = s2[i]
    BY <2>1, Concatenated
  <2>4. s = t \o v
    BY <1>1
  <2>10. v \in Seq(S)
    BY <2>2
  <2>12. t \in Seq(S)
    BY <2>3
  <2> HIDE DEF t, v
  <2>11. /\ t \o v \in Seq(S) /\ Len(t \o v) = Len(t) + Len(v)
         /\ \A i \in 1 .. Len(t) : (t \o v)[i] = t[i]
         /\ \A i \in 1 .. Len(v) : (t \o v)[Len(t) + i] = v[i]
    BY <2>10, <2>12
  <2>5. /\ s \in Seq(S) /\ Len(s) = Len(t) + Len(v)
        /\ \A i \in 1 .. Len(t) : s[i] = t[i]
        /\ \A i \in 1 .. Len(v) : s[Len(t) + i] = v[i]
    BY <2>4, <2>11, Zenon
  <2>6. Len(t) = a + b /\ Len(v) = 1 /\ v[1] = x
    BY <1>2, <1>3, <2>2, <2>3 DEF v
  <2>7. Len(s) = a + b + 1 /\ s[a + b + 1] = x
    BY <1>5, <2>5, <2>6
  <2>8. \A i \in 1 .. a : s[i] = s1[i]
    BY <1>2, <1>5, <2>3, <2>5, <2>6
  <2>9. \A i \in 1 .. b : s[a + i] = s2[i]
    BY <1>2, <1>3, <1>5, <2>3, <2>5, <2>6
  <2> QED BY <2>5, <2>7, <2>8, <2>9
<1> HIDE DEF S
<1>7. DOMAIN s = 1 .. a + b + 1 /\ IsSeq(s)
  BY <1>6 DEF IsSeq, Range
<1>8. ASSUME NEW i \in DOMAIN s
      PROVE  /\ IsItem(s[i])
             /\ s[i].file # NoFile =>
                  /\ s[i].file.body.n = 0 /\ s[i].file.body.by = g /\ s[i].file.body.part # <<"truncated">>
                  /\ IF i = a + b + 1 THEN s[i].file.body.part = StateOf(decl)
                     ELSE ~IsStatePart(s[i].file.body.part)
  <2>1. CASE i \in 1 .. a
    BY <1>2, <1>5, <1>6, <2>1, SMTT(20)
  <2>2. CASE i \in a + 1 .. a + b
    <3>1. i - a \in 1 .. b /\ a + (i - a) = i
      BY <1>5, <2>2
    <3>2. s[i] = s2[i - a]
      BY <1>6, <3>1
    <3>3. i # a + b + 1
      BY <1>5, <2>2
    <3> DEFINE k == i - a
    <3>4. k \in 1 .. b /\ s[i] = s2[k]
      BY <3>1, <3>2
    <3> HIDE DEF k
    <3> QED BY <1>3, <1>5, <3>3, <3>4
  <2>3. CASE i = a + b + 1
    BY <1>4, <1>6, <2>3
  <2> QED BY <1>5, <1>7, <2>1, <2>2, <2>3
<1>9. ASSUME NEW i \in DOMAIN s PROVE s[i].path \in {decl.state} \cup Range(o \o u)
  <2> DEFINE t == o \o u
  <2>1. /\ t \in Seq(Paths) /\ Len(t) = a + b
        /\ \A k \in 1 .. a : t[k] = o[k]
        /\ \A k \in 1 .. b : t[a + k] = u[k]
    BY Concatenated DEF a, b
  <2> SUFFICES s[i].path \in {decl.state} \cup Range(t)
    OBVIOUS
  <2> HIDE DEF t
  <2>2. \A k \in 1 .. a + b : t[k] \in Range(t)
    BY <2>1 DEF Range
  <2>3. CASE i \in 1 .. a
    BY <1>2, <1>5, <1>6, <2>1, <2>2, <2>3
  <2>4. CASE i \in a + 1 .. a + b
    <3>1. i - a \in 1 .. b /\ a + (i - a) = i
      BY <1>5, <2>4
    <3>2. s[i].path = t[i]
      BY <1>3, <1>6, <2>1, <3>1
    <3> QED BY <1>5, <2>2, <2>4, <3>2
  <2>5. CASE i = a + b + 1
    BY <1>4, <1>6, <2>5
  <2> QED BY <1>5, <1>7, <2>3, <2>4, <2>5
<1>10. ASSUME NEW d \in Range(o \o u)
      PROVE  \E i \in DOMAIN s : i < a + b + 1 /\ s[i].path = d
  <2> DEFINE t == o \o u
  <2>1. /\ t \in Seq(Paths) /\ Len(t) = a + b
        /\ \A i \in 1 .. a : t[i] = o[i]
        /\ \A i \in 1 .. b : t[a + i] = u[i]
    BY Concatenated DEF a, b
  <2>5. d \in Range(t)
    OBVIOUS
  <2> HIDE DEF t
  <2>6. DOMAIN t = 1 .. a + b
    BY <2>1
  <2>2. PICK k \in 1 .. a + b : d = t[k]
    BY <2>5, <2>6 DEF Range
  <2>3. CASE k \in 1 .. a
    <3>1. d = o[k] /\ s[k] = s1[k]
      BY <1>6, <2>1, <2>2, <2>3
    <3>2. k \in DOMAIN s /\ k < a + b + 1
      BY <1>5, <1>7, <2>3
    <3> QED BY <1>2, <2>3, <3>1, <3>2
  <2>4. CASE k \notin 1 .. a
    <3>1. k - a \in 1 .. b /\ a + (k - a) = k
      BY <1>5, <2>2, <2>4
    <3>2. d = u[k - a] /\ s[k] = s2[k - a]
      BY <1>6, <2>1, <2>2, <3>1
    <3> QED BY <1>3, <1>5, <1>7, <3>1, <3>2
  <2> QED BY <2>3, <2>4
<1> QED BY <1>4, <1>5, <1>6, <1>7, <1>8, <1>9, <1>10 DEF ItemsInv, OutputsAndState

LEMMA ItemsOfMade ==
  ASSUME NEW p \in Procs, Decl(p).outputs \in Seq(Paths), Decl(p).public \in Seq(Paths),
         NEW j, j.items = ItemsOf(p)
  PROVE  ItemsInv(j.items) /\ Len(j.items) >= 1 /\ GeneratorMade(j, GeneratorId(p), Decl(p))
<1> DEFINE g == GeneratorId(p)
           decl == Decl(p)
           r1 == [i \in DOMAIN decl.outputs |-> Plan(p).readers[decl.outputs[i]]]
           r2 == [i \in DOMAIN decl.public |-> {}]
           s == j.items
           o == decl.outputs
           u == decl.public
<1>1. s = Shown(g, decl, o, u, r1, r2)
  BY DEF ItemsOf, Shown
<1>2. o \in Seq(Paths) /\ u \in Seq(Paths)
  OBVIOUS
<1> HIDE DEF g, decl, r1, r2, s, o, u
<1>3. OutputsAndState(s, g, decl, o, u)
  BY <1>1, <1>2, OutputsThenState
<1>4. GeneratorMade(j, g, decl)
  BY <1>3 DEF GeneratorMade, GeneratorPaths, OutputsAndState, s, o, u
<1> QED BY <1>3, <1>4 DEF OutputsAndState, g, decl, s

\* The declaration a generate command is at.
LEMMA DeclFields ==
  ASSUME NEW p \in Procs, Ordered(job[p])
  PROVE  /\ Plan(p) \in Range(Plans) /\ GeneratorId(p) \in DOMAIN Plan(p).generators
         /\ GeneratorId(p) \in Generators
         /\ Decl(p).outputs \in Seq(Paths) /\ Decl(p).public \in Seq(Paths) /\ Decl(p).state \in Paths
<1>1. Plan(p) \in Range(Plans)
  BY DEF Ordered, Plan, Cmd, Range
<1>2. GeneratorId(p) \in DOMAIN Plan(p).generators
  BY DEF Ordered, GeneratorId, Plan, Cmd
<1> QED BY <1>1, <1>2, GeneratorAssumption DEF Decl

LEMMA ProducedStep ==
  ASSUME IndInv, NEW p \in Procs, Frame(p), UNCHANGED <<files, history, lock>>, NEW j, Produced(p, j),
         pc[p] \in {"values", "running"}, DOMAIN j = DOMAIN NoJob, j.cmd = job[p].cmd,
         j.order = job[p].order, j.next = job[p].next, j.child = job[p].child,
         j.writer = job[p].writer, j.watchdog = job[p].watchdog, j.helper = job[p].helper
  PROVE  IndInv'
<1> DEFINE k == [j EXCEPT !.items = ItemsOf(p), !.note = <<"answer", GeneratorId(p), j.answer>>]
<1>1. JobOK(job[p], pc[p]) /\ Ordered(job[p]) /\ lock # p /\ job[p].cmd.op = "generate"
  BY DEF IndInv, JobInv, MadeInv, JobOK, Held, Cmd
<1>2. job'[p] = k /\ pc'[p] = "lock" /\ lock' # p
  BY <1>1 DEF Produced, Update, Goto, IndInv, SharedInv
<1>3. /\ DOMAIN k = DOMAIN NoJob /\ k.cmd = job[p].cmd /\ k.items = ItemsOf(p)
      /\ k.order = job[p].order /\ k.next = job[p].next /\ k.child = job[p].child
      /\ k.writer = job[p].writer /\ k.watchdog = job[p].watchdog /\ k.helper = job[p].helper
  BY DEF NoJob
<1> HIDE DEF k
<1>4. ItemsInv(k.items) /\ Len(k.items) >= 1 /\ GeneratorMade(k, GeneratorId(p), Decl(p))
  BY <1>1, <1>3, DeclFields, ItemsOfMade
<1>5. JobOK(k, "lock")
  BY <1>1, <1>3, <1>4 DEF JobOK, IsBatch
<1>6. Ordered(k)
  BY <1>1, <1>3 DEF Ordered
<1>7. Made(k)
  BY <1>1, <1>3, <1>4 DEF Made, InMemory, Copying, GeneratorId, Decl, Plan, Cmd
<1> QED BY <1>2, <1>5, <1>6, <1>7, SharedSame, MoveStep DEF Held

LEMMA ValuesSteps ==
  ASSUME IndInv, NEW p \in Procs, Frame(p), Values(p) \/ GeneratorExits(p)
  PROVE  IndInv'
<1>1. UNCHANGED <<files, history, lock>> /\ pc[p] \in {"values", "running"}
  BY DEF Values, GeneratorExits
<1>2. JobOK(job[p], pc[p]) /\ Ordered(job[p]) /\ lock # p
  BY <1>1 DEF IndInv, JobInv, MadeInv, JobOK, Held, Cmd
<1>3. CASE GeneratorExits(p)
  <2>1. Produced(p, job[p]) /\ DOMAIN job[p] = DOMAIN NoJob
    BY <1>2, <1>3 DEF GeneratorExits, JobOK
  <2> QED BY <1>1, <2>1, ProducedStep
<1>4. CASE Values(p)
  <2> DEFINE inputs == {<<d, files[d].body.n, files[d].body.by>> : d \in Range(Decl(p).inputs)}
             answer == Answer(p)
             j == [job[p] EXCEPT !.answer = answer, !.inputs = inputs]
             i == [j EXCEPT !.inputs = {}]
  <2>1. \/ Produced(p, i)
        \/ Update(p, j) /\ Goto(p, "running")
    BY <1>4 DEF Values
  <2> HIDE DEF inputs, answer
  <2>2. CASE Produced(p, i)
    <3>1. /\ DOMAIN i = DOMAIN NoJob /\ i.cmd = job[p].cmd /\ i.order = job[p].order /\ i.next = job[p].next
          /\ i.child = job[p].child /\ i.writer = job[p].writer /\ i.watchdog = job[p].watchdog
          /\ i.helper = job[p].helper
      BY <1>2 DEF JobOK, NoJob
    <3> HIDE DEF i
    <3> QED BY <1>1, <2>2, <3>1, ProducedStep
  <2>3. CASE Update(p, j) /\ Goto(p, "running")
    <3>1. /\ DOMAIN j = DOMAIN NoJob /\ j.cmd = job[p].cmd /\ j.items = job[p].items
          /\ j.order = job[p].order /\ j.next = job[p].next /\ j.child = job[p].child
          /\ j.writer = job[p].writer /\ j.watchdog = job[p].watchdog /\ j.helper = job[p].helper
      BY <1>2 DEF JobOK, NoJob
    <3>2. job'[p] = j /\ pc'[p] = "running" /\ lock' # p
      BY <1>1, <1>2, <2>3 DEF Update, Goto, IndInv, SharedInv
    <3> HIDE DEF j
    <3>3. JobOK(j, "running") /\ Ordered(j)
      BY <1>1, <1>2, <3>1 DEF JobOK, Prepared, Held, Ordered
    <3> QED BY <1>1, <3>2, <3>3, SharedSame, MoveStep DEF Held, Prepared
  <2> QED BY <2>1, <2>2, <2>3
<1> QED BY <1>3, <1>4, <1>1

-----------------------------------------------------------------------------
(* Secrets and migrations *)

\* A command that has got its one value from an editor or from a delegate.
LEMMA ValueStep ==
  ASSUME IndInv, NEW p \in Procs, Frame(p), UNCHANGED <<files, history, lock>>,
         pc[p] \in {"editing", "stdin"}, NEW d, NEW part,
         part # <<"truncated">>, \A a, b, c, e : part # <<a, b, c, e>>,
         Update(p, [job[p] EXCEPT !.items = <<NewItem(Cmd(p), d, part)>>]), Goto(p, "lock")
  PROVE  IndInv'
<1> DEFINE cmd == Cmd(p)
           x == NewItem(cmd, d, part)
           items == <<x>>
           j == [job[p] EXCEPT !.items = items]
<1>1. JobOK(job[p], pc[p]) /\ lock # p
  BY DEF IndInv, JobInv, Held
<1>2. cmd.op \in {"edit", "redeem"} /\ cmd = job[p].cmd /\ cmd \in AllCommands
  BY <1>1 DEF JobOK, Cmd
<1>3. job'[p] = j /\ pc'[p] = "lock" /\ lock' # p
  BY <1>1 DEF Update, Goto, IndInv, SharedInv
<1>4. IsItem(x)
  BY NewItemFields
<1>5. x.file.body.by \notin Generators /\ x.file.body.part # <<"truncated">> /\ ~IsStatePart(x.file.body.part)
  BY <1>2, NewItemMade DEF InMemory
<1> HIDE DEF x, cmd
<1>6. ItemsInv(items) /\ Len(items) = 1 /\ DOMAIN items = {1} /\ items[1] = x
  BY <1>4, OneItem, SingletonSeq
<1> HIDE DEF items
<1>7. /\ DOMAIN j = DOMAIN NoJob /\ j.cmd = cmd /\ j.items = items
      /\ j.child = "none" /\ j.writer = "none" /\ ~j.watchdog /\ ~j.helper
  <2>1. /\ DOMAIN j = DOMAIN NoJob /\ j.cmd = cmd /\ j.items = items /\ j.child = job[p].child
        /\ j.writer = job[p].writer /\ j.watchdog = job[p].watchdog /\ j.helper = job[p].helper
    BY <1>1, <1>2 DEF JobOK, NoJob
  <2> HIDE DEF j
  <2> QED BY <1>1, <1>2, <2>1 DEF JobOK
<1> HIDE DEF j
<1>8. JobOK(j, "lock")
  BY <1>2, <1>6, <1>7, PreparedJob
<1>9. Made(j) /\ j.cmd.op # "generate"
  BY <1>2, <1>5, <1>6, <1>7 DEF Made, Copying
<1> QED BY <1>3, <1>8, <1>9, SharedSame, MoveStep DEF Held

LEMMA ReaderSteps ==
  ASSUME IndInv, NEW p \in Procs, Frame(p), EditorSaves(p) \/ RedeemReads(p)
  PROVE  IndInv'
<1>1. CASE EditorSaves(p)
  <2> DEFINE part == <<Cmd(p).input, job[p].inputs>>
  <2>1. part # <<"truncated">> /\ \A a, b, c, e : part # <<a, b, c, e>>
    OBVIOUS
  <2>2. /\ pc[p] = "editing" /\ Update(p, [job[p] EXCEPT !.items = <<NewItem(Cmd(p), Cmd(p).path, part)>>])
        /\ Goto(p, "lock") /\ UNCHANGED <<files, history, lock>>
    BY <1>1 DEF EditorSaves
  <2> HIDE DEF part
  <2> QED BY <2>1, <2>2, ValueStep
<1>2. CASE RedeemReads(p) /\ Return(p)
  BY <1>2, SharedSame, ReturnStep DEF RedeemReads
<1>3. CASE RedeemReads(p) /\ ~Return(p)
  <2> DEFINE part == <<Cmd(p).input>>
  <2>1. \E d : /\ pc[p] = "stdin" /\ Update(p, [job[p] EXCEPT !.items = <<NewItem(Cmd(p), d, part)>>])
               /\ Goto(p, "lock") /\ UNCHANGED <<files, history, lock>>
    BY <1>3 DEF RedeemReads
  <2>2. Cmd(p) \in AllCommands /\ Cmd(p).op = "redeem"
    BY <2>1 DEF IndInv, JobInv, JobOK, Cmd
  <2>3. part # <<"truncated">> /\ \A a, b, c, e : part # <<a, b, c, e>>
    BY <2>2, MigrationAssumption
  <2> HIDE DEF part
  <2> QED BY <2>1, <2>3, ValueStep
<1> QED BY <1>1, <1>2, <1>3

LEMMA IssueStep ==
  ASSUME IndInv, NEW p \in Procs, Frame(p), Issue(p)
  PROVE  IndInv'
<1>1. UNCHANGED <<files, history, pc, job, lock>>
  BY DEF Issue
<1>2. JobInv(p)' /\ MadeInv(p)'
  BY <1>1 DEF IndInv, JobInv, MadeInv, Cmd
<1> QED BY <1>1, <1>2, SharedSame, Assemble

\* A thread or the decryptor's process moves: only what is known of them changes.
LEMMA ExternalJob ==
  ASSUME IndInv, NEW p \in Procs, Frame(p), UNCHANGED <<files, history>>,
         pc[p] # "idle", Cmd(p).op = "external", NEW j, job'[p] = j, DOMAIN j = DOMAIN NoJob,
         j.cmd = job[p].cmd, j.items = job[p].items, j.at = job[p].at \/ (j.at = 1 /\ pc[p] = "check"),
         \/ pc'[p] = pc[p]
         \/ pc[p] = "stage" /\ pc'[p] = "reading"
         \/ pc[p] = "reading" /\ pc'[p] = "check"
         \/ pc[p] = "check" /\ pc'[p] = "commit" /\ j.at = 1
         \/ pc'[p] = "join",
         IF pc'[p] = "join" THEN (pc[p] = "join" /\ lock' = lock) \/ lock' = NoProc ELSE lock' = lock
  PROVE  IndInv'
<1>1. JobOK(job[p], pc[p]) /\ (pc[p] \in Held <=> lock = p) /\ (pc[p] \in Prepared => Made(job[p]))
  BY DEF IndInv, JobInv, MadeInv
<1>2. ~IsBatch(j.cmd) /\ j.cmd.op # "generate" /\ Len(j.items) \in Nat
  BY <1>1 DEF IsBatch, Cmd, JobOK, ItemsInv, IsSeq
<1>3. JobOK(j, pc'[p])
  BY <1>1, <1>2 DEF JobOK, Prepared, Held, Cmd
<1>4. pc[p] \in Prepared => Made(j)
  BY <1>1 DEF Made, Cmd, Copying, InMemory
<1>5. pc'[p] \in Prepared => pc[p] \in Prepared
  BY DEF Prepared, Held
<1>6. pc'[p] \in Held <=> lock' = p
  BY <1>1, RepositoryAssumption DEF Held
<1> QED BY <1>2, <1>3, <1>4, <1>5, <1>6, SharedSame, MoveStep

LEMMA TerminatedFields ==
  ASSUME NEW j, DOMAIN j = DOMAIN NoJob, NEW t, t = Terminated(j)
  PROVE  /\ DOMAIN t = DOMAIN NoJob /\ t.cmd = j.cmd /\ t.items = j.items /\ t.at = j.at /\ t.whole = j.whole
         /\ t.writer = j.writer /\ t.watchdog = j.watchdog
         /\ t.child = IF j.child \in {"running", "closed"} THEN "failed" ELSE j.child
         /\ t.child = "ok" => t.helper = j.helper
BY DEF Terminated, NoJob

\* Only a decryptor's command has anything for these steps to act on.
LEMMA IsExternal ==
  ASSUME IndInv, NEW p \in Procs,
         \/ job[p].child # "none" \/ job[p].writer # "none" \/ job[p].watchdog \/ job[p].helper
         \/ pc[p] \in {"reading", "check", "join"}
         \/ pc[p] # "idle" /\ Cmd(p).op = "external"
  PROVE  pc[p] # "idle" /\ Cmd(p).op = "external" /\ DOMAIN job[p] = DOMAIN NoJob
BY DEF IndInv, JobInv, JobOK, Cmd

\* What a thread or the decryptor leaves alone.
LEMMA ThreadSteps ==
  ASSUME IndInv, NEW p \in Procs, Frame(p), ThreadNext(p) \/ DecryptorNext(p) \/ TerminateExternal(p)
  PROVE  /\ pc[p] # "idle" /\ Cmd(p).op = "external" /\ UNCHANGED <<files, history, pc, lock>>
         /\ DOMAIN job'[p] = DOMAIN NoJob /\ job'[p].cmd = job[p].cmd /\ job'[p].items = job[p].items
         /\ job'[p].at = job[p].at
<1>1. /\ \/ job[p].child # "none" \/ job[p].writer # "none" \/ job[p].watchdog \/ job[p].helper
         \/ pc[p] = "join"
  BY DEF ThreadNext, DecryptorNext, TerminateExternal, WriterBreaks, WatchdogFires, Feed, SourceFails,
         ChildForks, HelperExits, ChildCloses, ChildExits, Running, HasReader
<1>2. pc[p] # "idle" /\ Cmd(p).op = "external" /\ DOMAIN job[p] = DOMAIN NoJob
  BY <1>1, IsExternal
<1>3. UNCHANGED <<files, history, pc, lock>>
  BY DEF ThreadNext, DecryptorNext, TerminateExternal, WriterBreaks, WatchdogFires, Feed, SourceFails,
         ChildForks, HelperExits, ChildCloses, ChildExits, Only
<1>4. DOMAIN job = Procs
  BY DEF IndInv, SharedInv
<1>5. CASE DecryptorNext(p) \/ WriterBreaks(p)
  <2> USE DEF Only, Update
  <2>1. CASE Feed(p) \/ SourceFails(p) \/ WriterBreaks(p)
    <3>1. \E w : job'[p] = [job[p] EXCEPT !.writer = w]
      BY <1>4, <2>1 DEF Feed, SourceFails, WriterBreaks
    <3> QED BY <1>2, <1>3, <3>1 DEF NoJob
  <2>2. CASE ChildForks(p) \/ HelperExits(p)
    <3>1. \E h : job'[p] = [job[p] EXCEPT !.helper = h]
      BY <1>4, <2>2 DEF ChildForks, HelperExits
    <3> QED BY <1>2, <1>3, <3>1 DEF NoJob
  <2>3. CASE ChildCloses(p)
    <3>1. \E whole : job'[p] = [job[p] EXCEPT !.child = "closed", !.whole = whole]
      BY <1>4, <2>3 DEF ChildCloses
    <3> QED BY <1>2, <1>3, <3>1 DEF NoJob
  <2>4. CASE ChildExits(p)
    <3>1. \/ \E whole : job'[p] = [job[p] EXCEPT !.child = "ok", !.whole = whole]
          \/ job'[p] = [job[p] EXCEPT !.child = "failed"]
      BY <1>4, <2>4, ZenonT(30) DEF ChildExits
    <3> QED BY <1>2, <1>3, <3>1 DEF NoJob
  <2> QED BY <1>5, <2>1, <2>2, <2>3, <2>4 DEF DecryptorNext
<1>6. CASE WatchdogFires(p)
  <2> DEFINE t == Terminated(job[p])
  <2>1. job'[p] = [t EXCEPT !.watchdog = FALSE]
    BY <1>4, <1>6 DEF WatchdogFires, Only, Update
  <2>2. /\ DOMAIN t = DOMAIN NoJob /\ t.cmd = job[p].cmd /\ t.items = job[p].items /\ t.at = job[p].at
    BY <1>2, TerminatedFields
  <2> HIDE DEF t
  <2> QED BY <1>2, <1>3, <2>1, <2>2 DEF NoJob
<1>7. CASE TerminateExternal(p)
  <2> DEFINE t == Terminated(job[p])
  <2>1. job'[p] = t
    BY <1>4, <1>7 DEF TerminateExternal, Only, Update
  <2> HIDE DEF t
  <2>2. /\ DOMAIN t = DOMAIN NoJob /\ t.cmd = job[p].cmd /\ t.items = job[p].items /\ t.at = job[p].at
    BY <1>2, TerminatedFields DEF t
  <2> QED BY <1>2, <1>3, <2>1, <2>2
<1> QED BY <1>5, <1>6, <1>7 DEF ThreadNext

LEMMA ReadOutputStep ==
  ASSUME IndInv, NEW p \in Procs, Frame(p), ReadOutput(p)
  PROVE  IndInv'
<1>1. /\ pc[p] = "reading" /\ UNCHANGED <<files, history, lock>> /\ pc'[p] = "check"
      /\ job'[p] = IF job[p].whole THEN job[p]
                   ELSE [job[p] EXCEPT !.items = <<Truncated(job[p].items[1])>>]
  BY DEF ReadOutput, Update, Goto, IndInv, SharedInv
<1>2. pc[p] # "idle" /\ Cmd(p).op = "external" /\ DOMAIN job[p] = DOMAIN NoJob
  BY <1>1, IsExternal
<1>3. CASE job[p].whole
  BY <1>1, <1>2, <1>3, ExternalJob
<1>4. CASE ~job[p].whole
  <2> DEFINE old == job[p].items[1]
             x == Truncated(old)
             items == <<x>>
             j == [job[p] EXCEPT !.items = items]
  <2>1. JobOK(job[p], "reading") /\ Made(job[p]) /\ lock = p
    BY <1>1 DEF IndInv, JobInv, MadeInv, Prepared, Held
  <2>2. IsItem(old) /\ IsFile(old.file)
    <3>1. 1 \in DOMAIN job[p].items
      BY <2>1 DEF JobOK, ItemsInv, IsSeq, Prepared, Held
    <3> QED BY <1>2, <2>1, <3>1 DEF JobOK, ItemsInv, Made, Cmd
  <2>3. IsItem(x) /\ IsFile(x.file)
    <3>1. DOMAIN x = DOMAIN old /\ x.file = [old.file EXCEPT !.body.part = <<"truncated">>]
      BY <2>2 DEF Truncated, IsItem
    <3>2. DOMAIN x.file = {"body", "to"} /\ x.file.body = [old.file.body EXCEPT !.part = <<"truncated">>]
      BY <2>2, <3>1 DEF IsFile
    <3>3. DOMAIN x.file.body = {"by", "part", "n"} /\ x.file.body.n \in Nat
      BY <2>2, <3>2 DEF IsFile
    <3> QED BY <2>2, <3>1, <3>2, <3>3 DEF IsFile, IsItem
  <2> HIDE DEF x, old
  <2>4. ItemsInv(items) /\ Len(items) = 1 /\ \A i \in DOMAIN items : IsFile(items[i].file)
    BY <2>3, OneItem, SingletonSeq
  <2>5. job'[p] = j
    BY <1>1, <1>4 DEF x, old
  <2> HIDE DEF items
  <2>6. /\ DOMAIN j = DOMAIN NoJob /\ j.cmd = job[p].cmd /\ j.items = items
    BY <1>2 DEF NoJob
  <2> HIDE DEF j
  <2>9. j.cmd \in AllCommands /\ j.cmd.op = "external"
    BY <1>2, <2>1, <2>6 DEF JobOK, Cmd
  <2>10. ItemsInv(j.items) /\ Len(j.items) = 1 /\ DOMAIN j = DOMAIN NoJob
    BY <2>4, <2>6
  <2>7. JobOK(j, "check")
    BY <2>9, <2>10 DEF JobOK
  <2>8. Made(j) /\ j.cmd.op # "generate"
    BY <1>2, <2>4, <2>6 DEF Made, Copying, InMemory, Cmd
  <2> QED BY <1>1, <2>1, <2>5, <2>7, <2>8, SharedSame, MoveStep DEF Held, Prepared
<1> QED BY <1>3, <1>4

LEMMA ExternalSteps ==
  ASSUME IndInv, NEW p \in Procs, Frame(p),
         \/ ThreadNext(p) \/ DecryptorNext(p) \/ TerminateExternal(p) \/ OpenExternal(p) \/ ReadFails(p)
         \/ Check(p) \/ CheckFails(p) \/ CheckTimesOut(p)
  PROVE  IndInv'
<1>1. CASE ThreadNext(p) \/ DecryptorNext(p) \/ TerminateExternal(p)
  <2>1. /\ pc[p] # "idle" /\ Cmd(p).op = "external" /\ UNCHANGED <<files, history, pc, lock>>
        /\ DOMAIN job'[p] = DOMAIN NoJob /\ job'[p].cmd = job[p].cmd /\ job'[p].items = job[p].items
        /\ job'[p].at = job[p].at
    BY <1>1, ThreadSteps
  <2>2. pc'[p] = "join" => pc[p] = "join"
    BY <2>1
  <2> QED BY <2>1, <2>2, ExternalJob
<1>2. CASE OpenExternal(p) \/ ReadFails(p) \/ CheckFails(p)
  <2>1. /\ UNCHANGED <<files, history, job>> /\ pc[p] # "idle"
        /\ \/ pc[p] = "stage" /\ pc'[p] = "reading" /\ lock' = lock
           \/ pc'[p] = "join" /\ lock' = NoProc
    BY <1>2 DEF OpenExternal, ReadFails, CheckFails, Goto, IndInv, SharedInv
  <2>2. Cmd(p).op = "external" /\ DOMAIN job[p] = DOMAIN NoJob
    BY <1>2, IsExternal DEF OpenExternal, ReadFails, CheckFails
  <2> QED BY <2>1, <2>2, ExternalJob
<1>3. CASE Check(p)
  <2> DEFINE j == [job[p] EXCEPT !.at = 1]
  <2>1. /\ UNCHANGED <<files, history, lock>> /\ pc[p] = "check" /\ pc'[p] = "commit" /\ job'[p] = j
    BY <1>3 DEF Check, Update, Goto, IndInv, SharedInv
  <2>2. Cmd(p).op = "external" /\ DOMAIN job[p] = DOMAIN NoJob
    BY <2>1, IsExternal
  <2>3. DOMAIN j = DOMAIN NoJob /\ j.cmd = job[p].cmd /\ j.items = job[p].items /\ j.at = 1
    BY <2>2 DEF NoJob
  <2> HIDE DEF j
  <2> QED BY <2>1, <2>2, <2>3, ExternalJob
<1>4. CASE CheckTimesOut(p)
  <2> DEFINE t == Terminated(job[p])
  <2>1. UNCHANGED <<files, history>> /\ pc[p] = "check" /\ pc'[p] = "join" /\ job'[p] = t /\ lock' = NoProc
    BY <1>4 DEF CheckTimesOut, Update, Goto, IndInv, SharedInv
  <2>2. Cmd(p).op = "external" /\ DOMAIN job[p] = DOMAIN NoJob
    BY <2>1, IsExternal
  <2> HIDE DEF t
  <2>3. DOMAIN t = DOMAIN NoJob /\ t.cmd = job[p].cmd /\ t.items = job[p].items /\ t.at = job[p].at
    BY <2>2, TerminatedFields DEF t
  <2> QED BY <2>1, <2>2, <2>3, ExternalJob
<1> QED BY <1>1, <1>2, <1>3, <1>4

-----------------------------------------------------------------------------
(* The invariant is inductive *)

LEMMA InitInductive ==
  ASSUME Init
  PROVE  IndInv
<1>1. SharedInv
  <2>1. IsSeq(history)
    BY DEF Init, IsSeq
  <2> QED BY <2>1, RepositoryAssumption DEF Init, SharedInv, Exists
<1>2. ASSUME NEW p \in Procs PROVE JobInv(p) /\ MadeInv(p)
  BY <1>2, IdleJob, RepositoryAssumption DEF Init, JobInv, MadeInv, Held, Prepared
<1> QED BY <1>1, <1>2 DEF IndInv

LEMMA MovesInductive ==
  ASSUME IndInv, NEW p \in Procs, Moves(p)
  PROVE  IndInv'
<1>1. Frame(p)
  BY Framed
<1>2. CASE \/ StageFails(p) \/ StageCopiesFails(p) \/ Killed(p) \/ ValuesRefused(p) \/ GeneratorFails(p)
           \/ PersistFails(p) \/ EditorFails(p) \/ Join(p)
  <2>1. Return(p) /\ UNCHANGED <<files, history>>
    BY <1>2, ReturnersFrame
  <2> QED BY <1>1, <2>1, SharedSame, ReturnStep
<1>3. CASE Acquire(p) \/ Stage(p) \/ StageCopies(p) \/ Backup(p) \/ Commit(p) \/ CommitLast(p)
  BY <1>1, <1>3, AcquireStep, StageStep, StageCopiesStep, BackupStep, CommitStep, CommitLastStep
<1>4. CASE Generate(p) \/ Decide(p) \/ Values(p) \/ GeneratorExits(p) \/ Persist(p)
  BY <1>1, <1>4, GenerateStep, DecideSteps, ValuesSteps
<1>5. CASE \/ Write(p) \/ Batch(p) \/ Edit(p) \/ EditorSaves(p) \/ Rekey(p) \/ Delete(p) \/ Bootstrap(p)
           \/ Issue(p) \/ Redeem(p) \/ RedeemReads(p)
  BY <1>1, <1>5, WriteSteps, BatchStep, ReaderSteps, RekeyStep, IssueStep
<1>6. CASE \/ MigrateCiphertext(p) \/ MigrateTree(p) \/ MigrateClan(p) \/ StartExternal(p) \/ OpenExternal(p)
           \/ ReadOutput(p) \/ ReadFails(p) \/ Check(p) \/ CheckFails(p) \/ CheckTimesOut(p)
           \/ TerminateExternal(p) \/ ThreadNext(p) \/ DecryptorNext(p)
  BY <1>1, <1>6, MigrateSteps, ExternalStep, ReadOutputStep, ExternalSteps
<1> QED BY <1>2, <1>3, <1>4, <1>5, <1>6
      DEF Moves, ProcessNext, RepositoryNext, GeneratorNext, SecretNext, MigrationNext

\* Steps of no process.
LEMMA IdleInductive ==
  ASSUME IndInv, Tick \/ UNCHANGED vars
  PROVE  IndInv'
<1>1. UNCHANGED <<scene, files, prompts, caps, lock, todo, pc, job, runs, history>>
  BY DEF Tick, vars
<1>2. SharedInv'
  BY <1>1 DEF IndInv, SharedInv, Exists, IsSeq
<1>3. ASSUME NEW p \in Procs PROVE JobInv(p)' /\ MadeInv(p)'
  BY <1>1, <1>3 DEF IndInv, JobInv, MadeInv, Cmd
<1> QED BY <1>2, <1>3 DEF IndInv

\* Whatever commands several operators run side by side, and wherever they fail
\* or are killed: files and jobs have their shape, a command is at the points of
\* its own handler only and has the outputs its kind makes, and it is under the
\* repository lock exactly from staging to its last rename.
\* (acquire_repository_lock and everything run under it)
THEOREM CommandsInductive == Spec => []IndInv
<1>1. IndInv /\ [Next]_vars => IndInv'
  BY MovesInductive, IdleInductive DEF Next, Moves
<1> QED BY <1>1, InitInductive, PTL DEF Spec

-----------------------------------------------------------------------------
(* What each kind of step does to its command *)

\* A command named o is launched to label, or refused.
Launched(p, o, label) ==
  /\ pc[p] = "idle" /\ UNCHANGED <<files, history, prompts, caps>>
  /\ \/ pc'[p] = "idle"
     \/ pc'[p] = label /\ job'[p].cmd = Head(todo[p]) /\ job'[p].cmd.op = o /\ job'[p].cmd \in AllCommands

LEMMA LaunchedJob ==
  ASSUME IndInv, NEW p \in Procs, NEW o, Upcoming(p, o), NEW accepted, NEW j, NEW label,
         Launch(p, accepted, j, label), j.cmd = Head(todo[p]), UNCHANGED <<world, files, runs, history>>
  PROVE  /\ Launched(p, o, label)
         /\ pc'[p] = "idle" \/ (accepted /\ pc'[p] = label /\ job'[p] = j)
<1>1. pc[p] = "idle" /\ Head(todo[p]) \in AllCommands /\ Head(todo[p]).op = o
  BY NextCommand
<1>2. pc'[p] = "idle" \/ (accepted /\ pc'[p] = label /\ job'[p] = j)
  BY <1>1 DEF Launch, Update, Goto, IndInv, SharedInv
<1> QED BY <1>1, <1>2 DEF Launched, world

LEMMA WriteLaunched == ASSUME IndInv, NEW p \in Procs, Write(p) PROVE Launched(p, "write", "lock")
<1> DEFINE cmd == Head(todo[p])
           j == JobOf(cmd, ModeOf(cmd), <<NewItem(cmd, cmd.path, <<cmd.input>>)>>)
           ok == MayAuthor(cmd, cmd.path) /\ WellFormed(cmd)
<1>1. Upcoming(p, "write") /\ Launch(p, ok, j, "lock") /\ UNCHANGED <<world, files, runs, history>>
  BY DEF Write
<1>2. j.cmd = Head(todo[p])
  BY JobOfFields
<1> HIDE DEF j, ok
<1> QED BY <1>1, <1>2, LaunchedJob

LEMMA BatchLaunched == ASSUME IndInv, NEW p \in Procs, Batch(p) PROVE Launched(p, "batch", "lock")
<1> DEFINE cmd == Head(todo[p])
           Value(e) == <<cmd.document[e[2]]>>
           items == [i \in DOMAIN cmd.entries |-> NewItem(cmd, cmd.entries[i][1], Value(cmd.entries[i]))]
           j == JobOf(cmd, ModeOf(cmd), items)
           ok == /\ ValidMapping(cmd.entries) /\ WellFormed(cmd) /\ Extractable(cmd)
                 /\ \A e \in Range(cmd.entries) : MayAuthor(cmd, e[1])
<1>1. Upcoming(p, "batch") /\ Launch(p, ok, j, "lock") /\ UNCHANGED <<world, files, runs, history>>
  BY DEF Batch
<1> HIDE DEF items
<1>2. j.cmd = Head(todo[p])
  BY JobOfFields
<1> HIDE DEF j, ok
<1> QED BY <1>1, <1>2, LaunchedJob, SMTT(20)

LEMMA EditLaunched == ASSUME IndInv, NEW p \in Procs, Edit(p) PROVE Launched(p, "edit", "editing")
<1> DEFINE cmd == Head(todo[p])
           inputs == {<<cmd.path, files[cmd.path].body.n>>}
           j == [JobOf(cmd, "replace", <<>>) EXCEPT !.inputs = inputs]
           ok == MayAuthor(cmd, cmd.path) /\ Exists(cmd.path) /\ cmd.key \in files[cmd.path].to
<1>1. Upcoming(p, "edit") /\ Launch(p, ok, j, "editing") /\ UNCHANGED <<world, files, runs, history>>
  BY DEF Edit
<1> HIDE DEF inputs
<1>2. j.cmd = Head(todo[p])
  BY JobOfFields DEF NoJob
<1> HIDE DEF j, ok
<1> QED BY <1>1, <1>2, LaunchedJob

LEMMA DeleteLaunched == ASSUME IndInv, NEW p \in Procs, Delete(p) PROVE Launched(p, "delete", "lock")
<1> DEFINE cmd == Head(todo[p])
           j == JobOf(cmd, "replace", <<Item(cmd.path, "output", NoFile)>>)
           ok == cmd.yes /\ Declares(cmd, "plan", cmd.path)
<1>1. Upcoming(p, "delete") /\ Launch(p, ok, j, "lock") /\ UNCHANGED <<world, files, runs, history>>
  BY DEF Delete
<1>2. j.cmd = Head(todo[p])
  BY JobOfFields
<1> HIDE DEF j, ok
<1> QED BY <1>1, <1>2, LaunchedJob

LEMMA BootstrapLaunched == ASSUME IndInv, NEW p \in Procs, Bootstrap(p) PROVE Launched(p, "bootstrap", "lock")
<1> DEFINE cmd == Head(todo[p])
           j == JobOf(cmd, "create", <<NewItem(cmd, cmd.path, <<cmd.input>>)>>)
           ok == /\ Declares(cmd, "bootstrap", cmd.path)
                 /\ cmd.key \in PlanOf(cmd).authorizers
                 /\ cmd.input # "empty"
<1>1. Upcoming(p, "bootstrap") /\ Launch(p, ok, j, "lock") /\ UNCHANGED <<world, files, runs, history>>
  BY DEF Bootstrap
<1>2. j.cmd = Head(todo[p])
  BY JobOfFields
<1> HIDE DEF j, ok
<1> QED BY <1>1, <1>2, LaunchedJob

LEMMA RekeyLaunched == ASSUME IndInv, NEW p \in Procs, Rekey(p) PROVE Launched(p, "rekey", "lock")
<1> DEFINE cmd == Head(todo[p])
           to == PlanOf(cmd).readers[cmd.path]
           j == [JobOf(cmd, "replace", <<ItemFrom(cmd.path, cmd.path)>>) EXCEPT !.to = to]
           ok == Exists(cmd.path) /\ cmd.yes /\ MayAuthor(cmd, cmd.path)
<1>1. Upcoming(p, "rekey") /\ Launch(p, ok, j, "lock") /\ UNCHANGED <<world, files, runs, history>>
  BY DEF Rekey
<1> HIDE DEF to
<1>2. j.cmd = Head(todo[p])
  BY JobOfFields DEF NoJob
<1> HIDE DEF j, ok
<1> QED BY <1>1, <1>2, LaunchedJob

\* Whose capability is presented, and how its job begins.
LEMMA RedeemLaunched ==
  ASSUME IndInv, NEW p \in Procs, Redeem(p)
  PROVE  /\ Launched(p, "redeem", "stdin")
         /\ pc'[p] = "idle" \/ \E e \in caps : /\ Accepted(e, job'[p].cmd)
                                               /\ job'[p].note = <<"spent", e>> /\ job'[p].mode = "create"
<1> DEFINE cmd == Head(todo[p])
           presented == {e \in caps : e.payload.id = cmd.capability /\ Accepted(e, cmd)}
           e0 == CHOOSE e \in presented : TRUE
           note == <<"spent", e0>>
           j == [JobOf(cmd, "create", <<>>) EXCEPT !.note = note]
           ok == presented # {}
<1>1. Upcoming(p, "redeem") /\ Launch(p, ok, j, "stdin") /\ UNCHANGED <<world, files, runs, history>>
  BY DEF Redeem
<1>2. ok => e0 \in caps /\ Accepted(e0, cmd)
  OBVIOUS
<1>3. note = <<"spent", e0>>
  OBVIOUS
<1> HIDE DEF note, e0
<1>4. j.cmd = Head(todo[p]) /\ j.note = note /\ j.mode = "create"
  BY JobOfFields DEF NoJob
<1> HIDE DEF j, ok
<1>5. /\ Launched(p, "redeem", "stdin")
      /\ pc'[p] = "idle" \/ (ok /\ pc'[p] = "stdin" /\ job'[p] = j)
  BY <1>1, <1>4, LaunchedJob
<1> QED BY <1>2, <1>3, <1>4, <1>5

LEMMA MigrateLaunched ==
  ASSUME IndInv, NEW p \in Procs, NEW o, NEW accepted, NEW items, Migrate(p, o, accepted, items)
  PROVE  Launched(p, o, "lock")
<1> DEFINE cmd == Head(todo[p])
           to == cmd.to
           j == [JobOf(cmd, ModeOf(cmd), items) EXCEPT !.to = to]
           ok == accepted /\ cmd.execute
<1>1. Upcoming(p, o) /\ Launch(p, ok, j, "lock") /\ UNCHANGED <<world, files, runs, history>>
  BY DEF Migrate
<1> HIDE DEF to
<1>2. j.cmd = Head(todo[p])
  BY JobOfFields DEF NoJob
<1> HIDE DEF j, ok
<1> QED BY <1>1, <1>2, LaunchedJob

LEMMA GenerateLaunched == ASSUME IndInv, NEW p \in Procs, Generate(p) PROVE Launched(p, "generate", "decide")
<1> DEFINE cmd == Head(todo[p])
           plan == Plans[cmd.plan]
           order == CollectGeneratorOrder(plan, cmd.generator)
           asks == Asked(cmd, plan, order)
           j == [NoJob EXCEPT !.cmd = cmd, !.order = order, !.next = 1, !.asks = asks]
           ok == /\ AllDeclared(plan, cmd.generator, order)
                 /\ ~Exists(LegacyPromptState)
                 /\ \A g \in Range(order) : \A d \in Range(plan.generators[g].outputs) :
                      Authorized(plan, d, cmd.key)
                 /\ PromptsResolve(cmd, plan, order)
<1>1. Upcoming(p, "generate") /\ Launch(p, ok, j, "decide") /\ UNCHANGED <<world, files, runs, history>>
  BY DEF Generate
<1> HIDE DEF order, asks
<1>2. j.cmd = Head(todo[p])
  BY DEF NoJob
<1> HIDE DEF j, ok
<1> QED BY <1>1, <1>2, LaunchedJob

\* Every launch but a decryptor's.
Launchers(p) ==
  \/ Generate(p) \/ Write(p) \/ Batch(p) \/ Edit(p) \/ Rekey(p) \/ Delete(p) \/ Bootstrap(p) \/ Redeem(p)
  \/ MigrateCiphertext(p) \/ MigrateTree(p) \/ MigrateClan(p)

LEMMA LaunchersLaunch ==
  ASSUME IndInv, NEW p \in Procs, Launchers(p)
  PROVE  \/ Launched(p, "generate", "decide") \/ Launched(p, "edit", "editing") \/ Launched(p, "redeem", "stdin")
         \/ \E o \in {"write", "batch", "delete", "bootstrap", "rekey", "ciphertext", "tree", "plain"} :
              Launched(p, o, "lock")
<1>1. MigrateCiphertext(p) => \E accepted, items : Migrate(p, "ciphertext", accepted, items)
  BY DEF MigrateCiphertext
<1>2. MigrateTree(p) => \E accepted, items : Migrate(p, "tree", accepted, items)
  BY DEF MigrateTree
<1>3. MigrateClan(p) => \E accepted, items : Migrate(p, "plain", accepted, items)
  BY DEF MigrateClan
<1> QED BY <1>1, <1>2, <1>3, WriteLaunched, BatchLaunched, EditLaunched, DeleteLaunched, BootstrapLaunched,
       RekeyLaunched, RedeemLaunched, MigrateLaunched, GenerateLaunched DEF Launchers

\* The steps between a launch and the lock.
Prepares(p) ==
  Decide(p) \/ Values(p) \/ GeneratorExits(p) \/ Persist(p) \/ EditorSaves(p) \/ RedeemReads(p)

LEMMA PreparesSteps ==
  ASSUME IndInv, NEW p \in Procs, Prepares(p)
  PROVE  /\ UNCHANGED <<files, history, caps>>
         /\ \/ pc'[p] = "idle" /\ job'[p] = NoJob
            \/ /\ pc'[p] \in {"decide", "values", "running", "lock"} /\ job'[p].cmd = job[p].cmd
               /\ Cmd(p).op \in {"generate", "edit", "redeem"}
               /\ pc[p] \in {"decide", "values", "running", "persist", "editing", "stdin"}
<1>1. JobOK(job[p], pc[p])
  BY DEF IndInv, JobInv
<1>2. UNCHANGED <<files, history, caps>>
  BY DEF Prepares, Decide, Values, GeneratorExits, Persist, EditorSaves, RedeemReads, world
<1>3. pc[p] \in {"decide", "values", "running", "persist", "editing", "stdin"}
  BY DEF Prepares, Decide, Values, GeneratorExits, Persist, EditorSaves, RedeemReads
<1>4. Cmd(p).op \in {"generate", "edit", "redeem"} /\ DOMAIN job[p] = DOMAIN NoJob
  BY <1>1, <1>3 DEF JobOK, Cmd
<1>5. CASE Return(p)
  BY <1>2, <1>5, ReturnFrame
<1>6. CASE ~Return(p)
  <2>1. \/ \E action : Update(p, [job[p] EXCEPT !.mode = action]) /\ Goto(p, "values")
        \/ \E next : Update(p, [job[p] EXCEPT !.next = next, !.items = <<>>, !.note = <<>>, !.answer = NoAnswer,
                                                !.inputs = {}]) /\ Goto(p, "decide")
        \/ \E items : Update(p, [job[p] EXCEPT !.items = items]) /\ Goto(p, "lock")
        \/ \E answer, inputs : Update(p, [job[p] EXCEPT !.answer = answer, !.inputs = inputs]) /\ Goto(p, "running")
        \/ \E j : Produced(p, j) /\ j.cmd = job[p].cmd /\ DOMAIN j = DOMAIN NoJob
    <3>1. CASE Decide(p) \/ Persist(p)
      BY <1>4, <1>6, <3>1 DEF Decide, Persist, Advance, NoJob
    <3>2. CASE EditorSaves(p) \/ RedeemReads(p)
      BY <1>6, <3>2 DEF EditorSaves, RedeemReads
    <3>3. CASE GeneratorExits(p)
      BY <1>4, <3>3 DEF GeneratorExits
    <3>4. CASE Values(p)
      <4> DEFINE inputs == {<<d, files[d].body.n, files[d].body.by>> : d \in Range(Decl(p).inputs)}
                 answer == Answer(p)
                 j == [job[p] EXCEPT !.answer = answer, !.inputs = inputs]
                 i == [j EXCEPT !.inputs = {}]
      <4>1. Produced(p, i) \/ (Update(p, j) /\ Goto(p, "running"))
        BY <3>4 DEF Values
      <4> HIDE DEF inputs, answer
      <4>2. i.cmd = job[p].cmd /\ DOMAIN i = DOMAIN NoJob
        BY <1>4 DEF NoJob
      <4> HIDE DEF i
      <4> QED BY <4>1, <4>2
    <3> QED BY <3>1, <3>2, <3>3, <3>4 DEF Prepares
  <2>2. pc'[p] \in {"decide", "values", "running", "lock"}
    BY <2>1 DEF Produced, Goto, IndInv, SharedInv
  <2>3. job'[p].cmd = job[p].cmd
    <3> USE <1>4 DEF Update, IndInv, SharedInv, NoJob
    <3>1. CASE \E action : Update(p, [job[p] EXCEPT !.mode = action])
      BY <3>1
    <3>2. CASE \E next : Update(p, [job[p] EXCEPT !.next = next, !.items = <<>>, !.note = <<>>,
                                                 !.answer = NoAnswer, !.inputs = {}])
      BY <3>2
    <3>3. CASE \E items : Update(p, [job[p] EXCEPT !.items = items])
      BY <3>3
    <3>4. CASE \E answer, inputs : Update(p, [job[p] EXCEPT !.answer = answer, !.inputs = inputs])
      BY <3>4
    <3>5. CASE \E j : Produced(p, j) /\ j.cmd = job[p].cmd /\ DOMAIN j = DOMAIN NoJob
      BY <3>5 DEF Produced
    <3> QED BY <2>1, <3>1, <3>2, <3>3, <3>4, <3>5
  <2> QED BY <1>2, <1>3, <1>4, <2>2, <2>3
<1> QED BY <1>5, <1>6

\* Staging fills the items in.
LEMMA StagesSteps ==
  ASSUME IndInv, NEW p \in Procs, NEW items, pc[p] = "stage", StageItems(p, items)
  PROVE  /\ UNCHANGED <<files, history, caps>>
         /\ pc'[p] = IF IsBatch(job[p].cmd) THEN "backup" ELSE "commit"
         /\ job'[p].cmd = job[p].cmd /\ job'[p].items = items /\ job'[p].at = 1 /\ job'[p].mode = job[p].mode
         /\ job'[p].note = job[p].note /\ job'[p].order = job[p].order /\ job'[p].next = job[p].next
         /\ job'[p].answer = job[p].answer
<1>1. DOMAIN job[p] = DOMAIN NoJob
  BY DEF IndInv, JobInv, JobOK
<1>2. job'[p] = [job[p] EXCEPT !.items = items, !.at = 1]
  BY DEF StageItems, Update, IndInv, SharedInv
<1>3. UNCHANGED <<files, history, caps>> /\ pc'[p] = IF IsBatch(job[p].cmd) THEN "backup" ELSE "commit"
  BY DEF StageItems, Goto, Cmd, IndInv, SharedInv, world
<1> QED BY <1>1, <1>2, <1>3 DEF NoJob

\* A transaction goes from item to item.
LEMMA ItemSteps ==
  ASSUME IndInv, NEW p \in Procs, Backup(p) \/ Commit(p)
  PROVE  /\ UNCHANGED <<history, caps, prompts, lock>>
         /\ job'[p].cmd = job[p].cmd /\ job'[p].items = job[p].items /\ job'[p].mode = job[p].mode
         /\ job'[p].note = job[p].note /\ job'[p].order = job[p].order /\ job'[p].next = job[p].next
         /\ job'[p].answer = job[p].answer
         /\ \/ pc'[p] = pc[p] /\ job[p].at < Len(job[p].items) /\ job'[p].at = job[p].at + 1
            \/ pc[p] = "backup" /\ pc'[p] = "commit" /\ job[p].at = Len(job[p].items) /\ job'[p].at = 1
<1>1. DOMAIN job[p] = DOMAIN NoJob /\ pc[p] \in {"backup", "commit"} /\ job[p].at \in 1 .. Len(job[p].items)
      /\ Len(job[p].items) \in Nat
  BY ItemAtHand DEF JobOK, Backup, Commit
<1>2. UNCHANGED <<history, caps, prompts, lock>>
  BY DEF Backup, Commit, world
<1>3. \E n : /\ job'[p] = [job[p] EXCEPT !.at = n]
             /\ \/ pc'[p] = pc[p] /\ job[p].at < Len(job[p].items) /\ n = job[p].at + 1
                \/ pc[p] = "backup" /\ pc'[p] = "commit" /\ job[p].at = Len(job[p].items) /\ n = 1
  <2>1. DOMAIN job = Procs /\ DOMAIN pc = Procs
    BY DEF IndInv, SharedInv
  <2>2. CASE Commit(p)
    BY <1>1, <2>1, <2>2 DEF Commit, Update, NoJob
  <2>3. CASE Backup(p) /\ job[p].at < Len(job[p].items)
    <3>1. job'[p] = [job[p] EXCEPT !.at = job[p].at + 1] /\ pc' = pc
      BY <1>1, <2>1, <2>3 DEF Backup, NextItem, Update, NoJob
    <3> QED BY <2>3, <3>1
  <2>4. CASE Backup(p) /\ ~(job[p].at < Len(job[p].items))
    <3>1. job'[p] = [job[p] EXCEPT !.at = 1] /\ pc'[p] = "commit" /\ pc[p] = "backup"
      BY <1>1, <2>1, <2>4 DEF Backup, NextItem, Update, Goto, NoJob
    <3>2. job[p].at = Len(job[p].items)
      BY <1>1, <2>4
    <3> QED BY <3>1, <3>2
  <2> QED BY <2>2, <2>3, <2>4
<1> QED BY <1>1, <1>2, <1>3 DEF NoJob

\* What becomes of the files.
LEMMA RenamesFiles ==
  ASSUME NEW p \in Procs, Renames(p)
  PROVE  LET item == job[p].items[job[p].at]
         IN \/ /\ pc[p] = "backup" /\ Backup(p)
               /\ files' = IF NeedsBackup(item, job[p].mode) THEN [files EXCEPT ![item.path] = NoFile] ELSE files
            \/ pc[p] = "commit" /\ files' = [files EXCEPT ![item.path] = item.file]
BY DEF Renames, Backup, Commit, CommitLast

\* The end of a transaction.
LEMMA LastSteps ==
  ASSUME IndInv, NEW p \in Procs, CommitLast(p)
  PROVE  /\ pc[p] = "commit" /\ job[p].at = Len(job[p].items)
         /\ pc'[p] = "idle" \/ (pc'[p] = "persist" /\ job'[p].cmd.op = "generate" /\ job[p].cmd.op = "generate")
<1>1. CASE Cmd(p).op = "generate"
  BY <1>1, CommittedJob DEF CommitLast, Cmd
<1>2. CASE Cmd(p).op # "generate"
  <2>1. Return(p)
    BY <1>2 DEF CommitLast
  <2> QED BY <2>1, ReturnFrame DEF CommitLast
<1> QED BY <1>1, <1>2

\* Every step is of one of these kinds.
Returns(p) ==
  \/ StageFails(p) \/ StageCopiesFails(p) \/ Killed(p) \/ ValuesRefused(p) \/ GeneratorFails(p)
  \/ PersistFails(p) \/ EditorFails(p) \/ Join(p)
Decrypts(p) ==
  \/ OpenExternal(p) \/ ReadOutput(p) \/ ReadFails(p) \/ Check(p) \/ CheckFails(p) \/ CheckTimesOut(p)
  \/ TerminateExternal(p) \/ ThreadNext(p) \/ DecryptorNext(p)

LEMMA Kinds ==
  ASSUME NEW p \in Procs, Moves(p)
  PROVE  \/ Returns(p) \/ Launchers(p) \/ StartExternal(p) \/ Prepares(p) \/ Acquire(p) \/ Stage(p)
         \/ StageCopies(p) \/ Backup(p) \/ Commit(p) \/ CommitLast(p) \/ Issue(p) \/ Decrypts(p)
BY DEF Moves, ProcessNext, RepositoryNext, GeneratorNext, SecretNext, MigrationNext, Returns, Launchers,
       Prepares, Decrypts

LEMMA ReturnsSteps ==
  ASSUME IndInv, NEW p \in Procs, Returns(p)
  PROVE  pc'[p] = "idle" /\ job'[p] = NoJob /\ UNCHANGED <<world, files, history>>
<1>1. Return(p) /\ UNCHANGED <<world, files, todo, runs, history>>
  BY ReturnersFrame DEF Returns
<1> QED BY <1>1, ReturnFrame

LEMMA DecryptsSteps ==
  ASSUME IndInv, NEW p \in Procs, Frame(p), Decrypts(p)
  PROVE  /\ pc[p] # "idle" /\ Cmd(p).op = "external" /\ UNCHANGED <<files, history, caps, prompts>>
         /\ job'[p].cmd = job[p].cmd /\ DOMAIN job[p] = DOMAIN NoJob
<1>1. UNCHANGED <<files, history, caps, prompts>>
  BY DEF Decrypts, OpenExternal, ReadOutput, ReadFails, Check, CheckFails, CheckTimesOut, TerminateExternal,
         ThreadNext, DecryptorNext, WriterBreaks, WatchdogFires, Feed, SourceFails, ChildForks, HelperExits,
         ChildCloses, ChildExits, Only, world
<1>2. CASE ThreadNext(p) \/ DecryptorNext(p) \/ TerminateExternal(p)
  <2>1. pc[p] # "idle" /\ Cmd(p).op = "external" /\ job'[p].cmd = job[p].cmd
    BY <1>2, ThreadSteps
  <2> QED BY <1>1, <2>1, IsExternal
<1>3. CASE \/ OpenExternal(p) \/ ReadOutput(p) \/ ReadFails(p) \/ Check(p) \/ CheckFails(p) \/ CheckTimesOut(p)
  <2>1. pc[p] # "idle" /\ Cmd(p).op = "external" /\ DOMAIN job[p] = DOMAIN NoJob
    BY <1>3, IsExternal DEF OpenExternal, ReadOutput, ReadFails, Check, CheckFails, CheckTimesOut
  <2>2. \/ job'[p] = job[p]
        \/ \E items : job'[p] = [job[p] EXCEPT !.items = items]
        \/ \E n : job'[p] = [job[p] EXCEPT !.at = n]
        \/ job'[p] = Terminated(job[p])
    <3>1. DOMAIN job = Procs
      BY DEF IndInv, SharedInv
    <3>2. CASE OpenExternal(p) \/ ReadFails(p) \/ CheckFails(p)
      BY <3>2 DEF OpenExternal, ReadFails, CheckFails
    <3>3. CASE ReadOutput(p) /\ job[p].whole
      BY <3>1, <3>3 DEF ReadOutput, Update
    <3>4. CASE ReadOutput(p) /\ ~job[p].whole
      BY <3>1, <3>4 DEF ReadOutput, Update
    <3>5. CASE Check(p) \/ CheckTimesOut(p)
      BY <3>1, <3>5 DEF Check, CheckTimesOut, Update
    <3> QED BY <1>3, <3>2, <3>3, <3>4, <3>5
  <2>3. Terminated(job[p]).cmd = job[p].cmd
    BY <2>1, TerminatedFields
  <2>4. job'[p].cmd = job[p].cmd
    BY <2>1, <2>2, <2>3 DEF NoJob
  <2> QED BY <1>1, <2>1, <2>4
<1> QED BY <1>2, <1>3 DEF Decrypts

-----------------------------------------------------------------------------
(* Migrated documents *)

LEMMA WholeFiles ==
  ASSUME IndInv, MigratedIsWhole, NEW p \in Procs, WholeInv(p), Moves(p)
  PROVE  MigratedIsWhole'
<1>1. Frame(p)
  BY Framed
<1>0. ReadsAll' => ReadsAll
  BY <1>1 DEF Frame, ReadsAll, Fails
<1>2. CASE files' = files
  BY <1>0, <1>2 DEF MigratedIsWhole, Exists
<1>3. CASE Renames(p)
  <2> DEFINE item == job[p].items[job[p].at]
  <2>1. CASE files' = files \/ files' = [files EXCEPT ![item.path] = NoFile]
    BY <1>0, <2>1 DEF MigratedIsWhole, Exists, IndInv, SharedInv
  <2>2. CASE pc[p] = "commit" /\ files' = [files EXCEPT ![item.path] = item.file]
    <3>1. job[p].at \in DOMAIN job[p].items /\ Made(job[p])
      BY <2>2, ItemAtHand
    <3>2. ReadsAll /\ item.file # NoFile => item.file.body.part # <<"truncated">>
      <4>1. CASE Cmd(p).op \in InMemory \ {"generate"}
        BY <3>1, <4>1 DEF Made, Cmd
      <4>2. CASE Cmd(p).op = "generate"
        BY <3>1, <4>2 DEF Made, GeneratorMade, Cmd
      <4>3. CASE Cmd(p).op \in Copying \cup {"external"}
        BY <2>2, <3>1, <4>3 DEF WholeInv, DecryptorInv, HasTruncated, IsTruncated, Cmd
      <4> QED BY <2>2, <4>1, <4>2, <4>3 DEF WholeInv, Cmd
    <3> HIDE DEF item
    <3> QED BY <1>0, <2>2, <3>2 DEF MigratedIsWhole, Exists, IndInv, SharedInv
  <2> QED BY <1>3, <2>1, <2>2, RenamesFiles
<1> QED BY <1>1, <1>2, <1>3 DEF Frame

\* What a command makes of a document it decrypts.
LEMMA WholeExternal ==
  ASSUME IndInv, MigratedIsWhole, NEW p \in Procs, WholeInv(p), StartExternal(p)
  PROVE  WholeInv(p)'
<1> DEFINE cmd == Head(todo[p])
           to == cmd.to
           file == [files[cmd.source] EXCEPT !.to = to]
           x == Item(cmd.path, "output", file)
           j == [JobOf(cmd, ModeOf(cmd), <<x>>) EXCEPT !.child = "running", !.writer = "feeding", !.watchdog = TRUE]
           ok == cmd.to # {} /\ cmd.execute /\ Exists(cmd.source)
<1>1. Upcoming(p, "external") /\ Launch(p, ok, j, "lock") /\ UNCHANGED <<world, files, runs, history>>
  BY DEF StartExternal
<1>2. cmd.source \in Paths
  BY <1>1, NextCommand, MigrationAssumption
<1>3. ReadsAll /\ ok => ~IsTruncated(file)
  <2>1. ReadsAll /\ ok => IsFile(files[cmd.source]) /\ files[cmd.source].body.part # <<"truncated">>
    BY <1>2 DEF MigratedIsWhole, IndInv, SharedInv
  <2> HIDE DEF to
  <2> QED BY <2>1 DEF IsTruncated, IsFile
<1> HIDE DEF file
<1>4. x.file = file
  BY ItemFields
<1> HIDE DEF x
<1>5. j.cmd = cmd /\ j.items = <<x>> /\ j.child = "running"
  BY JobOfFields DEF NoJob
<1>6. DOMAIN <<x>> = {1} /\ <<x>>[1] = x
  BY SingletonSeq
<1> HIDE DEF j
<1>7. ReadsAll /\ ok => ~HasTruncated(j)
  BY <1>3, <1>4, <1>5, <1>6 DEF HasTruncated
<1> HIDE DEF ok
<1>8. pc'[p] = "idle" \/ (ok /\ pc'[p] = "lock" /\ job'[p] = j)
  BY <1>1, <1>5, LaunchedJob
<1>9. ReadsAll' => ReadsAll
  BY <1>1 DEF world, ReadsAll, Fails
<1> QED BY <1>5, <1>7, <1>8, <1>9 DEF WholeInv, DecryptorInv

\* What its threads, its child and its check make of it.
LEMMA WholeDecrypts ==
  ASSUME IndInv, NEW p \in Procs, Frame(p), WholeInv(p), Decrypts(p)
  PROVE  WholeInv(p)'
<1> DEFINE j == job[p]
<1>1. /\ pc[p] # "idle" /\ j.cmd.op = "external" /\ DOMAIN j = DOMAIN NoJob /\ job'[p].cmd = job[p].cmd
  BY DecryptsSteps DEF Cmd
<1>2. DOMAIN job = Procs /\ DOMAIN pc = Procs
  BY DEF IndInv, SharedInv
<1>3. ReadsAll' => ReadsAll
  BY DEF Frame, ReadsAll, Fails
<1>4. SUFFICES ASSUME ReadsAll, DecryptorInv(p) PROVE DecryptorInv(p)'
  <2>1. job'[p].cmd.op = "external" /\ "external" \notin Copying
    BY <1>1 DEF Copying
  <2> QED BY <1>1, <1>3, <2>1 DEF WholeInv
<1> USE DEF DecryptorInv
<1>5. CASE OpenExternal(p) \/ ReadFails(p) \/ CheckFails(p)
  <2>1. job' = job /\ (pc'[p] = "join" \/ pc[p] = "stage")
    BY <1>2, <1>5 DEF OpenExternal, ReadFails, CheckFails, Goto
  <2> QED BY <1>4, <2>1
<1>6. CASE ReadOutput(p)
  <2>1. /\ pc'[p] = "check" /\ pc[p] = "reading" /\ j.child # "running"
        /\ job'[p] = IF j.whole THEN j ELSE [j EXCEPT !.items = <<Truncated(j.items[1])>>]
    BY <1>2, <1>6 DEF ReadOutput, Goto, Update, AtEnd
  <2>2. job'[p].child = j.child /\ job'[p].writer = j.writer /\ job'[p].whole = j.whole
        /\ job'[p].helper = j.helper
    BY <1>1, <2>1 DEF NoJob
  <2>3. j.whole => ~HasTruncated(job'[p])
    BY <1>4, <2>1
  <2> QED BY <1>4, <2>1, <2>2, <2>3
<1>7. CASE Check(p)
  <2>1. /\ pc'[p] = "commit" /\ pc[p] = "check" /\ j.child = "ok" /\ j.writer = "done"
        /\ job'[p] = [j EXCEPT !.at = 1]
    BY <1>2, <1>7 DEF Check, CheckPasses, Goto, Update
  <2>2. job'[p].child = j.child /\ job'[p].writer = j.writer /\ job'[p].whole = j.whole /\ job'[p].items = j.items
        /\ job'[p].helper = j.helper
    BY <1>1, <2>1 DEF NoJob
  <2>3. HasTruncated(job'[p]) => HasTruncated(j)
    BY <2>2 DEF HasTruncated
  <2> QED BY <1>4, <2>1, <2>2, <2>3
<1>8. CASE CheckTimesOut(p) \/ TerminateExternal(p) \/ WatchdogFires(p)
  <2> DEFINE t == Terminated(j)
  <2>1. /\ job'[p] = t \/ job'[p] = [t EXCEPT !.watchdog = FALSE]
        /\ pc'[p] = "join" \/ pc' = pc
    BY <1>2, <1>8 DEF CheckTimesOut, TerminateExternal, WatchdogFires, Only, Goto, Update
  <2>2. /\ DOMAIN t = DOMAIN NoJob /\ t.items = j.items /\ t.whole = j.whole /\ t.writer = j.writer
        /\ t.child = IF j.child \in {"running", "closed"} THEN "failed" ELSE j.child
        /\ t.child = "ok" => t.helper = j.helper
    BY <1>1, TerminatedFields
  <2> HIDE DEF t
  <2>3. /\ job'[p].items = j.items /\ job'[p].whole = j.whole /\ job'[p].writer = j.writer
        /\ job'[p].child = IF j.child \in {"running", "closed"} THEN "failed" ELSE j.child
        /\ job'[p].child = "ok" => job'[p].helper = j.helper
    BY <2>1, <2>2 DEF NoJob
  <2>4. HasTruncated(job'[p]) => HasTruncated(j)
    BY <2>3 DEF HasTruncated
  <2> QED BY <1>4, <2>1, <2>3, <2>4
<1>9. CASE WriterBreaks(p) \/ DecryptorNext(p)
  <2>1. pc' = pc
    BY <1>9 DEF WriterBreaks, DecryptorNext, Feed, SourceFails, ChildForks, HelperExits,
         ChildCloses, ChildExits, Only
  <2>2. job'[p].items = j.items
    BY <1>9, ThreadSteps DEF ThreadNext
  <2>3. HasTruncated(job'[p]) => HasTruncated(j)
    BY <2>2 DEF HasTruncated
  <2> USE DEF Only, Update
  <2>4. CASE Feed(p)
    <3>1. /\ j.child \in {"running", "closed"} \/ (j.writer = "feeding" /\ j.helper)
          /\ job'[p] = [j EXCEPT !.writer = "done"]
      BY <1>2, <2>4 DEF Feed, HasReader, Running
    <3>2. job'[p].child = j.child /\ job'[p].whole = j.whole /\ job'[p].writer = "done"
      BY <1>1, <3>1 DEF NoJob
    <3> QED BY <1>4, <2>1, <2>3, <3>1, <3>2
  <2>5. CASE SourceFails(p) \/ WriterBreaks(p)
    <3>1. job'[p] = [j EXCEPT !.writer = "broken"]
      BY <1>2, <2>5 DEF SourceFails, WriterBreaks
    <3>2. job'[p].child = j.child /\ job'[p].whole = j.whole /\ job'[p].writer = "broken"
      BY <1>1, <3>1 DEF NoJob
    <3> QED BY <1>4, <2>1, <2>3, <3>2
  <2>6. CASE ChildForks(p) \/ HelperExits(p)
    <3>1. \E h : /\ job'[p] = [j EXCEPT !.helper = h]
                 /\ j.child = "ok" => h = FALSE
      BY <1>2, <2>6 DEF ChildForks, HelperExits
    <3>2. /\ job'[p].child = j.child /\ job'[p].whole = j.whole /\ job'[p].writer = j.writer
          /\ j.child = "ok" => ~job'[p].helper
      BY <1>1, <3>1 DEF NoJob
    <3> QED BY <1>4, <2>1, <2>3, <3>2
  <2>7. CASE ChildCloses(p)
    <3>1. j.child = "running" /\ \E whole : job'[p] = [j EXCEPT !.child = "closed", !.whole = whole]
      BY <1>2, <2>7 DEF ChildCloses
    <3>2. job'[p].child = "closed"
      BY <1>1, <3>1 DEF NoJob
    <3> QED BY <1>4, <2>1, <2>3, <3>1, <3>2
  <2>8. CASE ChildExits(p)
    <3> DEFINE done == j.writer = "done"
    <3>1. \/ \E whole \in {done} :
               /\ j.child \in {"running", "closed"} /\ (j.child = "closed" => whole = j.whole)
               /\ ~(j.writer = "feeding" /\ j.helper)
               /\ job'[p] = [j EXCEPT !.child = "ok", !.whole = whole]
          \/ job'[p] = [j EXCEPT !.child = "failed"]
      BY <1>2, <1>4, <2>8, ZenonT(30) DEF ChildExits, Running
    <3>2. \/ /\ j.child \in {"running", "closed"} /\ (j.child = "closed" => done = j.whole)
             /\ ~(j.writer = "feeding" /\ j.helper)
             /\ job'[p].child = "ok" /\ job'[p].writer = j.writer /\ job'[p].whole = done
             /\ job'[p].helper = j.helper
          \/ job'[p].child = "failed"
      BY <1>1, <3>1 DEF NoJob
    <3> QED BY <1>4, <2>1, <2>3, <3>2
  <2> QED BY <1>9, <2>4, <2>5, <2>6, <2>7, <2>8 DEF DecryptorNext
<1> QED BY <1>5, <1>6, <1>7, <1>8, <1>9 DEF Decrypts, ThreadNext

\* What is copied under the lock is what files hold.
LEMMA WholeCopies ==
  ASSUME IndInv, MigratedIsWhole, NEW p \in Procs, StageCopies(p)
  PROVE  WholeInv(p)'
<1> DEFINE old == job[p].items
           items == [i \in DOMAIN old |-> Copied(old[i], job[p].to)]
<1>1. pc[p] = "stage" /\ Cmd(p).op \in Copying /\ Copyable(p) /\ StageItems(p, items)
  BY DEF StageCopies
<1>2. JobOK(job[p], "stage") /\ Made(job[p])
  BY <1>1 DEF IndInv, JobInv, MadeInv, Prepared, Held
<1>3. ASSUME NEW i \in DOMAIN old
      PROVE  ReadsAll => ~IsTruncated(items[i].file)
  <2> DEFINE f == files[old[i].from]
             to == job[p].to
  <2>1. IsItem(old[i]) /\ items[i] = [old[i] EXCEPT !.file = [f EXCEPT !.to = to]]
    BY <1>2 DEF JobOK, ItemsInv, Copied
  <2>2. old[i].from \in Paths /\ Exists(old[i].from)
    BY <1>1, <1>2 DEF Made, Cmd, Copyable, Sources
  <2>3. IsFile(f) /\ (ReadsAll => f.body.part # <<"truncated">>)
    BY <2>2 DEF IndInv, SharedInv, MigratedIsWhole
  <2> HIDE DEF f, to, items
  <2>4. items[i].file = [f EXCEPT !.to = to]
    BY <2>1 DEF IsItem
  <2> QED BY <2>3, <2>4 DEF IsTruncated, IsFile
<1>4. DOMAIN items = DOMAIN old
  OBVIOUS
<1> HIDE DEF items
<1>5. job'[p].cmd = job[p].cmd /\ job'[p].items = items
  BY <1>1, StagesSteps
<1>6. ReadsAll => ~HasTruncated(job'[p])
  BY <1>3, <1>4, <1>5 DEF HasTruncated
<1>7. job'[p].cmd.op \in Copying /\ job'[p].cmd.op # "external"
  BY <1>1, <1>5 DEF Cmd, Copying
<1>8. ReadsAll' => ReadsAll
  BY <1>1 DEF StageItems, world, ReadsAll, Fails
<1> QED BY <1>6, <1>7, <1>8 DEF WholeInv

LEMMA WholeMoves ==
  ASSUME IndInv, MigratedIsWhole, NEW p \in Procs, WholeInv(p), Moves(p)
  PROVE  WholeInv(p)'
<1>1. Frame(p)
  BY Framed
<1>0. ReadsAll' => ReadsAll
  BY <1>1 DEF Frame, ReadsAll, Fails
<1>2. CASE Returns(p)
  BY <1>2, ReturnsSteps DEF WholeInv
<1>3. CASE Launchers(p)
  BY <1>3, LaunchersLaunch DEF WholeInv, Launched
<1>4. CASE Prepares(p)
  BY <1>4, PreparesSteps DEF WholeInv, Cmd
<1>5. CASE Acquire(p)
  <2>1. job'[p] = job[p] /\ pc[p] = "lock" /\ pc'[p] = "stage"
    BY <1>5 DEF Acquire, Goto, IndInv, SharedInv
  <2> QED BY <1>0, <2>1 DEF WholeInv, DecryptorInv
<1>6. CASE Stage(p)
  <2>1. Cmd(p).op \in InMemory /\ job'[p].cmd = job[p].cmd
    BY <1>6, StagesSteps DEF Stage
  <2> QED BY <2>1 DEF WholeInv, Cmd, InMemory, Copying
<1>7. CASE Backup(p) \/ Commit(p)
  <2>1. pc[p] \in {"backup", "commit"} /\ pc'[p] \in {"backup", "commit"}
    BY <1>7, ItemSteps DEF Backup, Commit
  <2>2. job'[p].cmd = job[p].cmd /\ job'[p].items = job[p].items
    BY <1>7, ItemSteps
  <2>3. HasTruncated(job'[p]) => HasTruncated(job[p])
    BY <2>2 DEF HasTruncated
  <2>4. job[p].cmd.op = "external" => job'[p].child = job[p].child /\ job'[p].whole = job[p].whole
                                      /\ job'[p].writer = job[p].writer /\ job'[p].helper = job[p].helper
    <3>1. DOMAIN job[p] = DOMAIN NoJob
      BY <2>1, ItemAtHand DEF JobOK
    <3>2. \E n : job'[p] = [job[p] EXCEPT !.at = n]
      BY <1>7, <3>1 DEF Backup, Commit, NextItem, Update, IndInv, SharedInv, NoJob
    <3> QED BY <3>1, <3>2 DEF NoJob
  <2> QED BY <1>0, <2>1, <2>2, <2>3, <2>4 DEF WholeInv, DecryptorInv
<1>8. CASE CommitLast(p)
  BY <1>8, LastSteps DEF WholeInv
<1>9. CASE Issue(p)
  BY <1>0, <1>9 DEF Issue, WholeInv, DecryptorInv
<1>10. CASE StartExternal(p) \/ StageCopies(p) \/ Decrypts(p)
  BY <1>1, <1>10, WholeExternal, WholeCopies, WholeDecrypts
<1> QED BY <1>2, <1>3, <1>4, <1>5, <1>6, <1>7, <1>8, <1>9, <1>10, Kinds

LEMMA WholeInductive == Spec => [](MigratedIsWhole /\ \A p \in Procs : WholeInv(p))
<1> DEFINE Inv == MigratedIsWhole /\ \A p \in Procs : WholeInv(p)
<1>1. Init => Inv
  <2> SUFFICES ASSUME Init PROVE Inv
    OBVIOUS
  <2>1. MigratedIsWhole
    BY MigrationAssumption DEF Init, MigratedIsWhole, Exists
  <2>2. \A p \in Procs : WholeInv(p)
    BY DEF Init, WholeInv
  <2> QED BY <2>1, <2>2
<1>2. IndInv /\ Inv /\ [Next]_vars => Inv'
  <2> SUFFICES ASSUME IndInv, Inv, [Next]_vars PROVE Inv'
    OBVIOUS
  <2>1. CASE Tick \/ UNCHANGED vars
    BY <2>1 DEF Tick, vars, MigratedIsWhole, Exists, WholeInv, DecryptorInv, ReadsAll, Fails
  <2>2. ASSUME NEW p \in Procs, Moves(p) PROVE Inv'
    <3>1. MigratedIsWhole' /\ WholeInv(p)'
      BY <2>2, WholeFiles, WholeMoves
    <3>2. Frame(p)
      BY <2>2, Framed
    <3>3. ASSUME NEW q \in Procs \ {p} PROVE WholeInv(q)'
      BY <3>2, <3>3 DEF Frame, WholeInv, DecryptorInv, ReadsAll, Fails
    <3> QED BY <3>1, <3>3
  <2> QED BY <2>1, <2>2 DEF Next, Moves
<1> QED BY <1>1, <1>2, CommandsInductive, PTL DEF Spec

\* Ciphertext made from the output of a decryptor that failed, was killed or timed
\* out, or was not handed its whole source, is never shown, for any commands,
\* faults and order of the decryptor's, its helper's, the writer's and the
\* watchdog's steps, as long as a decryptor that succeeds has read what it was
\* handed.  (pipe_migration_source, write_secret_checked's final_input_check)
THEOREM MigratedIsAlwaysWhole == Spec => []MigratedIsWhole
BY WholeInductive, PTL

-----------------------------------------------------------------------------
(* Copies under the lock *)

LEMMA ExternalLaunched == ASSUME IndInv, NEW p \in Procs, StartExternal(p) PROVE Launched(p, "external", "lock")
<1> DEFINE cmd == Head(todo[p])
           to == cmd.to
           items == <<Item(cmd.path, "output", [files[cmd.source] EXCEPT !.to = to])>>
           j == [JobOf(cmd, ModeOf(cmd), items) EXCEPT !.child = "running", !.writer = "feeding", !.watchdog = TRUE]
           ok == cmd.to # {} /\ cmd.execute /\ Exists(cmd.source)
<1>1. Upcoming(p, "external") /\ Launch(p, ok, j, "lock") /\ UNCHANGED <<world, files, runs, history>>
  BY DEF StartExternal
<1> HIDE DEF items
<1>2. j.cmd = Head(todo[p])
  BY JobOfFields DEF NoJob
<1> HIDE DEF j, ok
<1> QED BY <1>1, <1>2, LaunchedJob

\* Nobody else changes a file while q is under the lock.
LEMMA OthersFiles ==
  ASSUME IndInv, NEW p \in Procs, Frame(p), NEW q \in Procs \ {p}, pc[q] \in Held
  PROVE  files' = files
<1>1. Renames(p) => pc[p] \in Held
  BY DEF Renames, Backup, Commit, CommitLast, Held
<1> QED BY <1>1 DEF Frame, IndInv, JobInv

\* The steps into a transaction, and inside one.
LEMMA TransactionSteps ==
  ASSUME IndInv, NEW p \in Procs, Moves(p), pc'[p] \in {"backup", "commit"}
  PROVE  Stage(p) \/ StageCopies(p) \/ Backup(p) \/ Commit(p) \/ Decrypts(p)
<1>1. Returns(p) => pc'[p] = "idle"
  BY ReturnsSteps
<1>2. Launchers(p) => pc'[p] \in {"idle", "decide", "editing", "stdin", "lock"}
  BY LaunchersLaunch DEF Launched
<1>3. StartExternal(p) => pc'[p] \in {"idle", "lock"}
  BY ExternalLaunched DEF Launched
<1>4. Prepares(p) => pc'[p] \in {"idle", "decide", "values", "running", "lock"}
  BY PreparesSteps
<1>5. Acquire(p) => pc'[p] = "stage"
  BY DEF Acquire, Goto, IndInv, SharedInv
<1>6. CommitLast(p) => pc'[p] \in {"idle", "persist"}
  BY LastSteps
<1>7. Issue(p) => pc'[p] = "idle"
  BY DEF Issue, Upcoming
<1> QED BY <1>1, <1>2, <1>3, <1>4, <1>5, <1>6, <1>7, Kinds

\* Only a batch has backups or a further output.
LEMMA ManyAreBatch ==
  ASSUME IndInv, NEW p \in Procs, Backup(p) \/ Commit(p)
  PROVE  IsBatch(job[p].cmd)
<1>1. JobOK(job[p], pc[p]) /\ job[p].at \in 1 .. Len(job[p].items) /\ Len(job[p].items) \in Nat
  BY ItemAtHand DEF Backup, Commit
<1>2. CASE Backup(p)
  BY <1>1, <1>2 DEF Backup, JobOK
<1>3. CASE Commit(p)
  <2>1. JobOK(job[p], "commit") /\ job[p].at < Len(job[p].items)
    BY <1>1, <1>3 DEF Commit
  <2>2. ~IsBatch(job[p].cmd) => Len(job[p].items) = 1
    BY <2>1 DEF JobOK, Prepared, Held
  <2> DEFINE n == Len(job[p].items)
             a == job[p].at
  <2>3. a \in Nat /\ 1 <= a /\ n \in Nat /\ a < n
    BY <1>1, <2>1
  <2> HIDE DEF n, a
  <2>4. n # 1
    BY <2>3
  <2> QED BY <2>2, <2>4 DEF n
<1> QED BY <1>2, <1>3

LEMMA CopyMoves ==
  ASSUME IndInv, NEW p \in Procs, CopyInv(p), Moves(p)
  PROVE  CopyInv(p)'
<1> SUFFICES ASSUME pc'[p] \in {"backup", "commit"}, job'[p].cmd.op \in Copying PROVE CopyInv(p)'
  BY DEF CopyInv, Cmd
<1>1. Frame(p)
  BY Framed
<1>2. CASE Stage(p) \/ Decrypts(p)
  <2>1. job'[p].cmd.op \in InMemory \cup {"external"}
    BY <1>1, <1>2, StagesSteps, DecryptsSteps DEF Stage, Cmd
  <2> QED BY <2>1 DEF InMemory, Copying
<1>3. CASE StageCopies(p)
  <2> DEFINE old == job[p].items
             items == [i \in DOMAIN old |-> Copied(old[i], job[p].to)]
  <2>1. pc[p] = "stage" /\ Cmd(p).op \in Copying /\ Copyable(p) /\ StageItems(p, items)
    BY <1>3 DEF StageCopies
  <2>2. JobOK(job[p], "stage") /\ Made(job[p])
    BY <2>1 DEF IndInv, JobInv, MadeInv, Prepared, Held
  <2>3. ASSUME NEW i \in DOMAIN old
        PROVE  /\ Exists(items[i].from) /\ files[items[i].from].body = items[i].file.body
               /\ items[i].from = old[i].from /\ items[i].path = old[i].path
    <3> DEFINE f == files[old[i].from]
               to == job[p].to
    <3>1. IsItem(old[i]) /\ items[i] = [old[i] EXCEPT !.file = [f EXCEPT !.to = to]]
      BY <2>2 DEF JobOK, ItemsInv, Copied
    <3>2. old[i].from \in Paths /\ Exists(old[i].from)
      BY <2>1, <2>2 DEF Made, Cmd, Copyable, Sources
    <3>3. IsFile(f) /\ f = files[old[i].from]
      BY <3>2 DEF IndInv, SharedInv
    <3> HIDE DEF f, to, items
    <3>4. items[i].file = [f EXCEPT !.to = to] /\ items[i].from = old[i].from /\ items[i].path = old[i].path
      BY <3>1 DEF IsItem
    <3>5. items[i].file.body = f.body
      BY <3>3, <3>4 DEF IsFile
    <3> QED BY <3>2, <3>3, <3>4, <3>5
  <2>4. DOMAIN items = DOMAIN old
    OBVIOUS
  <2> HIDE DEF items
  <2>5. job'[p].cmd = job[p].cmd /\ job'[p].items = items /\ files' = files
    BY <2>1, StagesSteps
  <2>6. \A i \in DOMAIN job'[p].items :
          /\ files'[job'[p].items[i].from] # NoFile
          /\ files'[job'[p].items[i].from].body = job'[p].items[i].file.body
    BY <2>3, <2>4, <2>5 DEF Exists
  <2>7. Sources(p)' = Sources(p) /\ Destinations(p)' = Destinations(p)
    BY <2>3, <2>4, <2>5 DEF Sources, Destinations
  <2>8. IsBatch(job[p].cmd) => Sources(p) \cap Destinations(p) = {}
    BY <2>1 DEF Copyable, Cmd
  <2> QED BY <2>5, <2>6, <2>7, <2>8 DEF CopyInv, Cmd, Exists
<1>4. CASE Backup(p) \/ Commit(p)
  <2> DEFINE item == job[p].items[job[p].at]
  <2>1. pc[p] \in {"backup", "commit"} /\ job'[p].cmd = job[p].cmd /\ job'[p].items = job[p].items
    BY <1>4, ItemSteps DEF Backup, Commit
  <2>2. IsBatch(job[p].cmd)
    BY <1>4, ManyAreBatch
  <2>3. /\ \A i \in DOMAIN job[p].items :
             /\ Exists(job[p].items[i].from)
             /\ files[job[p].items[i].from].body = job[p].items[i].file.body
        /\ Sources(p) \cap Destinations(p) = {}
    BY <2>1, <2>2 DEF CopyInv, Cmd
  <2>4. \A i \in DOMAIN job[p].items : job[p].items[i].from \in Paths
    BY <2>1, ItemAtHand DEF Made
  <2>5. item.path \in Destinations(p)
    BY <2>1, ItemAtHand DEF Destinations
  <2>6. files' = files \/ \E f : files' = [files EXCEPT ![item.path] = f]
    BY <1>4, RenamesFiles DEF Renames
  <2>7. ASSUME NEW i \in DOMAIN job[p].items PROVE files'[job[p].items[i].from] = files[job[p].items[i].from]
    <3>1. job[p].items[i].from \in Sources(p)
      BY DEF Sources
    <3> QED BY <2>3, <2>4, <2>5, <2>6, <3>1 DEF IndInv, SharedInv
  <2>8. Sources(p)' = Sources(p) /\ Destinations(p)' = Destinations(p)
    BY <2>1 DEF Sources, Destinations
  <2>9. \A i \in DOMAIN job'[p].items :
          /\ files'[job'[p].items[i].from] # NoFile
          /\ files'[job'[p].items[i].from].body = job'[p].items[i].file.body
    BY <2>1, <2>3, <2>7 DEF Exists
  <2> QED BY <2>3, <2>8, <2>9 DEF CopyInv, Cmd, Exists
<1> QED BY <1>2, <1>3, <1>4, TransactionSteps

LEMMA CopyOthers ==
  ASSUME IndInv, NEW p \in Procs, Frame(p), NEW q \in Procs \ {p}, CopyInv(q)
  PROVE  CopyInv(q)'
<1> SUFFICES ASSUME pc'[q] \in {"backup", "commit"} PROVE CopyInv(q)'
  BY DEF CopyInv
<1>1. pc'[q] = pc[q] /\ job'[q] = job[q]
  BY DEF Frame
<1>2. files' = files
  BY <1>1, OthersFiles DEF Held
<1> QED BY <1>1, <1>2 DEF CopyInv, Cmd, Exists, Sources, Destinations

LEMMA CopyInductive == Spec => [](\A p \in Procs : CopyInv(p))
<1> DEFINE Inv == \A p \in Procs : CopyInv(p)
<1>1. Init => Inv
  BY DEF Init, CopyInv
<1>2. IndInv /\ Inv /\ [Next]_vars => Inv'
  <2> SUFFICES ASSUME IndInv, Inv, [Next]_vars PROVE Inv'
    OBVIOUS
  <2>1. CASE Tick \/ UNCHANGED vars
    BY <2>1 DEF Tick, vars, CopyInv, Exists, Cmd, Sources, Destinations
  <2>2. ASSUME NEW p \in Procs, Moves(p) PROVE Inv'
    <3>1. Frame(p)
      BY <2>2, Framed
    <3> QED BY <2>2, <3>1, CopyMoves, CopyOthers
  <2> QED BY <2>1, <2>2 DEF Next, Moves
<1> QED BY <1>1, <1>2, CommandsInductive, PTL DEF Spec

\* What a rekey or a migration publishes is what its source holds, from the
\* moment it has read it under the lock: it undoes no value that another command
\* committed, whatever runs beside it.  (rekey_secret_inner,
\* rekey_secret_batch_inner, write_secret_file_batch, write_public_file_batch)
THEOREM RekeyedIsAlwaysCurrent == Spec => []RekeyedIsCurrent
<1>1. (\A p \in Procs : CopyInv(p)) => RekeyedIsCurrent
  BY DEF CopyInv, RekeyedIsCurrent
<1> QED BY <1>1, CopyInductive, PTL

-----------------------------------------------------------------------------
(* Remembered answers *)

\* The outputs a generator produces are noted with the answer it was given.
LEMMA ProducedNote ==
  ASSUME IndInv, NEW p \in Procs, Prepares(p), pc'[p] = "lock", job'[p].cmd.op = "generate"
  PROVE  job'[p].note = <<"answer", job'[p].order[job'[p].next], job'[p].answer>>
<1>1. DOMAIN job[p] = DOMAIN NoJob /\ JobOK(job[p], pc[p]) /\ DOMAIN job = Procs /\ DOMAIN pc = Procs
  BY DEF IndInv, SharedInv, JobInv, JobOK
<1>2. job[p].cmd.op = "generate"
  BY PreparesSteps
<1>3. ~EditorSaves(p) /\ ~RedeemReads(p)
  BY <1>1, <1>2 DEF JobOK, EditorSaves, RedeemReads
<1>4. ~Decide(p) /\ ~Persist(p)
  <2>1. Return(p) => pc'[p] = "idle"
    BY ReturnFrame
  <2> QED BY <1>1, <2>1 DEF Decide, Persist, Advance, Goto
<1>5. \E j : /\ Produced(p, j) /\ DOMAIN j = DOMAIN NoJob /\ j.order = job[p].order /\ j.next = job[p].next
  <2>1. CASE GeneratorExits(p)
    BY <1>1, <2>1 DEF GeneratorExits
  <2>2. CASE Values(p)
    <3> DEFINE inputs == {<<d, files[d].body.n, files[d].body.by>> : d \in Range(Decl(p).inputs)}
               answer == Answer(p)
               j == [job[p] EXCEPT !.answer = answer, !.inputs = inputs]
               i == [j EXCEPT !.inputs = {}]
    <3>1. Produced(p, i) \/ Goto(p, "running")
      BY <2>2 DEF Values
    <3> HIDE DEF inputs, answer
    <3>2. i.order = job[p].order /\ i.next = job[p].next /\ DOMAIN i = DOMAIN NoJob
      BY <1>1 DEF NoJob
    <3> HIDE DEF i
    <3> QED BY <1>1, <3>1, <3>2 DEF Goto
  <2> QED BY <1>3, <1>4, <2>1, <2>2 DEF Prepares
<1>6. PICK j : /\ Produced(p, j) /\ DOMAIN j = DOMAIN NoJob /\ j.order = job[p].order /\ j.next = job[p].next
  BY <1>5
<1> DEFINE items == ItemsOf(p)
           note == <<"answer", GeneratorId(p), j.answer>>
<1>7. job'[p] = [j EXCEPT !.items = items, !.note = note]
  BY <1>1, <1>6 DEF Produced, Update
<1> HIDE DEF items, note
<1>8. job'[p].note = note /\ job'[p].order = job[p].order /\ job'[p].next = job[p].next /\ job'[p].answer = j.answer
  BY <1>6, <1>7 DEF NoJob
<1> QED BY <1>8 DEF note, GeneratorId

LEMMA AnswerMoves ==
  ASSUME IndInv, NEW p \in Procs, AnswerInv(p), Moves(p)
  PROVE  AnswerInv(p)'
<1> DEFINE Noted(j) == j.note = <<"answer", j.order[j.next], j.answer>>
<1> SUFFICES ASSUME pc'[p] \in Prepared \cup {"persist"}, job'[p].cmd.op = "generate"
             PROVE  Noted(job'[p]) /\ (pc'[p] = "persist" => job'[p].note \in Range(history'))
  BY DEF AnswerInv, Cmd, GeneratorId
<1>1. Frame(p)
  BY Framed
<1>2. pc[p] \in Prepared \cup {"persist"} /\ job[p].cmd.op = "generate" => Noted(job[p])
  BY DEF AnswerInv, Cmd, GeneratorId
<1>3. CASE Returns(p) \/ Launchers(p) \/ StartExternal(p) \/ Issue(p)
  <2>1. Returns(p) => pc'[p] = "idle"
    BY ReturnsSteps
  <2>2. Launchers(p) => pc'[p] \in {"idle", "decide", "editing", "stdin"} \/ job'[p].cmd.op # "generate"
    BY LaunchersLaunch DEF Launched
  <2>3. StartExternal(p) => pc'[p] = "idle" \/ job'[p].cmd.op # "generate"
    BY ExternalLaunched DEF Launched
  <2>4. Issue(p) => pc'[p] = "idle"
    BY DEF Issue, Upcoming
  <2>5. pc'[p] \in {"lock", "stage", "reading", "check", "backup", "commit", "persist"}
    BY DEF Prepared, Held
  <2> QED BY <1>3, <2>1, <2>2, <2>3, <2>4, <2>5
<1>4. CASE Prepares(p)
  <2>1. pc'[p] = "lock"
    BY <1>4, PreparesSteps DEF Prepared, Held
  <2> QED BY <1>4, <2>1, ProducedNote
<1>5. CASE Acquire(p)
  BY <1>2, <1>5 DEF Acquire, Goto, IndInv, SharedInv, Prepared
<1>6. CASE StageCopies(p) \/ Decrypts(p)
  <2>1. job'[p].cmd.op \in Copying \cup {"external"}
    BY <1>1, <1>6, StagesSteps, DecryptsSteps DEF StageCopies, Cmd
  <2> QED BY <2>1 DEF Copying
<1>7. CASE Stage(p)
  <2>1. /\ pc[p] = "stage" /\ pc'[p] \in {"backup", "commit"} /\ job'[p].cmd = job[p].cmd
        /\ job'[p].note = job[p].note /\ job'[p].order = job[p].order /\ job'[p].next = job[p].next
        /\ job'[p].answer = job[p].answer
    BY <1>7, StagesSteps DEF Stage
  <2> QED BY <1>2, <2>1 DEF Prepared, Held
<1>8. CASE Backup(p) \/ Commit(p)
  <2>1. /\ pc[p] \in {"backup", "commit"} /\ pc'[p] \in {"backup", "commit"} /\ job'[p].cmd = job[p].cmd
        /\ job'[p].note = job[p].note /\ job'[p].order = job[p].order /\ job'[p].next = job[p].next
        /\ job'[p].answer = job[p].answer
    BY <1>8, ItemSteps DEF Backup, Commit
  <2> QED BY <1>2, <2>1 DEF Prepared, Held
<1>9. CASE CommitLast(p)
  <2>1. pc[p] = "commit" /\ job[p].cmd.op = "generate"
    BY <1>9, LastSteps DEF Prepared, Held
  <2>2. /\ job'[p].note = job[p].note /\ job'[p].order = job[p].order /\ job'[p].next = job[p].next
        /\ job'[p].answer = job[p].answer
    BY <1>9, <2>1, CommittedJob DEF Cmd
  <2>3. Noted(job[p])
    BY <1>2, <2>1 DEF Prepared, Held
  <2>4. job[p].note # <<>>
    BY <2>3
  <2>5. job[p].note \in Range(history')
    BY <1>9, <2>4, LastRecorded
  <2> QED BY <2>2, <2>3, <2>5
<1> QED BY <1>3, <1>4, <1>5, <1>6, <1>7, <1>8, <1>9, Kinds

LEMMA HistoryGrows ==
  ASSUME IndInv, NEW p \in Procs, Moves(p)
  PROVE  Range(history) \subseteq Range(history')
BY Framed, LastRecorded DEF Frame

\* An answer is remembered in one place.
LEMMA PromptsChange ==
  ASSUME IndInv, NEW p \in Procs, Moves(p)
  PROVE  prompts' = prompts \/ Persist(p)
<1>1. CASE Returns(p) \/ Launchers(p) \/ StartExternal(p) \/ Decrypts(p)
  BY <1>1, Framed, ReturnsSteps, LaunchersLaunch, ExternalLaunched, DecryptsSteps DEF Launched, world
<1>2. CASE Prepares(p)
  BY <1>2 DEF Prepares, Decide, Values, GeneratorExits, EditorSaves, RedeemReads, world
<1>3. CASE Acquire(p) \/ Stage(p) \/ StageCopies(p) \/ Backup(p) \/ Commit(p) \/ CommitLast(p) \/ Issue(p)
  BY <1>3 DEF Acquire, Stage, StageCopies, StageItems, Backup, Commit, CommitLast, Issue, world
<1> QED BY <1>1, <1>2, <1>3, Kinds

LEMMA PromptsMoves ==
  ASSUME IndInv, PromptsWereUsed, NEW p \in Procs, AnswerInv(p), Moves(p)
  PROVE  PromptsWereUsed'
<1>1. CASE prompts' = prompts
  BY <1>1, HistoryGrows DEF PromptsWereUsed
<1>2. CASE Persist(p)
  <2> DEFINE h == GeneratorId(p)
  <2>1. /\ job[p].note = <<"answer", h, job[p].answer>> /\ job[p].note \in Range(history)
    BY <1>2 DEF Persist, AnswerInv, IndInv, JobInv, JobOK, Cmd
  <2>2. history' = history /\ (prompts' = prompts \/ prompts' = [prompts EXCEPT ![h] = job[p].answer])
    BY <1>2 DEF Persist, Remembered
  <2> HIDE DEF h
  <2> QED BY <2>1, <2>2 DEF PromptsWereUsed, IndInv, SharedInv
<1> QED BY <1>1, <1>2, PromptsChange

\* A remembered response was used by a run whose outputs committed: nothing that
\* fails, is refused or is killed updates it.  (persist_generator_prompts)
THEOREM PromptsWereAlwaysUsed == Spec => []PromptsWereUsed
<1> DEFINE Inv == PromptsWereUsed /\ \A p \in Procs : AnswerInv(p)
<1>1. Init => Inv
  BY DEF Init, PromptsWereUsed, AnswerInv, Prepared, Held
<1>2. IndInv /\ Inv /\ [Next]_vars => Inv'
  <2> SUFFICES ASSUME IndInv, Inv, [Next]_vars PROVE Inv'
    OBVIOUS
  <2>1. CASE Tick \/ UNCHANGED vars
    BY <2>1 DEF Tick, vars, PromptsWereUsed, AnswerInv, Cmd, GeneratorId
  <2>2. ASSUME NEW p \in Procs, Moves(p) PROVE Inv'
    <3>1. PromptsWereUsed' /\ AnswerInv(p)'
      BY <2>2, PromptsMoves, AnswerMoves
    <3>2. Frame(p) /\ Range(history) \subseteq Range(history')
      BY <2>2, Framed, HistoryGrows
    <3>3. ASSUME NEW q \in Procs \ {p} PROVE AnswerInv(q)'
      BY <3>2, <3>3 DEF Frame, AnswerInv, Cmd, GeneratorId
    <3> QED BY <3>1, <3>3
  <2> QED BY <2>1, <2>2 DEF Next, Moves
<1> QED BY <1>1, <1>2, CommandsInductive, PTL DEF Spec

-----------------------------------------------------------------------------
(* Delegated creation *)

\* A capability that is accepted binds the command to what was signed.
LEMMA AcceptedGrants ==
  ASSUME NEW e, NEW j, Accepted(e, j.cmd), j.note = <<"spent", e>>, j.mode = "create"
  PROVE  Grants(e, j)
<1>1. e.entries[1].by \in PlanOf(j.cmd).authorizers
  BY DEF Accepted, VerifyCapability, SignerOf, VerifySignatureEntry
<1> QED BY <1>1 DEF Accepted, BoundToPlan, Grants

\* The value is read once the capability is known.
LEMMA GrantReads ==
  ASSUME IndInv, NEW p \in Procs, RedeemReads(p), pc'[p] = "lock", NEW e, Grants(e, job[p])
  PROVE  /\ Grants(e, job'[p])
         /\ \A i \in DOMAIN job'[p].items : Creates(e, job'[p].items[i])
<1> DEFINE cmd == job[p].cmd
           x == NewItem(cmd, e.payload.secret, <<cmd.input>>)
           items == <<x>>
<1>1. DOMAIN job[p] = DOMAIN NoJob /\ DOMAIN job = Procs
  BY DEF IndInv, SharedInv, JobInv, JobOK
<1>2. job[p].note[2] = e
  BY DEF Grants
<1>3. ~Return(p)
  BY ReturnFrame
<1>4. Committed(cmd, e.payload) /\ Update(p, [job[p] EXCEPT !.items = items])
  BY <1>2, <1>3 DEF RedeemReads, Cmd
<1>5. x.path = e.payload.secret /\ x.kind = "output" /\ x.file.body.part = <<cmd.input>>
      /\ x.file.to = PlanOf(cmd).readers[e.payload.secret]
  BY SMTT(20) DEF NewItem, NewBody, Item
<1>6. Creates(e, x)
  BY <1>4, <1>5 DEF Creates, Grants, Committed
<1> HIDE DEF x
<1>7. DOMAIN items = {1} /\ items[1] = x
  BY SingletonSeq
<1> HIDE DEF items
<1>8. job'[p].items = items /\ job'[p].note = job[p].note /\ job'[p].mode = job[p].mode /\ job'[p].cmd = job[p].cmd
  BY <1>1, <1>4 DEF Update, NoJob
<1> QED BY <1>6, <1>7, <1>8 DEF Grants

\* Staging changes no destination, and finds it free.
LEMMA GrantStages ==
  ASSUME IndInv, NEW p \in Procs, Stage(p), job[p].cmd.op = "redeem", NEW e, Grants(e, job[p]),
         \A i \in DOMAIN job[p].items : Creates(e, job[p].items[i])
  PROVE  /\ Grants(e, job'[p]) /\ files' = files
         /\ \A i \in DOMAIN job'[p].items : Creates(e, job'[p].items[i]) /\ ~Exists(job'[p].items[i].path)
<1> DEFINE old == job[p].items
           items == [i \in DOMAIN old |-> Numbered(old[i])]
<1>1. pc[p] = "stage" /\ StageItems(p, items) /\ Stageable(p, old) /\ job[p].mode = "create"
  BY DEF Stage, Grants
<1>2. runs \in Nat /\ \A i \in DOMAIN old : IsItem(old[i])
  BY DEF IndInv, SharedInv, JobInv, JobOK, ItemsInv
<1>3. ASSUME NEW i \in DOMAIN old PROVE Creates(e, items[i]) /\ ~Exists(items[i].path)
  <2>1. items[i] = Numbered(old[i])
    OBVIOUS
  <2> HIDE DEF items
  <2>2. items[i].path = old[i].path /\ items[i].kind = old[i].kind /\ items[i].file.body.part = old[i].file.body.part
        /\ items[i].file.to = old[i].file.to
    BY <1>2, <2>1, NumberedFields
  <2>3. Creates(e, old[i])
    OBVIOUS
  <2>4. ~Exists(old[i].path)
    BY <1>1, <2>3 DEF Stageable, ValidDestination, Creates
  <2> QED BY <2>2, <2>3, <2>4 DEF Creates
<1>4. DOMAIN items = DOMAIN old
  OBVIOUS
<1> HIDE DEF items
<1>5. /\ files' = files /\ job'[p].items = items /\ job'[p].note = job[p].note /\ job'[p].mode = job[p].mode
      /\ job'[p].cmd = job[p].cmd
  BY <1>1, StagesSteps
<1> QED BY <1>3, <1>4, <1>5 DEF Grants

LEMMA GrantMoves ==
  ASSUME IndInv, NEW p \in Procs, GrantInv(p), Moves(p)
  PROVE  GrantInv(p)'
<1> SUFFICES ASSUME pc'[p] \in Prepared \cup {"stdin"}, job'[p].cmd.op = "redeem" PROVE GrantInv(p)'
  BY DEF GrantInv, Cmd
<1>1. Frame(p)
  BY Framed
<1>2. pc'[p] \in {"lock", "stage", "reading", "check", "backup", "commit", "stdin"}
  BY DEF Prepared, Held
<1>3. SUFFICES \E e \in caps :
                 /\ Grants(e, job'[p])
                 /\ pc'[p] # "stdin" => \A i \in DOMAIN job'[p].items : Creates(e, job'[p].items[i])
                 /\ pc'[p] = "commit" => /\ files' = files
                                         /\ \A i \in DOMAIN job'[p].items : ~Exists(job'[p].items[i].path)
  BY <1>1 DEF Frame, GrantInv, Exists
<1>4. CASE Returns(p) \/ StartExternal(p) \/ Issue(p) \/ StageCopies(p) \/ Decrypts(p) \/ CommitLast(p)
  <2>1. Returns(p) => pc'[p] = "idle"
    BY ReturnsSteps
  <2>2. StartExternal(p) => pc'[p] = "idle" \/ job'[p].cmd.op # "redeem"
    BY ExternalLaunched DEF Launched
  <2>3. Issue(p) => pc'[p] = "idle"
    BY DEF Issue, Upcoming
  <2>4. StageCopies(p) \/ Decrypts(p) => job'[p].cmd.op \in Copying \cup {"external"}
    BY <1>1, StagesSteps, DecryptsSteps DEF StageCopies, Cmd
  <2>5. CommitLast(p) => pc'[p] \in {"idle", "persist"}
    BY LastSteps
  <2> QED BY <1>2, <1>4, <2>1, <2>2, <2>3, <2>4, <2>5 DEF Copying
<1>5. CASE Launchers(p)
  <2>1. pc'[p] = "stdin" /\ pc[p] = "idle"
    BY <1>2, <1>5, LaunchersLaunch DEF Launched
  <2>2. Redeem(p)
    <3>1. Head(todo[p]).op = "redeem"
      BY <1>2, <1>5, LaunchersLaunch DEF Launched
    <3> QED BY <1>5, <3>1 DEF Launchers, Generate, Write, Batch, Edit, Rekey, Delete, Bootstrap, MigrateCiphertext,
               MigrateTree, MigrateClan, Migrate, Upcoming
  <2> QED BY <2>1, <2>2, RedeemLaunched, AcceptedGrants
<1>6. CASE Prepares(p)
  <2>1. pc'[p] = "lock" /\ job[p].cmd.op = "redeem" /\ pc[p] # "idle"
    BY <1>2, <1>6, PreparesSteps
  <2>2. RedeemReads(p) /\ pc[p] = "stdin"
    BY <1>6, <2>1 DEF Prepares, Decide, Values, GeneratorExits, Persist, EditorSaves, RedeemReads, IndInv, JobInv,
         JobOK
  <2>3. PICK e \in caps : Grants(e, job[p])
    BY <2>1, <2>2 DEF GrantInv, Cmd
  <2> QED BY <2>1, <2>2, <2>3, GrantReads
<1>7. CASE Acquire(p)
  <2>1. job'[p] = job[p] /\ pc[p] = "lock" /\ pc'[p] = "stage"
    BY <1>7 DEF Acquire, Goto, IndInv, SharedInv
  <2> QED BY <2>1 DEF GrantInv, Cmd, Prepared
<1>8. CASE Stage(p)
  <2>1. job[p].cmd.op = "redeem" /\ pc[p] = "stage"
    BY <1>8, StagesSteps DEF Stage
  <2>2. PICK e \in caps : Grants(e, job[p]) /\ \A i \in DOMAIN job[p].items : Creates(e, job[p].items[i])
    BY <2>1 DEF GrantInv, Cmd, Prepared, Held
  <2> QED BY <1>8, <2>1, <2>2, GrantStages
<1>9. CASE Backup(p) \/ Commit(p)
  <2>1. job[p].cmd.op = "redeem"
    BY <1>9, ItemSteps
  <2> QED BY <1>9, <2>1, ManyAreBatch DEF IsBatch
<1> QED BY <1>4, <1>5, <1>6, <1>7, <1>8, <1>9, Kinds

LEMMA GrantOthers ==
  ASSUME IndInv, NEW p \in Procs, Frame(p), NEW q \in Procs \ {p}, GrantInv(q)
  PROVE  GrantInv(q)'
<1>1. pc'[q] = pc[q] /\ job'[q] = job[q] /\ caps \subseteq caps'
  BY DEF Frame
<1>2. pc[q] = "commit" => files' = files
  BY OthersFiles DEF Held
<1> QED BY <1>1, <1>2 DEF GrantInv, Cmd, Exists

\* What a delegate shows is what an authorizer of the plan in force signed for,
\* and it is created where nothing is, whatever runs beside it between the check
\* of the capability and the rename.  (run_delegated_create,
\* write_secret_create_delegated)
THEOREM DelegatedCreateIsAlwaysBound == Spec => []DelegatedCreateIsBound
<1> DEFINE Inv == \A p \in Procs : GrantInv(p)
<1>1. Init => Inv
  BY DEF Init, GrantInv, Prepared, Held
<1>2. IndInv /\ Inv /\ [Next]_vars => Inv'
  <2> SUFFICES ASSUME IndInv, Inv, [Next]_vars PROVE Inv'
    OBVIOUS
  <2>1. CASE Tick \/ UNCHANGED vars
    BY <2>1 DEF Tick, vars, GrantInv, Cmd, Exists
  <2>2. ASSUME NEW p \in Procs, Moves(p) PROVE Inv'
    <3>1. Frame(p)
      BY <2>2, Framed
    <3> QED BY <2>2, <3>1, GrantMoves, GrantOthers
  <2> QED BY <2>1, <2>2 DEF Next, Moves
<1>3. Inv => DelegatedCreateIsBound
  <2> SUFFICES ASSUME Inv, NEW p \in Procs, pc[p] = "commit", Cmd(p).op = "redeem"
               PROVE  \A i \in DOMAIN job[p].items : \E e \in caps :
                        LET item == job[p].items[i]
                        IN /\ e.payload.source = item.path /\ ~Exists(item.path)
                           /\ <<e.payload.plaintext>> = item.file.body.part
                           /\ e.payload.recipients = item.file.to
                           /\ e.payload.plan = Cmd(p).plan
                           /\ e.entries[1].by \in PlanOf(Cmd(p)).authorizers
                           /\ job[p].note = <<"spent", e>>
    BY DEF DelegatedCreateIsBound
  <2>1. PICK e \in caps : /\ Grants(e, job[p])
                          /\ \A i \in DOMAIN job[p].items : Creates(e, job[p].items[i]) /\ ~Exists(job[p].items[i].path)
    BY DEF GrantInv, Prepared, Held
  <2> QED BY <2>1 DEF Grants, Creates, Cmd
<1> QED BY <1>1, <1>2, <1>3, CommandsInductive, PTL DEF Spec

-----------------------------------------------------------------------------
(* Batches move away before they show *)

LEMMA BatchStages ==
  ASSUME IndInv, NEW p \in Procs, Stage(p) \/ StageCopies(p), IsBatch(job[p].cmd)
  PROVE  BatchInv(p)'
<1> DEFINE old == job[p].items
           items == job'[p].items
<1>1. /\ Stageable(p, old) /\ files' = files /\ pc'[p] = "backup" /\ job'[p].at = 1 /\ job'[p].mode = job[p].mode
      /\ DOMAIN items = DOMAIN old
      /\ \A i \in DOMAIN old : items[i].path = old[i].path /\ items[i].kind = old[i].kind
  <2>1. runs \in Nat /\ \A i \in DOMAIN old : IsItem(old[i])
    BY DEF IndInv, SharedInv, JobInv, JobOK, ItemsInv
  <2>2. CASE Stage(p)
    <3> DEFINE s == [i \in DOMAIN old |-> Numbered(old[i])]
    <3>1. pc[p] = "stage" /\ StageItems(p, s) /\ Stageable(p, old)
      BY <2>2 DEF Stage
    <3>2. DOMAIN s = DOMAIN old /\ \A i \in DOMAIN old : s[i] = Numbered(old[i])
      OBVIOUS
    <3> HIDE DEF s
    <3>3. \A i \in DOMAIN old : s[i].path = old[i].path /\ s[i].kind = old[i].kind
      BY <2>1, <3>2, NumberedFields
    <3>4. /\ files' = files /\ pc'[p] = "backup" /\ job'[p].at = 1 /\ job'[p].mode = job[p].mode
          /\ job'[p].items = s
      BY <3>1, StagesSteps
    <3> QED BY <3>1, <3>2, <3>3, <3>4
  <2>3. CASE StageCopies(p)
    <3> DEFINE to == job[p].to
               s == [i \in DOMAIN old |-> Copied(old[i], to)]
    <3>1. pc[p] = "stage" /\ StageItems(p, s) /\ Stageable(p, old)
      BY <2>3 DEF StageCopies, Copyable
    <3> HIDE DEF to
    <3>2. DOMAIN s = DOMAIN old /\ \A i \in DOMAIN old : s[i] = Copied(old[i], to)
      OBVIOUS
    <3> HIDE DEF s
    <3>3. \A i \in DOMAIN old : s[i].path = old[i].path /\ s[i].kind = old[i].kind
      BY <2>1, <3>2 DEF Copied, IsItem
    <3>4. /\ files' = files /\ pc'[p] = "backup" /\ job'[p].at = 1 /\ job'[p].mode = job[p].mode
          /\ job'[p].items = s
      BY <3>1, StagesSteps
    <3> QED BY <3>1, <3>2, <3>3, <3>4
  <2> QED BY <2>2, <2>3
<1>2. DOMAIN old = 1 .. Len(old) /\ Len(old) \in Nat
  BY DEF IndInv, JobInv, JobOK, ItemsInv, IsSeq
<1> HIDE DEF items
<1>3. DistinctDestinations(items)
  BY <1>1 DEF Stageable, DistinctDestinations
<1>4. ASSUME NEW i \in DOMAIN items
      PROVE  /\ ~(i < 1)
             /\ items[i].kind = "output" /\ job'[p].mode # "replace" => files'[items[i].path] = NoFile
  <2>1. ValidDestination(old[i], job[p].mode)
    BY <1>1 DEF Stageable
  <2> QED BY <1>1, <1>2, <2>1 DEF ValidDestination, Exists
<1>5. \A i \in DOMAIN items : i < 1 \/ (items[i].kind = "output" /\ job'[p].mode # "replace") =>
         files'[items[i].path] = NoFile
  BY <1>4
<1> QED BY <1>1, <1>3, <1>5 DEF BatchInv, Exists, items

LEMMA BatchItems ==
  ASSUME IndInv, NEW p \in Procs, BatchInv(p), Backup(p) \/ Commit(p)
  PROVE  BatchInv(p)'
<1> DEFINE items == job[p].items
           at == job[p].at
           item == items[at]
           mode == job[p].mode
<1>1. /\ job'[p].items = items /\ job'[p].mode = mode /\ job'[p].cmd = job[p].cmd
      /\ \/ pc'[p] = pc[p] /\ at < Len(items) /\ job'[p].at = at + 1
         \/ pc[p] = "backup" /\ pc'[p] = "commit" /\ at = Len(items) /\ job'[p].at = 1
  BY ItemSteps
<1>2. IsBatch(job[p].cmd) /\ pc[p] \in {"backup", "commit"}
  BY ManyAreBatch DEF Backup, Commit
<1>3. /\ at \in DOMAIN items /\ Len(items) \in Nat /\ DOMAIN items = 1 .. Len(items) /\ at \in Nat
  BY <1>2, ItemAtHand DEF JobOK, ItemsInv, IsSeq
<1>4. DOMAIN files = Paths /\ DistinctDestinations(items)
  BY <1>2 DEF IndInv, SharedInv, BatchInv, Cmd
<1>5. \A i \in DOMAIN items : items[i].path \in Paths =>
        /\ pc[p] = "backup" /\ (i < at \/ (items[i].kind = "output" /\ mode # "replace")) =>
             files[items[i].path] = NoFile
        /\ pc[p] = "commit" /\ i >= at => files[items[i].path] = NoFile
        /\ pc[p] = "commit" /\ i < at => files[items[i].path] = items[i].file
  BY <1>2 DEF BatchInv, Cmd, Exists
<1>6. CASE pc[p] = "backup"
  <2>1. files' = IF NeedsBackup(item, mode) THEN [files EXCEPT ![item.path] = NoFile] ELSE files
    BY <1>6, RenamesFiles DEF Renames
  <2>2. \A d \in Paths : files'[d] = files[d] \/ files'[d] = NoFile
    BY <1>4, <2>1
  <2>3. item.path \in Paths => files'[item.path] = NoFile
    BY <1>3, <1>4, <1>5, <1>6, <2>1 DEF NeedsBackup, Exists
  <2> HIDE DEF items, at, mode
  <2>4. ASSUME NEW i \in DOMAIN items, items[i].path \in Paths,
               i < at + 1 \/ (items[i].kind = "output" /\ mode # "replace")
        PROVE  files'[items[i].path] = NoFile
    <3>1. i \in Nat /\ (i < at + 1 => i < at \/ i = at)
      BY <1>3
    <3> QED BY <1>5, <1>6, <2>2, <2>3, <2>4, <3>1
  <2>5. CASE pc'[p] = "backup"
    <3>1. job'[p].at = at + 1
      BY <1>1, <2>5
    <3> QED BY <1>1, <1>4, <2>4, <2>5, <3>1 DEF BatchInv, Exists
  <2>6. CASE pc'[p] = "commit"
    <3>1. at = Len(items) /\ job'[p].at = 1
      BY <1>1, <1>6, <2>6
    <3>2. \A i \in DOMAIN items : i < at + 1 /\ ~(i < 1)
      BY <1>3, <3>1
    <3> QED BY <1>1, <1>4, <2>4, <2>6, <3>1, <3>2 DEF BatchInv, Exists
  <2> QED BY <1>1, <1>6, <2>5, <2>6
<1>7. CASE pc[p] = "commit"
  <2>1. files' = [files EXCEPT ![item.path] = item.file] /\ pc'[p] = "commit" /\ job'[p].at = at + 1
    BY <1>1, <1>7, RenamesFiles DEF Renames
  <2> HIDE DEF items, at, mode
  <2>2. ASSUME NEW i \in DOMAIN items, items[i].path \in Paths
        PROVE  /\ i >= at + 1 => files'[items[i].path] = NoFile
               /\ i < at + 1 => files'[items[i].path] = items[i].file
    <3>1. i \in Nat
      BY <1>3
    <3>2. CASE i = at
      BY <1>3, <1>4, <2>1, <2>2, <3>2
    <3>3. CASE i # at
      <4>1. items[i].path # items[at].path
        BY <1>3, <1>4, <3>3 DEF DistinctDestinations
      <4>2. files'[items[i].path] = files[items[i].path]
        BY <1>4, <2>1, <2>2, <4>1
      <4>3. (i >= at + 1 => i >= at) /\ (i < at + 1 => i < at)
        BY <1>3, <3>1, <3>3
      <4> QED BY <1>5, <1>7, <2>2, <4>2, <4>3
    <3> QED BY <3>2, <3>3
  <2> QED BY <1>1, <1>4, <2>1, <2>2 DEF BatchInv, Exists
<1> QED BY <1>2, <1>6, <1>7

LEMMA BatchMoves ==
  ASSUME IndInv, NEW p \in Procs, BatchInv(p), Moves(p)
  PROVE  BatchInv(p)'
<1> SUFFICES ASSUME pc'[p] \in {"backup", "commit"}, IsBatch(job'[p].cmd) PROVE BatchInv(p)'
  BY DEF BatchInv, Cmd
<1>1. Frame(p)
  BY Framed
<1>2. CASE Stage(p) \/ StageCopies(p)
  <2>1. job'[p].cmd = job[p].cmd
    BY <1>2, StagesSteps DEF Stage, StageCopies
  <2> QED BY <1>2, <2>1, BatchStages
<1>3. CASE Decrypts(p)
  <2>1. job'[p].cmd.op = "external"
    BY <1>1, <1>3, DecryptsSteps DEF Cmd
  <2> QED BY <2>1 DEF IsBatch
<1> QED BY <1>2, <1>3, BatchItems, TransactionSteps

LEMMA BatchOthers ==
  ASSUME IndInv, NEW p \in Procs, Frame(p), NEW q \in Procs \ {p}, BatchInv(q)
  PROVE  BatchInv(q)'
<1> SUFFICES ASSUME pc'[q] \in {"backup", "commit"} PROVE BatchInv(q)'
  BY DEF BatchInv
<1>1. pc'[q] = pc[q] /\ job'[q] = job[q]
  BY DEF Frame
<1>2. files' = files
  BY <1>1, OthersFiles DEF Held
<1> QED BY <1>1, <1>2 DEF BatchInv, Cmd, Exists

-----------------------------------------------------------------------------
(* What generators made, and where it is *)

LEMMA OwnedPaths ==
  ASSUME NEW plan \in Range(Plans), NEW g \in DOMAIN plan.generators
  PROVE  LET decl == plan.generators[g]
         IN /\ g \in Generators /\ decl.state \in Paths
            /\ \A d \in Range(decl.outputs \o decl.public) : d \in Paths
            /\ \A d \in GeneratorPaths(decl) : d \in Owned
<1> DEFINE decl == plan.generators[g]
<1>1. g \in Generators /\ decl.state \in Paths /\ decl.outputs \in Seq(Paths) /\ decl.public \in Seq(Paths)
  BY GeneratorAssumption
<1>2. \A d \in Range(decl.outputs \o decl.public) : d \in Paths
  <2> DEFINE o == decl.outputs
             u == decl.public
             t == o \o u
  <2>1. o \in Seq(Paths) /\ u \in Seq(Paths)
    BY <1>1
  <2> HIDE DEF o, u
  <2>2. t \in Seq(Paths)
    BY <2>1
  <2> HIDE DEF t
  <2>3. \A d \in Range(t) : d \in Paths
    BY <2>2 DEF Range
  <2> QED BY <2>3 DEF t, o, u
<1>3. \A d \in GeneratorPaths(decl) : d \in Paths
  BY <1>1, <1>2 DEF GeneratorPaths
<1>4. \A d \in GeneratorPaths(decl) : d \in Owned
  BY <1>3 DEF Owned
<1> QED BY <1>1, <1>2, <1>4

\* What a migration is launched with.
LEMMA MigrateItems ==
  ASSUME IndInv, NEW p \in Procs, NEW o, NEW accepted, NEW items, Migrate(p, o, accepted, items)
  PROVE  \/ pc'[p] = "idle"
         \/ accepted /\ job'[p].items = items /\ job'[p].cmd = Head(todo[p]) /\ job'[p].cmd.op = o
<1> DEFINE cmd == Head(todo[p])
           to == cmd.to
           j == [JobOf(cmd, ModeOf(cmd), items) EXCEPT !.to = to]
           ok == accepted /\ cmd.execute
<1>1. Upcoming(p, o) /\ Launch(p, ok, j, "lock") /\ UNCHANGED <<world, files, runs, history>>
  BY DEF Migrate
<1> HIDE DEF to
<1>2. j.cmd = Head(todo[p]) /\ j.items = items
  BY JobOfFields DEF NoJob
<1> HIDE DEF j, ok
<1>3. pc'[p] = "idle" \/ (ok /\ job'[p] = j)
  BY <1>1, <1>2, LaunchedJob
<1> QED BY <1>1, <1>2, <1>3, NextCommand DEF ok

LEMMA BesideLaunches ==
  ASSUME IndInv, NEW p \in Procs, \A c \in AllCommands : ReadsBeside(c),
         MigrateCiphertext(p) \/ MigrateTree(p) \/ MigrateClan(p)
  PROVE  pc'[p] = "idle" \/ BesideJob(job'[p])
<1> DEFINE cmd == Head(todo[p])
<1>1. ASSUME NEW o \in {"ciphertext", "tree", "plain"}, NEW accepted, NEW items, Migrate(p, o, accepted, items),
             accepted => \A i \in DOMAIN items : items[i].from \in Paths \ Owned /\ items[i].file = NoFile
      PROVE  pc'[p] = "idle" \/ BesideJob(job'[p])
  BY <1>1, MigrateItems DEF BesideJob, Foreign
<1>2. ASSUME NEW o, NEW accepted, NEW items, Migrate(p, o, accepted, items)
      PROVE  cmd \in AllCommands /\ cmd.op = o /\ ReadsBeside(cmd)
  BY <1>2, NextCommand DEF Migrate
<1>3. CASE MigrateCiphertext(p)
  <2> DEFINE x == ItemFrom(cmd.source, cmd.path)
             items == <<x>>
             ok == cmd.to # {}
  <2>1. Migrate(p, "ciphertext", ok, items)
    BY <1>3 DEF MigrateCiphertext
  <2> HIDE DEF ok
  <2>2. cmd \in AllCommands /\ cmd.op = "ciphertext" /\ ReadsBeside(cmd)
    BY <1>2, <2>1
  <2>3. cmd.source \in Paths \ Owned
    BY <2>2, MigrationAssumption DEF ReadsBeside
  <2>4. x.from \in Paths \ Owned /\ x.file = NoFile
    BY <2>3, ItemFromFields
  <2> HIDE DEF x
  <2>5. \A i \in DOMAIN items : items[i].from \in Paths \ Owned /\ items[i].file = NoFile
    BY <2>4, SingletonSeq
  <2> HIDE DEF items
  <2> QED BY <1>1, <2>1, <2>5
<1>4. CASE MigrateTree(p)
  <2> DEFINE f == [s \in TreeSources(cmd) |-> TreeDestination(cmd, s)]
             items == Pairs(f)
             ok == TreeSources(cmd) # {} /\ TreeIsBeside(cmd) /\ cmd.to # {}
  <2>1. Migrate(p, "tree", ok, items)
    BY <1>4 DEF MigrateTree
  <2>2. ok => DOMAIN f # {} /\ DOMAIN f = TreeSources(cmd)
    OBVIOUS
  <2> HIDE DEF ok, items
  <2>3. cmd \in AllCommands /\ cmd.op = "tree" /\ ReadsBeside(cmd)
    BY <1>2, <2>1
  <2>4. TreeSources(cmd) \subseteq Paths \ Owned
    BY <2>3, MigrationAssumption DEF ReadsBeside, TreeSources, ScanAgenix
  <2> HIDE DEF f
  <2>5. ok => \A i \in DOMAIN items : items[i].from \in Paths \ Owned /\ items[i].file = NoFile
    BY <2>2, <2>4, PairsItems DEF items
  <2> QED BY <1>1, <2>1, <2>5
<1>5. CASE MigrateClan(p)
  <2> DEFINE f == [s \in ClanSources(cmd) |-> ClanDestination(cmd, s)]
             items == Pairs(f)
             ok == /\ ClanLayout(cmd) /\ ClanSources(cmd) # {}
                   /\ SideBySide(cmd.root, cmd.destination)
                   /\ cmd.layout = "vars" => cmd.to # {}
  <2>1. Migrate(p, "plain", ok, items)
    BY <1>5 DEF MigrateClan
  <2>2. ok => DOMAIN f # {} /\ DOMAIN f = ClanSources(cmd)
    OBVIOUS
  <2> HIDE DEF ok, items
  <2>3. cmd \in AllCommands /\ cmd.op = "plain" /\ ReadsBeside(cmd)
    BY <1>2, <2>1
  <2>4. ClanSources(cmd) \subseteq Paths \ Owned
    BY <2>3 DEF ReadsBeside, ClanSources, ScanVars, ScanFacts
  <2> HIDE DEF f
  <2>5. ok => \A i \in DOMAIN items : items[i].from \in Paths \ Owned /\ items[i].file = NoFile
    BY <2>2, <2>4, PairsItems DEF items
  <2> QED BY <1>1, <2>1, <2>5
<1> QED BY <1>3, <1>4, <1>5

LEMMA BesideExternal ==
  ASSUME IndInv, OutsideInv, NEW p \in Procs, \A c \in AllCommands : ReadsBeside(c), StartExternal(p)
  PROVE  pc'[p] = "idle" \/ BesideJob(job'[p])
<1> DEFINE cmd == Head(todo[p])
           to == cmd.to
           file == [files[cmd.source] EXCEPT !.to = to]
           x == Item(cmd.path, "output", file)
           j == [JobOf(cmd, ModeOf(cmd), <<x>>) EXCEPT !.child = "running", !.writer = "feeding", !.watchdog = TRUE]
           ok == cmd.to # {} /\ cmd.execute /\ Exists(cmd.source)
<1>1. Upcoming(p, "external") /\ Launch(p, ok, j, "lock") /\ UNCHANGED <<world, files, runs, history>>
  BY DEF StartExternal
<1>2. cmd.source \in Paths \ Owned /\ cmd.op = "external"
  BY <1>1, NextCommand, MigrationAssumption DEF ReadsBeside
<1>3. ok => NotGenerated(file.body)
  <2>1. ok => IsFile(files[cmd.source]) /\ NotGenerated(files[cmd.source].body)
    BY <1>2 DEF OutsideInv, Foreign, IndInv, SharedInv, Exists
  <2> HIDE DEF to
  <2>2. ok => file.body = files[cmd.source].body
    BY <2>1 DEF IsFile
  <2> HIDE DEF file
  <2> QED BY <2>1, <2>2
<1> HIDE DEF file
<1>4. x.file = file
  BY ItemFields
<1> HIDE DEF x
<1>5. j.cmd = cmd /\ j.items = <<x>>
  BY JobOfFields DEF NoJob
<1>6. DOMAIN <<x>> = {1} /\ <<x>>[1] = x
  BY SingletonSeq
<1> HIDE DEF j
<1>7. ok => BesideJob(j)
  BY <1>2, <1>3, <1>4, <1>5, <1>6 DEF BesideJob
<1> HIDE DEF ok
<1>8. pc'[p] = "idle" \/ (ok /\ job'[p] = j)
  BY <1>1, <1>5, LaunchedJob
<1> QED BY <1>7, <1>8

\* A document that is cut short is still no generator's.
LEMMA BesideDecrypts ==
  ASSUME IndInv, NEW p \in Procs, Frame(p), BesideInv(p), Decrypts(p), pc'[p] \in Prepared
  PROVE  BesideJob(job'[p])
<1>1. Cmd(p).op = "external" /\ job'[p].cmd = job[p].cmd /\ DOMAIN job[p] = DOMAIN NoJob
  BY DecryptsSteps
<1>2. DOMAIN job = Procs /\ DOMAIN pc = Procs
  BY DEF IndInv, SharedInv
<1>3. pc[p] \in Prepared
  <2>1. CASE ThreadNext(p) \/ DecryptorNext(p) \/ TerminateExternal(p)
    BY <2>1, ThreadSteps
  <2>2. CASE \/ OpenExternal(p) \/ ReadOutput(p) \/ ReadFails(p) \/ Check(p) \/ CheckFails(p) \/ CheckTimesOut(p)
    BY <2>2 DEF OpenExternal, ReadOutput, ReadFails, Check, CheckFails, CheckTimesOut, Prepared, Held
  <2> QED BY <2>1, <2>2 DEF Decrypts
<1>4. BesideJob(job[p]) /\ Made(job[p]) /\ JobOK(job[p], pc[p])
  BY <1>1, <1>3 DEF BesideInv, Migrations, IndInv, MadeInv, JobInv
<1>5. CASE job'[p].items = job[p].items
  BY <1>1, <1>4, <1>5 DEF BesideJob
<1>6. CASE ReadOutput(p) /\ ~job[p].whole
  <2> DEFINE x == job[p].items[1]
             y == Truncated(x)
  <2>1. job'[p] = [job[p] EXCEPT !.items = <<y>>]
    BY <1>2, <1>6 DEF ReadOutput, Update
  <2>2. 1 \in DOMAIN job[p].items
    BY <1>3, <1>4 DEF JobOK, ItemsInv, IsSeq
  <2>3. IsItem(x) /\ IsFile(x.file) /\ NotGenerated(x.file.body)
    BY <1>1, <1>4, <2>2 DEF JobOK, ItemsInv, Made, BesideJob, Cmd
  <2>4. y.file.body.by = x.file.body.by /\ y.file.body.part = <<"truncated">>
    BY <2>3 DEF Truncated, IsItem, IsFile
  <2>5. ~IsStatePart(<<"truncated">>)
    BY DEF IsStatePart, StateOf
  <2>6. NotGenerated(y.file.body)
    BY <2>3, <2>4, <2>5 DEF NotGenerated
  <2> HIDE DEF y
  <2>7. job'[p].items = <<y>> /\ DOMAIN <<y>> = {1} /\ <<y>>[1] = y
    BY <1>1, <2>1, SingletonSeq DEF NoJob
  <2> QED BY <1>1, <2>6, <2>7 DEF BesideJob, Cmd
<1>7. CASE ~(ReadOutput(p) /\ ~job[p].whole)
  <2>1. CASE ThreadNext(p) \/ DecryptorNext(p) \/ TerminateExternal(p)
    BY <1>5, <2>1, ThreadSteps
  <2>2. CASE OpenExternal(p) \/ ReadFails(p) \/ CheckFails(p)
    BY <1>5, <2>2 DEF OpenExternal, ReadFails, CheckFails
  <2>3. CASE ReadOutput(p)
    BY <1>2, <1>5, <1>7, <2>3 DEF ReadOutput, Update
  <2>4. CASE Check(p)
    <3>1. job'[p] = [job[p] EXCEPT !.at = 1]
      BY <1>2, <2>4 DEF Check, Update
    <3> QED BY <1>1, <1>5, <3>1 DEF NoJob
  <2>5. CASE CheckTimesOut(p)
    BY <1>2, <2>5 DEF CheckTimesOut, Goto, Prepared, Held
  <2> QED BY <2>1, <2>2, <2>3, <2>4, <2>5 DEF Decrypts
<1> QED BY <1>6, <1>7

\* A copy of what no generator made.
LEMMA BesideCopies ==
  ASSUME IndInv, OutsideInv, NEW p \in Procs, BesideInv(p), StageCopies(p), job[p].cmd.op \in Migrations
  PROVE  BesideJob(job'[p])
<1> DEFINE old == job[p].items
           to == job[p].to
           items == [i \in DOMAIN old |-> Copied(old[i], to)]
<1>1. pc[p] = "stage" /\ Cmd(p).op \in Copying /\ StageItems(p, items)
  BY DEF StageCopies
<1>2. JobOK(job[p], "stage") /\ BesideJob(job[p]) /\ job[p].cmd.op # "external"
  BY <1>1 DEF IndInv, JobInv, BesideInv, Prepared, Held, Cmd, Copying
<1>3. Copyable(p)
  BY DEF StageCopies
<1> HIDE DEF to
<1>4. ASSUME NEW i \in DOMAIN old
      PROVE  items[i].from \in Paths \ Owned /\ Foreign(items[i].file)
  <2> DEFINE f == files[old[i].from]
  <2>1. IsItem(old[i]) /\ items[i] = [old[i] EXCEPT !.file = [f EXCEPT !.to = to]]
    BY <1>2 DEF JobOK, ItemsInv, Copied
  <2>2. old[i].from \in Paths \ Owned /\ Exists(old[i].from)
    BY <1>2, <1>3 DEF BesideJob, Copyable, Sources
  <2>3. IsFile(f) /\ NotGenerated(f.body)
    BY <2>2 DEF IndInv, SharedInv, OutsideInv, Foreign, Exists
  <2> HIDE DEF f, items
  <2>4. items[i].file = [f EXCEPT !.to = to] /\ items[i].from = old[i].from
    BY <2>1 DEF IsItem
  <2>5. items[i].file.body = f.body
    BY <2>3, <2>4 DEF IsFile
  <2> QED BY <2>2, <2>3, <2>4, <2>5 DEF Foreign
<1>5. DOMAIN items = DOMAIN old
  OBVIOUS
<1> HIDE DEF items
<1>6. job'[p].cmd = job[p].cmd /\ job'[p].items = items
  BY <1>1, StagesSteps
<1> QED BY <1>2, <1>4, <1>5, <1>6 DEF BesideJob

LEMMA BesideMoves ==
  ASSUME IndInv, OutsideInv, \A c \in AllCommands : ReadsBeside(c), NEW p \in Procs, BesideInv(p), Moves(p)
  PROVE  BesideInv(p)'
<1> SUFFICES ASSUME pc'[p] \in Prepared, job'[p].cmd.op \in Migrations PROVE BesideJob(job'[p])
  BY DEF BesideInv, Cmd
<1>1. Frame(p)
  BY Framed
<1>2. pc'[p] \in {"lock", "stage", "reading", "check", "backup", "commit"}
      /\ job'[p].cmd.op \in {"ciphertext", "tree", "plain", "external"}
  BY DEF Prepared, Held, Migrations
<1>3. CASE Returns(p) \/ Issue(p) \/ CommitLast(p) \/ Prepares(p)
  <2>1. Returns(p) => pc'[p] = "idle"
    BY ReturnsSteps
  <2>2. Issue(p) => pc'[p] = "idle"
    BY DEF Issue, Upcoming
  <2>3. CommitLast(p) => pc'[p] \in {"idle", "persist"}
    BY LastSteps
  <2>4. Prepares(p) => pc'[p] = "idle" \/ job'[p].cmd.op \in {"generate", "edit", "redeem"}
    BY PreparesSteps DEF Cmd
  <2> QED BY <1>2, <1>3, <2>1, <2>2, <2>3, <2>4
<1>4. CASE Launchers(p)
  <2>1. Head(todo[p]).op = job'[p].cmd.op
    BY <1>2, <1>4, LaunchersLaunch DEF Launched
  <2>2. MigrateCiphertext(p) \/ MigrateTree(p) \/ MigrateClan(p)
    BY <1>2, <1>4, <2>1 DEF Launchers, Generate, Write, Batch, Edit, Rekey, Delete, Bootstrap, Redeem, Upcoming
  <2> QED BY <1>2, <2>2, BesideLaunches
<1>5. CASE StartExternal(p)
  BY <1>2, <1>5, BesideExternal
<1>6. CASE Acquire(p)
  <2>1. job'[p] = job[p] /\ pc[p] = "lock"
    BY <1>6 DEF Acquire
  <2> QED BY <2>1 DEF BesideInv, Cmd, Prepared
<1>7. CASE Stage(p)
  <2>1. job'[p].cmd.op \in InMemory
    BY <1>7, StagesSteps DEF Stage, Cmd
  <2> QED BY <1>2, <2>1 DEF InMemory
<1>8. CASE StageCopies(p)
  <2>1. job'[p].cmd = job[p].cmd
    BY <1>8, StagesSteps DEF StageCopies
  <2> QED BY <1>8, <2>1, BesideCopies
<1>9. CASE Backup(p) \/ Commit(p)
  <2>1. pc[p] \in Prepared /\ job'[p].cmd = job[p].cmd /\ job'[p].items = job[p].items
    BY <1>9, ItemSteps DEF Backup, Commit, Prepared, Held
  <2> QED BY <2>1 DEF BesideInv, BesideJob, Cmd
<1>10. CASE Decrypts(p)
  BY <1>1, <1>10, BesideDecrypts
<1> QED BY <1>3, <1>4, <1>5, <1>6, <1>7, <1>8, <1>9, <1>10, Kinds

-----------------------------------------------------------------------------
(* Outputs and the state that vouches for them *)

\* No generator's content is anywhere it was not.
Settled ==
  \A d \in Paths : Foreign(files'[d]) \/ (files[d] # NoFile /\ files'[d].body = files[d].body)

LEMMA SettledKeeps ==
  ASSUME OneRunInv, OutsideInv, Settled
  PROVE  OneRunInv' /\ OutsideInv'
<1>1. OutsideInv'
  BY DEF OutsideInv, Settled, Foreign
<1>2. ASSUME NEW plan \in Range(Plans), NEW g \in DOMAIN plan.generators
      PROVE  OneRun(plan, g)'
  <2> DEFINE decl == plan.generators[g]
  <2>1. /\ g \in Generators /\ decl.state \in Paths
        /\ \A d \in Range(decl.outputs \o decl.public) : d \in Paths
    BY OwnedPaths
  <2>2. OneRun(plan, g)
    BY DEF OneRunInv
  <2>3. SUFFICES ASSUME files'[decl.state] # NoFile, files'[decl.state].body.part = StateOf(decl),
                        NEW d \in Range(decl.outputs \o decl.public), files'[d] # NoFile, files'[d].body.by = g
                 PROVE  files'[d].body.n = files'[decl.state].body.n
    BY DEF OneRun, Exists, StateMatches
  <2>4. IsStatePart(StateOf(decl))
    BY DEF IsStatePart
  <2> HIDE DEF decl
  <2>5. files[decl.state] # NoFile /\ files'[decl.state].body = files[decl.state].body
    BY <2>1, <2>3, <2>4 DEF Settled, Foreign, NotGenerated
  <2>6. files[d] # NoFile /\ files'[d].body = files[d].body
    BY <2>1, <2>3 DEF Settled, Foreign, NotGenerated
  <2>7. Exists(decl.state) /\ StateMatches(decl) /\ Exists(d) /\ files[d].body.by = g
    BY <2>3, <2>5, <2>6 DEF Exists, StateMatches
  <2>8. files[d].body.n = files[decl.state].body.n
    BY <2>2, <2>3, <2>7 DEF OneRun, decl
  <2> QED BY <2>5, <2>6, <2>8
<1> QED BY <1>1, <1>2 DEF OneRunInv

\* The renames of everything but a generator.
LEMMA OthersSettle ==
  ASSUME IndInv, OutsideInv, NEW p \in Procs, WholeInv(p), CopyInv(p), BesideInv(p), Renames(p),
         pc[p] = "commit" => job[p].cmd.op # "generate"
  PROVE  Settled
<1> DEFINE item == job[p].items[job[p].at]
           o == job[p].cmd.op
<1>1. DOMAIN files = Paths
  BY DEF IndInv, SharedInv
<1>2. CASE files' = files \/ files' = [files EXCEPT ![item.path] = NoFile]
  <2> HIDE DEF item
  <2> QED BY <1>1, <1>2 DEF Settled, Foreign
<1>3. CASE pc[p] = "commit" /\ files' = [files EXCEPT ![item.path] = item.file]
  <2>1. /\ job[p].at \in DOMAIN job[p].items /\ Made(job[p])
        /\ o \in InMemory \cup Copying \cup {"external"} /\ o # "generate" /\ pc[p] \in Prepared
    BY <1>3, ItemAtHand DEF WholeInv, Prepared, Held
  <2>2. Foreign(item.file) \/ (item.path \in Paths => files[item.path] # NoFile
                                                      /\ item.file.body = files[item.path].body)
    <3>1. CASE o \in InMemory
      BY <2>1, <3>1 DEF Made, Foreign, NotGenerated
    <3>2. CASE o = "rekey"
      <4>1. o \in Copying
        BY <3>2 DEF Copying
      <4>2. item.from = item.path
        BY <2>1, <3>2 DEF Made
      <4>3. Exists(item.from) /\ files[item.from].body = item.file.body
        BY <1>3, <2>1, <4>1 DEF CopyInv, Cmd
      <4> QED BY <4>2, <4>3 DEF Exists
    <3>3. CASE o \in Migrations
      <4>1. BesideJob(job[p])
        BY <2>1, <3>3 DEF BesideInv, Cmd
      <4> QED BY <2>1, <4>1 DEF BesideJob, Foreign
    <3>4. o \in InMemory \/ o = "rekey" \/ o \in Migrations
      BY <2>1 DEF Copying, Migrations
    <3> QED BY <3>1, <3>2, <3>3, <3>4
  <2> HIDE DEF item
  <2>3. ASSUME NEW d \in Paths
        PROVE  Foreign(files'[d]) \/ (files[d] # NoFile /\ files'[d].body = files[d].body)
    <3>1. CASE d = item.path
      BY <1>1, <1>3, <2>2, <3>1
    <3>2. CASE d # item.path
      <4>1. files'[d] = files[d]
        BY <1>1, <1>3, <3>2
      <4> QED BY <4>1 DEF Foreign
    <3> QED BY <3>1, <3>2
  <2> QED BY <2>3 DEF Settled
<1> QED BY <1>2, <1>3, RenamesFiles

\* A generator that commits: its state is away while outputs appear, and appears
\* with all of them in place.
LEMMA GeneratorCommits ==
  ASSUME IndInv, OneRunInv, OutsideInv, NEW p \in Procs, BatchInv(p), Renames(p), pc[p] = "commit",
         job[p].cmd.op = "generate"
  PROVE  OneRunInv' /\ OutsideInv'
<1> DEFINE items == job[p].items
           at == job[p].at
           item == items[at]
           last == items[Len(items)]
           h == GeneratorId(p)
           made == Decl(p)
<1>1. DOMAIN files = Paths /\ files' = [files EXCEPT ![item.path] = item.file]
  BY RenamesFiles DEF IndInv, SharedInv
<1>2. /\ at \in 1 .. Len(items) /\ Len(items) \in Nat /\ DOMAIN items = 1 .. Len(items)
      /\ Made(job[p]) /\ Ordered(job[p])
  BY ItemAtHand
<1>3. at \in DOMAIN items /\ Len(items) \in DOMAIN items /\ at \in Nat
  BY <1>2
<1>4. GeneratorMade(job[p], h, made)
  BY <1>2 DEF Made, GeneratorId, Decl, Plan, Cmd
<1>5. Plan(p) \in Range(Plans) /\ h \in DOMAIN Plan(p).generators /\ made = Plan(p).generators[h]
  BY <1>2, DeclFields DEF Decl
<1>6. /\ last.path = made.state
      /\ \A i \in DOMAIN items : items[i].path \in GeneratorPaths(made)
      /\ \A d \in Range(made.outputs \o made.public) : \E i \in DOMAIN items : i < Len(items) /\ items[i].path = d
      /\ \A i, k \in DOMAIN items : items[i].file # NoFile /\ items[k].file # NoFile =>
           items[i].file.body.n = items[k].file.body.n
      /\ \A i \in DOMAIN items : items[i].file # NoFile =>
           /\ items[i].file.body.by = h
           /\ IF i = Len(items) THEN items[i].file.body.part = StateOf(made)
              ELSE ~IsStatePart(items[i].file.body.part)
  BY <1>4 DEF GeneratorMade
<1>7. made.state \in Paths /\ \A d \in GeneratorPaths(made) : d \in Owned
  BY <1>5, OwnedPaths
<1>8. /\ DistinctDestinations(items)
      /\ \A i \in DOMAIN items : items[i].path \in Paths =>
           /\ i >= at => files[items[i].path] = NoFile
           /\ i < at => files[items[i].path] = items[i].file
  BY DEF BatchInv, Cmd, IsBatch, Exists
<1> HIDE DEF made, h, items, at
<1>9. OutsideInv'
  <2>1. item.path \in Owned
    BY <1>3, <1>6, <1>7
  <2> QED BY <1>1, <2>1 DEF OutsideInv
<1>10. ASSUME NEW plan \in Range(Plans), NEW g \in DOMAIN plan.generators
       PROVE  OneRun(plan, g)'
  <2> DEFINE decl == plan.generators[g]
  <2>1. /\ g \in Generators /\ decl.state \in Paths
        /\ \A d \in Range(decl.outputs \o decl.public) : d \in Paths
    BY OwnedPaths
  <2>2. SUFFICES ASSUME files'[decl.state] # NoFile, files'[decl.state].body.part = StateOf(decl),
                        NEW d \in Range(decl.outputs \o decl.public), files'[d] # NoFile, files'[d].body.by = g
                 PROVE  files'[d].body.n = files'[decl.state].body.n
    BY DEF OneRun, Exists, StateMatches
  <2>3. Exists(decl.state) /\ StateMatches(decl) /\ Exists(d) /\ files[d].body.by = g =>
          files[d].body.n = files[decl.state].body.n
    BY <2>2 DEF OneRunInv, OneRun
  <2>4. IsStatePart(StateOf(decl))
    BY DEF IsStatePart
  <2>5. g = h => decl.state = made.state
    BY <1>5, GeneratorAssumption
  <2>6. StateOf(decl) = StateOf(made) => decl.outputs = made.outputs /\ decl.public = made.public
    BY DEF StateOf
  <2>7. d \in Paths
    BY <2>1, <2>2
  <2> HIDE DEF decl
  <2>8. CASE decl.state = item.path
    <3>1. files'[decl.state] = item.file /\ item.file # NoFile
      BY <1>1, <2>1, <2>2, <2>8
    <3>2. at = Len(items) /\ StateOf(decl) = StateOf(made)
      BY <1>3, <1>6, <2>2, <2>4, <3>1
    <3>3. d \in Range(made.outputs \o made.public)
      BY <2>2, <2>6, <3>2
    <3>4. PICK i \in DOMAIN items : i < Len(items) /\ items[i].path = d
      BY <1>6, <3>3
    <3>5. files[d] = items[i].file
      BY <1>8, <2>7, <3>2, <3>4
    <3>6. d # item.path
      <4>1. i # at
        BY <1>2, <3>2, <3>4
      <4> QED BY <1>3, <1>8, <3>4, <4>1 DEF DistinctDestinations
    <3>7. files'[d] = items[i].file
      BY <1>1, <2>7, <3>5, <3>6
    <3> QED BY <1>3, <1>6, <2>2, <3>1, <3>7
  <2>9. CASE decl.state # item.path
    <3>1. files'[decl.state] = files[decl.state]
      BY <1>1, <2>1, <2>9
    <3>2. d # item.path
      <4>1. SUFFICES ASSUME d = item.path PROVE FALSE
        OBVIOUS
      <4>2. files'[d] = item.file
        BY <1>1, <2>7, <4>1
      <4>3. decl.state = last.path
        BY <1>3, <1>6, <2>2, <2>5, <4>2
      <4>4. Len(items) >= at
        BY <1>2
      <4>5. files[decl.state] = NoFile
        BY <1>3, <1>8, <2>1, <4>3, <4>4
      <4> QED BY <2>2, <3>1, <4>5
    <3>3. files'[d] = files[d]
      BY <1>1, <2>7, <3>2
    <3> QED BY <2>2, <2>3, <3>1, <3>3 DEF Exists, StateMatches
  <2> QED BY <2>8, <2>9
<1> QED BY <1>9, <1>10 DEF OneRunInv

LEMMA OneRunMoves ==
  ASSUME IndInv, OneRunInv, OutsideInv, NEW p \in Procs, WholeInv(p), CopyInv(p), BatchInv(p), BesideInv(p),
         Moves(p)
  PROVE  OneRunInv' /\ OutsideInv'
<1>1. CASE files' = files
  <2>1. Settled
    BY <1>1 DEF Settled, Foreign
  <2> QED BY <2>1, SettledKeeps
<1>2. CASE Renames(p) /\ (pc[p] = "commit" => job[p].cmd.op # "generate")
  BY <1>2, OthersSettle, SettledKeeps
<1>3. CASE Renames(p) /\ pc[p] = "commit" /\ job[p].cmd.op = "generate"
  BY <1>3, GeneratorCommits
<1> QED BY <1>1, <1>2, <1>3, Framed DEF Frame

LEMMA OneRunInductive ==
  ASSUME \A c \in AllCommands : ReadsBeside(c)
  PROVE  Spec => [](OneRunInv /\ OutsideInv /\ \A p \in Procs : BatchInv(p) /\ BesideInv(p))
<1> DEFINE Known == (\A p \in Procs : CopyInv(p)) /\ \A p \in Procs : WholeInv(p)
           Inv == /\ OneRunInv /\ OutsideInv
                  /\ \A p \in Procs : BatchInv(p) /\ BesideInv(p)
<1>1. Init => Inv
  <2> SUFFICES ASSUME Init PROVE Inv
    OBVIOUS
  <2>1. \A d \in Paths : Foreign(files[d])
    BY GeneratorAssumption DEF Init, Foreign, NotGenerated, IsStatePart
  <2>2. OutsideInv
    BY <2>1 DEF OutsideInv
  <2>3. ASSUME NEW plan \in Range(Plans), NEW g \in DOMAIN plan.generators PROVE OneRun(plan, g)
    <3>1. plan.generators[g].state \in Paths /\ IsStatePart(StateOf(plan.generators[g]))
      BY GeneratorAssumption DEF IsStatePart
    <3> QED BY <2>1, <3>1 DEF OneRun, Foreign, NotGenerated, Exists, StateMatches
  <2>4. \A p \in Procs : BatchInv(p) /\ BesideInv(p)
    BY DEF Init, BatchInv, BesideInv, Prepared, Held
  <2> QED BY <2>2, <2>3, <2>4 DEF OneRunInv
<1>2. IndInv /\ Known /\ Inv /\ [Next]_vars => Inv'
  <2> SUFFICES ASSUME IndInv, Known, Inv, [Next]_vars PROVE Inv'
    OBVIOUS
  <2>1. CASE Tick \/ UNCHANGED vars
    <3>1. UNCHANGED <<files, pc, job>>
      BY <2>1 DEF Tick, vars
    <3>2. OneRunInv' /\ OutsideInv'
      BY <3>1, SettledKeeps DEF Settled, Foreign
    <3> QED BY <3>1, <3>2 DEF BatchInv, BesideInv, Cmd, Exists
  <2>2. ASSUME NEW p \in Procs, Moves(p) PROVE Inv'
    <3>1. Frame(p)
      BY <2>2, Framed
    <3>2. OneRunInv' /\ OutsideInv'
      BY <2>2, OneRunMoves
    <3>3. BatchInv(p)' /\ BesideInv(p)'
      BY <2>2, BatchMoves, BesideMoves
    <3>4. ASSUME NEW q \in Procs \ {p} PROVE BatchInv(q)' /\ BesideInv(q)'
      <4>1. BesideInv(q)'
        BY <3>1 DEF Frame, BesideInv, Cmd
      <4> QED BY <3>1, <4>1, BatchOthers
    <3> QED BY <3>2, <3>3, <3>4
  <2> QED BY <2>1, <2>2 DEF Next, Moves
<1> QED BY <1>1, <1>2, CommandsInductive, CopyInductive, WholeInductive, PTL DEF Spec

\* As long as no migration copies what a generator keeps, outputs that a later run
\* would report as unchanged were made together by one run of their generator: for
\* any plans, commands and faults, whoever replaces, rekeys, edits or deletes them
\* and wherever a batch is interrupted.  (generator_action,
\* write_secret_public_private_batch)
THEOREM OutputsAlwaysFromOneRun ==
  ASSUME \A c \in AllCommands : ReadsBeside(c)
  PROVE  Spec => []OutputsFromOneRun
<1>1. OneRunInv => OutputsFromOneRun
  <2> SUFFICES ASSUME OneRunInv, NEW plan \in Range(Plans), NEW g \in DOMAIN plan.generators
               PROVE  LET decl == plan.generators[g]
                      IN GeneratorAction(decl, FALSE) = "unchanged" =>
                           \A d, e \in {x \in Present(decl) : files[x].body.by = g} :
                             files[d].body.n = files[e].body.n
    BY DEF OutputsFromOneRun
  <2> DEFINE decl == plan.generators[g]
  <2>1. OneRun(plan, g)
    BY DEF OneRunInv
  <2>2. GeneratorAction(decl, FALSE) = "unchanged" => Exists(decl.state) /\ StateMatches(decl)
    BY DEF GeneratorAction
  <2>3. ASSUME NEW d \in Present(decl) PROVE d \in Range(decl.outputs \o decl.public) /\ Exists(d)
    BY DEF Present
  <2>4. ASSUME GeneratorAction(decl, FALSE) = "unchanged", NEW d \in Present(decl), files[d].body.by = g
        PROVE  files[d].body.n = files[decl.state].body.n
    BY <2>1, <2>2, <2>3, <2>4 DEF OneRun
  <2> HIDE DEF decl
  <2>5. GeneratorAction(decl, FALSE) = "unchanged" =>
          \A d, e \in {x \in Present(decl) : files[x].body.by = g} : files[d].body.n = files[e].body.n
    BY <2>4
  <2> QED BY <2>5 DEF decl
<1> QED BY <1>1, OneRunInductive, PTL

-----------------------------------------------------------------------------
(* The order of the generators *)

\* The states of collect_generator_order.
Collecting == [calls : Seq(Generators), order : Seq(Generators)]

\* Every generator in the order comes after all that it depends on.
InOrder(plan, order) ==
  \A k \in 1 .. Len(order) : \A d \in Range(Dependencies(plan, order[k])) :
    \E i \in 1 .. k - 1 : order[i] = d

\* Every call but the first is for a dependency of the one that makes it.
Nested(plan, calls) ==
  \A k \in 1 .. Len(calls) - 1 : calls[k + 1] \in Range(Dependencies(plan, calls[k]))

LEMMA DependencyFacts ==
  ASSUME NEW plan \in Range(Plans), NEW g
  PROVE  /\ Dependencies(plan, g) \in Seq(DOMAIN plan.generators)
         /\ Dependencies(plan, g) \in Seq(Generators)
         /\ Range(Dependencies(plan, g)) \subseteq DOMAIN plan.generators
         /\ g \notin DOMAIN plan.generators => Range(Dependencies(plan, g)) = {}
<1>1. DOMAIN plan.generators \subseteq Generators
  BY GeneratorAssumption
<1>2. CASE g \in DOMAIN plan.generators
  <2>1. Dependencies(plan, g) = plan.generators[g].dependencies
        /\ plan.generators[g].dependencies \in Seq(DOMAIN plan.generators)
    BY <1>2, GraphAssumption DEF Dependencies
  <2> QED BY <1>1, <1>2, <2>1 DEF Range
<1>3. CASE g \notin DOMAIN plan.generators
  BY <1>3 DEF Dependencies, Range
<1> QED BY <1>2, <1>3

\* A call whose dependencies are all visited has them all in the order: one that is
\* still being called would close a cycle.
LEMMA AllReturned ==
  ASSUME NEW plan \in Range(Plans), NEW c \in Collecting, c.calls # <<>>, Nested(plan, c.calls),
         Unvisited(plan, c) = {}
  PROVE  Range(Dependencies(plan, Last(c.calls))) \subseteq Range(c.order)
<1> DEFINE calls == c.calls
           n == Len(calls)
           g == calls[n]
<1>1. calls \in Seq(Generators) /\ n \in Nat /\ n # 0 /\ Last(calls) = g
  BY DEF Collecting, Last
<1>2. SUFFICES ASSUME NEW d \in Range(Dependencies(plan, g)), d \notin Range(c.order) PROVE FALSE
  BY <1>1
<1>3. d \in Range(calls)
  <2>1. PICK i \in DOMAIN Dependencies(plan, g) : Dependencies(plan, g)[i] = d
    BY DEF Range
  <2> QED BY <1>1, <1>2, <2>1 DEF Unvisited
<1>4. PICK j \in 1 .. n : calls[j] = d
  BY <1>1, <1>3 DEF Range
<1> DEFINE set == {calls[k] : k \in j .. n}
<1>5. \A k \in j .. n : Range(Dependencies(plan, calls[k])) \cap set # {}
  <2> SUFFICES ASSUME NEW k \in j .. n PROVE Range(Dependencies(plan, calls[k])) \cap set # {}
    OBVIOUS
  <2>1. CASE k = n
    <3>1. d \in set
      BY <1>1, <1>4
    <3> QED BY <1>2, <2>1, <3>1
  <2>2. CASE k # n
    <3>1. k \in 1 .. n - 1 /\ k + 1 \in j .. n
      BY <1>1, <1>4, <2>2
    <3>2. calls[k + 1] \in Range(Dependencies(plan, calls[k]))
      BY <3>1 DEF Nested
    <3>3. calls[k + 1] \in set
      BY <3>1
    <3> QED BY <3>2, <3>3
  <2> QED BY <2>1, <2>2
<1>6. set # {} /\ set \subseteq DOMAIN plan.generators
  <2>1. d \in set
    BY <1>1, <1>4
  <2>2. \A k \in j .. n : calls[k] \in DOMAIN plan.generators
    BY <1>5, DependencyFacts
  <2> QED BY <2>1, <2>2
<1>7. \A h \in set : Range(plan.generators[h].dependencies) \cap set # {}
  <2> SUFFICES ASSUME NEW h \in set PROVE Range(plan.generators[h].dependencies) \cap set # {}
    OBVIOUS
  <2>1. PICK k \in j .. n : calls[k] = h
    OBVIOUS
  <2>2. Dependencies(plan, h) = plan.generators[h].dependencies
    BY <1>6 DEF Dependencies
  <2> HIDE DEF set
  <2> QED BY <1>5, <2>1, <2>2
<1> HIDE DEF set
<1>8. set \in SUBSET DOMAIN plan.generators
  BY <1>6
<1> QED BY <1>6, <1>7, <1>8, GraphAssumption

LEMMA CollectCalls ==
  ASSUME NEW plan \in Range(Plans), NEW c \in Collecting, c.calls # <<>>, Nested(plan, c.calls),
         Unvisited(plan, c) # {}
  PROVE  Call(plan, c) \in Seq(Generators) /\ Nested(plan, Call(plan, c))
<1> DEFINE calls == c.calls
           n == Len(calls)
           dependencies == Dependencies(plan, Last(calls))
           left == Unvisited(plan, c)
<1>1. calls \in Seq(Generators) /\ n \in Nat /\ n # 0 /\ Last(calls) = calls[n]
  BY DEF Collecting, Last
<1>2. dependencies \in Seq(Generators)
  BY DependencyFacts
<1>3. left \in SUBSET Nat /\ left \subseteq DOMAIN dependencies
  BY <1>2 DEF Unvisited
<1>4. Min(left) \in left
  <2>1. \E m \in left : \A k \in left : m <= k
    BY <1>3, LeastNatural
  <2> HIDE DEF left
  <2> QED BY <2>1 DEF Min
<1> DEFINE d == dependencies[Min(left)]
<1>5. d \in Generators /\ d \in Range(dependencies)
  BY <1>2, <1>3, <1>4 DEF Range
<1>6. Call(plan, c) = Append(calls, d)
  BY DEF Call
<1> HIDE DEF d
<1>7. /\ Append(calls, d) \in Seq(Generators) /\ Len(Append(calls, d)) = n + 1
      /\ \A k \in 1 .. n : Append(calls, d)[k] = calls[k]
      /\ Append(calls, d)[n + 1] = d
  BY <1>1, <1>5
<1>8. Nested(plan, Append(calls, d))
  BY <1>1, <1>5, <1>7 DEF Nested
<1> QED BY <1>6, <1>7, <1>8

LEMMA CollectReturns ==
  ASSUME NEW plan \in Range(Plans), NEW c \in Collecting, c.calls # <<>>, Nested(plan, c.calls),
         InOrder(plan, c.order), Unvisited(plan, c) = {}
  PROVE  /\ Front(c.calls) \in Seq(Generators) /\ Nested(plan, Front(c.calls))
         /\ Append(c.order, Last(c.calls)) \in Seq(Generators)
         /\ InOrder(plan, Append(c.order, Last(c.calls)))
<1> DEFINE calls == c.calls
           n == Len(calls)
           g == Last(calls)
           order == c.order
<1>1. calls \in Seq(Generators) /\ n \in Nat /\ n # 0 /\ g \in Generators /\ order \in Seq(Generators)
  BY DEF Collecting, Last
<1>2. Range(Dependencies(plan, g)) \subseteq Range(order)
  BY AllReturned
<1>3. /\ Front(calls) \in Seq(Generators) /\ Len(Front(calls)) = n - 1
      /\ \A k \in 1 .. n - 1 : Front(calls)[k] = calls[k]
  BY <1>1 DEF Front
<1>4. Nested(plan, Front(calls))
  BY <1>1, <1>3 DEF Nested
<1> HIDE DEF g
<1>5. /\ Append(order, g) \in Seq(Generators) /\ Len(Append(order, g)) = Len(order) + 1
      /\ \A k \in 1 .. Len(order) : Append(order, g)[k] = order[k]
      /\ Append(order, g)[Len(order) + 1] = g
  BY <1>1
<1>6. InOrder(plan, Append(order, g))
  <2> SUFFICES ASSUME NEW k \in 1 .. Len(order) + 1, NEW d \in Range(Dependencies(plan, Append(order, g)[k]))
               PROVE  \E i \in 1 .. k - 1 : Append(order, g)[i] = d
    BY <1>5 DEF InOrder
  <2>1. CASE k = Len(order) + 1
    <3>1. d \in Range(order)
      BY <1>2, <1>5, <2>1
    <3>2. PICK i \in 1 .. Len(order) : order[i] = d
      BY <1>1, <3>1 DEF Range
    <3> QED BY <1>1, <1>5, <2>1, <3>2
  <2>2. CASE k # Len(order) + 1
    <3>1. k \in 1 .. Len(order)
      BY <1>1, <2>2
    <3>2. PICK i \in 1 .. k - 1 : order[i] = d
      BY <1>5, <3>1 DEF InOrder
    <3>3. i \in 1 .. Len(order)
      BY <1>1, <3>1
    <3> QED BY <1>5, <3>2, <3>3
  <2> QED BY <2>1, <2>2
<1> QED BY <1>3, <1>4, <1>5, <1>6 DEF g

\* Whatever is asked for, what is collected is in order.
LEMMA CollectedInOrder ==
  ASSUME NEW plan \in Range(Plans), NEW g \in Generators
  PROVE  /\ CollectGeneratorOrder(plan, g) \in Seq(Generators)
         /\ InOrder(plan, CollectGeneratorOrder(plan, g))
<1> DEFINE N == 2 * Cardinality(Generators)
           base == [calls |-> <<g>>, order |-> <<>>]
           Step == [c \in Collecting |-> CollectStep(plan, c)]
           D == {c \in Collecting : Nested(plan, c.calls) /\ InOrder(plan, c.order)}
           step == [c \in D |-> CollectStep(plan, c)]
           body(h) == [n \in 0 .. N |-> IF n = 0 THEN base ELSE Step[h[n - 1]]]
           collected == CHOOSE h : h = body(h)
<1>1. N \in Nat
  <2>1. Cardinality(Generators) \in Nat
    BY GeneratorAssumption, FS_CardinalityType
  <2> QED BY <2>1
<1>2. CollectGeneratorOrder(plan, g) = collected[N].order
  BY DEF CollectGeneratorOrder, Collecting
<1>3. base \in D
  <2>1. base \in Collecting
    BY DEF Collecting
  <2>2. Nested(plan, base.calls) /\ InOrder(plan, base.order)
    BY DEF Nested, InOrder
  <2> QED BY <2>1, <2>2
<1>4. \A c \in D : CollectStep(plan, c) \in D /\ Step[c] = CollectStep(plan, c)
  <2> SUFFICES ASSUME NEW c \in D PROVE CollectStep(plan, c) \in D
    OBVIOUS
  <2>1. c \in Collecting /\ Nested(plan, c.calls) /\ InOrder(plan, c.order)
    OBVIOUS
  <2>2. CASE c.calls = <<>>
    BY <2>2 DEF CollectStep
  <2>3. CASE c.calls # <<>> /\ Unvisited(plan, c) # {}
    <3> DEFINE e == [c EXCEPT !.calls = Call(plan, c)]
    <3>1. CollectStep(plan, c) = e
      BY <2>3 DEF CollectStep
    <3>2. Call(plan, c) \in Seq(Generators) /\ Nested(plan, Call(plan, c))
      BY <2>1, <2>3, CollectCalls
    <3>3. e \in Collecting /\ e.calls = Call(plan, c) /\ e.order = c.order
      BY <2>1, <3>2 DEF Collecting
    <3> HIDE DEF e
    <3> QED BY <2>1, <3>1, <3>2, <3>3
  <2>4. CASE c.calls # <<>> /\ Unvisited(plan, c) = {}
    <3> DEFINE e == [calls |-> Front(c.calls), order |-> Append(c.order, Last(c.calls))]
    <3>1. CollectStep(plan, c) = e
      BY <2>4 DEF CollectStep
    <3>2. /\ Front(c.calls) \in Seq(Generators) /\ Nested(plan, Front(c.calls))
          /\ Append(c.order, Last(c.calls)) \in Seq(Generators)
          /\ InOrder(plan, Append(c.order, Last(c.calls)))
      BY <2>1, <2>4, CollectReturns
    <3>3. e \in Collecting /\ e.calls = Front(c.calls) /\ e.order = Append(c.order, Last(c.calls))
      BY <3>2 DEF Collecting
    <3> HIDE DEF e
    <3> QED BY <3>1, <3>2, <3>3
  <2> QED BY <2>2, <2>3, <2>4
<1>5. step \in [D -> D] /\ \A c \in D : step[c] = Step[c]
  <2> HIDE DEF D, Step
  <2> QED BY <1>4
<1>6. PICK f \in [0 .. N -> D] : Iterates(f, N, base, step)
  <2> HIDE DEF D, N, step, base
  <2> QED BY <1>1, <1>3, <1>5, IterationExists
<1> HIDE DEF D, N, step, Step, base
<1>7. f = body(f)
  <2>1. ASSUME NEW n \in 0 .. N PROVE f[n] = body(f)[n]
    <3>1. CASE n = 0
      BY <1>6, <3>1 DEF Iterates
    <3>2. CASE n # 0
      <4>1. n \in 1 .. N /\ n - 1 \in 0 .. N
        BY <1>1, <3>2
      <4>2. f[n] = step[f[n - 1]] /\ f[n - 1] \in D
        BY <1>6, <4>1 DEF Iterates
      <4> QED BY <1>5, <3>2, <4>2
    <3> QED BY <3>1, <3>2
  <2> QED BY <2>1
<1>8. collected = body(collected)
  <2> HIDE DEF body
  <2> QED BY <1>7, Zenon
<1> HIDE DEF collected
<1>9. collected[0] = base /\ \A n \in 1 .. N : collected[n] = Step[collected[n - 1]]
  <2>1. body(collected)[0] = base /\ \A n \in 1 .. N : body(collected)[n] = Step[collected[n - 1]]
    BY <1>1
  <2> HIDE DEF body
  <2> QED BY <1>8, <2>1
<1> HIDE DEF body
<1>10. collected[N] \in D
  <2> DEFINE T == {n \in 0 .. N : collected[n] \in D}
  <2>1. 0 \in T
    BY <1>1, <1>3, <1>9
  <2>2. ASSUME NEW n \in 1 .. N, n - 1 \in T PROVE n \in T
    BY <1>1, <1>4, <1>9, <2>2
  <2> HIDE DEF T
  <2>3. 0 .. N \subseteq T
    BY <1>1, <2>1, <2>2, IntervalInduction
  <2> QED BY <1>1, <2>3 DEF T
<1> QED BY <1>2, <1>10 DEF D, Collecting

-----------------------------------------------------------------------------
(* What a generator works from *)

DeclOf(j) == Plans[j.cmd.plan].generators[j.order[j.next]]

\* The outputs that j has ready after n transactions are at the paths its
\* declaration names and, once staged, numbered by their transaction.
Ready(j, n) ==
  \A i \in DOMAIN j.items : j.items[i].kind = "output" =>
    /\ IsFile(j.items[i].file) /\ j.items[i].file.body.n <= n
    /\ j.items[i].path \in Range(DeclOf(j).outputs) \cup Range(DeclOf(j).public)
Staged(j, n) == \A i \in DOMAIN j.items : j.items[i].file # NoFile => j.items[i].file.body.n = n
ReadyInv(p) ==
  pc[p] \in Prepared /\ Cmd(p).op = "generate" =>
    Ready(job[p], runs) /\ (pc[p] \in {"backup", "commit"} => Staged(job[p], runs))

\* No generated value at m's path is older than m.
Fresh(m) ==
  /\ m[2] \in Nat /\ m[2] <= runs
  /\ m[1] \in Paths /\ files[m[1]] # NoFile /\ files[m[1]].body.by \in Generators =>
       files[m[1]].body.n >= m[2]
FreshInv(p) == pc[p] # "idle" /\ Cmd(p).op = "generate" => \A m \in job[p].made : Fresh(m)

\* What the generator at hand has read is declared, and as new as what j has made.
InputsOK(j) ==
  \A i \in j.inputs :
    /\ i[1] \in Range(DeclOf(j).inputs)
    /\ \A m \in j.made : i[1] = m[1] /\ i[3] \in Generators => i[2] >= m[2]
InputsInv(p) ==
  pc[p] # "idle" /\ Cmd(p).op = "generate" =>
    InOrder(Plans[job[p].cmd.plan], job[p].order) /\ InputsOK(job[p])

LEMMA ItemsOfReady ==
  ASSUME NEW p \in Procs, Decl(p).outputs \in Seq(Paths), Decl(p).public \in Seq(Paths),
         NEW i \in DOMAIN ItemsOf(p), ItemsOf(p)[i].kind = "output"
  PROVE  /\ IsFile(ItemsOf(p)[i].file) /\ ItemsOf(p)[i].file.body.n = 0
         /\ ItemsOf(p)[i].path \in Range(Decl(p).outputs) \cup Range(Decl(p).public)
<1> DEFINE g == GeneratorId(p)
           decl == Decl(p)
           o == decl.outputs
           u == decl.public
           r1 == [k \in DOMAIN o |-> Plan(p).readers[o[k]]]
           r2 == [k \in DOMAIN u |-> {}]
           s1 == OutputItems(g, decl, o, "secret", r1)
           s2 == OutputItems(g, decl, u, "public", r2)
           x == StateItem(g, decl)
           Good(e) == IsFile(e.file) /\ e.file.body.n = 0 /\ e.path \in Range(o) \cup Range(u)
           S == Range(s1) \cup Range(s2) \cup {x}
<1>1. ItemsOf(p) = s1 \o s2 \o <<x>>
  BY DEF ItemsOf
<1>2. o \in Seq(Paths) /\ u \in Seq(Paths)
  OBVIOUS
<1>3. ASSUME NEW dests \in Seq(Paths), NEW class, NEW readers, Range(dests) \subseteq Range(o) \cup Range(u), NEW s,
             s = OutputItems(g, decl, dests, class, readers)
      PROVE  s \in Seq(Range(s)) /\ \A e \in Range(s) : Good(e)
  <2> DEFINE F(k) == [body |-> [by |-> g, part |-> <<class, OutputOrder(decl, Len(dests))[k]>>, n |-> 0],
                      to |-> readers[k]]
  <2>1. s = [k \in DOMAIN dests |-> Item(dests[k], "output", F(k))]
    BY <1>3 DEF OutputItems
  <2>2. s \in Seq(Range(s))
    BY <1>3, OutputItemsMade
  <2>3. \A k : IsFile(F(k)) /\ F(k).body.n = 0
    BY DEF IsFile
  <2> HIDE DEF F, o, u
  <2>4. ASSUME NEW k \in DOMAIN dests PROVE Good(s[k])
    <3>1. s[k] = Item(dests[k], "output", F(k))
      BY <2>1
    <3>2. s[k].path = dests[k] /\ s[k].file = F(k)
      BY <3>1 DEF Item
    <3>3. dests[k] \in Range(dests)
      BY DEF Range
    <3> QED BY <1>3, <2>3, <3>2, <3>3
  <2>5. DOMAIN s = DOMAIN dests
    BY <2>1
  <2> HIDE DEF Good
  <2> QED BY <2>2, <2>4, <2>5 DEF Range
<1>4. s1 \in Seq(Range(s1)) /\ \A e \in Range(s1) : Good(e)
  <2> DEFINE t == s1
  <2>1. t = OutputItems(g, decl, o, "secret", r1)
    OBVIOUS
  <2> HIDE DEF t, Good, o, u, g, decl, r1
  <2>2. t \in Seq(Range(t)) /\ \A e \in Range(t) : Good(e)
    BY <1>2, <1>3, <2>1
  <2> QED BY <2>2 DEF t
<1>5. s2 \in Seq(Range(s2)) /\ \A e \in Range(s2) : Good(e)
  <2> DEFINE t == s2
  <2>1. t = OutputItems(g, decl, u, "public", r2)
    OBVIOUS
  <2> HIDE DEF t, Good, o, u, g, decl, r2
  <2>2. t \in Seq(Range(t)) /\ \A e \in Range(t) : Good(e)
    BY <1>2, <1>3, <2>1
  <2> QED BY <2>2 DEF t
<1>6. x.kind # "output"
  BY DEF StateItem, Item
<1> HIDE DEF s1, s2, x, Good
<1>7. s1 \o s2 \o <<x>> \in Seq(S)
  <2>1. s1 \in Seq(S) /\ s2 \in Seq(S) /\ x \in S
    BY <1>4, <1>5
  <2> HIDE DEF S
  <2> QED BY <2>1
<1> DEFINE e == ItemsOf(p)[i]
<1>8. e \in S
  <2> HIDE DEF S
  <2> QED BY <1>1, <1>7
<1>9. e.kind = "output"
  OBVIOUS
<1> HIDE DEF e
<1>10. Good(e)
  BY <1>4, <1>5, <1>6, <1>8, <1>9
<1> QED BY <1>10 DEF Good, e

LEMMA NumberedReady ==
  ASSUME runs \in Nat, NEW item, IsItem(item), NEW x, x = Numbered(item)
  PROVE  /\ x.path = item.path /\ x.kind = item.kind
         /\ x.file # NoFile => x.file.body.n = runs + 1
         /\ IsFile(item.file) /\ item.file.body.n <= runs => IsFile(x.file) /\ x.file.body.n <= runs + 1
<1>1. x.path = item.path /\ x.kind = item.kind /\ (x.file # NoFile => x.file.body.n = runs + 1)
  BY NumberedFields
<1>2. ASSUME IsFile(item.file), item.file.body.n <= runs PROVE IsFile(x.file) /\ x.file.body.n <= runs + 1
  <2>1. CASE item.file = NoFile
    BY <1>2, <2>1 DEF Numbered, IsFile
  <2>2. CASE item.file # NoFile
    <3>1. x = [item EXCEPT !.file.body.n = runs + 1]
      BY <2>2 DEF Numbered
    <3>2. x.file = [item.file EXCEPT !.body.n = runs + 1]
      BY <3>1 DEF IsItem
    <3>3. x.file.body = [item.file.body EXCEPT !.n = runs + 1] /\ DOMAIN x.file = {"body", "to"}
      BY <1>2, <3>2 DEF IsFile
    <3> QED BY <1>2, <3>3 DEF IsFile
  <2> QED BY <2>1, <2>2
<1> QED BY <1>1, <1>2

\* A transaction is counted when it stages, under the lock.
LEMMA RunsGrow ==
  ASSUME IndInv, NEW p \in Procs, Moves(p)
  PROVE  runs \in Nat /\ (runs' = runs \/ (runs' = runs + 1 /\ lock = p /\ pc[p] \in {"stage", "reading"}))
<1>1. runs \in Nat
  BY DEF IndInv, SharedInv
<1>2. CASE Stage(p) \/ StageCopies(p) \/ ReadOutput(p)
  BY <1>1, <1>2 DEF Stage, StageCopies, StageItems, ReadOutput, IndInv, JobInv, Held
<1>3. CASE ~(Stage(p) \/ StageCopies(p) \/ ReadOutput(p))
  <2>1. CASE Returns(p)
    BY <1>1, <2>1, ReturnersFrame DEF Returns
  <2>2. CASE Launchers(p) \/ StartExternal(p) \/ Issue(p)
    BY <1>1, <2>2, ZenonT(30) DEF Launchers, Generate, Write, Batch, Edit, Rekey, Delete, Bootstrap, Redeem,
       MigrateCiphertext, MigrateTree, MigrateClan, StartExternal, Migrate, Issue
  <2>3. CASE Prepares(p) \/ Acquire(p) \/ Backup(p) \/ Commit(p) \/ CommitLast(p)
    BY <1>1, <2>3 DEF Prepares, Decide, Values, GeneratorExits, Persist, EditorSaves, RedeemReads, Acquire,
       Backup, Commit, CommitLast
  <2>4. CASE Decrypts(p)
    BY <1>1, <1>3, <2>4 DEF Decrypts, OpenExternal, ReadFails, Check, CheckFails, CheckTimesOut,
       TerminateExternal, ThreadNext, DecryptorNext, WriterBreaks, WatchdogFires, Feed, SourceFails, ChildForks,
       HelperExits, ChildCloses, ChildExits, Only
  <2> QED BY <1>3, <2>1, <2>2, <2>3, <2>4, Kinds
<1> QED BY <1>2, <1>3

\* What a command reads for its generator.
Read(p) == {<<d, files[d].body.n, files[d].body.by>> : d \in Range(Decl(p).inputs)}

\* What a step leaves of a generate command.
GenerateJob(p) ==
  \/ /\ Generate(p) /\ job'[p].made = {} /\ job'[p].inputs = {}
     /\ InOrder(Plans[job'[p].cmd.plan], job'[p].order)
  \/ /\ pc[p] # "idle" /\ job'[p].cmd = job[p].cmd /\ job'[p].order = job[p].order
     /\ job'[p].made = job[p].made \/ CommitLast(p)
     /\ \/ job'[p].inputs = job[p].inputs /\ job'[p].next = job[p].next
        \/ job'[p].inputs = {}
        \/ /\ Values(p) /\ InputsReadable(p) /\ job'[p].next = job[p].next
           /\ job'[p].made = job[p].made /\ job'[p].inputs = Read(p)

LEMMA GenerateLaunches ==
  ASSUME IndInv, NEW p \in Procs, Generate(p), pc'[p] # "idle"
  PROVE  /\ job'[p].made = {} /\ job'[p].inputs = {} /\ pc'[p] = "decide"
         /\ InOrder(Plans[job'[p].cmd.plan], job'[p].order)
<1> DEFINE cmd == Head(todo[p])
           plan == Plans[cmd.plan]
           order == CollectGeneratorOrder(plan, cmd.generator)
           asks == Asked(cmd, plan, order)
           j == [NoJob EXCEPT !.cmd = cmd, !.order = order, !.next = 1, !.asks = asks]
           ok == /\ AllDeclared(plan, cmd.generator, order)
                 /\ ~Exists(LegacyPromptState)
                 /\ \A g \in Range(order) : \A d \in Range(plan.generators[g].outputs) :
                      Authorized(plan, d, cmd.key)
                 /\ PromptsResolve(cmd, plan, order)
<1>1. Upcoming(p, "generate") /\ Launch(p, ok, j, "decide") /\ UNCHANGED <<world, files, runs, history>>
  BY ZenonT(30) DEF Generate
<1>2. cmd \in AllCommands /\ cmd.op = "generate"
  BY <1>1, NextCommand
<1>3. plan \in Range(Plans) /\ cmd.generator \in Generators
  BY <1>2, GeneratorAssumption DEF Range
<1> HIDE DEF plan
<1>4. InOrder(plan, order)
  BY <1>3, CollectedInOrder
<1> HIDE DEF order, asks
<1>5. /\ j.cmd = cmd /\ j.order = order /\ j.made = {} /\ j.inputs = {}
  BY DEF NoJob
<1> HIDE DEF j, ok
<1>6. job'[p] = j /\ pc'[p] = "decide"
  BY <1>1, <1>5, LaunchedJob
<1> QED BY <1>4, <1>5, <1>6 DEF plan

LEMMA GenerateJobs ==
  ASSUME IndInv, NEW p \in Procs, Moves(p), pc'[p] # "idle", job'[p].cmd.op = "generate"
  PROVE  GenerateJob(p)
<1>1. DOMAIN job = Procs /\ JobOK(job[p], pc[p]) /\ DOMAIN job[p] = DOMAIN NoJob
  BY DEF IndInv, SharedInv, JobInv, JobOK
<1>2. CASE Returns(p) \/ Issue(p) \/ StartExternal(p)
  <2>1. Returns(p) => pc'[p] = "idle"
    BY ReturnsSteps
  <2>2. Issue(p) => pc'[p] = "idle"
    BY DEF Issue, Upcoming
  <2>3. StartExternal(p) => pc'[p] = "idle" \/ job'[p].cmd.op # "generate"
    BY ExternalLaunched DEF Launched
  <2> QED BY <1>2, <2>1, <2>2, <2>3
<1>3. CASE Launchers(p)
  <2>1. Head(todo[p]).op = "generate"
    BY <1>3, LaunchersLaunch DEF Launched
  <2>2. Generate(p)
    BY <1>3, <2>1 DEF Launchers, Write, Batch, Edit, Rekey, Delete, Bootstrap, Redeem, Upcoming,
       MigrateCiphertext, MigrateTree, MigrateClan, Migrate
  <2> QED BY <2>2, GenerateLaunches DEF GenerateJob
<1>4. CASE Prepares(p)
  <2>1. job[p].cmd.op = "generate" /\ ~Return(p)
    BY <1>4, PreparesSteps, ReturnFrame
  <2>2. ~EditorSaves(p) /\ ~RedeemReads(p)
    BY <1>1, <2>1 DEF JobOK, EditorSaves, RedeemReads
  <2>3. CASE Decide(p) \/ Persist(p)
    <3>1. \/ \E action : job'[p] = [job[p] EXCEPT !.mode = action]
          \/ \E next : job'[p] = [job[p] EXCEPT !.next = next, !.items = <<>>, !.note = <<>>,
                                                !.answer = NoAnswer, !.inputs = {}]
      BY <1>1, <2>1, <2>3 DEF Decide, Persist, Advance, Update, NoJob
    <3>2. pc[p] # "idle"
      BY <2>3 DEF Decide, Persist
    <3> QED BY <1>1, <3>1, <3>2 DEF GenerateJob, NoJob
  <2>4. CASE GeneratorExits(p)
    <3> DEFINE items == ItemsOf(p)
               note == <<"answer", GeneratorId(p), job[p].answer>>
    <3>1. job'[p] = [job[p] EXCEPT !.items = items, !.note = note] /\ pc[p] # "idle"
      BY <1>1, <2>4 DEF GeneratorExits, Produced, Update
    <3> HIDE DEF items, note
    <3> QED BY <1>1, <3>1 DEF GenerateJob, NoJob
  <2>5. CASE Values(p)
    <3> DEFINE inputs == {<<d, files[d].body.n, files[d].body.by>> : d \in Range(Decl(p).inputs)}
               answer == Answer(p)
               j == [job[p] EXCEPT !.answer = answer, !.inputs = inputs]
               i == [j EXCEPT !.inputs = {}]
               items == ItemsOf(p)
               note == <<"answer", GeneratorId(p), i.answer>>
    <3>1. /\ pc[p] # "idle"
          /\ \/ job'[p] = [i EXCEPT !.items = items, !.note = note]
             \/ InputsReadable(p) /\ job'[p] = j
      BY <1>1, <2>5 DEF Values, Produced, Update
    <3>2. inputs = Read(p)
      BY DEF Read
    <3> HIDE DEF inputs, answer, items, note
    <3>3. CASE job'[p] = [i EXCEPT !.items = items, !.note = note]
      BY <1>1, <3>1, <3>3 DEF GenerateJob, NoJob
    <3>4. CASE InputsReadable(p) /\ job'[p] = j
      <4>1. /\ job'[p].cmd = job[p].cmd /\ job'[p].order = job[p].order /\ job'[p].made = job[p].made
            /\ job'[p].next = job[p].next /\ job'[p].inputs = inputs
        BY <1>1, <3>4 DEF NoJob
      <4> QED BY <2>5, <3>1, <3>2, <3>4, <4>1 DEF GenerateJob
    <3> QED BY <3>1, <3>3, <3>4
  <2> QED BY <1>4, <2>2, <2>3, <2>4, <2>5 DEF Prepares
<1>5. CASE Acquire(p)
  BY <1>5 DEF Acquire, GenerateJob
<1>6. CASE StageCopies(p) \/ Decrypts(p)
  <2>1. job'[p].cmd.op \in Copying \cup {"external"}
    BY <1>6, Framed, StagesSteps, DecryptsSteps DEF StageCopies, Cmd
  <2> QED BY <2>1 DEF Copying
<1>7. CASE Stage(p)
  <2> DEFINE items == [i \in DOMAIN job[p].items |-> Numbered(job[p].items[i])]
  <2>1. job'[p] = [job[p] EXCEPT !.items = items, !.at = 1] /\ pc[p] # "idle"
    BY <1>1, <1>7 DEF Stage, StageItems, Update
  <2> HIDE DEF items
  <2> QED BY <1>1, <2>1 DEF GenerateJob, NoJob
<1>8. CASE Backup(p) \/ Commit(p)
  <2>1. pc[p] # "idle" /\ \E n : job'[p] = [job[p] EXCEPT !.at = n]
    <3>1. CASE Commit(p)
      BY <1>1, <3>1 DEF Commit, Update
    <3>2. CASE Backup(p)
      BY <1>1, <3>2 DEF Backup, NextItem, Update
    <3> QED BY <1>8, <3>1, <3>2
  <2> QED BY <1>1, <2>1 DEF GenerateJob, NoJob
<1>9. CASE CommitLast(p)
  <2>1. Cmd(p).op = "generate"
    BY <1>9, LastSteps DEF Cmd
  <2>2. pc[p] # "idle" /\ \E made : job'[p] = [job[p] EXCEPT !.at = 0, !.made = made]
    BY <1>1, <1>9, <2>1 DEF CommitLast, Update
  <2> QED BY <1>1, <1>9, <2>2 DEF GenerateJob, NoJob
<1> QED BY <1>2, <1>3, <1>4, <1>5, <1>6, <1>7, <1>8, <1>9, Kinds

\* What the generator at hand is declared with.
LEMMA DeclOfJob ==
  ASSUME NEW p \in Procs
  PROVE  DeclOf(job[p]) = Decl(p)
BY DEF DeclOf, Decl, Plan, GeneratorId, Cmd

\* Every output that a generator is about to commit is ready.
LEMMA ReadyMoves ==
  ASSUME IndInv, NEW p \in Procs, ReadyInv(p), Moves(p)
  PROVE  ReadyInv(p)'
<1> SUFFICES ASSUME pc'[p] \in Prepared, job'[p].cmd.op = "generate"
             PROVE  Ready(job'[p], runs') /\ (pc'[p] \in {"backup", "commit"} => Staged(job'[p], runs'))
  BY DEF ReadyInv, Cmd
<1>1. Frame(p) /\ runs \in Nat /\ runs' \in Nat
  BY Framed, RunsGrow DEF Frame
<1>2. pc'[p] # "idle"
  BY DEF Prepared, Held
<1>3. CASE Returns(p) \/ Launchers(p) \/ StartExternal(p) \/ Issue(p) \/ CommitLast(p)
  <2>1. Returns(p) => pc'[p] = "idle"
    BY ReturnsSteps
  <2>2. Issue(p) => pc'[p] = "idle"
    BY DEF Issue, Upcoming
  <2>3. StartExternal(p) => pc'[p] = "idle" \/ job'[p].cmd.op # "generate"
    BY ExternalLaunched DEF Launched
  <2>4. CommitLast(p) => pc'[p] \in {"idle", "persist"}
    BY LastSteps
  <2>5. CASE Launchers(p)
    <3>1. Head(todo[p]).op = "generate"
      BY <1>2, <2>5, LaunchersLaunch DEF Launched
    <3>2. Generate(p)
      BY <2>5, <3>1 DEF Launchers, Write, Batch, Edit, Rekey, Delete, Bootstrap, Redeem, Upcoming,
         MigrateCiphertext, MigrateTree, MigrateClan, Migrate
    <3>3. pc'[p] = "decide"
      BY <1>2, <3>2, GenerateLaunches
    <3> QED BY <3>3 DEF Prepared, Held
  <2> QED BY <1>2, <1>3, <2>1, <2>2, <2>3, <2>4, <2>5 DEF Prepared, Held
<1>4. CASE Prepares(p)
  <2>1. job[p].cmd.op = "generate" /\ pc'[p] = "lock"
    BY <1>2, <1>4, PreparesSteps DEF Prepared, Held
  <2>2. JobOK(job[p], pc[p])
    BY DEF IndInv, JobInv
  <2>3. ~EditorSaves(p) /\ ~RedeemReads(p)
    BY <2>1, <2>2 DEF JobOK, EditorSaves, RedeemReads
  <2>4. ~Return(p)
    BY <1>2, ReturnFrame
  <2>5. ~Decide(p) /\ ~Persist(p)
    <3>1. DOMAIN pc = Procs
      BY DEF IndInv, SharedInv
    <3> QED BY <2>1, <2>4, <3>1 DEF Decide, Persist, Advance, Goto
  <2>6. Ordered(job[p]) /\ DOMAIN job = Procs
    BY <1>4, <2>1, PreparesSteps DEF IndInv, MadeInv, SharedInv, Cmd, Prepares, Values, GeneratorExits
  <2>7. job'[p].items = ItemsOf(p) /\ job'[p].order = job[p].order /\ job'[p].next = job[p].next /\ runs' = runs
        /\ job'[p].cmd = job[p].cmd
    <3>1. CASE GeneratorExits(p)
      <4> DEFINE items == ItemsOf(p)
                 note == <<"answer", GeneratorId(p), job[p].answer>>
      <4>1. job'[p] = [job[p] EXCEPT !.items = items, !.note = note] /\ runs' = runs
        BY <2>6, <3>1 DEF GeneratorExits, Produced, Update
      <4> HIDE DEF items, note
      <4>2. job'[p].items = items /\ job'[p].order = job[p].order /\ job'[p].next = job[p].next
            /\ job'[p].cmd = job[p].cmd
        BY <2>2, <4>1 DEF JobOK, NoJob
      <4> QED BY <4>1, <4>2 DEF items
    <3>2. CASE Values(p)
      <4> DEFINE inputs == {<<d, files[d].body.n, files[d].body.by>> : d \in Range(Decl(p).inputs)}
                 answer == Answer(p)
                 j == [job[p] EXCEPT !.answer = answer, !.inputs = inputs]
                 i == [j EXCEPT !.inputs = {}]
                 items == ItemsOf(p)
                 note == <<"answer", GeneratorId(p), i.answer>>
      <4>1. runs' = runs /\ (Goto(p, "running") \/ job'[p] = [i EXCEPT !.items = items, !.note = note])
        BY <2>6, <3>2 DEF Values, Produced, Update
      <4>2. ~Goto(p, "running")
        BY <2>1 DEF Goto, IndInv, SharedInv
      <4> HIDE DEF inputs, answer, items, note
      <4>3. job'[p].items = items /\ job'[p].order = job[p].order /\ job'[p].next = job[p].next
            /\ job'[p].cmd = job[p].cmd
        BY <2>2, <4>1, <4>2 DEF JobOK, NoJob
      <4> QED BY <4>1, <4>3 DEF items
    <3> QED BY <1>4, <2>3, <2>5, <3>1, <3>2 DEF Prepares
  <2>8. Decl(p).outputs \in Seq(Paths) /\ Decl(p).public \in Seq(Paths)
    BY <2>6, DeclFields
  <2>9. DeclOf(job'[p]) = Decl(p)
    BY <2>7 DEF DeclOf, Decl, Plan, GeneratorId, Cmd
  <2> DEFINE items == ItemsOf(p)
  <2>10. \A i \in DOMAIN items : items[i].kind = "output" =>
           /\ IsFile(items[i].file) /\ items[i].file.body.n = 0
           /\ items[i].path \in Range(Decl(p).outputs) \cup Range(Decl(p).public)
    <3> SUFFICES ASSUME NEW i \in DOMAIN ItemsOf(p), ItemsOf(p)[i].kind = "output"
                 PROVE  /\ IsFile(ItemsOf(p)[i].file) /\ ItemsOf(p)[i].file.body.n = 0
                        /\ ItemsOf(p)[i].path \in Range(Decl(p).outputs) \cup Range(Decl(p).public)
      OBVIOUS
    <3> QED BY <2>8, ItemsOfReady
  <2> HIDE DEF items
  <2>11. job'[p].items = items
    BY <2>7 DEF items
  <2> QED BY <1>1, <2>1, <2>9, <2>10, <2>11 DEF Ready
<1>5. CASE Acquire(p)
  <2>1. pc[p] = "lock" /\ job' = job /\ runs' = runs /\ pc'[p] = "stage"
    BY <1>5 DEF Acquire, Goto, IndInv, SharedInv
  <2>2. Ready(job[p], runs)
    BY <2>1 DEF ReadyInv, Cmd, Prepared
  <2> QED BY <2>1, <2>2 DEF Ready
<1>6. CASE StageCopies(p) \/ Decrypts(p)
  <2>1. job'[p].cmd.op \in Copying \cup {"external"}
    <3>1. CASE StageCopies(p)
      BY <3>1, StagesSteps DEF StageCopies, Cmd
    <3>2. CASE Decrypts(p)
      BY <1>1, <3>2, DecryptsSteps DEF Cmd
    <3> QED BY <1>6, <3>1, <3>2
  <2> QED BY <2>1 DEF Copying
<1>7. CASE Stage(p)
  <2> DEFINE old == job[p].items
             items == [i \in DOMAIN old |-> Numbered(old[i])]
  <2>1. pc[p] = "stage" /\ StageItems(p, items) /\ runs' = runs + 1
    BY <1>7 DEF Stage, StageItems
  <2> HIDE DEF items
  <2>2. job'[p].items = items /\ job'[p].cmd = job[p].cmd /\ job'[p].order = job[p].order
        /\ job'[p].next = job[p].next
    BY <2>1, StagesSteps
  <2>3. Ready(job[p], runs)
    BY <2>1, <2>2 DEF ReadyInv, Cmd, Prepared, Held
  <2>4. DeclOf(job'[p]) = DeclOf(job[p])
    BY <2>2 DEF DeclOf
  <2>5. DOMAIN items = DOMAIN old
    BY DEF items
  <2>6. ASSUME NEW i \in DOMAIN old
        PROVE  /\ items[i].path = old[i].path /\ items[i].kind = old[i].kind
               /\ items[i].file # NoFile => items[i].file.body.n = runs + 1
               /\ IsFile(old[i].file) /\ old[i].file.body.n <= runs =>
                    IsFile(items[i].file) /\ items[i].file.body.n <= runs + 1
    <3>1. IsItem(old[i]) /\ items[i] = Numbered(old[i])
      BY DEF items, IndInv, JobInv, JobOK, ItemsInv
    <3> QED BY <1>1, <3>1, NumberedReady
  <2> QED BY <2>1, <2>2, <2>3, <2>4, <2>5, <2>6 DEF Ready, Staged
<1>8. CASE Backup(p) \/ Commit(p)
  <2>1. /\ job'[p].items = job[p].items /\ job'[p].cmd = job[p].cmd /\ job'[p].order = job[p].order
        /\ job'[p].next = job[p].next /\ runs' = runs /\ pc[p] \in {"backup", "commit"}
    BY <1>8, ItemSteps DEF Backup, Commit
  <2>2. Ready(job[p], runs) /\ Staged(job[p], runs)
    BY <2>1 DEF ReadyInv, Cmd, Prepared, Held
  <2>3. DeclOf(job'[p]) = DeclOf(job[p])
    BY <2>1 DEF DeclOf
  <2> QED BY <2>1, <2>2, <2>3 DEF Ready, Staged
<1> QED BY <1>3, <1>4, <1>5, <1>6, <1>7, <1>8, Kinds

LEMMA ReadyOthers ==
  ASSUME IndInv, NEW p \in Procs, Moves(p), NEW q \in Procs \ {p}, ReadyInv(q)
  PROVE  ReadyInv(q)'
<1> SUFFICES ASSUME pc'[q] \in Prepared, job'[q].cmd.op = "generate"
             PROVE  Ready(job'[q], runs') /\ (pc'[q] \in {"backup", "commit"} => Staged(job'[q], runs'))
  BY DEF ReadyInv, Cmd
<1>1. pc'[q] = pc[q] /\ job'[q] = job[q]
  BY Framed DEF Frame
<1>2. Ready(job[q], runs) /\ (pc[q] \in {"backup", "commit"} => Staged(job[q], runs))
  BY <1>1 DEF ReadyInv, Cmd
<1>3. runs \in Nat /\ (runs' = runs \/ (runs' = runs + 1 /\ lock = p))
  BY RunsGrow
<1>4. CASE runs' = runs
  BY <1>1, <1>2, <1>4
<1>5. CASE runs' = runs + 1 /\ lock = p
  <2>1. pc[q] \notin {"backup", "commit"}
    BY <1>5 DEF IndInv, JobInv, Held
  <2>2. \A x \in Nat : x <= runs => x <= runs + 1
    BY <1>3
  <2> QED BY <1>1, <1>2, <1>5, <2>1, <2>2 DEF Ready, IsFile
<1> QED BY <1>3, <1>4, <1>5

\* What is at a path and a generator made was there, or is of the last transaction.
LEMMA Aged ==
  ASSUME IndInv, OutsideInv, NEW p \in Procs, WholeInv(p), CopyInv(p), BesideInv(p), ReadyInv(p), Moves(p),
         NEW d \in Paths, files'[d] # NoFile, files'[d].body.by \in Generators
  PROVE  \/ files[d] # NoFile /\ files'[d].body = files[d].body
         \/ files'[d].body.n = runs
<1>1. CASE files' = files
  BY <1>1
<1>2. CASE Renames(p) /\ (pc[p] = "commit" => job[p].cmd.op # "generate")
  <2>1. Settled
    BY <1>2, OthersSettle
  <2> QED BY <2>1 DEF Settled, Foreign, NotGenerated
<1>3. CASE Renames(p) /\ pc[p] = "commit" /\ job[p].cmd.op = "generate"
  <2> DEFINE items == job[p].items
             item == items[job[p].at]
  <2>1. DOMAIN files = Paths /\ files' = [files EXCEPT ![item.path] = item.file]
    BY <1>3, RenamesFiles DEF IndInv, SharedInv
  <2>2. job[p].at \in DOMAIN items
    BY <1>3, ItemAtHand
  <2>3. Staged(job[p], runs)
    BY <1>3 DEF ReadyInv, Cmd, Prepared, Held
  <2>4. item.file # NoFile => item.file.body.n = runs
    BY <2>2, <2>3 DEF Staged
  <2> HIDE DEF item
  <2> QED BY <2>1, <2>4
<1> QED BY <1>1, <1>2, <1>3, Framed DEF Frame

LEMMA FreshKept ==
  ASSUME IndInv, OutsideInv, NEW p \in Procs, WholeInv(p), CopyInv(p), BesideInv(p), ReadyInv(p), Moves(p),
         NEW m, Fresh(m)
  PROVE  Fresh(m)'
<1>1. runs \in Nat /\ (runs' = runs \/ runs' = runs + 1)
  BY RunsGrow
<1>2. m[2] \in Nat /\ m[2] <= runs /\ m[2] <= runs'
  BY <1>1 DEF Fresh
<1>3. ASSUME m[1] \in Paths, files'[m[1]] # NoFile, files'[m[1]].body.by \in Generators
      PROVE  files'[m[1]].body.n >= m[2]
  <2>1. CASE files[m[1]] # NoFile /\ files'[m[1]].body = files[m[1]].body
    BY <1>3, <2>1 DEF Fresh
  <2>2. CASE files'[m[1]].body.n = runs
    BY <1>1, <1>2, <2>2
  <2> QED BY <1>3, <2>1, <2>2, Aged
<1> QED BY <1>2, <1>3 DEF Fresh

\* What a generate command adds to what it has made.
LEMMA LastMade ==
  ASSUME IndInv, NEW p \in Procs, ReadyInv(p), BatchInv(p), CommitLast(p), job[p].cmd.op = "generate",
         NEW m \in job'[p].made, m \notin job[p].made
  PROVE  /\ m[2] \in Nat /\ m[2] <= runs
         /\ m[1] \in Paths => files'[m[1]].body.n = m[2]
         /\ m[1] \in Range(DeclOf(job[p]).outputs) \cup Range(DeclOf(job[p]).public)
<1> DEFINE items == job[p].items
           at == job[p].at
           item == items[at]
           new == {<<i.path, i.file.body.n>> : i \in {k \in Range(items) : k.kind = "output"}}
<1>1. DOMAIN job = Procs /\ DOMAIN job[p] = DOMAIN NoJob /\ DOMAIN files = Paths /\ runs \in Nat
  BY DEF IndInv, SharedInv, JobInv, JobOK
<1>2. job'[p].made = job[p].made \cup new
  <2>1. job'[p] = [job[p] EXCEPT !.at = 0, !.made = @ \cup new]
    BY <1>1 DEF CommitLast, Update, Cmd
  <2> HIDE DEF new
  <2> QED BY <1>1, <2>1 DEF NoJob
<1>3. PICK i \in DOMAIN items : items[i].kind = "output" /\ m = <<items[i].path, items[i].file.body.n>>
  BY <1>2 DEF Range
<1>4. pc[p] = "commit" /\ at = Len(items) /\ files' = [files EXCEPT ![item.path] = item.file]
  BY DEF CommitLast
<1>5. at \in DOMAIN items /\ Len(items) \in Nat /\ DOMAIN items = 1 .. Len(items)
  BY <1>4, ItemAtHand
<1>6. Ready(job[p], runs)
  BY <1>4 DEF ReadyInv, Cmd, Prepared, Held
<1>7. /\ IsFile(items[i].file) /\ items[i].file.body.n <= runs
      /\ items[i].path \in Range(DeclOf(job[p]).outputs) \cup Range(DeclOf(job[p]).public)
  BY <1>3, <1>6 DEF Ready
<1>8. /\ DistinctDestinations(items)
      /\ \A k \in DOMAIN items : items[k].path \in Paths /\ k < at => files[items[k].path] = items[k].file
  BY <1>4 DEF BatchInv, Cmd, IsBatch
<1> HIDE DEF items, at
<1>9. ASSUME items[i].path \in Paths PROVE files'[items[i].path] = items[i].file
  <2>1. CASE i = at
    BY <1>1, <1>4, <1>9, <2>1
  <2>2. CASE i # at
    <3>1. i < at
      BY <1>3, <1>4, <1>5, <2>2
    <3>2. items[i].path # item.path
      BY <1>3, <1>5, <1>8, <2>2 DEF DistinctDestinations
    <3>3. files'[items[i].path] = files[items[i].path]
      BY <1>1, <1>4, <1>9, <3>2
    <3> QED BY <1>3, <1>8, <1>9, <3>1, <3>3
  <2> QED BY <2>1, <2>2
<1> QED BY <1>3, <1>7, <1>9 DEF IsFile

LEMMA FreshMoves ==
  ASSUME IndInv, OutsideInv, NEW p \in Procs, WholeInv(p), CopyInv(p), BesideInv(p), BatchInv(p), ReadyInv(p),
         FreshInv(p), Moves(p)
  PROVE  FreshInv(p)'
<1> SUFFICES ASSUME pc'[p] # "idle", job'[p].cmd.op = "generate", NEW m \in job'[p].made PROVE Fresh(m)'
  BY DEF FreshInv, Cmd
<1>1. GenerateJob(p)
  BY GenerateJobs
<1>2. pc[p] # "idle" /\ job'[p].cmd = job[p].cmd /\ (job'[p].made = job[p].made \/ CommitLast(p))
  BY <1>1 DEF GenerateJob
<1>3. CASE m \in job[p].made
  <2>1. Fresh(m)
    BY <1>2, <1>3 DEF FreshInv, Cmd
  <2> QED BY <2>1, FreshKept
<1>4. CASE m \notin job[p].made
  <2>1. CommitLast(p) /\ job[p].cmd.op = "generate"
    BY <1>2, <1>4
  <2>2. m[2] \in Nat /\ m[2] <= runs /\ (m[1] \in Paths => files'[m[1]].body.n = m[2])
    BY <1>4, <2>1, LastMade
  <2>3. runs' = runs
    BY <2>1 DEF CommitLast
  <2> QED BY <2>2, <2>3 DEF Fresh
<1> QED BY <1>3, <1>4

LEMMA FreshOthers ==
  ASSUME IndInv, OutsideInv, NEW p \in Procs, WholeInv(p), CopyInv(p), BesideInv(p), ReadyInv(p), Moves(p),
         NEW q \in Procs \ {p}, FreshInv(q)
  PROVE  FreshInv(q)'
<1>1. pc'[q] = pc[q] /\ job'[q] = job[q]
  BY Framed DEF Frame
<1>2. ASSUME pc'[q] # "idle", job'[q].cmd.op = "generate", NEW m \in job'[q].made PROVE Fresh(m)'
  <2>1. Fresh(m)
    BY <1>1, <1>2 DEF FreshInv, Cmd
  <2> QED BY <2>1, FreshKept
<1> QED BY <1>2 DEF FreshInv, Cmd

LEMMA InputsMoves ==
  ASSUME IndInv, NEW p \in Procs, BatchInv(p), ReadyInv(p), FreshInv(p), InputsInv(p), Moves(p)
  PROVE  InputsInv(p)'
<1> DEFINE j == job[p]
           k == job'[p]
<1> SUFFICES ASSUME pc'[p] # "idle", k.cmd.op = "generate"
             PROVE  InOrder(Plans[k.cmd.plan], k.order) /\ InputsOK(k)
  BY DEF InputsInv, Cmd
<1>1. GenerateJob(p)
  BY GenerateJobs
<1>2. CASE Generate(p) /\ k.inputs = {} /\ InOrder(Plans[k.cmd.plan], k.order)
  BY <1>2 DEF InputsOK
<1>3. CASE /\ pc[p] # "idle" /\ k.cmd = j.cmd /\ k.order = j.order
           /\ k.made = j.made \/ CommitLast(p)
           /\ \/ k.inputs = j.inputs /\ k.next = j.next
              \/ k.inputs = {}
              \/ /\ Values(p) /\ InputsReadable(p) /\ k.next = j.next /\ k.made = j.made /\ k.inputs = Read(p)
  <2>1. Ordered(j) /\ InOrder(Plans[j.cmd.plan], j.order) /\ InputsOK(j) /\ \A m \in j.made : Fresh(m)
    BY <1>3 DEF InputsInv, FreshInv, IndInv, MadeInv, Cmd
  <2>2. /\ Plan(p) \in Range(Plans) /\ GeneratorId(p) \in DOMAIN Plan(p).generators
        /\ DeclOf(j) = Decl(p) /\ Decl(p) = Plan(p).generators[GeneratorId(p)]
    BY <2>1, DeclFields, DeclOfJob DEF Decl
  <2>3. /\ Range(Decl(p).inputs) \subseteq Paths
        /\ \A d \in Range(Decl(p).inputs) : d \notin Range(Decl(p).outputs) /\ d \notin Range(Decl(p).public)
    BY <2>2, GraphAssumption
  <2>4. CASE k.inputs = {}
    BY <1>3, <2>1, <2>4 DEF InputsOK
  <2>5. CASE k.inputs = j.inputs /\ k.next = j.next
    <3>1. DeclOf(k) = DeclOf(j)
      BY <1>3, <2>5 DEF DeclOf
    <3>2. ASSUME NEW i \in k.inputs, NEW m \in k.made, i[1] = m[1], i[3] \in Generators PROVE i[2] >= m[2]
      <4>1. i \in j.inputs /\ i[1] \in Range(DeclOf(j).inputs)
        BY <2>1, <2>5, <3>2 DEF InputsOK
      <4>2. CASE m \in j.made
        BY <2>1, <3>2, <4>1, <4>2 DEF InputsOK
      <4>3. CASE m \notin j.made
        <5>1. CommitLast(p) /\ j.cmd.op = "generate"
          BY <1>3, <3>2, <4>3
        <5>2. m[1] \in Range(DeclOf(j).outputs) \cup Range(DeclOf(j).public)
          BY <3>2, <4>3, <5>1, LastMade
        <5> QED BY <2>2, <2>3, <3>2, <4>1, <5>2
      <4> QED BY <4>2, <4>3
    <3>3. \A i \in k.inputs : i[1] \in Range(DeclOf(k).inputs)
      BY <2>1, <2>5, <3>1 DEF InputsOK
    <3> QED BY <1>3, <2>1, <3>2, <3>3 DEF InputsOK
  <2>6. CASE InputsReadable(p) /\ k.next = j.next /\ k.made = j.made /\ k.inputs = Read(p)
    <3>1. DeclOf(k) = Decl(p)
      BY <1>3, <2>2, <2>6 DEF DeclOf
    <3>2. ASSUME NEW i \in k.inputs
          PROVE  /\ i[1] \in Range(Decl(p).inputs)
                 /\ \A m \in k.made : i[1] = m[1] /\ i[3] \in Generators => i[2] >= m[2]
      <4>1. PICK d \in Range(Decl(p).inputs) : i = <<d, files[d].body.n, files[d].body.by>>
        BY <2>6, <3>2 DEF Read
      <4>2. d \in Paths /\ files[d] # NoFile
        BY <2>3, <2>6 DEF InputsReadable, Exists
      <4>3. ASSUME NEW m \in j.made, m[1] = d, files[d].body.by \in Generators PROVE files[d].body.n >= m[2]
        BY <2>1, <4>2, <4>3 DEF Fresh
      <4> QED BY <2>6, <4>1, <4>3
    <3> QED BY <1>3, <2>1, <3>1, <3>2 DEF InputsOK
  <2> QED BY <1>3, <2>4, <2>5, <2>6
<1> QED BY <1>1, <1>2, <1>3 DEF GenerateJob

\* What a generator that depends on others works from was made before it.
LEMMA ReadInOrder ==
  ASSUME IndInv, \A p \in Procs : InputsInv(p)
  PROVE  DependenciesFirst
<1> SUFFICES ASSUME NEW p \in Procs, pc[p] # "idle", Cmd(p).op = "generate", NEW i \in job[p].inputs
             PROVE  /\ \A m \in job[p].made : i[1] = m[1] /\ i[3] \in Generators => i[2] >= m[2]
                    /\ \A g \in DOMAIN Plan(p).generators :
                         i[1] \in Range(Plan(p).generators[g].outputs) =>
                           g \in Range(SubSeq(job[p].order, 1, job[p].next - 1))
  BY DEF DependenciesFirst
<1> DEFINE order == job[p].order
           next == job[p].next
           before == SubSeq(order, 1, next - 1)
           names == DOMAIN Plan(p).generators
<1>1. InOrder(Plan(p), order) /\ InputsOK(job[p]) /\ Ordered(job[p])
  BY DEF InputsInv, IndInv, MadeInv, Plan, Cmd
<1>2. order \in Seq(names) /\ next \in 1 .. Len(order)
  BY <1>1 DEF Ordered, Plan, Cmd
<1>3. /\ Plan(p) \in Range(Plans) /\ order[next] \in names
      /\ DeclOf(job[p]) = Decl(p) /\ Decl(p) = Plan(p).generators[order[next]]
  BY <1>1, DeclFields, DeclOfJob DEF Decl, GeneratorId
<1>4. ASSUME NEW g \in names, i[1] \in Range(Plan(p).generators[g].outputs)
      PROVE  g \in Range(before)
  <2>1. i[1] \in Range(Decl(p).inputs)
    BY <1>1, <1>3 DEF InputsOK
  <2>2. g \in Range(Decl(p).dependencies)
    <3> DEFINE h == order[next]
               plan == Plan(p)
    <3>1. plan \in Range(Plans) /\ h \in DOMAIN plan.generators /\ g \in DOMAIN plan.generators
      BY <1>3, <1>4
    <3>2. Decl(p) = plan.generators[h] /\ i[1] \in Range(plan.generators[g].outputs)
      BY <1>3, <1>4
    <3> HIDE DEF h, plan
    <3> QED BY <2>1, <3>1, <3>2, GraphAssumption
  <2>3. g \in Range(Dependencies(Plan(p), order[next]))
    BY <1>3, <2>2 DEF Dependencies
  <2> HIDE DEF order, next, names
  <2>4. PICK k \in 1 .. next - 1 : order[k] = g
    BY <1>1, <1>2, <2>3 DEF InOrder, order
  <2>5. before[k] = g /\ k \in DOMAIN before
    BY <1>2, <2>4
  <2> HIDE DEF before
  <2> QED BY <2>5 DEF Range
<1> QED BY <1>1, <1>4 DEF InputsOK

\* As long as no migration copies what a generator keeps, a generator works from
\* what the generators it depends on have made, each before it in the order of the
\* command, and never from a generated value that is older than the one the same
\* command has committed there: for any plans whose generators do not depend on
\* each other in a cycle, any commands and faults, and whoever replaces, rekeys,
\* edits or deletes the values meanwhile.  (collect_generator_order, the loop of
\* run_generate, validate_generator_graph)
THEOREM DependenciesAlwaysFirst ==
  ASSUME \A c \in AllCommands : ReadsBeside(c)
  PROVE  Spec => []DependenciesFirst
<1> DEFINE Copies == \A p \in Procs : CopyInv(p)
           Known == MigratedIsWhole /\ \A p \in Procs : WholeInv(p)
           Beside == OneRunInv /\ OutsideInv /\ \A p \in Procs : BatchInv(p) /\ BesideInv(p)
           Inv == \A p \in Procs : ReadyInv(p) /\ FreshInv(p) /\ InputsInv(p)
<1>1. Init => Inv
  BY DEF Init, ReadyInv, FreshInv, InputsInv, Prepared, Held
<1>2. IndInv /\ Copies /\ Known /\ Beside /\ Inv /\ [Next]_vars => Inv'
  <2> SUFFICES ASSUME IndInv, Copies, Known, Beside, Inv, [Next]_vars PROVE Inv'
    OBVIOUS
  <2>1. CASE Tick \/ UNCHANGED vars
    <3>1. UNCHANGED <<files, pc, job, runs>>
      BY <2>1 DEF Tick, vars
    <3> QED BY <3>1 DEF ReadyInv, FreshInv, Fresh, InputsInv, Cmd
  <2>2. ASSUME NEW p \in Procs, Moves(p) PROVE Inv'
    <3>1. ReadyInv(p)' /\ FreshInv(p)' /\ InputsInv(p)'
      BY <2>2, ReadyMoves, FreshMoves, InputsMoves
    <3>2. ASSUME NEW q \in Procs \ {p} PROVE ReadyInv(q)' /\ FreshInv(q)' /\ InputsInv(q)'
      <4>1. InputsInv(q)'
        BY <2>2, Framed DEF Frame, InputsInv, Cmd
      <4> QED BY <2>2, <4>1, ReadyOthers, FreshOthers
    <3> QED BY <3>1, <3>2
  <2> QED BY <2>1, <2>2 DEF Next, Moves
<1>3. IndInv /\ Inv => DependenciesFirst
  BY ReadInOrder
<1> QED BY <1>1, <1>2, <1>3, CommandsInductive, CopyInductive, WholeInductive, OneRunInductive, PTL DEF Spec
=============================================================================
