------------------------------ MODULE Commands ------------------------------
(***************************************************************************)
(* Every command that writes to the working copy, run side by side by      *)
(* several operators.                                                      *)
(***************************************************************************)
EXTENDS Migration

\* What p's process does by itself.
ProcessNext(p) ==
  \/ RepositoryNext(p) \/ GeneratorNext(p) \/ SecretNext(p) \/ MigrationNext(p)

Next ==
  \/ \E p \in Procs :
       ProcessNext(p) \/ ThreadNext(p) \/ DecryptorNext(p) \/ Killed(p)
  \/ Tick

Spec == Init /\ [][Next]_vars

\* Processes and their threads are scheduled, a generator meets its deadline, an
\* editor and a prompt are answered.  A decryptor and its helpers may do nothing.
FairSpec ==
  /\ Spec
  /\ \A p \in Procs : WF_vars(ProcessNext(p)) /\ WF_vars(ThreadNext(p))

-----------------------------------------------------------------------------
(* Property *)

\* Every command returns, however its decryptor hangs and whoever else waits for
\* the lock, unless a decryptor left a helper behind that keeps its output open.
\* (acquire_repository_lock, the watchdog of migrate_sops_document and
\* migrate_pgp_document, wait_for_external_migration)
EveryCommandReturns ==
  \A p \in Procs : (pc[p] # "idle") ~> (pc[p] = "idle" \/ \E q \in Procs : job[q].helper)
=============================================================================
