--------------------------- MODULE ChildSupervisor ---------------------------
(***************************************************************************)
(* SupervisedChild of crates/nix-seal-runtime/src/child.rs: an observer    *)
(* thread blocks in waitid(WEXITED | WNOWAIT) and reaps the child under a  *)
(* mutex; callers wait for the result with a deadline and cancel the child *)
(* under the same mutex; drop cancels and joins the observer.  Once the    *)
(* child is reaped its PID may belong to another process.                  *)
(***************************************************************************)
EXTENDS Naturals

CONSTANTS
  Callers,    \* threads that call wait_until and terminate on a shared &self
  Observer,   \* the nix-seal-child thread
  Owner,      \* the thread that calls new() and drops the value
  NoThread,
  Group,      \* ChildTermination::ProcessGroup
  Faults      \* "spawn": the observer cannot be started; "steal": something
              \* else in the process reaps the child

Threads == Callers \cup {Observer, Owner}

ASSUME SupervisorAssumption ==
  /\ Observer \notin Callers /\ Owner \notin Callers /\ Observer # Owner
  /\ NoThread \notin Threads
  /\ Group \in BOOLEAN
  /\ Faults \subseteq {"spawn", "steal"}

VARIABLES
  proc,      \* the child: running, killed, zombie, reaped or stolen
  mutex,     \* holder of the state mutex
  result,    \* State::result
  observed,  \* what the observer's waitid returned
  expired,   \* expired[c]: the deadline of c's wait has passed
  pc,        \* pc[t]: the next step of thread t
  life       \* the SupervisedChild: none, alive, dropping, dropped or failed

vars == <<proc, mutex, result, observed, expired, pc, life>>

Labels == {"idle", "lock", "test", "sleep", "relock", "cancel", "check", "group",
           "kill", "join", "boot", "block", "enter", "reap", "notify", "done"}

Goto(t, label) == pc' = [pc EXCEPT ![t] = label]

\* Taking and dropping the mutex guard.
Acquire(t) == mutex = NoThread /\ mutex' = t
Release(t) == mutex' = NoThread

Init ==
  /\ proc = "running"
  /\ mutex = NoThread
  /\ result = "none"
  /\ observed = "none"
  /\ expired = [c \in Callers |-> FALSE]
  /\ pc = [t \in Threads |-> "idle"]
  /\ life = "none"

-----------------------------------------------------------------------------
(* The child and its environment                                           *)

Exit ==
  /\ proc \in {"running", "killed"}
  /\ proc' = "zombie"
  /\ UNCHANGED <<mutex, result, observed, expired, pc, life>>

\* A foreign waitpid takes the exit status; ECHILD from then on.
Steal ==
  /\ "steal" \in Faults
  /\ proc = "zombie"
  /\ proc' = "stolen"
  /\ UNCHANGED <<mutex, result, observed, expired, pc, life>>

-----------------------------------------------------------------------------
(* new                                                                     *)

\* try_wait: a child that has already finished needs no observer.
NewFinished ==
  /\ life = "none"
  /\ proc = "zombie"
  /\ proc' = "reaped"
  /\ result' = "status"
  /\ life' = "alive"
  /\ UNCHANGED <<mutex, observed, expired, pc>>

NewFails ==
  /\ life = "none"
  /\ proc = "stolen"
  /\ life' = "failed"
  /\ UNCHANGED <<proc, mutex, result, observed, expired, pc>>

NewObserved ==
  /\ life = "none"
  /\ proc \in {"running", "killed"}
  /\ life' = "alive"
  /\ Goto(Observer, "boot")
  /\ UNCHANGED <<proc, mutex, result, observed, expired>>

\* The thread cannot be started: terminate, wait, return the error.
NewUnobserved ==
  /\ life = "none"
  /\ "spawn" \in Faults
  /\ proc \in {"running", "killed"}
  /\ life' = "failing"
  /\ Acquire(Owner)
  /\ Goto(Owner, "check")
  /\ UNCHANGED <<proc, result, observed, expired>>

-----------------------------------------------------------------------------
(* Shared::terminate, always under the mutex                               *)

\* Where a thread goes when terminate returns.
AfterTerminate(t) ==
  CASE t = Observer -> "reap"
    [] t = Owner -> IF life = "failing" THEN "reap" ELSE "join"
    [] OTHER -> "idle"

\* The observer, and new() after a failed spawn, keep the guard.
Leave(t) ==
  /\ Goto(t, AfterTerminate(t))
  /\ IF AfterTerminate(t) = "reap" THEN UNCHANGED mutex ELSE Release(t)

\* Mutant of MaySignal: waitid's answer is read the wrong way round.
SignalExited == result = "none" /\ proc = "zombie"
\* No result yet, and waitid(NOHANG | NOWAIT) says the child is still running.
MaySignal == result = "none" /\ proc \in {"running", "killed"}

CheckRunning(t) ==
  /\ pc[t] = "check"
  /\ IF MaySignal
     THEN Goto(t, IF Group THEN "group" ELSE "kill") /\ UNCHANGED mutex
     ELSE Leave(t)
  /\ UNCHANGED <<proc, result, observed, expired, life>>

Killed == IF proc = "running" THEN "killed" ELSE proc

KillGroup(t) ==
  /\ pc[t] = "group"
  /\ proc' = Killed
  /\ Goto(t, "kill")
  /\ UNCHANGED <<mutex, result, observed, expired, life>>

KillChild(t) ==
  /\ pc[t] = "kill"
  /\ proc' = Killed
  /\ Leave(t)
  /\ UNCHANGED <<result, observed, expired, life>>

-----------------------------------------------------------------------------
(* The observer                                                            *)

\* It reads the PID under the mutex.
Boot ==
  /\ pc[Observer] = "boot"
  /\ mutex = NoThread
  /\ Goto(Observer, "block")
  /\ UNCHANGED <<proc, mutex, result, observed, expired, life>>

\* waitid(WEXITED | WNOWAIT) returns, and leaves the child waitable.
Observe ==
  /\ pc[Observer] = "block"
  /\ proc \in {"zombie", "stolen"}
  /\ observed' = IF proc = "zombie" THEN "exit" ELSE "error"
  /\ Goto(Observer, "enter")
  /\ UNCHANGED <<proc, mutex, result, expired, life>>

\* Mutant of Enter: the child is reaped outside the mutex.
EnterUnlocked ==
  /\ pc[Observer] = "enter"
  /\ Goto(Observer, IF observed = "exit" THEN "reap" ELSE "check")
  /\ UNCHANGED <<proc, mutex, result, observed, expired, life>>

Enter ==
  /\ pc[Observer] = "enter"
  /\ Acquire(Observer)
  /\ Goto(Observer, IF observed = "exit" THEN "reap" ELSE "check")
  /\ UNCHANGED <<proc, result, observed, expired, life>>

\* child.wait(): reaps a zombie, fails on a child something else has reaped.
Reap(t) ==
  /\ pc[t] = "reap"
  /\ proc \in {"zombie", "stolen"}
  /\ proc' = IF proc = "zombie" THEN "reaped" ELSE proc
  /\ \/ /\ t = Observer
        /\ result' = IF observed = "exit" /\ proc = "zombie" THEN "status" ELSE "error"
        /\ Goto(t, "notify")
        /\ UNCHANGED <<mutex, life>>
     \/ /\ t = Owner
        /\ Goto(t, "done")
        /\ Release(t)
        /\ life' = "failed"
        /\ UNCHANGED result
  /\ UNCHANGED <<observed, expired>>

\* Mutant of Wakes: notify_one instead of notify_all.
WakesOne(c) == pc[c] = "sleep" /\ c = CHOOSE d \in Callers : pc[d] = "sleep"
Wakes(c) == pc[c] = "sleep"

\* notify_all; the guard is dropped when the thread ends.
NotifyAll ==
  /\ pc[Observer] = "notify"
  /\ pc' = [t \in Threads |->
              CASE t = Observer -> "done"
                [] t \in Callers /\ Wakes(t) -> "relock"
                [] OTHER -> pc[t]]
  /\ Release(Observer)
  /\ UNCHANGED <<proc, result, observed, expired, life>>

-----------------------------------------------------------------------------
(* wait_until and terminate, called concurrently through &self             *)

WaitUntil(c) ==
  /\ life = "alive"
  /\ pc[c] = "idle"
  /\ Goto(c, "lock")
  /\ expired' = [expired EXCEPT ![c] = FALSE]
  /\ UNCHANGED <<proc, mutex, result, observed, life>>

\* The deadline of a wait passes.
Expire(c) ==
  /\ pc[c] \in {"lock", "test", "sleep", "relock"}
  /\ ~expired[c]
  /\ expired' = [expired EXCEPT ![c] = TRUE]
  /\ UNCHANGED <<proc, mutex, result, observed, pc, life>>

EnterWait(c) ==
  /\ pc[c] \in {"lock", "relock"}
  /\ Acquire(c)
  /\ Goto(c, "test")
  /\ UNCHANGED <<proc, result, observed, expired, life>>

\* Mutant of WaitOver: the deadline is not looked at.
WaitOverOnResult(c) == result # "none"
WaitOver(c) == result # "none" \/ expired[c]

\* Returns the result if there is one, nothing after the deadline; else sleeps,
\* which releases the mutex in the same step.
Test(c) ==
  /\ pc[c] = "test"
  /\ Goto(c, IF WaitOver(c) THEN "idle" ELSE "sleep")
  /\ Release(c)
  /\ UNCHANGED <<proc, result, observed, expired, life>>

\* The deadline, or a spurious wake-up.
Wake(c) ==
  /\ pc[c] = "sleep"
  /\ Goto(c, "relock")
  /\ UNCHANGED <<proc, mutex, result, observed, expired, life>>

Terminate(c) ==
  /\ life = "alive"
  /\ pc[c] = "idle"
  /\ Goto(c, "cancel")
  /\ UNCHANGED <<proc, mutex, result, observed, expired, life>>

-----------------------------------------------------------------------------
(* Drop: nobody borrows the value any more                                 *)

Drop ==
  /\ life = "alive"
  /\ \A c \in Callers : pc[c] = "idle"
  /\ life' = "dropping"
  /\ Goto(Owner, "cancel")
  /\ UNCHANGED <<proc, mutex, result, observed, expired>>

Cancel(t) ==
  /\ pc[t] = "cancel"
  /\ Acquire(t)
  /\ Goto(t, "check")
  /\ UNCHANGED <<proc, result, observed, expired, life>>

\* Mutant of Joined: drop does not join the observer.
NotJoined == TRUE
Joined == pc[Observer] \in {"idle", "done"}

Join ==
  /\ pc[Owner] = "join"
  /\ Joined
  /\ Goto(Owner, "done")
  /\ life' = "dropped"
  /\ UNCHANGED <<proc, mutex, result, observed, expired>>

-----------------------------------------------------------------------------
Step(t) ==
  \/ CheckRunning(t) \/ KillGroup(t) \/ KillChild(t) \/ Cancel(t) \/ Reap(t)
  \/ t = Observer /\ (Boot \/ Observe \/ Enter \/ NotifyAll)
  \/ t = Owner /\ Join
  \/ t \in Callers /\ (EnterWait(t) \/ Test(t))

\* Nothing is left to do.
Finished == life \in {"dropped", "failed"} /\ UNCHANGED vars

Next ==
  \/ Exit \/ Steal
  \/ NewFinished \/ NewFails \/ NewObserved \/ NewUnobserved \/ Drop
  \/ \E c \in Callers : WaitUntil(c) \/ Terminate(c) \/ Expire(c) \/ Wake(c)
  \/ \E t \in Threads : Step(t)
  \/ Finished

Spec == Init /\ [][Next]_vars

\* A thread that can run keeps running, one that waits for the mutex is
\* eventually served, deadlines pass and end the sleep, and SIGKILL ends the
\* child; a child that is not killed may run forever.
Fairness ==
  /\ \A t \in Threads :
       /\ WF_vars(Step(t))
       /\ SF_vars(Step(t) /\ mutex = NoThread)
  /\ \A c \in Callers : WF_vars(Expire(c)) /\ WF_vars(expired[c] /\ Wake(c))
  /\ WF_vars(proc = "killed" /\ Exit)

FairSpec == Spec /\ Fairness

-----------------------------------------------------------------------------
(* Properties                                                              *)

TypeOK ==
  /\ proc \in {"running", "killed", "zombie", "reaped", "stolen"}
  /\ mutex \in Threads \cup {NoThread}
  /\ result \in {"none", "status", "error"}
  /\ observed \in {"none", "exit", "error"}
  /\ expired \in [Callers -> BOOLEAN]
  /\ pc \in [Threads -> Labels]
  /\ life \in {"none", "alive", "failing", "dropping", "dropped", "failed"}

\* Nobody is about to signal the PID of a child that the supervisor has reaped,
\* which may already name another process.  (Shared::terminate: "the child's PID
\* cannot be recycled between checking its state and signalling its process
\* group"; a foreign waitpid is outside the mutex and is not covered.)
SignalsOwnChild == \A t \in Threads : pc[t] \in {"group", "kill"} => proc # "reaped"

\* Once the result is there and the mutex is free, no caller is left asleep: a
\* wait does not run into its deadline although the child has finished.
\* (wait_until, completed.notify_all)
NoLostWakeup ==
  result # "none" /\ mutex = NoThread => \A c \in Callers : pc[c] # "sleep"

\* No child outlives its owner: after drop, or after a failed new, the child is
\* neither running nor a zombie.  (Drop, new)
NoOrphan == life \in {"dropped", "failed"} => proc \in {"reaped", "stolen"}

\* Every wait returns, whatever the child does.
EveryWaitReturns ==
  \A c \in Callers : pc[c] \in {"lock", "test", "sleep", "relock"} ~> pc[c] = "idle"

\* Dropping the owner ends, also when the child ignores everything but SIGKILL
\* and when its status was taken by something else.
DropReturns == life = "dropping" ~> life = "dropped"

-----------------------------------------------------------------------------
(* The inductive invariant behind the three safety properties              *)

Gone == proc \in {"reaped", "stolen"}
Holding == {"test", "check", "group", "kill", "reap", "notify"}

\* The threads inside a critical section are the holder of the mutex.
MutexInv == \A t \in Threads : pc[t] \in Holding <=> mutex = t

\* How far the owner is, and what an observer that has ended leaves behind.
LifeInv ==
  /\ life = "none" => \A t \in Threads : pc[t] = "idle"
  /\ life = "alive" => pc[Owner] = "idle"
  /\ pc[Owner] \in {"cancel", "join"} => life = "dropping"
  /\ pc[Owner] \in {"check", "group", "kill"} => life \in {"dropping", "failing"}
  /\ pc[Observer] \in {"notify", "done"} => Gone
  /\ life \in {"alive", "dropping"} /\ pc[Observer] = "idle" => Gone

WakeInv ==
  result # "none" /\ pc[Observer] # "notify" => \A c \in Callers : pc[c] # "sleep"

IndInv ==
  /\ TypeOK /\ MutexInv /\ LifeInv /\ WakeInv
  /\ SignalsOwnChild /\ NoOrphan
=============================================================================
