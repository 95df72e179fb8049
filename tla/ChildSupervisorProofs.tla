------------------------ MODULE ChildSupervisorProofs ------------------------
(***************************************************************************)
(* Proofs about SupervisedChild for any number of calling threads and both *)
(* ways of termination, also when something else takes the child's status. *)
(***************************************************************************)
EXTENDS ChildSupervisor, TLAPS

\* One thread moves from one label to another: what pc looks like afterwards.
LEMMA GotoFacts ==
  ASSUME TypeOK, NEW t \in Threads, NEW label \in Labels, Goto(t, label)
  PROVE  /\ pc' \in [Threads -> Labels]
         /\ pc'[t] = label
         /\ \A u \in Threads : u # t => pc'[u] = pc[u]
BY DEF TypeOK, Goto

\* The state in which new() is called satisfies the invariant.
LEMMA InitInv == Init => IndInv
BY SupervisorAssumption
   DEF Init, IndInv, TypeOK, MutexInv, LifeInv, WakeInv, SignalsOwnChild, NoOrphan,
       Threads, Labels, Holding, Gone

\* The child's exit and the steps of new() preserve the invariant.
LEMMA BirthSteps ==
  ASSUME IndInv,
         \/ Exit \/ Steal \/ NewFinished \/ NewFails \/ NewObserved \/ NewUnobserved
  PROVE  IndInv'
<1> USE SupervisorAssumption DEF IndInv, MutexInv, LifeInv, WakeInv, Gone, Holding,
        SignalsOwnChild, NoOrphan
<1>t. Observer \in Threads /\ Owner \in Threads /\ Callers \subseteq Threads
  BY DEF Threads
<1>1. CASE Exit
  BY <1>1 DEF Exit, TypeOK
<1>s. CASE Steal
  BY <1>s DEF Steal, TypeOK
<1>2. CASE NewFinished
  BY <1>2, <1>t DEF NewFinished, TypeOK
<1>3. CASE NewFails
  BY <1>3, <1>t DEF NewFails, TypeOK
<1>4. CASE NewObserved
  <2>1. /\ pc' \in [Threads -> Labels] /\ pc'[Observer] = "boot"
        /\ \A u \in Threads : u # Observer => pc'[u] = pc[u]
    BY <1>4, <1>t, GotoFacts DEF NewObserved, Labels
  <2> QED BY <1>4, <1>t, <2>1 DEF NewObserved, TypeOK
<1>5. CASE NewUnobserved
  <2>1. /\ pc' \in [Threads -> Labels] /\ pc'[Owner] = "check"
        /\ \A u \in Threads : u # Owner => pc'[u] = pc[u]
    BY <1>5, <1>t, GotoFacts DEF NewUnobserved, Labels
  <2> QED BY <1>5, <1>t, <2>1 DEF NewUnobserved, TypeOK, Acquire
<1> QED BY <1>1, <1>s, <1>2, <1>3, <1>4, <1>5

\* The steps of Shared::terminate, by any thread, preserve the invariant: only
\* the holder of the mutex is about to signal, and nobody else can reap.
LEMMA TerminateSteps ==
  ASSUME IndInv, NEW t \in Threads,
         CheckRunning(t) \/ KillGroup(t) \/ KillChild(t) \/ Cancel(t)
  PROVE  IndInv'
<1> USE SupervisorAssumption DEF IndInv, MutexInv, LifeInv, WakeInv, Gone, Holding,
        SignalsOwnChild, NoOrphan
<1>t. Observer \in Threads /\ Owner \in Threads /\ Callers \subseteq Threads
  BY DEF Threads
<1>k. Killed \in {"running", "killed", "zombie", "reaped", "stolen"}
      /\ (Gone => Killed = proc) /\ (Killed = "reaped" => proc = "reaped")
  BY DEF Killed, TypeOK
<1>a. AfterTerminate(t) \in {"reap", "join", "idle"}
      /\ (t = Observer => AfterTerminate(t) = "reap")
      /\ (t = Owner => AfterTerminate(t) = IF life = "failing" THEN "reap" ELSE "join")
      /\ (t \in Callers => AfterTerminate(t) = "idle")
      /\ (t = Observer \/ t = Owner \/ t \in Callers)
  BY DEF AfterTerminate, Threads
<1>1. CASE CheckRunning(t) /\ MaySignal
  <2>1. PICK label \in {"group", "kill"} : Goto(t, label)
    BY <1>1 DEF CheckRunning
  <2>2. /\ pc' \in [Threads -> Labels] /\ pc'[t] = label
        /\ \A u \in Threads : u # t => pc'[u] = pc[u]
    BY <2>1, GotoFacts DEF Labels
  <2> QED BY <1>1, <1>t, <2>2 DEF CheckRunning, MaySignal, TypeOK
<1>2. ASSUME Leave(t), pc[t] \in {"check", "kill"}, proc' \in {proc, Killed},
             UNCHANGED <<result, observed, expired, life>>
      PROVE  IndInv'
  <2>1. /\ pc' \in [Threads -> Labels] /\ pc'[t] = AfterTerminate(t)
        /\ \A u \in Threads : u # t => pc'[u] = pc[u]
    BY <1>2, <1>a, GotoFacts DEF Leave, Labels
  <2>2. mutex' = IF AfterTerminate(t) = "reap" THEN t ELSE NoThread
    BY <1>2 DEF Leave, Release
  <2>3. TypeOK'
    BY <1>2, <1>k, <2>1, <2>2 DEF TypeOK
  <2>4. MutexInv'
    BY <1>2, <1>a, <2>1, <2>2
  <2>5. LifeInv'
    BY <1>2, <1>t, <1>a, <1>k, <2>1
  <2>6. WakeInv' /\ NoOrphan'
    BY <1>2, <1>t, <1>a, <1>k, <2>1
  <2>7. SignalsOwnChild'
    BY <1>2, <1>a, <1>k, <2>1
  <2> QED BY <2>3, <2>4, <2>5, <2>6, <2>7
<1>3. CASE CheckRunning(t) /\ ~MaySignal
  BY <1>2, <1>3 DEF CheckRunning
<1>4. CASE KillGroup(t)
  <2>1. /\ pc' \in [Threads -> Labels] /\ pc'[t] = "kill"
        /\ \A u \in Threads : u # t => pc'[u] = pc[u]
    BY <1>4, GotoFacts DEF KillGroup, Labels
  <2> QED BY <1>4, <1>t, <1>k, <2>1 DEF KillGroup, TypeOK
<1>5. CASE KillChild(t)
  BY <1>2, <1>5 DEF KillChild
<1>6. CASE Cancel(t)
  <2>1. /\ pc' \in [Threads -> Labels] /\ pc'[t] = "check"
        /\ \A u \in Threads : u # t => pc'[u] = pc[u]
    BY <1>6, GotoFacts DEF Cancel, Labels
  <2> QED BY <1>6, <1>t, <2>1 DEF Cancel, Acquire, TypeOK
<1> QED BY <1>1, <1>3, <1>4, <1>5, <1>6

\* The observer's steps preserve the invariant: it reaps and reports in one
\* critical section, and wakes every sleeper before it leaves it.
LEMMA ObserverSteps ==
  ASSUME IndInv, NEW t \in Threads, Boot \/ Observe \/ Enter \/ NotifyAll \/ Reap(t)
  PROVE  IndInv'
<1> USE SupervisorAssumption DEF IndInv, MutexInv, LifeInv, WakeInv, Gone, Holding,
        SignalsOwnChild, NoOrphan
<1>t. Observer \in Threads /\ Owner \in Threads /\ Callers \subseteq Threads
  BY DEF Threads
<1>1. CASE Boot \/ Observe \/ Enter
  <2>1. PICK label \in {"block", "enter", "reap", "check"} : Goto(Observer, label)
    BY <1>1 DEF Boot, Observe, Enter
  <2>2. /\ pc' \in [Threads -> Labels] /\ pc'[Observer] = label
        /\ \A u \in Threads : u # Observer => pc'[u] = pc[u]
    BY <1>t, <2>1, GotoFacts DEF Labels
  <2>3. CASE Boot
    BY <1>t, <2>2, <2>3 DEF Boot, Goto, TypeOK
  <2>4. CASE Observe
    BY <1>t, <2>2, <2>4 DEF Observe, Goto, TypeOK
  <2>5. CASE Enter
    BY <1>t, <2>2, <2>5 DEF Enter, Acquire, Goto, TypeOK
  <2> QED BY <1>1, <2>3, <2>4, <2>5
<1>2. CASE NotifyAll
  <2>1. /\ pc' \in [Threads -> Labels] /\ pc'[Observer] = "done"
        /\ \A c \in Callers : pc'[c] = IF pc[c] = "sleep" THEN "relock" ELSE pc[c]
        /\ \A u \in Threads : u # Observer /\ pc[u] # "sleep" => pc'[u] = pc[u]
    <3>1. \A u \in Threads : pc[u] \in Labels
      BY DEF TypeOK
    <3> QED BY <1>2, <1>t, <3>1 DEF NotifyAll, Wakes, Labels
  <2>2. pc'[Owner] = pc[Owner]
    BY <1>2, <1>t DEF NotifyAll
  <2>3. mutex' = NoThread /\ mutex = Observer
    BY <1>2, <1>t DEF NotifyAll, Release
  <2>4. \A u \in Threads : u = Observer \/ u = Owner \/ u \in Callers
    BY DEF Threads
  <2>5. MutexInv'
    BY <1>t, <2>1, <2>2, <2>3, <2>4
  <2> QED BY <1>2, <1>t, <2>1, <2>2, <2>3, <2>4, <2>5 DEF NotifyAll, TypeOK
<1>3. CASE Reap(t) /\ t = Observer
  <2>1. /\ pc' \in [Threads -> Labels] /\ pc'[Observer] = "notify"
        /\ \A u \in Threads : u # Observer => pc'[u] = pc[u]
    BY <1>3, <1>t, GotoFacts DEF Reap, Labels
  <2>2. mutex = Observer /\ mutex' = Observer
    BY <1>3, <1>t DEF Reap
  <2>3. Gone' /\ proc' \in {"reaped", "stolen"} /\ result' \in {"status", "error"}
    BY <1>3 DEF Reap
  <2>4. UNCHANGED <<observed, expired, life>>
    BY <1>3 DEF Reap
  <2> QED BY <1>t, <2>1, <2>2, <2>3, <2>4 DEF TypeOK
<1>4. CASE Reap(t) /\ t = Owner
  <2>1. /\ pc' \in [Threads -> Labels] /\ pc'[Owner] = "done"
        /\ \A u \in Threads : u # Owner => pc'[u] = pc[u]
    BY <1>4, <1>t, GotoFacts DEF Reap, Labels
  <2>2. mutex = Owner /\ mutex' = NoThread
    BY <1>4, <1>t DEF Reap, Release
  <2>3. Gone' /\ proc' \in {"reaped", "stolen"} /\ life' = "failed"
    BY <1>4 DEF Reap
  <2>4. UNCHANGED <<result, observed, expired>>
    BY <1>4 DEF Reap
  <2> QED BY <1>t, <2>1, <2>2, <2>3, <2>4 DEF TypeOK
<1> QED BY <1>1, <1>2, <1>3, <1>4 DEF Reap

\* The steps of wait_until, terminate and drop preserve the invariant: a caller
\* goes to sleep only while there is no result.
LEMMA CallerSteps ==
  ASSUME IndInv,
         \/ \E c \in Callers : \/ WaitUntil(c) \/ Terminate(c) \/ Expire(c) \/ Wake(c)
                               \/ EnterWait(c) \/ Test(c)
         \/ Drop \/ Join
  PROVE  IndInv'
<1> USE SupervisorAssumption DEF IndInv, MutexInv, LifeInv, WakeInv, Gone, Holding,
        SignalsOwnChild, NoOrphan
<1>t. Observer \in Threads /\ Owner \in Threads /\ Callers \subseteq Threads
  BY DEF Threads
<1>1. ASSUME NEW c \in Callers, Expire(c) PROVE IndInv'
  BY <1>1 DEF Expire, TypeOK
<1>2. ASSUME NEW c \in Callers, WaitUntil(c) \/ Terminate(c) \/ Wake(c) PROVE IndInv'
  <2>1. PICK label \in {"lock", "cancel", "relock"} : Goto(c, label)
    BY <1>2 DEF WaitUntil, Terminate, Wake
  <2>2. /\ pc' \in [Threads -> Labels] /\ pc'[c] = label
        /\ \A u \in Threads : u # c => pc'[u] = pc[u]
    BY <1>t, <2>1, GotoFacts DEF Labels
  <2>3. /\ UNCHANGED <<proc, mutex, result, observed, life>>
        /\ expired' \in [Callers -> BOOLEAN] /\ pc[c] \in {"idle", "sleep"}
        /\ life = "none" => pc[c] = "sleep"
    BY <1>2 DEF WaitUntil, Terminate, Wake, TypeOK
  <2> QED BY <1>t, <2>2, <2>3 DEF TypeOK
<1>3. ASSUME NEW c \in Callers, EnterWait(c) PROVE IndInv'
  <2>1. /\ pc' \in [Threads -> Labels] /\ pc'[c] = "test"
        /\ \A u \in Threads : u # c => pc'[u] = pc[u]
    BY <1>3, <1>t, GotoFacts DEF EnterWait, Labels
  <2> QED BY <1>3, <1>t, <2>1 DEF EnterWait, Acquire, TypeOK
<1>4. ASSUME NEW c \in Callers, Test(c) PROVE IndInv'
  <2>1. PICK label \in {"idle", "sleep"} :
          Goto(c, label) /\ (label = "sleep" => result = "none")
    BY <1>4 DEF Test, WaitOver
  <2>2. /\ pc' \in [Threads -> Labels] /\ pc'[c] = label
        /\ \A u \in Threads : u # c => pc'[u] = pc[u]
    BY <1>t, <2>1, GotoFacts DEF Labels
  <2>3. mutex = c /\ mutex' = NoThread
    BY <1>4, <1>t DEF Test, Release
  <2> QED BY <1>4, <1>t, <2>1, <2>2, <2>3 DEF Test, TypeOK
<1>5. CASE Drop
  <2>1. /\ pc' \in [Threads -> Labels] /\ pc'[Owner] = "cancel"
        /\ \A u \in Threads : u # Owner => pc'[u] = pc[u]
    BY <1>5, <1>t, GotoFacts DEF Drop, Labels
  <2>2. pc[Owner] \notin Holding
    BY <1>5 DEF Drop
  <2> QED BY <1>5, <1>t, <2>1, <2>2 DEF Drop, TypeOK
<1>6. CASE Join
  <2>1. /\ pc' \in [Threads -> Labels] /\ pc'[Owner] = "done"
        /\ \A u \in Threads : u # Owner => pc'[u] = pc[u]
    BY <1>6, <1>t, GotoFacts DEF Join, Labels
  <2> QED BY <1>6, <1>t, <2>1 DEF Join, Joined, TypeOK
<1> QED BY <1>1, <1>2, <1>3, <1>4, <1>5, <1>6

\* Every step preserves the invariant.
LEMMA NextInv ==
  ASSUME IndInv, [Next]_vars
  PROVE  IndInv'
<1>1. CASE UNCHANGED vars
  BY <1>1 DEF vars, IndInv, TypeOK, MutexInv, LifeInv, WakeInv, SignalsOwnChild,
              NoOrphan, Gone
<1>2. CASE Exit \/ Steal \/ NewFinished \/ NewFails \/ NewObserved \/ NewUnobserved
  BY <1>2, BirthSteps
<1>4. CASE Drop \/ \E c \in Callers : WaitUntil(c) \/ Terminate(c) \/ Expire(c) \/ Wake(c)
  BY <1>4, CallerSteps
<1>5. ASSUME NEW t \in Threads, Step(t) PROVE IndInv'
  <2>1. CASE CheckRunning(t) \/ KillGroup(t) \/ KillChild(t) \/ Cancel(t)
    BY <2>1, TerminateSteps
  <2>2. CASE Reap(t) \/ Boot \/ Observe \/ Enter \/ NotifyAll
    BY <2>2, ObserverSteps
  <2>3. CASE Join \/ (t \in Callers /\ (EnterWait(t) \/ Test(t)))
    BY <2>3, CallerSteps
  <2> QED BY <1>5, <2>1, <2>2, <2>3 DEF Step
<1>6. CASE Finished
  BY <1>1, <1>6 DEF Finished
<1> QED BY <1>1, <1>2, <1>4, <1>5, <1>6 DEF Next

\* The invariant holds in every reachable state.
THEOREM SupervisorInductive == Spec => []IndInv
<1>1. Init => IndInv
  BY InitInv
<1>2. IndInv /\ [Next]_vars => IndInv'
  BY NextInv
<1> QED BY <1>1, <1>2, PTL DEF Spec

\* Cancellation never signals a recycled PID: from the check to the last signal
\* nobody reaps the child, whatever the observer and the other callers do.
\* (Shared::terminate)
THEOREM NeverSignalsRecycledPid == Spec => []SignalsOwnChild
<1>1. IndInv => SignalsOwnChild
  BY DEF IndInv
<1> QED BY <1>1, SupervisorInductive, PTL

\* A finished child leaves no caller asleep.  (wait_until, notify_all)
THEOREM NoWakeupIsLost == Spec => []NoLostWakeup
<1>1. IndInv => NoLostWakeup
  <2>1. Observer \in Threads
    BY DEF Threads
  <2>2. ASSUME IndInv, mutex = NoThread PROVE pc[Observer] # "notify"
    BY <2>1, <2>2, SupervisorAssumption DEF IndInv, MutexInv, Holding
  <2> QED BY <2>2 DEF IndInv, WakeInv, NoLostWakeup
<1> QED BY <1>1, SupervisorInductive, PTL

\* Neither drop nor a failed new leaves a running child or a zombie behind.
THEOREM NoChildOutlivesItsOwner == Spec => []NoOrphan
<1>1. IndInv => NoOrphan
  BY DEF IndInv
<1> QED BY <1>1, SupervisorInductive, PTL
=============================================================================
