-------------------------- MODULE WorkerPoolProofs --------------------------
(***************************************************************************)
(* The safety properties of WorkerPool for every set of addresses and of    *)
(* threads.  None of them is inductive: what a step does to m_freeThreads   *)
(* or to a map is harmless only because of how the maps, the life of each   *)
(* worker and main's position agree.  IInv states that agreement.           *)
(***************************************************************************)
EXTENDS WorkerPool, TLAPS

(* Where main is decides what its locals hold. *)
MainInv ==
    /\ pc \in {"chosen", "moved"} <=> held # NoThread
    /\ pc \in {"chosen", "moved"} <=> target # NoWorker
    /\ pc = "chosen" => life[target] = "fresh"
    /\ pc = "moved" => life[target] = "alive" /\ affinity[target] = held

(* The maps and the life of each worker say the same. *)
LifeInv ==
    \A w \in Workers :
        /\ threadByWorker[w] # NoThread =>
               life[w] = "alive" /\ affinity[w] = threadByWorker[w]
        /\ threadByKilledWorker[w] # NoThread => life[w] \in {"doomed", "destructing"}
        /\ life[w] \in {"doomed", "destructing"} =>
               threadByKilledWorker[w] = affinity[w] /\ affinity[w] # NoThread
        /\ life[w] = "alive" => threadByWorker[w] # NoThread \/ (pc = "moved" /\ target = w)
        /\ life[w] = "fresh" => pc = "chosen" /\ target = w

(* Event loops run until ~WorkerPool() ends them, and one that still has an  *)
(* object's destructor on its stack has not ended.                          *)
RunningInv ==
    /\ running \subseteq created
    /\ pc \notin {"exiting", "closed"} => running = created
    /\ \A w \in Workers : life[w] \in {"destructing", "released"} => affinity[w] \in running

(* What the return value of waitForDone() promises from there on. *)
DoneInv ==
    /\ pc \in {"waiting", "woken", "done", "exiting", "closed"} => threadByWorker = EmptyMap
    /\ pc \in {"done", "exiting", "closed"} => threadByKilledWorker = EmptyMap
    /\ pc = "closed" => created = {} /\ running = {}

IInv ==
    /\ TypeOK
    /\ ThreadHasOneOwner
    /\ MainInv
    /\ LifeInv
    /\ RunningInv
    /\ DoneInv

-----------------------------------------------------------------------------

LEMMA ReuseThreadInv == ASSUME NEW w \in Workers, IInv, ReuseThread(w) PROVE IInv'
<1> USE WorkersAssumption, ThreadsAssumption DEF IInv, TypeOK, vars, mainVars, poolVars, workerVars, threadVars, ReuseThread, Calling, ThreadChoices, LeftInVector, EmptyMap
<1>1. TypeOK'
  BY DEF PC, Life
<1>2. ThreadHasOneOwner'
  BY DEF ThreadHasOneOwner, Serves, MainInv, LifeInv, DoneInv
<1>3. MainInv'
  BY DEF MainInv, LifeInv, ThreadHasOneOwner
<1>4. LifeInv'
  BY DEF MainInv, LifeInv
<1>5. RunningInv'
  BY DEF RunningInv, LifeInv, MainInv, ThreadHasOneOwner, DoneInv
<1>6. DoneInv'
  BY DEF DoneInv, RunningInv
<1>7. QED
  BY <1>1, <1>2, <1>3, <1>4, <1>5, <1>6

LEMMA MoveToThreadInv == ASSUME IInv, MoveToThread PROVE IInv'
<1> USE WorkersAssumption, ThreadsAssumption DEF IInv, TypeOK, vars, mainVars, poolVars, workerVars, threadVars, MoveToThread
<1>1. TypeOK'
  BY DEF PC, Life
<1>2. ThreadHasOneOwner'
  BY DEF ThreadHasOneOwner, Serves, MainInv, LifeInv, DoneInv
<1>3. MainInv'
  BY DEF MainInv, LifeInv, ThreadHasOneOwner
<1>4. LifeInv'
  BY DEF MainInv, LifeInv
<1>5. RunningInv'
  BY DEF RunningInv, LifeInv, MainInv, ThreadHasOneOwner, DoneInv
<1>6. DoneInv'
  BY DEF DoneInv, RunningInv
<1>7. QED
  BY <1>1, <1>2, <1>3, <1>4, <1>5, <1>6

LEMMA RegisterInv == ASSUME IInv, Register PROVE IInv'
<1> USE WorkersAssumption, ThreadsAssumption DEF IInv, TypeOK, vars, mainVars, poolVars, workerVars, threadVars, Register, KeysOf, EmptyMap
<1>1. TypeOK'
  BY DEF PC, Life
<1>2. ThreadHasOneOwner'
  BY DEF ThreadHasOneOwner, Serves, MainInv, LifeInv, DoneInv
<1>3. MainInv'
  BY DEF MainInv, LifeInv, ThreadHasOneOwner
<1>4. LifeInv'
  BY DEF MainInv, LifeInv
<1>5. RunningInv'
  BY DEF RunningInv, LifeInv, MainInv, ThreadHasOneOwner, DoneInv
<1>6. DoneInv'
  BY DEF DoneInv, RunningInv
<1>7. QED
  BY <1>1, <1>2, <1>3, <1>4, <1>5, <1>6

LEMMA KillInv == ASSUME NEW w \in Workers, IInv, Kill(w) PROVE IInv'
<1> USE WorkersAssumption, ThreadsAssumption DEF IInv, TypeOK, vars, mainVars, poolVars, workerVars, threadVars, Kill, Calling, KeysOf, Doomed, MoveEntries, Erased, Inserted, EmptyMap
<1>1. TypeOK'
  BY DEF PC, Life
<1>2. ThreadHasOneOwner'
  BY DEF ThreadHasOneOwner, Serves, MainInv, LifeInv, DoneInv
<1>3. MainInv'
  BY DEF MainInv, LifeInv, ThreadHasOneOwner
<1>4. LifeInv'
  BY DEF MainInv, LifeInv
<1>5. RunningInv'
  BY DEF RunningInv, LifeInv, MainInv, ThreadHasOneOwner, DoneInv
<1>6. DoneInv'
  BY DEF DoneInv, RunningInv
<1>7. QED
  BY <1>1, <1>2, <1>3, <1>4, <1>5, <1>6

LEMMA WaitForDoneInv == ASSUME IInv, WaitForDone PROVE IInv'
<1> USE WorkersAssumption, ThreadsAssumption DEF IInv, TypeOK, vars, mainVars, poolVars, workerVars, threadVars, WaitForDone, Calling, KeysOf, Doomed, MoveEntries, Erased, Inserted, EmptyMap
<1>1. TypeOK'
  BY DEF PC, Life
<1>2. ThreadHasOneOwner'
  <2>1. ASSUME NEW w \in Workers
        PROVE  threadByWorker'[w] = NoThread /\ Serves(w)' = Serves(w)
    BY <2>1 DEF ThreadHasOneOwner, Serves
  <2>2. QED
    BY <2>1 DEF ThreadHasOneOwner
<1>3. MainInv'
  BY DEF MainInv, LifeInv, ThreadHasOneOwner
<1>4. LifeInv'
  BY DEF MainInv, LifeInv
<1>5. RunningInv'
  BY DEF RunningInv, LifeInv, MainInv, ThreadHasOneOwner, DoneInv
<1>6. DoneInv'
  BY DEF DoneInv, RunningInv
<1>7. QED
  BY <1>1, <1>2, <1>3, <1>4, <1>5, <1>6

LEMMA RecheckInv == ASSUME IInv, Recheck PROVE IInv'
<1> USE WorkersAssumption, ThreadsAssumption DEF IInv, TypeOK, vars, mainVars, poolVars, workerVars, threadVars, Recheck, AfterWakeup, KeysOf, EmptyMap
<1>1. TypeOK'
  BY DEF PC, Life
<1>2. ThreadHasOneOwner'
  BY DEF ThreadHasOneOwner, Serves, MainInv, LifeInv, DoneInv
<1>3. MainInv'
  BY DEF MainInv, LifeInv, ThreadHasOneOwner
<1>4. LifeInv'
  BY DEF MainInv, LifeInv
<1>5. RunningInv'
  BY DEF RunningInv, LifeInv, MainInv, ThreadHasOneOwner, DoneInv
<1>6. DoneInv'
  BY DEF DoneInv, RunningInv
<1>7. QED
  BY <1>1, <1>2, <1>3, <1>4, <1>5, <1>6

LEMMA ExitThreadsInv == ASSUME IInv, ExitThreads PROVE IInv'
<1> USE WorkersAssumption, ThreadsAssumption DEF IInv, TypeOK, vars, mainVars, poolVars, workerVars, threadVars, ExitThreads
<1>1. TypeOK'
  BY DEF PC, Life
<1>2. ThreadHasOneOwner'
  BY DEF ThreadHasOneOwner, Serves, MainInv, LifeInv, DoneInv
<1>3. MainInv'
  BY DEF MainInv, LifeInv, ThreadHasOneOwner
<1>4. LifeInv'
  BY DEF MainInv, LifeInv
<1>5. RunningInv'
  BY DEF RunningInv, LifeInv, MainInv, ThreadHasOneOwner, DoneInv
<1>6. DoneInv'
  BY DEF DoneInv, RunningInv
<1>7. QED
  BY <1>1, <1>2, <1>3, <1>4, <1>5, <1>6

LEMMA JoinThreadsInv == ASSUME IInv, JoinThreads PROVE IInv'
<1> USE WorkersAssumption, ThreadsAssumption DEF IInv, TypeOK, vars, mainVars, poolVars, workerVars, threadVars, JoinThreads, Joined
<1>1. TypeOK'
  BY DEF PC, Life
<1>2. ThreadHasOneOwner'
  BY DEF ThreadHasOneOwner, Serves, MainInv, LifeInv, DoneInv
<1>3. MainInv'
  BY DEF MainInv, LifeInv, ThreadHasOneOwner
<1>4. LifeInv'
  BY DEF MainInv, LifeInv
<1>5. RunningInv'
  BY DEF RunningInv, LifeInv, MainInv, ThreadHasOneOwner, DoneInv
<1>6. DoneInv'
  <2>1. held = NoThread
    BY DEF MainInv
  <2>2. \A w \in Workers : Serves(w) = {}
    BY DEF DoneInv, Serves, EmptyMap
  <2>3. created \subseteq freeThreads
    BY <2>1, <2>2 DEF ThreadHasOneOwner
  <2>4. created' = {} /\ running' = {}
    BY <2>3 DEF RunningInv
  <2>5. QED
    BY <2>4 DEF DoneInv
<1>7. QED
  BY <1>1, <1>2, <1>3, <1>4, <1>5, <1>6

LEMMA BeginDestructInv == ASSUME NEW w \in Workers, IInv, BeginDestruct(w) PROVE IInv'
<1> USE WorkersAssumption, ThreadsAssumption DEF IInv, TypeOK, vars, mainVars, poolVars, workerVars, threadVars, BeginDestruct, Busy
<1>1. TypeOK'
  BY DEF PC, Life
<1>2. ThreadHasOneOwner'
  BY DEF ThreadHasOneOwner, Serves, MainInv, LifeInv, DoneInv
<1>3. MainInv'
  BY DEF MainInv, LifeInv, ThreadHasOneOwner
<1>4. LifeInv'
  BY DEF MainInv, LifeInv
<1>5. RunningInv'
  BY DEF RunningInv, LifeInv, MainInv, ThreadHasOneOwner, DoneInv
<1>6. DoneInv'
  BY DEF DoneInv, RunningInv
<1>7. QED
  BY <1>1, <1>2, <1>3, <1>4, <1>5, <1>6

LEMMA ReleaseWorkerInv == ASSUME NEW w \in Workers, IInv, ReleaseWorker(w) PROVE IInv'
<1> USE WorkersAssumption, ThreadsAssumption DEF IInv, TypeOK, vars, mainVars, poolVars, workerVars, threadVars, ReleaseWorker, KeysOf, Erased, WakeOne, EmptyMap
<1>1. TypeOK'
  BY DEF PC, Life
<1>2. ThreadHasOneOwner'
  <2>1. threadByWorker[w] = NoThread /\ Serves(w) = {threadByKilledWorker[w]} /\ Serves(w)' = {}
    BY DEF ThreadHasOneOwner, Serves
  <2>2. \A v \in Workers \ {w} : Serves(v)' = Serves(v)
    BY DEF Serves
  <2>3. freeThreads' = freeThreads \cup Serves(w)
    BY <2>1
  <2>4. QED
    BY <2>1, <2>2, <2>3 DEF ThreadHasOneOwner
<1>3. MainInv'
  BY DEF MainInv, LifeInv, ThreadHasOneOwner
<1>4. LifeInv'
  BY DEF MainInv, LifeInv
<1>5. RunningInv'
  BY DEF RunningInv, LifeInv, MainInv, ThreadHasOneOwner, DoneInv
<1>6. DoneInv'
  BY DEF DoneInv, RunningInv
<1>7. QED
  BY <1>1, <1>2, <1>3, <1>4, <1>5, <1>6

LEMMA FreeWorkerInv == ASSUME NEW w \in Workers, IInv, FreeWorker(w) PROVE IInv'
<1> USE WorkersAssumption, ThreadsAssumption DEF IInv, TypeOK, vars, mainVars, poolVars, workerVars, threadVars, FreeWorker
<1>1. TypeOK'
  BY DEF PC, Life
<1>2. ThreadHasOneOwner'
  BY DEF ThreadHasOneOwner, Serves, MainInv, LifeInv, DoneInv
<1>3. MainInv'
  BY DEF MainInv, LifeInv, ThreadHasOneOwner
<1>4. LifeInv'
  BY DEF MainInv, LifeInv
<1>5. RunningInv'
  BY DEF RunningInv, LifeInv, MainInv, ThreadHasOneOwner, DoneInv
<1>6. DoneInv'
  BY DEF DoneInv, RunningInv
<1>7. QED
  BY <1>1, <1>2, <1>3, <1>4, <1>5, <1>6

LEMMA ThreadExitInv == ASSUME NEW t \in Threads, IInv, ThreadExit(t) PROVE IInv'
<1> USE WorkersAssumption, ThreadsAssumption DEF IInv, TypeOK, vars, mainVars, poolVars, workerVars, threadVars, ThreadExit, Busy
<1>1. TypeOK'
  BY DEF PC, Life
<1>2. ThreadHasOneOwner'
  BY DEF ThreadHasOneOwner, Serves, MainInv, LifeInv, DoneInv
<1>3. MainInv'
  BY DEF MainInv, LifeInv, ThreadHasOneOwner
<1>4. LifeInv'
  BY DEF MainInv, LifeInv
<1>5. RunningInv'
  BY DEF RunningInv, LifeInv, MainInv, ThreadHasOneOwner, DoneInv
<1>6. DoneInv'
  BY DEF DoneInv, RunningInv
<1>7. QED
  BY <1>1, <1>2, <1>3, <1>4, <1>5, <1>6

LEMMA ClosedInv == ASSUME IInv, Closed PROVE IInv'
<1> USE WorkersAssumption, ThreadsAssumption DEF IInv, TypeOK, vars, mainVars, poolVars, workerVars, threadVars, Closed
<1>1. TypeOK'
  BY DEF PC, Life
<1>2. ThreadHasOneOwner'
  BY DEF ThreadHasOneOwner, Serves, MainInv, LifeInv, DoneInv
<1>3. MainInv'
  BY DEF MainInv, LifeInv, ThreadHasOneOwner
<1>4. LifeInv'
  BY DEF MainInv, LifeInv
<1>5. RunningInv'
  BY DEF RunningInv, LifeInv, MainInv, ThreadHasOneOwner, DoneInv
<1>6. DoneInv'
  BY DEF DoneInv, RunningInv
<1>7. QED
  BY <1>1, <1>2, <1>3, <1>4, <1>5, <1>6

-----------------------------------------------------------------------------
LEMMA InitInv == Init => IInv
<1> SUFFICES ASSUME Init PROVE IInv
  OBVIOUS
<1> USE DEF Init
<1>1. TypeOK
  BY DEF TypeOK, EmptyMap, PC, Life
<1>2. ThreadHasOneOwner
  BY DEF ThreadHasOneOwner, Serves, EmptyMap
<1>3. MainInv /\ LifeInv /\ RunningInv /\ DoneInv
  BY DEF MainInv, LifeInv, RunningInv, DoneInv, EmptyMap
<1>4. QED
  BY <1>1, <1>2, <1>3 DEF IInv

LEMMA StepInv == IInv /\ [Next]_vars => IInv'
<1> SUFFICES ASSUME IInv, [Next]_vars PROVE IInv'
  OBVIOUS
<1>1. CASE MainStep
  BY <1>1, ReuseThreadInv, MoveToThreadInv, RegisterInv, KillInv, WaitForDoneInv,
     RecheckInv, ExitThreadsInv, JoinThreadsInv DEF MainStep
<1>2. ASSUME NEW w \in Workers, WorkerStep(w) PROVE IInv'
  BY <1>2, BeginDestructInv, ReleaseWorkerInv, FreeWorkerInv DEF WorkerStep
<1>3. ASSUME NEW t \in Threads, ThreadExit(t) PROVE IInv'
  BY <1>3, ThreadExitInv
<1>4. CASE UNCHANGED vars
  BY <1>4 DEF IInv, TypeOK, ThreadHasOneOwner, Serves, MainInv, LifeInv, RunningInv, DoneInv,
              vars, mainVars, poolVars, workerVars, threadVars
<1>5. QED
  BY <1>1, <1>2, <1>3, <1>4 DEF Next, Closed

(* IInv holds in every reachable state, whatever the constants. *)
THEOREM Invariant == Spec => []IInv
<1>1. QED
  BY InitInv, StepInv, PTL DEF Spec

(* Every variable keeps its type. *)
THEOREM TypeCorrect == Spec => []TypeOK
<1>1. IInv => TypeOK
  BY DEF IInv
<1>2. QED
  BY <1>1, Invariant, PTL

(* run(), kill(), releaseWorker() and waitForDone() never share a QThread    *)
(* between two workers and never lose one, in any interleaving.             *)
THEOREM OneOwner == Spec => []ThreadHasOneOwner
<1>1. IInv => ThreadHasOneOwner
  BY DEF IInv
<1>2. QED
  BY <1>1, Invariant, PTL

(* The assertion at worker_pool.cpp:87 never fails. *)
THEOREM ReleaseAssertion == Spec => []ReleaseFindsWorker
<1>1. IInv => ReleaseFindsWorker
  BY DEF IInv, LifeInv, ReleaseFindsWorker
<1>2. QED
  BY <1>1, Invariant, PTL

LEMMA FreshFromInv == IInv => AddressIsFresh
<1> SUFFICES ASSUME IInv, pc \in {"chosen", "moved"}
             PROVE  threadByWorker[target] = NoThread /\ threadByKilledWorker[target] = NoThread
  BY DEF AddressIsFresh, KeysOf
<1>1. target \in Workers
  BY DEF IInv, TypeOK, MainInv
<1>2. CASE pc = "chosen"
  BY <1>1, <1>2 DEF IInv, MainInv, LifeInv
<1>3. CASE pc = "moved"
  BY <1>1, <1>3 DEF IInv, MainInv, LifeInv, ThreadHasOneOwner, Serves, TypeOK
<1>4. QED
  BY <1>2, <1>3

(* emplace() in run() always inserts: a stale entry of a dead worker at the *)
(* same address is impossible.                                              *)
THEOREM NoStaleEntry == Spec => []AddressIsFresh
<1>1. QED
  BY FreshFromInv, Invariant, PTL

LEMMA DoneFromInv == IInv => DoneMeansDestroyed
<1> SUFFICES ASSUME IInv, pc \in {"done", "exiting", "closed"}
             PROVE  /\ threadByWorker = EmptyMap /\ threadByKilledWorker = EmptyMap
                    /\ \A w \in Workers : life[w] \in {"none", "released"}
  BY DEF DoneMeansDestroyed
<1>1. threadByWorker = EmptyMap /\ threadByKilledWorker = EmptyMap
  BY DEF IInv, DoneInv
<1>2. \A w \in Workers : life[w] \notin {"fresh", "alive", "doomed", "destructing"}
  BY <1>1 DEF IInv, LifeInv, EmptyMap
<1>3. QED
  BY <1>1, <1>2 DEF IInv, TypeOK, Life

(* What waitForDone() promises when it returns. *)
THEOREM WaitPostcondition == Spec => []DoneMeansDestroyed
<1>1. QED
  BY DoneFromInv, Invariant, PTL

(* What ~WorkerPool() leaves behind: nothing. *)
THEOREM CloseLeavesNothing == Spec => []CloseJoinsEverything
<1>1. IInv /\ DoneMeansDestroyed => CloseJoinsEverything
  BY DEF IInv, DoneInv, RunningInv, DoneMeansDestroyed, CloseJoinsEverything
<1>2. QED
  BY <1>1, Invariant, WaitPostcondition, PTL
=============================================================================
