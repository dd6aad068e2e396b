----------------------------- MODULE WorkerPool -----------------------------
(***************************************************************************)
(* util/thread/worker_pool.{h,cpp}: a pool of long-lived QThreads.  run()   *)
(* moves a worker QObject into a thread of its own, kill() schedules its    *)
(* destruction there, waitForDone() kills every worker and blocks until     *)
(* all of them are destroyed, and the destructor joins the idle threads.    *)
(*                                                                         *)
(* The program calls run, kill and waitForDone from the GUI thread only     *)
(* ("main" below).  releaseWorker runs in the worker threads, as a direct   *)
(* connection to QObject::destroyed, so main and the worker threads         *)
(* interleave at every critical section of m_mutex; each is one step.       *)
(*                                                                         *)
(* A worker is its address: once a dead worker's memory is freed the same   *)
(* address may be allocated to the next one.                                *)
(***************************************************************************)
CONSTANTS
    Workers,    \* addresses a worker object can be allocated at
    Threads,    \* QThread objects that can be created
    NoWorker,
    NoThread

ASSUME WorkersAssumption == NoWorker \notin Workers
ASSUME ThreadsAssumption == NoThread \notin Threads

VARIABLES
    pc,             \* where main is
    target,         \* the argument of the run() main is executing
    held,           \* the unique_ptr<QThread> local of that run()
    threadByWorker,         \* m_threadByWorker; NoThread where it has no key
    threadByKilledWorker,   \* m_threadByKilledWorker, likewise
    freeThreads,    \* m_freeThreads; which idle thread is reused is left open
    life,           \* life[w]: state of the object at address w
    affinity,       \* affinity[w]: QObject::thread() of that object
    created,        \* QThread objects alive
    running         \* threads whose event loop runs

mainVars == <<pc, target, held>>
poolVars == <<threadByWorker, threadByKilledWorker, freeThreads>>
workerVars == <<life, affinity>>
threadVars == <<created, running>>
vars == <<mainVars, poolVars, workerVars, threadVars>>

PC == {"idle", "chosen", "moved", "waiting", "woken", "done", "exiting", "closed"}

(* none: no object; fresh: constructed, still owned by main; alive: lives in *)
(* its thread; doomed: deleteLater() was called; destructing: destructors of *)
(* the derived classes run; released: destroyed() was emitted, ~QObject is   *)
(* still on the stack.                                                      *)
Life == {"none", "fresh", "alive", "doomed", "destructing", "released"}

EmptyMap == [w \in Workers |-> NoThread]
KeysOf(map) == {w \in Workers : map[w] # NoThread}

Init ==
    /\ pc = "idle"
    /\ target = NoWorker
    /\ held = NoThread
    /\ threadByWorker = EmptyMap
    /\ threadByKilledWorker = EmptyMap
    /\ freeThreads = {}
    /\ life = [w \in Workers |-> "none"]
    /\ affinity = [w \in Workers |-> NoThread]
    /\ created = {}
    /\ running = {}

(* main may call into the pool again after waitForDone has returned. *)
Calling == pc \in {"idle", "done"}

(* reuseThread(): an idle thread if there is one, else a new one.           *)
(* Mutant: the "if (!thread)" of run() is missing.                          *)
NeverCreates == IF freeThreads # {} THEN freeThreads ELSE {NoThread}
ThreadChoices == IF freeThreads # {} THEN freeThreads ELSE Threads \ created

(* What reuseThread() leaves in m_freeThreads.  Mutant: no pop_back().      *)
KeepsInVector(t) == freeThreads
LeftInVector(t) == freeThreads \ {t}

(* run(), up to thread->start(): the vector is read and popped under the    *)
(* lock, the thread is then held by a local of run() alone.                 *)
ReuseThread(w) ==
    /\ Calling
    /\ life[w] = "none"
    /\ \E t \in ThreadChoices :
         /\ held' = t
         /\ freeThreads' = LeftInVector(t)
         /\ created' = created \cup {t}
         /\ running' = running \cup ({t} \ created)
    /\ pc' = "chosen"
    /\ target' = w
    /\ life' = [life EXCEPT ![w] = "fresh"]
    /\ UNCHANGED <<threadByWorker, threadByKilledWorker, affinity>>

(* run(): connect destroyed() and moveToThread(), outside the lock. *)
MoveToThread ==
    /\ pc = "chosen"
    /\ pc' = "moved"
    /\ life' = [life EXCEPT ![target] = "alive"]
    /\ affinity' = [affinity EXCEPT ![target] = held]
    /\ UNCHANGED <<target, held, poolVars, threadVars>>

(* run(): emplace() under the lock.  emplace() keeps the old entry when the  *)
(* key is already there, and then drops the thread it was given.            *)
Register ==
    /\ pc = "moved"
    /\ pc' = "idle"
    /\ threadByWorker' = IF target \in KeysOf(threadByWorker)
                         THEN threadByWorker
                         ELSE [threadByWorker EXCEPT ![target] = held]
    /\ target' = NoWorker
    /\ held' = NoThread
    /\ UNCHANGED <<threadByKilledWorker, freeThreads, workerVars, threadVars>>

(* killLocked(): the entries of the workers ws move from one map to the      *)
(* other.  Mutants: the extracted node is dropped; the entry is copied.     *)
Erased(map, ws) == [w \in Workers |-> IF w \in ws THEN NoThread ELSE map[w]]
Inserted(ws) == [w \in Workers |-> IF w \in ws THEN threadByWorker[w]
                                               ELSE threadByKilledWorker[w]]
DropsNode(ws) == threadByWorker' = Erased(threadByWorker, ws) /\ UNCHANGED threadByKilledWorker
CopiesNode(ws) == threadByKilledWorker' = Inserted(ws) /\ UNCHANGED threadByWorker
MoveEntries(ws) ==
    /\ threadByWorker' = Erased(threadByWorker, ws)
    /\ threadByKilledWorker' = Inserted(ws)

(* killLocked(): deleteLater() for the workers ws. *)
Doomed(ws) == [w \in Workers |-> IF w \in ws THEN "doomed" ELSE life[w]]

(* kill(): main holds the worker's pointer until it kills it. *)
Kill(w) ==
    /\ Calling
    /\ w \in KeysOf(threadByWorker)
    /\ pc' = "idle"
    /\ life' = Doomed({w})
    /\ MoveEntries({w})
    /\ UNCHANGED <<target, held, freeThreads, affinity, threadVars>>

(* waitForDone(): killLocked() for every worker, then either return or fall *)
(* asleep, all in one critical section.                                     *)
WaitForDone ==
    /\ Calling
    /\ life' = Doomed(KeysOf(threadByWorker))
    /\ MoveEntries(KeysOf(threadByWorker))
    /\ pc' = IF KeysOf(threadByKilledWorker) \cup KeysOf(threadByWorker) = {}
             THEN "done" ELSE "waiting"
    /\ UNCHANGED <<target, held, freeThreads, affinity, threadVars>>

(* waitForDone(): woken up, the loop condition is tested again.  Mutant: an *)
(* "if" instead of the "while".                                             *)
AfterOneWakeup == "done"
AfterWakeup == IF KeysOf(threadByKilledWorker) = {} THEN "done" ELSE "waiting"

Recheck ==
    /\ pc = "woken"
    /\ pc' = AfterWakeup
    /\ UNCHANGED <<target, held, poolVars, workerVars, threadVars>>

(* ~WorkerPool(): after its waitForDone(), exit() for every idle thread. *)
ExitThreads ==
    /\ pc = "done"
    /\ pc' = "exiting"
    /\ UNCHANGED <<target, held, poolVars, workerVars, threadVars>>

(* thread->wait() for every idle thread.  Mutant: it is left out.           *)
NotJoined == TRUE
Joined == freeThreads \cap running = {}

(* ~WorkerPool(): wait() has returned for every idle thread; they are       *)
(* destroyed with the vector.                                               *)
JoinThreads ==
    /\ pc = "exiting"
    /\ Joined
    /\ pc' = "closed"
    /\ created' = created \ freeThreads
    /\ freeThreads' = {}
    /\ UNCHANGED <<target, held, threadByWorker, threadByKilledWorker, workerVars, running>>

(* A thread executes one event at a time. *)
Busy(t) == \E w \in Workers : affinity[w] = t /\ life[w] \in {"destructing", "released"}

(* The thread takes the DeferredDelete event of one of its objects. *)
BeginDestruct(w) ==
    /\ life[w] = "doomed"
    /\ affinity[w] \in running
    /\ ~Busy(affinity[w])
    /\ life' = [life EXCEPT ![w] = "destructing"]
    /\ UNCHANGED <<mainVars, poolVars, affinity, threadVars>>

(* m_waitCondition.wakeOne().  Mutant: it is left out. *)
NoWake == pc
WakeOne == IF pc = "waiting" THEN "woken" ELSE pc

(* ~QObject() emits destroyed(): releaseWorker() in the worker's thread. *)
ReleaseWorker(w) ==
    /\ life[w] = "destructing"
    /\ life' = [life EXCEPT ![w] = "released"]
    /\ w \in KeysOf(threadByKilledWorker)
    /\ threadByKilledWorker' = Erased(threadByKilledWorker, {w})
    /\ freeThreads' = freeThreads \cup {threadByKilledWorker[w]}
    /\ pc' = WakeOne
    /\ UNCHANGED <<target, held, threadByWorker, affinity, threadVars>>

(* The rest of ~QObject() and the deallocation. *)
FreeWorker(w) ==
    /\ life[w] = "released"
    /\ life' = [life EXCEPT ![w] = "none"]
    /\ affinity' = [affinity EXCEPT ![w] = NoThread]
    /\ UNCHANGED <<mainVars, poolVars, threadVars>>

(* The event loop of an exited thread ends between two events. *)
ThreadExit(t) ==
    /\ pc = "exiting"
    /\ t \in freeThreads \cap running
    /\ ~Busy(t)
    /\ running' = running \ {t}
    /\ UNCHANGED <<mainVars, poolVars, workerVars, created>>

MainStep ==
    \/ \E w \in Workers : ReuseThread(w)
    \/ MoveToThread
    \/ Register
    \/ \E w \in Workers : Kill(w)
    \/ WaitForDone
    \/ Recheck
    \/ ExitThreads
    \/ JoinThreads

WorkerStep(w) == BeginDestruct(w) \/ ReleaseWorker(w) \/ FreeWorker(w)

Closed == pc = "closed" /\ UNCHANGED vars

Next ==
    \/ MainStep
    \/ \E w \in Workers : WorkerStep(w)
    \/ \E t \in Threads : ThreadExit(t)
    \/ Closed

(* Worker threads are scheduled, and main finishes the calls it has made;   *)
(* whether it makes another one is up to the program.                       *)
Fairness ==
    /\ WF_vars(MoveToThread) /\ WF_vars(Register)
    /\ WF_vars(Recheck) /\ WF_vars(JoinThreads)
    /\ \A w \in Workers : WF_vars(WorkerStep(w))
    /\ \A t \in Threads : WF_vars(ThreadExit(t))

Spec == Init /\ [][Next]_vars
FairSpec == Spec /\ Fairness

-----------------------------------------------------------------------------
TypeOK ==
    /\ pc \in PC
    /\ target \in Workers \cup {NoWorker}
    /\ held \in Threads \cup {NoThread}
    /\ threadByWorker \in [Workers -> Threads \cup {NoThread}]
    /\ threadByKilledWorker \in [Workers -> Threads \cup {NoThread}]
    /\ freeThreads \subseteq Threads
    /\ life \in [Workers -> Life]
    /\ affinity \in [Workers -> Threads \cup {NoThread}]
    /\ created \subseteq Threads
    /\ running \subseteq Threads

(* A QThread object is owned by exactly one of: a run() in progress, one    *)
(* entry of one map, the vector of idle threads.  None is dropped (the      *)
(* destruction of a running QThread is fatal) and none is given to two      *)
(* workers, whatever the order in which run(), kill() and the destroyed()   *)
(* signals of other workers interleave.                                     *)
Serves(w) == {threadByWorker[w], threadByKilledWorker[w]} \ {NoThread}

ThreadHasOneOwner ==
    /\ \A t \in created : t = held \/ t \in freeThreads \/ \E w \in Workers : t \in Serves(w)
    /\ {held} \ {NoThread} \subseteq created /\ freeThreads \subseteq created
    /\ held \notin freeThreads
    /\ \A w \in Workers :
         /\ Serves(w) \subseteq created /\ held \notin Serves(w)
         /\ Serves(w) \cap freeThreads = {}
         /\ threadByWorker[w] = NoThread \/ threadByKilledWorker[w] = NoThread
         /\ \A v \in Workers \ {w} : Serves(v) \cap Serves(w) = {}

(* The assertion of releaseWorker() (worker_pool.cpp:87): a worker that is   *)
(* about to emit destroyed() is in m_threadByKilledWorker, and its entry     *)
(* names the thread it lives in.                                            *)
ReleaseFindsWorker ==
    \A w \in Workers : life[w] \in {"doomed", "destructing"} =>
        threadByKilledWorker[w] = affinity[w] /\ affinity[w] # NoThread

(* run() never meets a stale entry of an object that was deallocated at the *)
(* address of its worker (worker_pool.cpp:41).                              *)
AddressIsFresh ==
    pc \in {"chosen", "moved"} => target \notin KeysOf(threadByWorker) \cup KeysOf(threadByKilledWorker)

(* "blocks until they are actually destroyed" (worker_pool.h:54): when       *)
(* waitForDone() has returned, no worker is left and every worker's own     *)
(* destructor has finished; at most the tail of ~QObject() still runs.      *)
DoneMeansDestroyed ==
    pc \in {"done", "exiting", "closed"} =>
        /\ threadByWorker = EmptyMap /\ threadByKilledWorker = EmptyMap
        /\ \A w \in Workers : life[w] \in {"none", "released"}

(* Every thread the pool ever started has ended, with nothing on its stack, *)
(* when ~WorkerPool() is through: nothing dangles after the pool.           *)
CloseJoinsEverything ==
    pc = "closed" =>
        /\ created = {} /\ running = {}
        /\ \A w \in Workers : life[w] = "none"

(* waitForDone() and ~WorkerPool() return: the wakeup sent by the last       *)
(* releaseWorker() is never missed.                                         *)
WaitTerminates == pc \in {"waiting", "woken"} ~> pc = "done"
=============================================================================
