---------------------------- MODULE MonitorSystem ----------------------------
(***************************************************************************)
(* The monitor stack from the outside: MonitorManager and its               *)
(* MonitorEnumerators (lib/monitor), the WorkerPool that runs the servers   *)
(* of the Monitors they own, and the way Qnob::run shuts all of it down.    *)
(*                                                                         *)
(* A Monitor is named by the address of its server, a worker of the pool.   *)
(* The GUI thread runs one handler at a time; a handler that builds or      *)
(* destroys Monitors calls into the pool once per Monitor, so it is a       *)
(* sequence of steps between which the worker threads run.  Of a Monitor's  *)
(* own life (module Monitor) only the last initialization reply is seen.    *)
(***************************************************************************)
EXTENDS WorkerPool, Naturals, FiniteSets

CONSTANTS
    Displays,           \* what enumerateMonitors() can find
    MaxEnumerations     \* bound on calls of updateMonitors()

ASSUME EnumerationsAssumption == MaxEnumerations \in Nat \ {0}

VARIABLES
    displays,           \* the displays connected now
    changePending,      \* a WM_DISPLAYCHANGE waits in the message queue
    task,               \* the handler the GUI thread is in
    todo,               \* displays the running enumerate() has not reached
    victims,            \* Monitors the running handler has still to destroy
    latest,             \* number of enumerators created
    enumState,          \* state of each MonitorEnumerator
    enumMonitors,       \* m_result
    enumPending,        \* m_pendingInitializations
    list,               \* MonitorManager::m_monitors
    mon,                \* each Monitor's initialization
    brightnessReady     \* BrightnessSettingBackend::m_initialized

managerVars == <<latest, enumState, enumMonitors, enumPending, list>>
sysVars == <<displays, changePending, task, todo, victims, managerVars, mon, brightnessReady>>
allVars == <<vars, sysVars>>

Enumerators == 1..MaxEnumerations
Registered == KeysOf(threadByWorker)

(* Not created yet, in enumerate(), waiting for replies, waiting for its    *)
(* queued finished(), finished (its m_result is empty; deleteLater() makes  *)
(* no further difference).                                                  *)
EnumState == {"none", "enumerating", "waiting", "empty", "finished"}

Task == {"loop", "enumerate", "construct", "replace", "dropList", "dropEnumerators",
         "join", "platformGone", "exit"}

(* The constructor of MonitorManager has called updateMonitors(). *)
SysInit ==
    /\ Init
    /\ displays \in SUBSET Displays
    /\ changePending = FALSE
    /\ task = "enumerate"
    /\ todo = displays
    /\ victims = {}
    /\ latest = 1
    /\ enumState = [e \in Enumerators |-> IF e = 1 THEN "enumerating" ELSE "none"]
    /\ enumMonitors = [e \in Enumerators |-> {}]
    /\ enumPending = [e \in Enumerators |-> 0]
    /\ list = {}
    /\ mon = [w \in Workers |-> "none"]
    /\ brightnessReady = FALSE

(* The operating system: displays come and go. *)
ChangeDisplays ==
    /\ task \notin {"platformGone", "exit"}
    /\ latest < MaxEnumerations
    /\ \E ds \in SUBSET Displays : displays' = ds
    /\ changePending' = TRUE
    /\ UNCHANGED <<vars, task, todo, victims, managerVars, mon, brightnessReady>>

(* Bound: addresses are left for every display that was found. *)
AddressesLeft == Cardinality({w \in Workers : life[w] = "none"}) >= Cardinality(displays)

(* WM_DISPLAYCHANGE reaches updateMonitors() through monitorsChanged().  An  *)
(* enumerator that is still waiting is left alone.                          *)
UpdateMonitors ==
    /\ task = "loop"
    /\ changePending /\ latest < MaxEnumerations /\ AddressesLeft
    /\ changePending' = FALSE
    /\ task' = "enumerate"
    /\ todo' = displays
    /\ latest' = latest + 1
    /\ enumState' = [enumState EXCEPT ![latest + 1] = "enumerating"]
    /\ UNCHANGED <<vars, displays, victims, enumMonitors, enumPending, list, mon, brightnessReady>>

(* enumerate(), the loop: one Monitor's constructor hands its server to     *)
(* WorkerPool::run().                                                       *)
ConstructMonitor(w, d) ==
    /\ task = "enumerate"
    /\ d \in todo
    /\ ReuseThread(w)
    /\ task' = "construct"
    /\ todo' = todo \ {d}
    /\ UNCHANGED <<displays, changePending, victims, managerVars, mon, brightnessReady>>

ContinueRun ==
    /\ task = "construct"
    /\ MoveToThread
    /\ UNCHANGED sysVars

(* The end of run() and of the Monitor's constructor: the server gets its   *)
(* requests, the enumerator its Monitor.                                    *)
FinishConstruction ==
    /\ task = "construct"
    /\ Register
    /\ task' = "enumerate"
    /\ mon' = [mon EXCEPT ![target] = "initializing"]
    /\ enumMonitors' = [enumMonitors EXCEPT ![latest] = @ \cup {target}]
    /\ UNCHANGED <<displays, changePending, todo, victims, latest, enumState, enumPending, list,
                   brightnessReady>>

(* What enumerate() makes of its result.  Mutant: finished() is left to the *)
(* replies even when there is no Monitor to send one.                       *)
AlwaysWaits(e) == "waiting"
AfterEnumerate(e) == IF enumMonitors[e] = {} THEN "empty" ELSE "waiting"

(* m_pendingInitializations.  Mutant: it keeps its default.                 *)
NonePending(e) == 0
PendingOf(e) == Cardinality(enumMonitors[e])

FinishEnumerate ==
    /\ task = "enumerate" /\ todo = {}
    /\ task' = "loop"
    /\ enumState' = [enumState EXCEPT ![latest] = AfterEnumerate(latest)]
    /\ enumPending' = [enumPending EXCEPT ![latest] = PendingOf(latest)]
    /\ UNCHANGED <<vars, displays, changePending, todo, victims, latest, enumMonitors, list, mon,
                   brightnessReady>>

(* A server has answered the last initialization request of its Monitor. *)
ServerReplies(w) ==
    /\ mon[w] = "initializing"
    /\ life[w] = "alive" /\ w \in Registered
    /\ mon' = [mon EXCEPT ![w] = "replied"]
    /\ UNCHANGED <<vars, displays, changePending, task, todo, victims, managerVars,
                   brightnessReady>>

(* finished() with a list of Monitors: handleEnumeratorFinished() replaces  *)
(* m_monitors, which destroys the Monitors it held.                         *)
Finish(e) ==
    /\ list' = enumMonitors[e]
    /\ victims' = list
    /\ enumMonitors' = [enumMonitors EXCEPT ![e] = {}]
    /\ enumState' = [enumState EXCEPT ![e] = "finished"]
    /\ task' = "replace"

(* When handleMonitorInitializated() emits finished().  Mutant: with the    *)
(* first Monitor that is initialized.                                       *)
FirstReply(pending) == TRUE
LastReply(pending) == pending = 1

(* The last reply is delivered: initialized() is emitted and the enumerator *)
(* that owns the Monitor counts it.                                         *)
HandleInitialized(w, e) ==
    /\ task = "loop"
    /\ mon[w] = "replied" /\ w \in enumMonitors[e]
    /\ mon' = [mon EXCEPT ![w] = "ready"]
    /\ enumPending' = [enumPending EXCEPT ![e] = @ - 1]
    /\ IF LastReply(enumPending[e])
       THEN Finish(e)
       ELSE UNCHANGED <<task, victims, list, enumMonitors, enumState>>
    /\ UNCHANGED <<vars, displays, changePending, todo, latest, brightnessReady>>

(* The queued finished() of an enumerator that found nothing. *)
HandleEmpty(e) ==
    /\ task = "loop"
    /\ enumState[e] = "empty"
    /\ Finish(e)
    /\ UNCHANGED <<vars, displays, changePending, todo, latest, enumPending, mon, brightnessReady>>

(* ~Monitor() of one Monitor the handler destroys: WorkerPool::kill(). *)
DestroyMonitor(w) ==
    /\ task \in {"replace", "dropList", "dropEnumerators"}
    /\ w \in victims
    /\ Kill(w)
    /\ victims' = victims \ {w}
    /\ mon' = [mon EXCEPT ![w] = "none"]
    /\ UNCHANGED <<displays, changePending, task, todo, managerVars, brightnessReady>>

(* monitorsChanged() reaches the brightness setting's backend. *)
NotifyMonitorsChanged ==
    /\ task = "replace" /\ victims = {}
    /\ task' = "loop"
    /\ brightnessReady' = (brightnessReady \/ list # {})
    /\ UNCHANGED <<vars, displays, changePending, todo, victims, managerVars, mon>>

(* The event loop ends, or an exception leaves runService() before it       *)
(* starts, or runList() is through: the entity pool destroys the manager,   *)
(* first its list, then, as child objects, its enumerators.                 *)
Quit ==
    /\ task = "loop"
    /\ task' = "dropList"
    /\ victims' = list
    /\ list' = {}
    /\ UNCHANGED <<vars, displays, changePending, todo, latest, enumState, enumMonitors,
                   enumPending, mon, brightnessReady>>

(* Mutant: an enumerator without a parent is leaked.                        *)
LeaksResults == {}
PendingResults == UNION {enumMonitors[e] : e \in Enumerators}

DropEnumerators ==
    /\ task = "dropList" /\ victims = {}
    /\ task' = "dropEnumerators"
    /\ victims' = PendingResults
    /\ enumMonitors' = [e \in Enumerators |-> {}]
    /\ enumState' = [e \in Enumerators |-> "none"]
    /\ UNCHANGED <<vars, displays, changePending, todo, latest, enumPending, list, mon,
                   brightnessReady>>

(* The scope guard of Qnob::run() calls waitForDone(), ... *)
JoinWorkers ==
    /\ task = "dropEnumerators" /\ victims = {}
    /\ WaitForDone
    /\ task' = "join"
    /\ UNCHANGED <<displays, changePending, todo, victims, managerVars, mon, brightnessReady>>

KeepJoining ==
    /\ task = "join"
    /\ Recheck
    /\ UNCHANGED sysVars

(* Mutant: the guard does not wait for the workers it has killed.           *)
NeverMind == task = "join"
WorkersJoined == task = "join" /\ pc = "done"

(* ... then ~PlatformInitializer() destroys the platform, ... *)
DestroyPlatform ==
    /\ WorkersJoined
    /\ task' = "platformGone"
    /\ UNCHANGED <<vars, displays, changePending, todo, victims, managerVars, mon,
                   brightnessReady>>

(* ... and the global pool is destroyed when the process exits. *)
ExitPool ==
    /\ task = "platformGone" /\ task' = "exit"
    /\ ExitThreads
    /\ UNCHANGED <<displays, changePending, todo, victims, managerVars, mon, brightnessReady>>

JoinPool ==
    /\ task = "exit"
    /\ JoinThreads
    /\ UNCHANGED sysVars

PoolThreads ==
    /\ \/ \E w \in Workers : WorkerStep(w)
       \/ \E t \in Threads : ThreadExit(t)
    /\ UNCHANGED sysVars

Exited == task = "exit" /\ Closed /\ UNCHANGED sysVars

(* A handler of the GUI thread runs to its end. *)
Handler ==
    \/ \E w \in Workers, d \in Displays : ConstructMonitor(w, d)
    \/ ContinueRun
    \/ FinishConstruction
    \/ FinishEnumerate
    \/ \E w \in Workers : DestroyMonitor(w)
    \/ NotifyMonitorsChanged
    \/ DropEnumerators
    \/ JoinWorkers
    \/ KeepJoining
    \/ DestroyPlatform
    \/ ExitPool
    \/ JoinPool

(* The event loop delivers what was posted to it. *)
Deliver ==
    \/ \E w \in Workers, e \in Enumerators : HandleInitialized(w, e)
    \/ \E e \in Enumerators : HandleEmpty(e)

SysNext ==
    \/ Handler
    \/ Deliver
    \/ \E w \in Workers : ServerReplies(w)
    \/ PoolThreads
    \/ ChangeDisplays
    \/ UpdateMonitors
    \/ Quit
    \/ Exited

SysFairness ==
    /\ WF_allVars(Handler)
    /\ WF_allVars(Deliver)
    /\ \A w \in Workers : WF_allVars(ServerReplies(w))
    /\ \A w \in Workers : WF_allVars(WorkerStep(w) /\ UNCHANGED sysVars)
    /\ \A t \in Threads : WF_allVars(ThreadExit(t) /\ UNCHANGED sysVars)

SysSpec == SysInit /\ [][SysNext]_allVars
SysFairSpec == SysSpec /\ SysFairness

-----------------------------------------------------------------------------
SysTypeOK ==
    /\ TypeOK
    /\ displays \subseteq Displays /\ todo \subseteq Displays
    /\ changePending \in BOOLEAN /\ brightnessReady \in BOOLEAN
    /\ task \in Task
    /\ victims \subseteq Workers /\ list \subseteq Workers
    /\ latest \in Enumerators
    /\ enumState \in [Enumerators -> EnumState]
    /\ enumMonitors \in [Enumerators -> SUBSET Workers]
    /\ enumPending \in [Enumerators -> Nat]
    /\ mon \in [Workers -> {"none", "initializing", "replied", "ready"}]

(* The code that walks MonitorManager::monitors() calls property() and      *)
(* setProperty() on every element; both assert that the Monitor is          *)
(* initialized (monitor.cpp:62, 68), and its server must still be there.    *)
ListedAreReady == \A w \in list : mon[w] = "ready" /\ w \in Registered

(* Every Monitor has one owner that will destroy it, however many           *)
(* enumerations overlap: the list, one enumerator, or the handler that is   *)
(* destroying it.  A server with no owner would only die at exit, one with  *)
(* two would be killed twice (worker_pool.cpp:51).                          *)
MonitorHasOneOwner ==
    LET results == UNION {enumMonitors[e] : e \in Enumerators}
    IN  /\ Registered = list \cup victims \cup results
        /\ list \cap victims = {} /\ (list \cup victims) \cap results = {}
        /\ \A d, e \in Enumerators : d # e => enumMonitors[d] \cap enumMonitors[e] = {}

(* "Join all worker threads before platform is destroyed" (qnob.cpp:60): no *)
(* PlatformMonitor, hence no server, outlives the platform.                 *)
PlatformOutlivesMonitors ==
    task \in {"platformGone", "exit"} => \A w \in Workers : life[w] \in {"none", "released"}

(* Every enumeration delivers its list, including the ones that are         *)
(* overtaken by a newer one, unless the program is shut down first.         *)
EnumerationDelivers ==
    \A e \in Enumerators :
        enumState[e] \in {"enumerating", "waiting", "empty"} ~> enumState[e] \in {"finished", "none"}

(* The program exits: no step of the shutdown waits for a thread that       *)
(* waits for the GUI thread.                                                *)
ShutdownCompletes == task = "dropList" ~> pc = "closed"
=============================================================================
