------------------------- MODULE MonitorSystemProofs -------------------------
(***************************************************************************)
(* The safety properties of MonitorSystem for any number of displays,       *)
(* enumerations, addresses and threads.  The pool keeps its own invariant,  *)
(* since every step of the system is a step of the pool or leaves it        *)
(* alone; what is added here relates the handler the GUI thread is in, the  *)
(* enumerators and the owners of the Monitors.                              *)
(***************************************************************************)
EXTENDS MonitorSystem, WorkerPoolProofs, FiniteSetTheorems

(* A handler calls into the pool at its own places only. *)
CallInv ==
    /\ task \in {"loop", "enumerate", "replace", "dropList", "dropEnumerators"} => pc = "idle"
    /\ task = "construct" => pc \in {"chosen", "moved"}
    /\ task = "join" => pc \in {"waiting", "woken", "done"}
    /\ task = "platformGone" => pc = "done"
    /\ task = "exit" => pc \in {"exiting", "closed"}

(* Only the handlers that destroy Monitors have some to destroy, and the     *)
(* shutdown has emptied what it is through with.                            *)
VictimsInv ==
    /\ victims # {} => task \in {"replace", "dropList", "dropEnumerators"}
    /\ task \in {"dropList", "dropEnumerators", "join", "platformGone", "exit"} => list = {}
    /\ task \in {"dropEnumerators", "join", "platformGone", "exit"} =>
           \A e \in Enumerators : enumMonitors[e] = {}

(* The Monitors an enumerator waits for. *)
Unready(e) == {w \in enumMonitors[e] : mon[w] # "ready"}

(* An enumerator counts the Monitors it waits for; it has Monitors only      *)
(* until it has delivered them.                                             *)
EnumInv ==
    \A e \in Enumerators :
        /\ enumState[e] = "enumerating" <=> e = latest /\ task \in {"enumerate", "construct"}
        /\ e > latest => enumState[e] = "none"
        /\ enumState[e] \in {"none", "empty", "finished"} => enumMonitors[e] = {}
        /\ enumState[e] = "enumerating" => \A w \in enumMonitors[e] : mon[w] # "ready"
        /\ enumState[e] = "waiting" => enumPending[e] = Cardinality(Unready(e))
        /\ IsFiniteSet(enumMonitors[e])

(* MonitorHasOneOwner, Monitor by Monitor. *)
OwnerInv ==
    \A w \in Workers :
        /\ w \in Registered <=> w \in list \/ w \in victims \/ \E e \in Enumerators : w \in enumMonitors[e]
        /\ ~(w \in list /\ w \in victims)
        /\ \A e \in Enumerators : w \in enumMonitors[e] => w \notin list /\ w \notin victims
        /\ \A d, e \in Enumerators : w \in enumMonitors[d] /\ w \in enumMonitors[e] => d = e

SysIInv ==
    /\ IInv
    /\ SysTypeOK
    /\ CallInv
    /\ VictimsInv
    /\ OwnerInv
    /\ ListedAreReady
    /\ EnumInv

-----------------------------------------------------------------------------
(* Every step of the system is a step of the pool, or leaves the pool alone. *)
LEMMA PoolStep == ASSUME [SysNext]_allVars PROVE [Next]_vars
<1>1. CASE Handler
  BY <1>1 DEF Handler, ConstructMonitor, ContinueRun, FinishConstruction, FinishEnumerate,
     DestroyMonitor, NotifyMonitorsChanged, DropEnumerators, JoinWorkers, KeepJoining,
     DestroyPlatform, ExitPool, JoinPool, Next, MainStep
<1>2. CASE Deliver
  BY <1>2 DEF Deliver, HandleInitialized, HandleEmpty
<1>3. CASE PoolThreads
  BY <1>3 DEF PoolThreads, Next
<1>4. CASE \E w \in Workers : ServerReplies(w)
  BY <1>4 DEF ServerReplies
<1>5. CASE ChangeDisplays \/ UpdateMonitors \/ Quit
  BY <1>5 DEF ChangeDisplays, UpdateMonitors, Quit
<1>6. CASE Exited \/ UNCHANGED allVars
  BY <1>6 DEF Exited, Closed, allVars
<1>7. QED
  BY <1>1, <1>2, <1>3, <1>4, <1>5, <1>6 DEF SysNext

LEMMA PoolInv == ASSUME IInv, [SysNext]_allVars PROVE IInv'
  BY PoolStep, StepInv

(* What the system adds to the pool's invariant and the types. *)
PartsOK ==
    /\ CallInv /\ VictimsInv /\ OwnerInv /\ ListedAreReady /\ EnumInv

LEMMA Assemble ==
  ASSUME IInv', SysTypeOK', PartsOK'
  PROVE  SysIInv'
  BY DEF SysIInv, PartsOK

LEMMA UnreadyFinite ==
  ASSUME NEW e \in Enumerators, IsFiniteSet(enumMonitors[e])
  PROVE  IsFiniteSet(Unready(e)) /\ Cardinality(Unready(e)) \in Nat
<1>1. Unready(e) \in SUBSET enumMonitors[e]
  BY DEF Unready
<1>2. QED
  BY <1>1, FS_Subset, FS_CardinalityType

LEMMA SysInitInv == SysInit => SysIInv
<1> SUFFICES ASSUME SysInit PROVE SysIInv
  OBVIOUS
<1> USE EnumerationsAssumption DEF SysInit
<1>1. IInv
  BY InitInv
<1>2. SysTypeOK
  <2>1. 1 \in Enumerators
    BY DEF Enumerators
  <2>2. enumState \in [Enumerators -> EnumState] /\ enumMonitors \in [Enumerators -> SUBSET Workers]
    BY DEF EnumState
  <2>3. QED
    BY <1>1, <2>1, <2>2 DEF SysTypeOK, IInv, Task
<1>3. CallInv /\ VictimsInv
  BY DEF Init, CallInv, VictimsInv
<1>4. Registered = {} /\ \A e \in Enumerators : enumMonitors[e] = {}
  BY DEF Init, Registered, KeysOf, EmptyMap
<1>5. OwnerInv /\ ListedAreReady
  BY <1>4 DEF OwnerInv, ListedAreReady
<1>6. EnumInv
  BY <1>4, FS_EmptySet DEF EnumInv, Enumerators
<1>7. QED
  BY <1>1, <1>2, <1>3, <1>5, <1>6 DEF SysIInv

LEMMA ChangeDisplaysInv == ASSUME SysIInv, IInv', ChangeDisplays PROVE SysIInv'
<1> USE DEF SysIInv, managerVars
<1>1. /\ UNCHANGED <<pc, threadByWorker, task, todo, victims, latest, enumState, enumMonitors,
                     enumPending, list, mon, brightnessReady>>
      /\ displays' \subseteq Displays /\ changePending' = TRUE
  BY DEF ChangeDisplays, vars, mainVars, poolVars
<1>2. SysTypeOK'
  BY <1>1 DEF SysTypeOK, IInv
<1>3. CallInv' /\ VictimsInv'
  BY <1>1 DEF CallInv, VictimsInv
<1>4. OwnerInv' /\ ListedAreReady'
  BY <1>1 DEF OwnerInv, ListedAreReady, Registered, KeysOf
<1>5. EnumInv'
  BY <1>1 DEF EnumInv, Unready
<1>6. QED
  BY <1>2, <1>3, <1>4, <1>5, Assemble DEF PartsOK

LEMMA UpdateMonitorsInv == ASSUME SysIInv, IInv', UpdateMonitors PROVE SysIInv'
<1> USE EnumerationsAssumption DEF SysIInv, managerVars
<1>1. /\ UNCHANGED <<pc, threadByWorker, displays, victims, enumMonitors, enumPending, list, mon,
                     brightnessReady>>
      /\ task = "loop" /\ task' = "enumerate" /\ changePending' = FALSE /\ todo' = displays
      /\ latest \in Enumerators /\ latest + 1 \in Enumerators /\ latest' = latest + 1
      /\ enumState' = [enumState EXCEPT ![latest + 1] = "enumerating"]
      /\ enumState \in [Enumerators -> EnumState]
  BY DEF UpdateMonitors, vars, mainVars, poolVars, SysTypeOK, Enumerators
<1>2. SysTypeOK'
  BY <1>1 DEF SysTypeOK, IInv, Task, EnumState
<1>3. CallInv' /\ VictimsInv'
  BY <1>1 DEF CallInv, VictimsInv
<1>4. OwnerInv' /\ ListedAreReady'
  BY <1>1 DEF OwnerInv, ListedAreReady, Registered, KeysOf
<1>5. EnumInv'
  <2>1. enumState[latest + 1] = "none" /\ enumMonitors[latest + 1] = {}
    BY <1>1 DEF EnumInv, Enumerators
  <2> SUFFICES ASSUME NEW e \in Enumerators
               PROVE  EnumInv!(e)'
    BY DEF EnumInv
  <2>2. Unready(e)' = Unready(e)
    BY <1>1 DEF Unready
  <2>3. CASE e = latest + 1
    BY <1>1, <2>1, <2>3 DEF EnumInv, Enumerators
  <2>4. CASE e # latest + 1
    BY <1>1, <2>2, <2>4 DEF EnumInv, Enumerators
  <2>5. QED
    BY <2>3, <2>4
<1>6. QED
  BY <1>2, <1>3, <1>4, <1>5, Assemble DEF PartsOK

LEMMA ConstructMonitorInv ==
  ASSUME NEW w \in Workers, NEW d \in Displays, SysIInv, IInv', ConstructMonitor(w, d)
  PROVE  SysIInv'
<1> USE DEF SysIInv, managerVars
<1>1. /\ UNCHANGED <<threadByWorker, displays, changePending, victims, latest, enumState, enumMonitors,
                     enumPending, list, mon, brightnessReady>>
      /\ task = "enumerate" /\ task' = "construct" /\ todo' = todo \ {d} /\ pc' = "chosen"
  BY DEF ConstructMonitor, ReuseThread
<1>2. SysTypeOK'
  BY <1>1 DEF SysTypeOK, IInv, Task
<1>3. CallInv' /\ VictimsInv'
  BY <1>1 DEF CallInv, VictimsInv
<1>4. OwnerInv' /\ ListedAreReady'
  BY <1>1 DEF OwnerInv, ListedAreReady, Registered, KeysOf
<1>5. EnumInv'
  BY <1>1 DEF EnumInv, Unready
<1>6. QED
  BY <1>2, <1>3, <1>4, <1>5, Assemble DEF PartsOK

LEMMA ContinueRunInv == ASSUME SysIInv, IInv', ContinueRun PROVE SysIInv'
<1> USE DEF SysIInv, sysVars, managerVars
<1>1. UNCHANGED <<threadByWorker, sysVars>> /\ task = "construct" /\ pc' = "moved"
  BY DEF ContinueRun, MoveToThread, poolVars
<1>2. SysTypeOK'
  BY <1>1 DEF SysTypeOK, IInv
<1>3. CallInv' /\ VictimsInv'
  BY <1>1 DEF CallInv, VictimsInv
<1>4. OwnerInv' /\ ListedAreReady'
  BY <1>1 DEF OwnerInv, ListedAreReady, Registered, KeysOf
<1>5. EnumInv'
  BY <1>1 DEF EnumInv, Unready
<1>6. QED
  BY <1>2, <1>3, <1>4, <1>5, Assemble DEF PartsOK

LEMMA FinishConstructionInv == ASSUME SysIInv, IInv', FinishConstruction PROVE SysIInv'
<1> USE DEF SysIInv, managerVars
<1>1. /\ UNCHANGED <<displays, changePending, todo, victims, latest, enumState, enumPending, list,
                     brightnessReady>>
      /\ task = "construct" /\ task' = "enumerate" /\ pc = "moved" /\ pc' = "idle"
      /\ mon' = [mon EXCEPT ![target] = "initializing"]
      /\ enumMonitors' = [enumMonitors EXCEPT ![latest] = @ \cup {target}]
      /\ latest \in Enumerators /\ enumMonitors \in [Enumerators -> SUBSET Workers]
      /\ mon \in [Workers -> {"none", "initializing", "replied", "ready"}]
  BY DEF FinishConstruction, Register, SysTypeOK
<1>2. /\ target \in Workers /\ target \notin Registered
      /\ Registered' = Registered \cup {target}
  <2>1. target \in Workers /\ held # NoThread /\ threadByWorker[target] = NoThread
    BY <1>1, FreshFromInv DEF IInv, MainInv, TypeOK, AddressIsFresh, KeysOf
  <2>2. threadByWorker' = [threadByWorker EXCEPT ![target] = held]
        /\ threadByWorker \in [Workers -> Threads \cup {NoThread}]
    BY <2>1 DEF FinishConstruction, Register, KeysOf, IInv, TypeOK
  <2>3. QED
    BY <2>1, <2>2 DEF Registered, KeysOf
<1>3. target \notin list /\ target \notin victims /\ \A e \in Enumerators : target \notin enumMonitors[e]
  BY <1>1, <1>2 DEF OwnerInv, SysTypeOK
<1>4. SysTypeOK'
  BY <1>1, <1>2 DEF SysTypeOK, IInv, Task
<1>5. CallInv' /\ VictimsInv'
  BY <1>1 DEF CallInv, VictimsInv
<1>6. OwnerInv'
  <2> SUFFICES ASSUME NEW w \in Workers PROVE OwnerInv!(w)'
    BY DEF OwnerInv
  <2>1. \A e \in Enumerators : w \in enumMonitors'[e] <=> w \in enumMonitors[e] \/ (e = latest /\ w = target)
    BY <1>1
  <2>2. CASE w = target
    BY <1>1, <1>2, <1>3, <2>1, <2>2
  <2>3. CASE w # target
    BY <1>1, <1>2, <2>1, <2>3 DEF OwnerInv
  <2>4. QED
    BY <2>2, <2>3
<1>7. ListedAreReady'
  BY <1>1, <1>2, <1>3 DEF ListedAreReady, SysTypeOK
<1>8. EnumInv'
  <2> SUFFICES ASSUME NEW e \in Enumerators
               PROVE  EnumInv!(e)'
    BY DEF EnumInv
  <2>1. CASE e = latest
    <3>1. enumState[e] = "enumerating"
      BY <1>1, <2>1 DEF EnumInv
    <3>2. IsFiniteSet(enumMonitors'[e]) /\ enumMonitors'[e] = enumMonitors[e] \cup {target}
      BY <1>1, <2>1, FS_AddElement DEF EnumInv
    <3>3. \A w \in enumMonitors'[e] : mon'[w] # "ready"
      BY <1>1, <1>2, <3>1, <3>2 DEF EnumInv
    <3>4. QED
      BY <1>1, <2>1, <3>1, <3>2, <3>3 DEF EnumInv
  <2>2. CASE e # latest
    <3>1. enumMonitors'[e] = enumMonitors[e] /\ \A w \in enumMonitors[e] : mon'[w] = mon[w]
      BY <1>1, <1>3, <2>2 DEF SysTypeOK
    <3>2. Unready(e)' = Unready(e)
      BY <3>1 DEF Unready
    <3>3. QED
      BY <1>1, <2>2, <3>1, <3>2 DEF EnumInv
  <2>3. QED
    BY <2>1, <2>2
<1>9. QED
  BY <1>4, <1>5, <1>6, <1>7, <1>8, Assemble DEF PartsOK

LEMMA FinishEnumerateInv == ASSUME SysIInv, IInv', FinishEnumerate PROVE SysIInv'
<1> USE DEF SysIInv, managerVars
<1>1. /\ UNCHANGED <<pc, threadByWorker, displays, changePending, todo, victims, latest, enumMonitors,
                     list, mon, brightnessReady>>
      /\ task = "enumerate" /\ task' = "loop"
      /\ enumState' = [enumState EXCEPT ![latest] = IF enumMonitors[latest] = {} THEN "empty" ELSE "waiting"]
      /\ enumPending' = [enumPending EXCEPT ![latest] = Cardinality(enumMonitors[latest])]
      /\ latest \in Enumerators /\ enumState \in [Enumerators -> EnumState]
      /\ enumPending \in [Enumerators -> Nat]
  BY DEF FinishEnumerate, AfterEnumerate, PendingOf, vars, mainVars, poolVars, SysTypeOK
<1>2. /\ enumState[latest] = "enumerating" /\ IsFiniteSet(enumMonitors[latest])
      /\ \A w \in enumMonitors[latest] : mon[w] # "ready"
  BY <1>1 DEF EnumInv
<1>3. SysTypeOK'
  <2>1. Cardinality(enumMonitors[latest]) \in Nat
    BY <1>2, FS_CardinalityType
  <2>2. enumPending' \in [Enumerators -> Nat]
    BY <1>1, <2>1
  <2>3. enumState' \in [Enumerators -> EnumState]
    BY <1>1 DEF EnumState
  <2>4. QED
    BY <1>1, <2>2, <2>3 DEF SysTypeOK, IInv, Task
<1>4. CallInv' /\ VictimsInv'
  BY <1>1 DEF CallInv, VictimsInv
<1>5. OwnerInv' /\ ListedAreReady'
  BY <1>1 DEF OwnerInv, ListedAreReady, Registered, KeysOf
<1>6. EnumInv'
  <2> SUFFICES ASSUME NEW e \in Enumerators
               PROVE  EnumInv!(e)'
    BY DEF EnumInv
  <2>1. Unready(e)' = Unready(e)
    BY <1>1 DEF Unready
  <2>2. CASE e = latest
    <3>1. Unready(e) = enumMonitors[e]
      BY <1>2, <2>2 DEF Unready
    <3>2. QED
      BY <1>1, <1>2, <2>1, <2>2, <3>1 DEF EnumInv, Enumerators
  <2>3. CASE e # latest
    BY <1>1, <2>1, <2>3 DEF EnumInv
  <2>4. QED
    BY <2>2, <2>3
<1>7. QED
  BY <1>3, <1>4, <1>5, <1>6, Assemble DEF PartsOK

LEMMA ServerRepliesInv == ASSUME NEW w \in Workers, SysIInv, IInv', ServerReplies(w) PROVE SysIInv'
<1> USE DEF SysIInv, managerVars
<1>1. /\ UNCHANGED <<pc, threadByWorker, displays, changePending, task, todo, victims, latest, enumState,
                     enumMonitors, enumPending, list, brightnessReady>>
      /\ mon[w] = "initializing" /\ mon' = [mon EXCEPT ![w] = "replied"]
      /\ mon \in [Workers -> {"none", "initializing", "replied", "ready"}]
  BY DEF ServerReplies, vars, mainVars, poolVars, SysTypeOK
<1>2. \A v \in Workers : mon'[v] = "ready" <=> mon[v] = "ready"
  BY <1>1
<1>3. SysTypeOK'
  BY <1>1 DEF SysTypeOK, IInv
<1>4. CallInv' /\ VictimsInv'
  BY <1>1 DEF CallInv, VictimsInv
<1>5. OwnerInv' /\ ListedAreReady'
  BY <1>1, <1>2 DEF OwnerInv, ListedAreReady, Registered, KeysOf, SysTypeOK
<1>6. EnumInv'
  <2> SUFFICES ASSUME NEW e \in Enumerators
               PROVE  EnumInv!(e)'
    BY DEF EnumInv
  <2>1. enumMonitors[e] \subseteq Workers
    BY DEF SysTypeOK
  <2>2. Unready(e)' = Unready(e)
    BY <1>1, <1>2, <2>1 DEF Unready
  <2>3. QED
    BY <1>1, <1>2, <2>1, <2>2 DEF EnumInv
<1>7. QED
  BY <1>3, <1>4, <1>5, <1>6, Assemble DEF PartsOK

(* finished(): the list changes hands, whether the last reply or an empty    *)
(* result caused it.                                                        *)
LEMMA FinishFacts ==
  ASSUME SysIInv, NEW e \in Enumerators, Finish(e), task = "loop",
         UNCHANGED <<threadByWorker, displays, changePending, todo, latest>>
  PROVE  /\ OwnerInv' /\ VictimsInv'
         /\ list' \subseteq Workers /\ victims' \subseteq Workers
         /\ enumMonitors' = [enumMonitors EXCEPT ![e] = {}] /\ enumMonitors' \in [Enumerators -> SUBSET Workers]
         /\ enumState' = [enumState EXCEPT ![e] = "finished"] /\ enumState' \in [Enumerators -> EnumState]
<1> USE DEF SysIInv, Finish
<1>1. /\ list' = enumMonitors[e] /\ victims' = list /\ victims = {} /\ task' = "replace"
      /\ enumMonitors' = [enumMonitors EXCEPT ![e] = {}] /\ enumState' = [enumState EXCEPT ![e] = "finished"]
      /\ enumMonitors \in [Enumerators -> SUBSET Workers] /\ enumState \in [Enumerators -> EnumState]
      /\ list \subseteq Workers
  BY DEF VictimsInv, SysTypeOK
<1>2. enumMonitors' \in [Enumerators -> SUBSET Workers] /\ enumState' \in [Enumerators -> EnumState]
  BY <1>1 DEF EnumState
<1>3. OwnerInv'
  <2> SUFFICES ASSUME NEW w \in Workers PROVE OwnerInv!(w)'
    BY DEF OwnerInv
  <2>1. \A d \in Enumerators : w \in enumMonitors'[d] <=> w \in enumMonitors[d] /\ d # e
    BY <1>1
  <2>2. Registered' = Registered
    BY DEF Registered, KeysOf
  <2>3. QED
    BY <1>1, <2>1, <2>2 DEF OwnerInv
<1>4. VictimsInv'
  BY <1>1 DEF VictimsInv
<1>5. QED
  BY <1>1, <1>2, <1>3, <1>4

LEMMA HandleInitializedInv ==
  ASSUME NEW w \in Workers, NEW e \in Enumerators, SysIInv, IInv', HandleInitialized(w, e)
  PROVE  SysIInv'
<1> USE DEF SysIInv, managerVars
<1>1. /\ UNCHANGED <<pc, threadByWorker, displays, changePending, todo, latest, brightnessReady>>
      /\ task = "loop" /\ mon[w] = "replied" /\ w \in enumMonitors[e]
      /\ mon' = [mon EXCEPT ![w] = "ready"] /\ enumPending' = [enumPending EXCEPT ![e] = @ - 1]
      /\ mon \in [Workers -> {"none", "initializing", "replied", "ready"}]
      /\ enumPending \in [Enumerators -> Nat]
      /\ enumMonitors \in [Enumerators -> SUBSET Workers]
      /\ enumState \in [Enumerators -> EnumState]
  BY DEF HandleInitialized, vars, mainVars, poolVars, SysTypeOK
<1>2. enumState[e] = "waiting"
  BY <1>1 DEF EnumInv, SysTypeOK, EnumState
<1>3. /\ IsFiniteSet(Unready(e)) /\ enumPending[e] = Cardinality(Unready(e)) /\ enumPending[e] > 0
      /\ Cardinality(Unready(e) \ {w}) = enumPending[e] - 1 /\ IsFiniteSet(Unready(e) \ {w})
  <2>1. w \in Unready(e)
    BY <1>1 DEF Unready
  <2>2. IsFiniteSet(Unready(e)) /\ enumPending[e] = Cardinality(Unready(e))
    BY <1>2, UnreadyFinite DEF EnumInv
  <2>3. Cardinality(Unready(e)) # 0 /\ Cardinality(Unready(e)) \in Nat
    BY <2>1, <2>2, FS_EmptySet, FS_CardinalityType
  <2>4. QED
    BY <2>1, <2>2, <2>3, FS_RemoveElement
<1>4. mon' \in [Workers -> {"none", "initializing", "replied", "ready"}] /\ enumPending' \in [Enumerators -> Nat]
  BY <1>1, <1>3
<1>5. \A v \in Workers : mon'[v] = "ready" <=> mon[v] = "ready" \/ v = w
  BY <1>1
<1>6. ASSUME NEW d \in Enumerators, d # e
      PROVE  w \notin enumMonitors[d] /\ \A v \in enumMonitors[d] : mon'[v] = mon[v]
  BY <1>1, <1>6 DEF OwnerInv
<1>7. CASE enumPending[e] = 1
  <2>1. Finish(e)
    BY <1>7 DEF HandleInitialized, LastReply
  <2>2. /\ OwnerInv' /\ VictimsInv' /\ list' \subseteq Workers /\ victims' \subseteq Workers
        /\ enumMonitors' = [enumMonitors EXCEPT ![e] = {}] /\ enumMonitors' \in [Enumerators -> SUBSET Workers]
        /\ enumState' = [enumState EXCEPT ![e] = "finished"] /\ enumState' \in [Enumerators -> EnumState]
    BY <1>1, <2>1, FinishFacts
  <2>3. SysTypeOK'
    BY <1>1, <1>4, <2>1, <2>2 DEF SysTypeOK, IInv, Task, Finish
  <2>4. CallInv'
    BY <1>1, <2>1 DEF CallInv, Finish
  <2>5. ListedAreReady'
    <3>1. Unready(e) \ {w} = {}
      BY <1>3, <1>7, FS_EmptySet
    <3>2. \A v \in enumMonitors[e] : mon'[v] = "ready"
      BY <1>1, <1>5, <3>1 DEF Unready
    <3>3. \A v \in enumMonitors[e] : v \in Registered
      BY <1>1 DEF OwnerInv
    <3>4. QED
      BY <1>1, <2>1, <3>2, <3>3 DEF ListedAreReady, Finish, Registered, KeysOf
  <2>6. EnumInv'
    <3> SUFFICES ASSUME NEW d \in Enumerators PROVE EnumInv!(d)'
      BY DEF EnumInv
    <3>1. CASE d = e
      <4>1. enumState'[d] = "finished" /\ enumMonitors'[d] = {} /\ ~(d > latest)
        BY <1>1, <1>2, <2>2, <3>1 DEF EnumInv
      <4>2. task' = "replace"
        BY <2>1 DEF Finish
      <4>3. QED
        BY <1>1, <4>1, <4>2, FS_EmptySet
    <3>2. CASE d # e
      <4>1. enumMonitors'[d] = enumMonitors[d] /\ enumState'[d] = enumState[d] /\ enumPending'[d] = enumPending[d]
        BY <1>1, <2>2, <3>2
      <4>2. Unready(d)' = Unready(d)
        BY <1>6, <3>2, <4>1 DEF Unready
      <4>3. QED
        BY <1>1, <1>6, <2>1, <3>2, <4>1, <4>2 DEF EnumInv, Finish
    <3>3. QED
      BY <3>1, <3>2
  <2>7. QED
    BY <2>2, <2>3, <2>4, <2>5, <2>6, Assemble DEF PartsOK
<1>8. CASE enumPending[e] # 1
  <2>1. UNCHANGED <<task, victims, list, enumMonitors, enumState>>
    BY <1>8 DEF HandleInitialized, LastReply
  <2>2. SysTypeOK'
    BY <1>1, <1>4, <2>1 DEF SysTypeOK, IInv
  <2>3. CallInv' /\ VictimsInv' /\ OwnerInv'
    BY <1>1, <2>1 DEF CallInv, VictimsInv, OwnerInv, Registered, KeysOf
  <2>4. ListedAreReady'
    BY <1>1, <1>5, <2>1 DEF ListedAreReady, Registered, KeysOf, SysTypeOK
  <2>5. EnumInv'
    <3> SUFFICES ASSUME NEW d \in Enumerators PROVE EnumInv!(d)'
      BY DEF EnumInv
    <3>1. CASE d = e
      <4>1. Unready(e)' = Unready(e) \ {w}
        BY <1>1, <1>5, <2>1 DEF Unready
      <4>2. enumPending'[e] = Cardinality(Unready(e)')
        BY <1>1, <1>3, <4>1
      <4>3. QED
        BY <1>1, <1>2, <2>1, <3>1, <4>2 DEF EnumInv
    <3>2. CASE d # e
      <4>1. enumPending'[d] = enumPending[d]
        BY <1>1, <3>2
      <4>2. Unready(d)' = Unready(d)
        BY <1>6, <2>1, <3>2 DEF Unready
      <4>3. QED
        BY <1>1, <1>6, <2>1, <3>2, <4>1, <4>2 DEF EnumInv
    <3>3. QED
      BY <3>1, <3>2
  <2>6. QED
    BY <2>2, <2>3, <2>4, <2>5, Assemble DEF PartsOK
<1>9. QED
  BY <1>7, <1>8

LEMMA HandleEmptyInv == ASSUME NEW e \in Enumerators, SysIInv, IInv', HandleEmpty(e) PROVE SysIInv'
<1> USE DEF SysIInv, managerVars
<1>1. /\ UNCHANGED <<pc, threadByWorker, displays, changePending, todo, latest, enumPending, mon,
                     brightnessReady>>
      /\ task = "loop" /\ enumState[e] = "empty" /\ Finish(e)
  BY DEF HandleEmpty, vars, mainVars, poolVars
<1>2. /\ OwnerInv' /\ VictimsInv' /\ list' \subseteq Workers /\ victims' \subseteq Workers
      /\ enumMonitors' = [enumMonitors EXCEPT ![e] = {}] /\ enumMonitors' \in [Enumerators -> SUBSET Workers]
      /\ enumState' = [enumState EXCEPT ![e] = "finished"] /\ enumState' \in [Enumerators -> EnumState]
  BY <1>1, FinishFacts
<1>3. list' = {} /\ task' = "replace"
  BY <1>1 DEF EnumInv, Finish
<1>4. SysTypeOK'
  BY <1>1, <1>2, <1>3 DEF SysTypeOK, IInv, Task
<1>5. CallInv' /\ ListedAreReady'
  BY <1>1, <1>3 DEF CallInv, ListedAreReady
<1>6. EnumInv'
  <2> SUFFICES ASSUME NEW d \in Enumerators PROVE EnumInv!(d)'
    BY DEF EnumInv
  <2>1. enumState \in [Enumerators -> EnumState] /\ enumMonitors \in [Enumerators -> SUBSET Workers]
    BY DEF SysTypeOK
  <2>2. CASE d = e
    <3>1. enumState'[d] = "finished" /\ enumMonitors'[d] = {} /\ ~(d > latest)
      BY <1>1, <1>2, <2>1, <2>2 DEF EnumInv
    <3>2. QED
      BY <1>1, <1>3, <3>1, FS_EmptySet
  <2>3. CASE d # e
    <3>1. enumMonitors'[d] = enumMonitors[d] /\ enumState'[d] = enumState[d]
      BY <1>2, <2>1, <2>3
    <3>2. Unready(d)' = Unready(d)
      BY <1>1, <3>1 DEF Unready
    <3>3. QED
      BY <1>1, <1>3, <3>1, <3>2 DEF EnumInv
  <2>4. QED
    BY <2>2, <2>3
<1>7. QED
  BY <1>2, <1>4, <1>5, <1>6, Assemble DEF PartsOK

LEMMA DestroyMonitorInv == ASSUME NEW w \in Workers, SysIInv, IInv', DestroyMonitor(w) PROVE SysIInv'
<1> USE DEF SysIInv, managerVars
<1>1. /\ UNCHANGED <<displays, changePending, task, todo, latest, enumState, enumMonitors, enumPending, list,
                     brightnessReady>>
      /\ task \in {"replace", "dropList", "dropEnumerators"} /\ pc' = "idle"
      /\ w \in victims /\ victims' = victims \ {w} /\ mon' = [mon EXCEPT ![w] = "none"]
      /\ mon \in [Workers -> {"none", "initializing", "replied", "ready"}]
  BY DEF DestroyMonitor, Kill, SysTypeOK
<1>2. Registered' = Registered \ {w}
  BY DEF DestroyMonitor, Kill, MoveEntries, Erased, Registered, KeysOf, IInv, TypeOK
<1>3. w \notin list /\ \A e \in Enumerators : w \notin enumMonitors[e]
  BY <1>1 DEF OwnerInv
<1>4. SysTypeOK'
  BY <1>1 DEF SysTypeOK, IInv
<1>5. CallInv' /\ VictimsInv'
  BY <1>1 DEF CallInv, VictimsInv
<1>6. OwnerInv'
  BY <1>1, <1>2, <1>3 DEF OwnerInv
<1>7. ListedAreReady'
  BY <1>1, <1>2, <1>3 DEF ListedAreReady, SysTypeOK
<1>8. EnumInv'
  <2> SUFFICES ASSUME NEW e \in Enumerators PROVE EnumInv!(e)'
    BY DEF EnumInv
  <2>1. enumMonitors[e] \subseteq Workers /\ \A v \in enumMonitors[e] : mon'[v] = mon[v]
    BY <1>1, <1>3 DEF SysTypeOK
  <2>2. Unready(e)' = Unready(e)
    BY <1>1, <2>1 DEF Unready
  <2>3. QED
    BY <1>1, <2>1, <2>2 DEF EnumInv
<1>9. QED
  BY <1>4, <1>5, <1>6, <1>7, <1>8, Assemble DEF PartsOK

LEMMA NotifyMonitorsChangedInv == ASSUME SysIInv, IInv', NotifyMonitorsChanged PROVE SysIInv'
<1> USE DEF SysIInv, managerVars
<1>1. /\ UNCHANGED <<pc, threadByWorker, displays, changePending, todo, victims, latest, enumState,
                     enumMonitors, enumPending, list, mon>>
      /\ task = "replace" /\ victims = {} /\ task' = "loop"
      /\ brightnessReady' = (brightnessReady \/ list # {})
  BY DEF NotifyMonitorsChanged, vars, mainVars, poolVars
<1>2. SysTypeOK'
  BY <1>1 DEF SysTypeOK, IInv, Task
<1>3. CallInv' /\ VictimsInv'
  BY <1>1 DEF CallInv, VictimsInv
<1>4. OwnerInv' /\ ListedAreReady'
  BY <1>1 DEF OwnerInv, ListedAreReady, Registered, KeysOf
<1>5. EnumInv'
  BY <1>1 DEF EnumInv, Unready
<1>6. QED
  BY <1>2, <1>3, <1>4, <1>5, Assemble DEF PartsOK

LEMMA QuitInv == ASSUME SysIInv, IInv', Quit PROVE SysIInv'
<1> USE DEF SysIInv, managerVars
<1>1. /\ UNCHANGED <<pc, threadByWorker, displays, changePending, todo, latest, enumState,
                     enumMonitors, enumPending, mon, brightnessReady>>
      /\ task = "loop" /\ task' = "dropList" /\ victims = {} /\ victims' = list /\ list' = {}
  BY DEF Quit, VictimsInv, vars, mainVars, poolVars
<1>2. SysTypeOK'
  BY <1>1 DEF SysTypeOK, IInv, Task
<1>3. CallInv' /\ VictimsInv'
  BY <1>1 DEF CallInv, VictimsInv
<1>4. OwnerInv' /\ ListedAreReady'
  BY <1>1 DEF OwnerInv, ListedAreReady, Registered, KeysOf
<1>5. EnumInv'
  BY <1>1 DEF EnumInv, Unready
<1>6. QED
  BY <1>2, <1>3, <1>4, <1>5, Assemble DEF PartsOK

LEMMA DropEnumeratorsInv == ASSUME SysIInv, IInv', DropEnumerators PROVE SysIInv'
<1> USE DEF SysIInv, managerVars
<1>1. /\ UNCHANGED <<pc, threadByWorker, displays, changePending, todo, latest, enumPending, list, mon,
                     brightnessReady>>
      /\ task = "dropList" /\ task' = "dropEnumerators" /\ victims = {} /\ list = {}
      /\ enumMonitors' = [e \in Enumerators |-> {}] /\ enumState' = [e \in Enumerators |-> "none"]
  BY DEF DropEnumerators, VictimsInv, vars, mainVars, poolVars
<1>2. \A w : w \in victims' <=> \E e \in Enumerators : w \in enumMonitors[e]
  BY DEF DropEnumerators, PendingResults
<1>3. SysTypeOK'
  <2>1. victims' \subseteq Workers
    BY <1>2 DEF SysTypeOK
  <2>2. QED
    BY <1>1, <2>1 DEF SysTypeOK, IInv, Task, EnumState
<1>4. CallInv' /\ VictimsInv'
  BY <1>1 DEF CallInv, VictimsInv
<1>5. OwnerInv' /\ ListedAreReady'
  BY <1>1, <1>2 DEF OwnerInv, ListedAreReady, Registered, KeysOf
<1>6. EnumInv'
  BY <1>1, FS_EmptySet DEF EnumInv
<1>7. QED
  BY <1>3, <1>4, <1>5, <1>6, Assemble DEF PartsOK

LEMMA JoinWorkersInv == ASSUME SysIInv, IInv', JoinWorkers PROVE SysIInv'
<1> USE DEF SysIInv, managerVars
<1>1. /\ UNCHANGED <<displays, changePending, todo, victims, latest, enumState, enumMonitors, enumPending,
                     list, mon, brightnessReady>>
      /\ task = "dropEnumerators" /\ task' = "join" /\ victims = {} /\ list = {}
      /\ pc' \in {"done", "waiting"}
      /\ \A e \in Enumerators : enumMonitors[e] = {}
  BY DEF JoinWorkers, WaitForDone, VictimsInv
<1>2. Registered' = {}
  BY DEF JoinWorkers, WaitForDone, MoveEntries, Erased, Registered, KeysOf
<1>3. SysTypeOK'
  BY <1>1 DEF SysTypeOK, IInv, Task
<1>4. CallInv' /\ VictimsInv'
  BY <1>1 DEF CallInv, VictimsInv
<1>5. OwnerInv' /\ ListedAreReady'
  BY <1>1, <1>2 DEF OwnerInv, ListedAreReady
<1>6. EnumInv'
  BY <1>1 DEF EnumInv, Unready
<1>7. QED
  BY <1>3, <1>4, <1>5, <1>6, Assemble DEF PartsOK

(* The steps that leave the handler's data and m_threadByWorker alone. *)
LEMMA ShutdownInv ==
  ASSUME SysIInv, IInv', KeepJoining \/ DestroyPlatform \/ ExitPool \/ JoinPool \/ PoolThreads
  PROVE  SysIInv'
<1> USE DEF SysIInv, managerVars
<1>1. UNCHANGED <<threadByWorker, displays, changePending, todo, victims, latest, enumState,
                  enumMonitors, enumPending, list, mon, brightnessReady>>
  BY DEF KeepJoining, Recheck, DestroyPlatform, ExitPool, ExitThreads, JoinPool, JoinThreads,
     PoolThreads, WorkerStep, BeginDestruct, ReleaseWorker, FreeWorker, ThreadExit, sysVars, vars,
     mainVars, poolVars, workerVars, threadVars
<1>2. \/ task' = task /\ (pc' = pc \/ (pc = "waiting" /\ pc' = "woken"))
      \/ task = "join" /\ task' = "join" /\ pc' \in {"waiting", "done"}
      \/ task = "join" /\ task' = "platformGone" /\ pc = "done" /\ pc' = "done"
      \/ task = "platformGone" /\ task' = "exit" /\ pc' = "exiting"
      \/ task = "exit" /\ task' = "exit" /\ pc' = "closed"
  <2>1. CASE KeepJoining
    BY <2>1 DEF KeepJoining, Recheck, AfterWakeup, sysVars
  <2>2. CASE DestroyPlatform
    BY <2>2 DEF DestroyPlatform, WorkersJoined, vars, mainVars
  <2>3. CASE ExitPool \/ JoinPool
    BY <2>3 DEF ExitPool, ExitThreads, JoinPool, JoinThreads, sysVars
  <2>4. CASE PoolThreads
    BY <2>4 DEF PoolThreads, WorkerStep, BeginDestruct, ReleaseWorker, WakeOne, FreeWorker, ThreadExit,
       sysVars, mainVars
  <2>5. QED
    BY <2>1, <2>2, <2>3, <2>4
<1>3. SysTypeOK'
  BY <1>1, <1>2 DEF SysTypeOK, IInv, Task
<1>4. CallInv' /\ VictimsInv'
  BY <1>1, <1>2 DEF CallInv, VictimsInv
<1>5. OwnerInv' /\ ListedAreReady'
  BY <1>1 DEF OwnerInv, ListedAreReady, Registered, KeysOf
<1>6. EnumInv'
  BY <1>1, <1>2 DEF EnumInv, Unready
<1>7. QED
  BY <1>3, <1>4, <1>5, <1>6, Assemble DEF PartsOK

LEMMA SysStutterInv == ASSUME SysIInv, IInv', UNCHANGED allVars PROVE SysIInv'
<1> USE DEF SysIInv, allVars, sysVars, managerVars, vars, mainVars, poolVars
<1>1. SysTypeOK' /\ CallInv' /\ VictimsInv'
  BY DEF SysTypeOK, IInv, CallInv, VictimsInv
<1>2. OwnerInv' /\ ListedAreReady'
  BY DEF OwnerInv, ListedAreReady, Registered, KeysOf
<1>3. EnumInv'
  BY DEF EnumInv, Unready
<1>4. QED
  BY <1>1, <1>2, <1>3, Assemble DEF PartsOK

-----------------------------------------------------------------------------
LEMMA SysStepInv == SysIInv /\ [SysNext]_allVars => SysIInv'
<1> SUFFICES ASSUME SysIInv, [SysNext]_allVars PROVE SysIInv'
  OBVIOUS
<1>1. IInv'
  BY PoolInv DEF SysIInv
<1>2. CASE Handler
  BY <1>1, <1>2, ConstructMonitorInv, ContinueRunInv, FinishConstructionInv, FinishEnumerateInv,
     DestroyMonitorInv, NotifyMonitorsChangedInv, DropEnumeratorsInv, JoinWorkersInv, ShutdownInv
     DEF Handler
<1>3. CASE Deliver
  BY <1>1, <1>3, HandleInitializedInv, HandleEmptyInv DEF Deliver
<1>4. ASSUME NEW w \in Workers, ServerReplies(w) PROVE SysIInv'
  BY <1>1, <1>4, ServerRepliesInv
<1>5. CASE PoolThreads
  BY <1>1, <1>5, ShutdownInv
<1>6. CASE ChangeDisplays \/ UpdateMonitors \/ Quit
  BY <1>1, <1>6, ChangeDisplaysInv, UpdateMonitorsInv, QuitInv
<1>7. CASE Exited \/ UNCHANGED allVars
  BY <1>1, <1>7, SysStutterInv DEF Exited, Closed, allVars
<1>8. QED
  BY <1>2, <1>3, <1>4, <1>5, <1>6, <1>7 DEF SysNext

(* SysIInv holds in every reachable state, whatever the constants. *)
THEOREM SysInvariant == SysSpec => []SysIInv
<1>1. QED
  BY SysInitInv, SysStepInv, PTL DEF SysSpec

(* The system uses the pool as its specification allows, so everything that  *)
(* is proved about the pool holds in it.                                    *)
THEOREM SystemUsesPool == SysSpec => Spec
<1>1. SysInit => Init
  BY DEF SysInit
<1>2. [SysNext]_allVars => [Next]_vars
  BY PoolStep
<1>3. QED
  BY <1>1, <1>2, PTL DEF SysSpec, Spec

(* Every variable keeps its type. *)
THEOREM SysTypeCorrect == SysSpec => []SysTypeOK
<1>1. SysIInv => SysTypeOK
  BY DEF SysIInv
<1>2. QED
  BY <1>1, SysInvariant, PTL

(* However many enumerations overlap, each Monitor is owned once: by the     *)
(* manager's list, by one enumerator, or by the handler that destroys it.   *)
THEOREM EveryMonitorHasOneOwner == SysSpec => []MonitorHasOneOwner
<1>1. SysIInv => MonitorHasOneOwner
  <2> SUFFICES ASSUME SysIInv PROVE MonitorHasOneOwner
    OBVIOUS
  <2> DEFINE results == UNION {enumMonitors[e] : e \in Enumerators}
  <2>1. \A w : w \in results <=> \E e \in Enumerators : w \in enumMonitors[e]
    OBVIOUS
  <2>2. Registered \subseteq Workers /\ list \subseteq Workers /\ victims \subseteq Workers
        /\ \A e \in Enumerators : enumMonitors[e] \subseteq Workers
    BY DEF SysIInv, SysTypeOK, Registered, KeysOf
  <2>3. Registered = list \cup victims \cup results
    BY <2>1, <2>2 DEF SysIInv, OwnerInv
  <2>4. list \cap victims = {} /\ (list \cup victims) \cap results = {}
    BY <2>1, <2>2 DEF SysIInv, OwnerInv
  <2>5. \A d, e \in Enumerators : d # e => enumMonitors[d] \cap enumMonitors[e] = {}
    BY <2>2 DEF SysIInv, OwnerInv
  <2>6. QED
    BY <2>3, <2>4, <2>5 DEF MonitorHasOneOwner
<1>2. QED
  BY <1>1, SysInvariant, PTL

(* The assertions at monitor.cpp:62 and 68 hold for every Monitor that        *)
(* MonitorManager::monitors() returns.                                      *)
THEOREM EveryListedMonitorIsReady == SysSpec => []ListedAreReady
<1>1. SysIInv => ListedAreReady
  BY DEF SysIInv
<1>2. QED
  BY <1>1, SysInvariant, PTL

(* No server outlives the platform (qnob.cpp:60). *)
THEOREM NoServerOutlivesPlatform == SysSpec => []PlatformOutlivesMonitors
<1>1. SysIInv => PlatformOutlivesMonitors
  BY DoneFromInv DEF SysIInv, CallInv, DoneMeansDestroyed, PlatformOutlivesMonitors
<1>2. QED
  BY <1>1, SysInvariant, PTL
=============================================================================
