------------------------------- MODULE Monitor -------------------------------
(***************************************************************************)
(* lib/monitor: one Monitor (GUI thread), its MonitorServer (a worker       *)
(* thread that owns the slow PlatformMonitor) and the MonitorQueue between  *)
(* them.  The queue is a hash map, so a pending write is overwritten by the *)
(* next write of the same property, and popAction() takes any entry.        *)
(*                                                                         *)
(* A step is a critical section of the queue's mutex, a call into the       *)
(* platform, or the delivery of one posted event.  The n-th value set for a *)
(* property is the number n; 0 is what the hardware shows at first.         *)
(***************************************************************************)
EXTENDS Naturals, Sequences, FiniteSets

CONSTANTS
    Properties,     \* BrightnessMonitorProperty, ContrastMonitorProperty
    MaxWrites,      \* bound on the values set per property
    Absent,         \* no entry in the queue's map
    Unset,          \* an element of m_cachedProperties before its first reply
    NaN,            \* what a failed read returns (platform_monitor.h:42)
    NoProperty      \* the property field of a ReadCapabilities action

ASSUME BoundAssumption == MaxWrites \in Nat
ASSUME PropertiesAssumption == IsFiniteSet(Properties)
ASSUME SentinelAssumption ==
    /\ Absent \notin Nat /\ Unset \notin Nat /\ NaN \notin Nat
    /\ Unset # NaN
    /\ NoProperty \notin Properties

VARIABLES
    mainPc,         \* "idle", or "notify": in setProperty, before emit notifyServer()
    monitor,        \* "alive" | "destroyed"
    pendingInit,    \* m_pendingInitializationRequests
    announced,      \* number of initialized() signals emitted
    capsKnown,      \* m_cachedCapabilities holds a reply
    cache,          \* m_cachedProperties
    inbox,          \* completed-signals queued for the Monitor
    queue,          \* MonitorQueue::m_actions
    serverPc,       \* "idle", "popping", "executing" or "destroyed"
    current,        \* the action processQueue() has popped
    serverEvents,   \* events posted to the server
    issued,         \* history: last value passed to setProperty
    applied         \* history: last value passed to the platform

clientVars == <<mainPc, monitor, pendingInit, announced, capsKnown, cache>>
serverVars == <<serverPc, current>>
vars == <<clientVars, inbox, queue, serverVars, serverEvents, issued, applied>>

Caps == [type |-> "ReadCapabilities", property |-> NoProperty]
Read(p) == [type |-> "ReadProperty", property |-> p]
Write(p) == [type |-> "WriteProperty", property |-> p]
InitKeys == {Caps} \cup {Read(p) : p \in Properties}
Keys == InitKeys \cup {Write(p) : p \in Properties}
Values == 0..MaxWrites

NoAction == [key |-> Caps, value |-> Absent]
Elements(s) == {s[i] : i \in DOMAIN s}

(* The state in which Monitor's constructor leaves things: the server lives *)
(* in its thread, three requests are queued and it was notified once.       *)
Init ==
    /\ mainPc = "idle"
    /\ monitor = "alive"
    /\ pendingInit = Cardinality(InitKeys)
    /\ announced = 0
    /\ capsKnown = FALSE
    /\ cache = [p \in Properties |-> Unset]
    /\ inbox = <<>>
    /\ queue = [k \in Keys |-> IF k \in InitKeys THEN 0 ELSE Absent]
    /\ serverPc = "idle"
    /\ current = NoAction
    /\ serverEvents = <<"processQueue">>
    /\ issued = [p \in Properties |-> 0]
    /\ applied = [p \in Properties |-> 0]

(* MonitorQueue::addAction().  Mutant: try_emplace() instead of the          *)
(* assignment, so that an entry that is still there keeps its value.        *)
KeepsOldValue(k, v) == [queue EXCEPT ![k] = IF @ = Absent THEN v ELSE @]
WithAction(k, v) == [queue EXCEPT ![k] = v]

(* Monitor::setProperty(), up to addAction().  The caller's obligation is   *)
(* the assertion: the monitor is initialized.                               *)
SetProperty(p) ==
    /\ mainPc = "idle" /\ monitor = "alive" /\ pendingInit = 0
    /\ issued[p] < MaxWrites
    /\ mainPc' = "notify"
    /\ issued' = [issued EXCEPT ![p] = @ + 1]
    /\ queue' = WithAction(Write(p), issued[p] + 1)
    /\ UNCHANGED <<monitor, pendingInit, announced, capsKnown, cache, inbox,
                   serverVars, serverEvents, applied>>

(* emit notifyServer(): a queued call of processQueue(). *)
NotifyServer ==
    /\ mainPc = "notify"
    /\ mainPc' = "idle"
    /\ serverEvents' = Append(serverEvents, "processQueue")
    /\ UNCHANGED <<monitor, pendingInit, announced, capsKnown, cache, inbox, queue,
                   serverVars, issued, applied>>

(* handleInitializationReply().  Mutant: the early return is missing and    *)
(* every completed signal counts.                                           *)
CountsEveryReply(type) == pendingInit - 1
AfterReply(type) ==
    IF type = "WriteProperty" \/ pendingInit = 0 THEN pendingInit ELSE pendingInit - 1

(* handleCapabilitiesCompleted(), handleReadCompleted() and                 *)
(* handleWriteCompleted().                                                  *)
HandleReply ==
    /\ mainPc = "idle" /\ monitor = "alive" /\ inbox # <<>>
    /\ LET reply == Head(inbox) IN
         /\ inbox' = Tail(inbox)
         /\ capsKnown' = (capsKnown \/ reply.key = Caps)
         /\ cache' = IF reply.key = Caps THEN cache
                     ELSE [cache EXCEPT ![reply.key.property] = reply.value]
         /\ pendingInit' = AfterReply(reply.key.type)
         /\ announced' = IF pendingInit # 0 /\ pendingInit' = 0 THEN announced + 1 ELSE announced
    /\ UNCHANGED <<mainPc, monitor, queue, serverVars, serverEvents, issued, applied>>

(* deleteLater() of the server, behind the calls that were posted before.    *)
(* Mutant: ahead of them.                                                   *)
DeletedFirst == <<"deferredDelete">> \o serverEvents
DeletedLater == Append(serverEvents, "deferredDelete")

(* ~Monitor(): the server is killed and not waited for, and Qt drops the    *)
(* events posted to the Monitor.                                            *)
DestroyMonitor ==
    /\ mainPc = "idle" /\ monitor = "alive"
    /\ monitor' = "destroyed"
    /\ inbox' = <<>>
    /\ serverEvents' = DeletedLater
    /\ UNCHANGED <<mainPc, pendingInit, announced, capsKnown, cache, queue, serverVars,
                   issued, applied>>

(* The worker thread takes the next event posted to the server. *)
TakeEvent ==
    /\ serverPc = "idle" /\ serverEvents # <<>>
    /\ serverPc' = IF Head(serverEvents) = "processQueue" THEN "popping" ELSE "destroyed"
    /\ serverEvents' = Tail(serverEvents)
    /\ UNCHANGED <<clientVars, inbox, queue, current, issued, applied>>

(* What processQueue() does after an action.  Mutant: it handles one action *)
(* per notification ("if" instead of "while").                              *)
OneActionOnly == "idle"
NextIteration == "popping"

(* MonitorQueue::popAction(), any entry of the map. *)
PopAction(k) ==
    /\ serverPc = "popping"
    /\ queue[k] # Absent
    /\ serverPc' = "executing"
    /\ current' = [key |-> k, value |-> queue[k]]
    /\ queue' = [queue EXCEPT ![k] = Absent]
    /\ UNCHANGED <<clientVars, inbox, serverEvents, issued, applied>>

(* popAction() returns false and processQueue() with it. *)
PopNothing ==
    /\ serverPc = "popping"
    /\ \A k \in Keys : queue[k] = Absent
    /\ serverPc' = "idle"
    /\ UNCHANGED <<clientVars, inbox, queue, current, serverEvents, issued, applied>>

(* A completed signal, dropped when there is no Monitor to receive it. *)
Post(value) ==
    inbox' = IF monitor = "alive"
             THEN Append(inbox, [key |-> current.key, value |-> value])
             ELSE inbox

(* The platform reads; a read can fail. *)
ExecuteRead ==
    /\ serverPc = "executing"
    /\ current.key \in InitKeys
    /\ serverPc' = NextIteration
    /\ current' = NoAction
    /\ IF current.key = Caps THEN Post(0)
       ELSE \E v \in {applied[current.key.property], NaN} : Post(v)
    /\ UNCHANGED <<clientVars, queue, serverEvents, issued, applied>>

(* The platform writes; writeCompleted() is emitted whether it worked or not. *)
ExecuteWrite(p) ==
    /\ serverPc = "executing"
    /\ current.key = Write(p)
    /\ serverPc' = NextIteration
    /\ current' = NoAction
    /\ applied' = [applied EXCEPT ![p] = current.value]
    /\ Post(current.value)
    /\ UNCHANGED <<clientVars, queue, serverEvents, issued>>

Terminated == serverPc = "destroyed" /\ UNCHANGED vars

ServerStep ==
    \/ TakeEvent
    \/ \E k \in Keys : PopAction(k)
    \/ PopNothing
    \/ ExecuteRead
    \/ \E p \in Properties : ExecuteWrite(p)

Next ==
    \/ \E p \in Properties : SetProperty(p)
    \/ NotifyServer
    \/ HandleReply
    \/ DestroyMonitor
    \/ ServerStep
    \/ Terminated

(* Both event loops run; whether properties are set and whether the Monitor *)
(* is destroyed is up to the rest of the program.                           *)
Fairness == WF_vars(NotifyServer) /\ WF_vars(HandleReply) /\ WF_vars(ServerStep)

Spec == Init /\ [][Next]_vars
FairSpec == Spec /\ Fairness

-----------------------------------------------------------------------------
Actions == [key : Keys, value : Values \cup {Absent}]
Replies == [key : Keys, value : Values \cup {NaN}]

TypeOK ==
    /\ mainPc \in {"idle", "notify"}
    /\ monitor \in {"alive", "destroyed"}
    /\ pendingInit \in 0..Cardinality(InitKeys)
    /\ announced \in Nat
    /\ capsKnown \in BOOLEAN
    /\ cache \in [Properties -> Values \cup {Unset, NaN}]
    /\ inbox \in Seq(Replies)
    /\ queue \in [Keys -> Values \cup {Absent}]
    /\ serverPc \in {"idle", "popping", "executing", "destroyed"}
    /\ current \in Actions
    /\ serverEvents \in Seq({"processQueue", "deferredDelete"})
    /\ issued \in [Properties -> Values]
    /\ applied \in [Properties -> Values]

(* No wakeup is lost: while an action is queued the server is looking at    *)
(* the queue, or a call of processQueue() is on its way, or the GUI thread  *)
(* is about to post one.                                                    *)
ActionIsNotified ==
    (\E k \in Keys : queue[k] # Absent) =>
        \/ serverPc \in {"popping", "executing"}
        \/ "processQueue" \in Elements(serverEvents)
        \/ mainPc = "notify"

(* A server is not destroyed with a value unwritten, although ~Monitor()    *)
(* does not wait for it (monitor.cpp:40): the last value set for a property *)
(* always reaches the hardware.                                             *)
NothingLostAtDestruction == serverPc = "destroyed" => applied = issued

(* Once isInitialized(), what capabilities() and property() return has been *)
(* read from the monitor, and initialized() was emitted exactly once.       *)
InitializedIsComplete ==
    /\ announced = IF pendingInit = 0 THEN 1 ELSE 0
    /\ pendingInit = 0 => capsKnown /\ \A p \in Properties : cache[p] # Unset

(* When nothing is in flight, property() returns the last value set.        *)
CacheSettles ==
    LET quiet == /\ \A k \in Keys : queue[k] = Absent
                 /\ serverPc = "idle" /\ inbox = <<>> /\ monitor = "alive"
    IN  quiet => \A p \in Properties : issued[p] > 0 => cache[p] = issued[p]

(* A Monitor that is not destroyed becomes initialized. *)
Initializes == <>(pendingInit = 0 \/ monitor = "destroyed")

(* The abstract channel (module LatestValue). *)
Channel == INSTANCE LatestValue
ImplementsChannel == Channel!Spec
=============================================================================
