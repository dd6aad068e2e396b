----------------------------- MODULE FutureChain -----------------------------
(***************************************************************************)
(* util/async: a Promise, the Future made from it and a chain of futures    *)
(* added with then().  Future 0 is the promise's; future f > 0 runs its     *)
(* callback in the thread of its context object f once future f - 1 is      *)
(* ready.  One user thread holds the last future of the chain.              *)
(*                                                                         *)
(* Every FutureState has a mutex, and a step is one critical section.  A    *)
(* state that finishes calls its continuation under its own mutex, which    *)
(* takes the next state's mutex inside; whatever other threads do to the    *)
(* next state in between could have been done before, so this is one step.  *)
(* Cancellation goes from child to parent with no mutex held in between, so *)
(* each parent is a step of its own.  Assertions do not stop the model:     *)
(* they are properties.                                                     *)
(***************************************************************************)
EXTENDS Integers

CONSTANTS
    MaxChain,       \* bound on the calls of then()
    Handlers,       \* futures whose callback takes a FutureResult
    CancelChains    \* whether the user cancels futures made by then()

ASSUME ChainAssumption == MaxChain \in Nat \ {0} /\ Handlers \subseteq 1..MaxChain
ASSUME CancelAssumption == CancelChains \in BOOLEAN

VARIABLES
    promise,        \* "pending", or what was set: "value" or "exc"
    data,           \* m_data of each state
    cont,           \* m_continuation
    cancelled,      \* m_cancelled
    conn,           \* m_connection, to QObject::destroyed of the context
    event,          \* the call of finish_with_callback() posted to the context
    ran,            \* history: how often each callback was started
    ctx,            \* the context objects
    walk,           \* cancel_async(): the state each thread has to cancel next
    built,          \* number of then() calls, and the future the user holds
    userPc,         \* what the user thread is doing
    woken,          \* wakeAll() was called for the waiting user thread
    result          \* what get() returned or threw

stateVars == <<data, cont, cancelled, conn>>
eventVars == <<event, ran>>
userVars == <<built, userPc, result>>
vars == <<promise, stateVars, eventVars, ctx, walk, userVars, woken>>

Futures == 0..MaxChain
Chained == 1..MaxChain
User == 0               \* the user thread as a walker; context threads are 1..MaxChain
Nobody == -1

(* exc: an exception of the promise or of a callback; ctx: a                *)
(* FutureContextException; null: the empty exception_ptr of a cancelled     *)
(* state, which must never be rethrown.                                     *)
Errors == {"exc", "ctx", "null"}
Data == {"running", "value"} \cup Errors

Init ==
    /\ promise = "pending"
    /\ data = [f \in Futures |-> "running"]
    /\ cont = [f \in Futures |-> "unknown"]
    /\ cancelled = [f \in Futures |-> FALSE]
    /\ conn = [f \in Futures |-> FALSE]
    /\ event = [f \in Chained |-> "none"]
    /\ ran = [f \in Chained |-> 0]
    /\ ctx = [f \in Chained |-> "alive"]
    /\ walk = [t \in Futures |-> Nobody]
    /\ built = 0
    /\ userPc = "idle"
    /\ woken = FALSE
    /\ result = "none"

-----------------------------------------------------------------------------
(* finish_with_value_or_error_locked() and finish_cancelled_locked().       *)

(* A detached state stays as it is, a cancelled one gets a null error.      *)
Outcome(f, v) ==
    IF cont[f] = "no" THEN data[f] ELSE IF cancelled[f] THEN "null" ELSE v

(* Whether the continuation is called.  Mutant: errors are not passed on.   *)
ContinuesWithValue(f, v) == cont[f] = "callback" /\ ~cancelled[f] /\ v = "value"
Continues(f, v) == cont[f] = "callback" /\ ~cancelled[f]

(* finish_with_callback_later() of the next state: nothing if its context   *)
(* was destroyed meanwhile, a null error if it was cancelled, else a posted *)
(* call.                                                                    *)
Posts(f) == ~cancelled[f] /\ data[f] = "running"

(* Mutant: the waiting thread is not woken when its future was cancelled.   *)
WakesUnlessCancelled(f, v) == cont[f] = "wait" /\ ~cancelled[f]
Wakes(f, v) == cont[f] = "wait"

(* State f finishes with v; events is what the step makes of f's own event. *)
Finish(f, v, events) ==
    /\ data' = [g \in Futures |->
                  CASE g = f -> Outcome(f, v)
                    [] g = f + 1 /\ Continues(f, v) /\ cancelled[g] -> "null"
                    [] OTHER -> data[g]]
    /\ event' = IF Continues(f, v) /\ Posts(f + 1)
                THEN [events EXCEPT ![f + 1] = "queued"]
                ELSE events
    /\ woken' = \/ woken
                \/ Wakes(f, v)
                \/ Continues(f, v) /\ cancelled[f + 1] /\ Wakes(f + 1, v)

-----------------------------------------------------------------------------
(* The thread that fulfils the promise, once. *)
SetPromise(v) ==
    /\ promise = "pending"
    /\ promise' = v
    /\ Finish(0, v, event)
    /\ UNCHANGED <<cont, cancelled, conn, ran, ctx, walk, userVars>>

-----------------------------------------------------------------------------
(* The user thread. *)

(* Mutant: no connection when the source is ready already. *)
ConnectsIfRunning(f) == data[f] = "running"
Connects(f) == TRUE

(* then(): a new state with a connection to its context, which the caller   *)
(* keeps alive during the call; the callback is posted at once if the       *)
(* source is ready, and the source then has no continuation.                *)
Then ==
    /\ userPc = "idle" /\ built < MaxChain
    /\ ctx[built + 1] = "alive"
    /\ built' = built + 1
    /\ conn' = [conn EXCEPT ![built + 1] = Connects(built)]
    /\ IF data[built] = "running"
       THEN /\ cont' = [cont EXCEPT ![built] = "callback"]
            /\ UNCHANGED event
       ELSE /\ event' = [event EXCEPT ![built + 1] = "queued"]
            /\ UNCHANGED cont
    /\ UNCHANGED <<promise, data, cancelled, ran, ctx, walk, userPc, woken, result>>

(* The condition of wait_locked().  Mutant: it does not look at the state.  *)
NoWait(f) == TRUE
Ready(f) == data[f] # "running"

(* get(): the first critical section, up to the wait in wait_locked(). *)
Get ==
    /\ userPc = "idle"
    /\ IF Ready(built)
       THEN /\ userPc' = "done"
            /\ result' = data[built]
            /\ UNCHANGED cont
       ELSE /\ userPc' = "getting"
            /\ cont' = [cont EXCEPT ![built] = "wait"]
            /\ UNCHANGED result
    /\ UNCHANGED <<promise, data, cancelled, conn, eventVars, ctx, walk, built, woken>>

(* wait_locked() returns. *)
GetReady ==
    /\ userPc = "getting" /\ woken /\ Ready(built)
    /\ userPc' = "done"
    /\ result' = data[built]
    /\ UNCHANGED <<promise, stateVars, eventVars, ctx, walk, built, woken>>

(* detach(), or ~Future(). *)
Detach ==
    /\ userPc = "idle"
    /\ userPc' = "done"
    /\ cont' = [cont EXCEPT ![built] = "no"]
    /\ UNCHANGED <<promise, data, cancelled, conn, eventVars, ctx, walk, built, woken, result>>

(* cancel() and detach_and_cancel(): the first critical section. *)
Cancel(then) ==
    /\ userPc = "idle"
    /\ built > 0 => CancelChains
    /\ userPc' = then
    /\ cancelled' = [cancelled EXCEPT ![built] = TRUE]
    /\ walk' = [walk EXCEPT ![User] = built - 1]
    /\ UNCHANGED <<promise, data, cont, conn, eventVars, ctx, built, woken, result>>

(* cancel(): the wait after the parents were cancelled. *)
CancelWait ==
    /\ userPc = "cancelling" /\ walk[User] = Nobody
    /\ IF Ready(built)
       THEN userPc' = "done" /\ UNCHANGED cont
       ELSE userPc' = "waiting" /\ cont' = [cont EXCEPT ![built] = "wait"]
    /\ UNCHANGED <<promise, data, cancelled, conn, eventVars, ctx, walk, built, woken, result>>

CancelReady ==
    /\ userPc = "waiting" /\ woken /\ Ready(built)
    /\ userPc' = "done"
    /\ UNCHANGED <<promise, stateVars, eventVars, ctx, walk, built, woken, result>>

-----------------------------------------------------------------------------
(* Cancellation of parents: cancel_async(), called for the parent of f + 1  *)
(* if that is still alive.  A finished state lives as long as the event     *)
(* that carries it to its child.                                            *)
Alive(f) == data[f] = "running" \/ event[f + 1] \in {"queued", "executing"}

CancelParent(t) ==
    /\ walk[t] # Nobody
    /\ LET f == walk[t] IN
         IF Alive(f) /\ ~cancelled[f]
         THEN /\ cancelled' = [cancelled EXCEPT ![f] = TRUE]
              /\ conn' = [conn EXCEPT ![f] = FALSE]
              /\ walk' = [walk EXCEPT ![t] = f - 1]
         ELSE /\ walk' = [walk EXCEPT ![t] = Nobody]
              /\ UNCHANGED <<cancelled, conn>>
    /\ UNCHANGED <<promise, data, cont, eventVars, ctx, userVars, woken>>

-----------------------------------------------------------------------------
(* The thread of context f. *)

(* Whether the callback is skipped.  Mutant: it is called with an error.    *)
NeverSkips(f) == FALSE
Skips(f) == data[f - 1] \in Errors /\ f \notin Handlers

(* finish_with_callback(), up to the call of the user's callback. *)
Deliver(f) ==
    /\ ctx[f] = "alive" /\ event[f] = "queued"
    /\ IF cancelled[f]
       THEN Finish(f, "null", [event EXCEPT ![f] = "done"]) /\ UNCHANGED <<conn, ran>>
       ELSE /\ conn' = [conn EXCEPT ![f] = FALSE]
            /\ IF Skips(f)
               THEN Finish(f, data[f - 1], [event EXCEPT ![f] = "done"]) /\ UNCHANGED ran
               ELSE /\ event' = [event EXCEPT ![f] = "executing"]
                    /\ ran' = [ran EXCEPT ![f] = @ + 1]
                    /\ UNCHANGED <<data, woken>>
    /\ UNCHANGED <<promise, cont, cancelled, ctx, walk, userVars>>

(* The callback returns, or throws. *)
Return(f, v) ==
    /\ event[f] = "executing"
    /\ Finish(f, v, [event EXCEPT ![f] = "done"])
    /\ UNCHANGED <<promise, cont, cancelled, conn, ran, ctx, walk, userVars>>

(* ~QObject() of the context: destroyed() is emitted.  Whether the slot is   *)
(* called is decided here; a disconnect() that comes later is too late.     *)
BeginDestroy(f) ==
    /\ ctx[f] = "alive" /\ event[f] # "executing"
    /\ ctx' = [ctx EXCEPT ![f] = IF conn[f] THEN "emitting" ELSE "dying"]
    /\ UNCHANGED <<promise, stateVars, eventVars, walk, userVars, woken>>

(* Which state is cancelled after a context exception.  Mutant: none.       *)
LeavesParent(f) == Nobody
ParentToCancel(f) == f - 1

(* finish_with_context_exception(). *)
ContextException(f) ==
    /\ ctx[f] = "emitting"
    /\ ctx' = [ctx EXCEPT ![f] = "dying"]
    /\ Finish(f, "ctx", event)
    /\ walk' = [walk EXCEPT ![f] = ParentToCancel(f)]
    /\ UNCHANGED <<promise, cont, cancelled, conn, ran, userVars>>

(* The rest of ~QObject(): events posted to the context are removed. *)
EndDestroy(f) ==
    /\ ctx[f] = "dying" /\ walk[f] = Nobody
    /\ ctx' = [ctx EXCEPT ![f] = "destroyed"]
    /\ event' = [event EXCEPT ![f] = IF @ = "queued" THEN "removed" ELSE @]
    /\ UNCHANGED <<promise, stateVars, ran, walk, userVars, woken>>

-----------------------------------------------------------------------------
UserStep ==
    \/ Then
    \/ Get
    \/ GetReady
    \/ Detach
    \/ Cancel("cancelling") \/ Cancel("done")
    \/ CancelWait
    \/ CancelReady

ContextStep(f) ==
    \/ Deliver(f)
    \/ Return(f, "value") \/ Return(f, "exc")
    \/ ContextException(f)
    \/ EndDestroy(f)

Terminated == userPc = "done" /\ UNCHANGED vars

Next ==
    \/ SetPromise("value") \/ SetPromise("exc")
    \/ UserStep
    \/ \E t \in Futures : CancelParent(t)
    \/ \E f \in Chained : ContextStep(f) \/ BeginDestroy(f)
    \/ Terminated

(* "Not setting any value is undefined behavior" (promise.h:13), "that       *)
(* thread must have a running event loop" (future.h:171); a context need    *)
(* never be destroyed, and which operations the user calls is open.         *)
Fairness ==
    /\ WF_vars(SetPromise("value") \/ SetPromise("exc"))
    /\ WF_vars(GetReady) /\ WF_vars(CancelWait) /\ WF_vars(CancelReady)
    /\ \A t \in Futures : WF_vars(CancelParent(t))
    /\ \A f \in Chained : WF_vars(ContextStep(f))

Spec == Init /\ [][Next]_vars
FairSpec == Spec /\ Fairness

-----------------------------------------------------------------------------
TypeOK ==
    /\ promise \in {"pending", "value", "exc"}
    /\ data \in [Futures -> Data]
    /\ cont \in [Futures -> {"unknown", "callback", "wait", "no"}]
    /\ cancelled \in [Futures -> BOOLEAN]
    /\ conn \in [Futures -> BOOLEAN]
    /\ event \in [Chained -> {"none", "queued", "executing", "done", "removed"}]
    /\ ran \in [Chained -> 0..1]
    /\ ctx \in [Chained -> {"alive", "emitting", "dying", "destroyed"}]
    /\ walk \in [Futures -> Futures \cup {Nobody}]
    /\ built \in Futures
    /\ userPc \in {"idle", "getting", "cancelling", "waiting", "done"}
    /\ woken \in BOOLEAN
    /\ result \in {"none", "value"} \cup Errors

(* What get() hands to the user is what the chain computed: a value only    *)
(* when every callback ran, once, on a value; a context error only when a   *)
(* context of the chain was destroyed; never the null error of a cancelled  *)
(* state, whatever contexts were destroyed when.                            *)
ResultIsJustified ==
    /\ result = "value" =>
           \A f \in (1..built) \ Handlers :
               (\A g \in f..built : g \notin Handlers) => ran[f] = 1 /\ data[f - 1] = "value"
    /\ result = "ctx" => \E f \in 1..built : ctx[f] # "alive"
    /\ result # "null"

(* The assertions of finish_with_callback() (future_state.h:267, 275): when *)
(* a call is delivered the state is still running, and connected to the     *)
(* destruction of its context unless it was cancelled.                      *)
DeliveryIsExpected ==
    \A f \in Chained : event[f] = "queued" /\ ctx[f] = "alive" =>
        data[f] = "running" /\ (conn[f] \/ cancelled[f])

(* "Safe to call QMetaObject::invokeMethod!" (future_state.h:244): nothing   *)
(* is posted to a context that is gone, detached futures included.          *)
PostIsSafe ==
    [][\A f \in Chained : event[f] = "none" /\ event'[f] = "queued" => ctx[f] # "destroyed"]_vars

(* get() returns, although contexts may be destroyed at any moment. *)
GetReturns == userPc = "getting" ~> userPc = "done"

(* cancel() "cancels all computations associated with this future and waits *)
(* for their completion" (future.h:112), so it returns.                     *)
CancelReturns == userPc \in {"cancelling", "waiting"} ~> userPc = "done"

(* "We were called from a child future, thus we must have a continuation"   *)
(* (future_state.h:62).                                                     *)
ParentHasContinuation ==
    \A t \in Futures : walk[t] # Nobody /\ Alive(walk[t]) => cont[walk[t]] = "callback"
=============================================================================
