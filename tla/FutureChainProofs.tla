-------------------------- MODULE FutureChainProofs --------------------------
(***************************************************************************)
(* Safety of FutureChain for every length of the chain, every choice of the *)
(* handlers, and whether or not futures made by then() are cancelled.       *)
(*                                                                         *)
(* Whether a delivery or a post is safe depends on what the other threads   *)
(* can still do, so the invariant says which states can still call their    *)
(* continuation (Settled), and why a context that is gone keeps its parent  *)
(* from doing so (GoneInv).  What a callback computed is kept transitively  *)
(* (ValueInv speaks of the whole chain behind a value), so that no          *)
(* induction over the chain is needed when get() returns.                   *)
(***************************************************************************)
EXTENDS FutureChain, TLAPS

(* ~QObject() of the context has emitted destroyed(), or had no slot to     *)
(* call.                                                                    *)
Gone(f) == ctx[f] \in {"dying", "destroyed"}

(* State g has no step left in which it would call its continuation. *)
Settled(g) ==
    \/ cont[g] # "callback"
    \/ cancelled[g]
    \/ IF g = 0 THEN promise # "pending" ELSE event[g] = "done" \/ Gone(g)

(* The user holds the last future of the chain: only the user waits for it  *)
(* or cancels it, and what get() returned is justified.                     *)
UserInv ==
    /\ userPc = "idle" => cont[built] = "unknown"
    /\ userPc \in {"idle", "getting"} => ~cancelled[built]
    /\ \A f \in Futures : cont[f] = "callback" => f < built
    /\ result # "none" => userPc = "done"
    /\ result = "value" => data[built] = "value"
    /\ result = "ctx" => \E f \in 1..built : ctx[f] # "alive"
    /\ result # "null"

(* Futures that then() did not make yet are untouched. *)
UnbuiltInv ==
    \A f \in Chained : f > built =>
        /\ data[f] = "running" /\ cont[f] = "unknown"
        /\ ~cancelled[f] /\ ~conn[f]
        /\ event[f] = "none" /\ ctx[f] # "emitting"

(* The posted call: it is there only once the parent is settled, it is      *)
(* called at most once, and until then the state is running unless its      *)
(* context is gone.                                                         *)
EventInv ==
    \A f \in Chained :
        /\ event[f] # "none" => data[f - 1] # "running" /\ Settled(f - 1)
        /\ event[f] \in {"none", "queued"} => ran[f] = 0
        /\ event[f] = "executing" =>
               /\ ran[f] = 1 /\ ~conn[f] /\ ctx[f] = "alive"
               /\ f \notin Handlers => data[f - 1] = "value"
        /\ event[f] \in {"queued", "executing"} /\ ~Gone(f) => data[f] = "running"
        /\ event[f] = "done" /\ (conn[f] \/ ctx[f] = "emitting") => cancelled[f]
        /\ event[f] = "removed" => ctx[f] = "destroyed"
        /\ ctx[f] = "emitting" => event[f] # "executing"

(* A state that waits for its call is connected to its context, unless it   *)
(* was cancelled.                                                           *)
ConnectionInv ==
    \A f \in 1..built : event[f] \in {"none", "queued"} /\ ctx[f] = "alive" =>
        conn[f] \/ cancelled[f]

(* When the context is gone no call can be posted to it any more, except    *)
(* while the destructor has yet to cancel the parent.                       *)
GoneInv ==
    \A f \in 1..built : Gone(f) =>
        \/ data[f] # "running" \/ cancelled[f] \/ Settled(f - 1)
        \/ ctx[f] = "dying" /\ walk[f] = f - 1

(* A finished state is settled. *)
SettledInv ==
    /\ \A g \in Futures : data[g] # "running" => Settled(g)
    /\ promise = "pending" => data[0] = "running"

(* A parent is cancelled only when its child was, or lost its context; only *)
(* cancelled states have a null error.                                      *)
CancelInv ==
    /\ \A t \in Futures : walk[t] # Nobody =>
           walk[t] < built /\ (cancelled[walk[t] + 1] \/ Gone(walk[t] + 1))
    /\ \A g \in 0..built-1 : cancelled[g] => cancelled[g + 1] \/ Gone(g + 1)
    /\ \A g \in Futures : data[g] = "null" => cancelled[g]

(* Behind a value there are callbacks that ran once, on values, as far back *)
(* as no callback handles errors.                                           *)
ValueInv ==
    \A h \in Futures : data[h] = "value" =>
        /\ h > 0 => event[h] = "done" /\ ~conn[h] /\ ctx[h] # "emitting"
        /\ \A f \in (1..h) \ Handlers :
              (\A g \in f..h : g \notin Handlers) => ran[f] = 1 /\ data[f - 1] = "value"

(* Behind a context error there is a context that was destroyed. *)
ContextInv ==
    \A h \in Futures : data[h] = "ctx" => \E f \in 1..h : ctx[f] # "alive"

(* The inductive invariant. *)
IInv ==
    /\ TypeOK /\ UserInv /\ UnbuiltInv /\ EventInv /\ ConnectionInv /\ GoneInv /\ SettledInv
    /\ CancelInv /\ ValueInv /\ ContextInv

-----------------------------------------------------------------------------
(* What the ways of finishing a state g have in common: the promise is set, *)
(* a call is delivered to a cancelled state or skipped, a callback returns, *)
(* or the context is destroyed. With it each part of the invariant is       *)
(* proved once for all of them.                                             *)
FinishStep(g, v) ==
    /\ g \in 0..built /\ v \in Data \ {"running"}
    /\ \E events \in {event, [event EXCEPT ![g] = "done"]} : Finish(g, v, events)
    /\ UNCHANGED <<cont, cancelled, ran, userVars>>
    /\ TypeOK'
    /\ Continues(g, v) => ~Settled(g)
    /\ Settled(g)'
    /\ g = 0 => promise = "pending" /\ promise' # "pending"
    /\ g # 0 => promise' = promise
    /\ \A h \in Chained : h # g =>
           conn'[h] = conn[h] /\ ctx'[h] = ctx[h] /\ walk'[h] = walk[h]
    /\ walk'[0] = walk[0]
    /\ g # 0 =>
           /\ conn'[g] => conn[g]
           /\ \/ /\ event[g] \in {"queued", "executing"} /\ event'[g] = "done"
                 /\ ctx[g] = "alive" /\ ctx'[g] = "alive" /\ walk'[g] = walk[g]
                 /\ conn'[g] => cancelled[g]
              \/ /\ event'[g] = event[g] /\ ctx[g] = "emitting" /\ ctx'[g] = "dying"
                 /\ walk'[g] = g - 1
    /\ v = "value" => g = 0 \/ event[g] = "executing"
    /\ v = "null" => cancelled[g]
    /\ v = "ctx" => \E f \in 1..g : ctx'[f] # "alive"

(* Finish() changes the data and the event of g and of its continuation     *)
(* only.                                                                    *)
LEMMA FinishFacts ==
    ASSUME TypeOK, NEW g \in Futures, NEW v, FinishStep(g, v)
    PROVE  /\ data'[g] = Outcome(g, v)
           /\ \A h \in Futures : h # g =>
                 data'[h] = IF h = g + 1 /\ Continues(g, v) /\ cancelled[h] THEN "null" ELSE data[h]
           /\ \A h \in Chained : h # g =>
                 event'[h] = IF h = g + 1 /\ Continues(g, v) /\ Posts(h) THEN "queued" ELSE event[h]
<1>1. PICK events \in {event, [event EXCEPT ![g] = "done"]} : Finish(g, v, events)
  BY DEF FinishStep
<1>2. data'[g] = Outcome(g, v)
  BY <1>1 DEF Finish, TypeOK, Futures
<1>3. ASSUME NEW h \in Futures, h # g
      PROVE  data'[h] = IF h = g + 1 /\ Continues(g, v) /\ cancelled[h] THEN "null" ELSE data[h]
  BY <1>1, <1>3 DEF Finish, TypeOK, Futures
<1>4. ASSUME NEW h \in Chained, h # g
      PROVE  event'[h] = IF h = g + 1 /\ Continues(g, v) /\ Posts(h) THEN "queued" ELSE event[h]
  BY <1>1, <1>4 DEF Finish, TypeOK, Futures, Chained
<1> QED BY <1>2, <1>3, <1>4

(* What stays true when a state finishes: finished states, values, contexts *)
(* that are gone and settled states; and a state calls its continuation     *)
(* only when nothing was posted for it before.                              *)
LEMMA FinishIsStable ==
    ASSUME IInv, NEW g \in Futures, NEW v, FinishStep(g, v)
    PROVE  /\ \A h \in Futures : data[h] # "running" => data'[h] # "running"
           /\ \A h \in Futures : data[h] = "value" => data'[h] = "value"
           /\ \A h \in Chained : ctx[h] # "alive" => ctx'[h] # "alive"
           /\ \A h \in Chained : Gone(h) => Gone(h)'
           /\ \A h \in Futures : Settled(h) => Settled(h)'
           /\ Continues(g, v) /\ g # MaxChain => event[g + 1] = "none"
<1> USE DEF IInv
<1>1. /\ data'[g] = Outcome(g, v)
      /\ \A h \in Futures : h # g =>
            data'[h] = IF h = g + 1 /\ Continues(g, v) /\ cancelled[h] THEN "null" ELSE data[h]
      /\ \A h \in Chained : h # g =>
            event'[h] = IF h = g + 1 /\ Continues(g, v) /\ Posts(h) THEN "queued" ELSE event[h]
  BY FinishFacts
<1>2. \A h \in Futures : data[h] # "running" => data'[h] # "running"
  BY <1>1 DEF FinishStep, Outcome
<1>3. Continues(g, v) /\ g # MaxChain => event[g + 1] = "none"
  <2> SUFFICES ASSUME Continues(g, v), g # MaxChain, event[g + 1] # "none" PROVE FALSE
    OBVIOUS
  <2>1. g + 1 \in Chained /\ (g + 1) - 1 = g
    BY ChainAssumption DEF Chained, Futures
  <2> QED BY <2>1 DEF EventInv, FinishStep
<1>4. ASSUME NEW h \in Futures, data[h] = "value" PROVE data'[h] = "value"
  <2>1. CASE h = g /\ g = 0
    BY <2>1, <1>4 DEF FinishStep, SettledInv
  <2>2. CASE h = g /\ g # 0
    BY <2>2, <1>4 DEF FinishStep, ValueInv, Futures
  <2>3. CASE h = g + 1 /\ Continues(g, v)
    <3>1. h \in Chained /\ h > 0 /\ g # MaxChain
      BY <2>3, ChainAssumption DEF Futures, Chained
    <3> QED BY <3>1, <2>3, <1>3, <1>4 DEF ValueInv
  <2> QED BY <2>1, <2>2, <2>3, <1>1, <1>4
<1>5. /\ \A h \in Chained : ctx[h] # "alive" => ctx'[h] # "alive"
      /\ \A h \in Chained : Gone(h) => Gone(h)'
  BY DEF FinishStep, Gone, Chained
<1>6. ASSUME NEW h \in Futures, Settled(h) PROVE Settled(h)'
  <2>1. CASE h = g
    BY <2>1 DEF FinishStep
  <2>2. CASE h # g /\ h = 0
    BY <2>2, <1>6 DEF FinishStep, Settled
  <2>3. CASE h # g /\ h # 0
    <3>1. h \in Chained
      BY <2>3 DEF Futures, Chained
    <3>2. Gone(h) => Gone(h)'
      BY <3>1, <1>5
    <3>3. event[h] = "done" => event'[h] = "done"
      <4>1. CASE h = g + 1 /\ Continues(g, v)
        BY <4>1, <1>3, ChainAssumption DEF Futures
      <4> QED BY <4>1, <3>1, <1>1, <2>3
    <3> QED BY <3>2, <3>3, <2>3, <1>6 DEF Settled, FinishStep
  <2> QED BY <2>1, <2>2, <2>3
<1> QED BY <1>2, <1>3, <1>4, <1>5, <1>6

(* Finishing a state keeps the invariant. *)
LEMMA FinishInv ==
    ASSUME IInv, NEW g \in Futures, NEW v, FinishStep(g, v)
    PROVE  IInv'
<1> USE DEF IInv
<1>1. /\ data'[g] = Outcome(g, v)
      /\ \A h \in Futures : h # g =>
            data'[h] = IF h = g + 1 /\ Continues(g, v) /\ cancelled[h] THEN "null" ELSE data[h]
      /\ \A h \in Chained : h # g =>
            event'[h] = IF h = g + 1 /\ Continues(g, v) /\ Posts(h) THEN "queued" ELSE event[h]
  BY FinishFacts
<1>2. /\ \A h \in Futures : data[h] # "running" => data'[h] # "running"
      /\ \A h \in Futures : data[h] = "value" => data'[h] = "value"
      /\ \A h \in Chained : ctx[h] # "alive" => ctx'[h] # "alive"
      /\ \A h \in Chained : Gone(h) => Gone(h)'
      /\ \A h \in Futures : Settled(h) => Settled(h)'
      /\ Continues(g, v) /\ g # MaxChain => event[g + 1] = "none"
  BY FinishIsStable
<1>3. UNCHANGED <<cont, cancelled, ran, built, userPc, result>>
  BY DEF FinishStep, userVars
<1>4. TypeOK'
  BY DEF FinishStep
<1>5. built \in 0..MaxChain /\ MaxChain \in Nat /\ g \in 0..built
  BY ChainAssumption DEF FinishStep, TypeOK, Futures
<1>6. Continues(g, v) => g < built /\ g + 1 \in Chained
  BY <1>5 DEF Continues, UserInv, Chained
<1>7. UserInv'
  <2>1. result' = "value" => data'[built'] = "value"
    BY <1>2, <1>3, <1>5 DEF UserInv, Futures
  <2>2. result' = "ctx" => \E f \in 1..built' : ctx'[f] # "alive"
    <3> SUFFICES ASSUME result = "ctx" PROVE \E f \in 1..built : ctx'[f] # "alive"
      BY <1>3
    <3>1. PICK f \in 1..built : ctx[f] # "alive"
      BY DEF UserInv
    <3> QED BY <3>1, <1>2, <1>5 DEF Chained
  <2> QED BY <2>1, <2>2, <1>3 DEF UserInv
<1>8. UnbuiltInv'
  <2> SUFFICES ASSUME NEW f \in Chained, f > built
               PROVE  /\ data'[f] = "running" /\ cont'[f] = "unknown"
                      /\ ~cancelled'[f] /\ ~conn'[f]
                      /\ event'[f] = "none" /\ ctx'[f] # "emitting"
    BY <1>3 DEF UnbuiltInv
  <2>1. f # g /\ f \in Futures /\ (f = g + 1 => ~Continues(g, v))
    BY <1>5, <1>6 DEF Chained, Futures
  <2>2. data'[f] = data[f] /\ event'[f] = event[f] /\ conn'[f] = conn[f] /\ ctx'[f] = ctx[f]
    BY <2>1, <1>1 DEF FinishStep
  <2> QED BY <2>2, <1>3 DEF UnbuiltInv
<1>9. EventInv'
  <2> SUFFICES ASSUME NEW f \in Chained
               PROVE  /\ event'[f] # "none" => data'[f - 1] # "running" /\ Settled(f - 1)'
                      /\ event'[f] \in {"none", "queued"} => ran'[f] = 0
                      /\ event'[f] = "executing" =>
                             /\ ran'[f] = 1 /\ ~conn'[f] /\ ctx'[f] = "alive"
                             /\ f \notin Handlers => data'[f - 1] = "value"
                      /\ event'[f] \in {"queued", "executing"} /\ ~Gone(f)' => data'[f] = "running"
                      /\ event'[f] = "done" /\ (conn'[f] \/ ctx'[f] = "emitting") => cancelled'[f]
                      /\ event'[f] = "removed" => ctx'[f] = "destroyed"
                      /\ ctx'[f] = "emitting" => event'[f] # "executing"
    BY DEF EventInv
  <2>1. f \in Futures /\ f - 1 \in Futures /\ f # 0
    BY <1>5 DEF Chained, Futures
  <2>2. CASE f = g
    <3>1. event[f] # "none" => data'[f - 1] # "running" /\ Settled(f - 1)'
      BY <2>1, <1>2 DEF EventInv
    <3>2. CASE event[f] \in {"queued", "executing"} /\ event'[f] = "done"
      BY <3>1, <3>2, <2>2, <2>1, <1>3 DEF FinishStep
    <3>3. CASE event'[f] = event[f] /\ ctx[f] = "emitting" /\ ctx'[f] = "dying"
      BY <3>1, <3>3, <2>2, <2>1, <1>3 DEF FinishStep, EventInv, Gone
    <3> QED BY <3>2, <3>3, <2>1, <2>2 DEF FinishStep
  <2>3. CASE f = g + 1 /\ Continues(g, v)
    <3>1. g = f - 1 /\ event[f] = "none" /\ f # g /\ g # MaxChain
      BY <2>3, <1>2, <1>5 DEF Chained
    <3>2. data'[g] # "running" /\ Settled(g)'
      BY <2>3, <1>1 DEF FinishStep, Outcome, Continues
    <3>3. conn'[f] = conn[f] /\ ctx'[f] = ctx[f]
      BY <3>1 DEF FinishStep
    <3>4. event'[f] \in {"none", "queued"} /\ (event'[f] = "queued" => data'[f] = "running")
      BY <3>1, <2>3, <1>1, <2>1 DEF Posts
    <3> QED BY <3>1, <3>2, <3>3, <3>4, <1>3 DEF EventInv
  <2>4. CASE f # g /\ ~(f = g + 1 /\ Continues(g, v))
    <3>1. event'[f] = event[f] /\ data'[f] = data[f] /\ conn'[f] = conn[f] /\ ctx'[f] = ctx[f]
      BY <2>4, <2>1, <1>1 DEF FinishStep
    <3>2. event[f] # "none" => data'[f - 1] # "running" /\ Settled(f - 1)'
      BY <2>1, <1>2 DEF EventInv
    <3>3. Gone(f)' <=> Gone(f)
      BY <3>1 DEF Gone
    <3>4. data[f - 1] = "value" => data'[f - 1] = "value"
      BY <2>1, <1>2
    <3> QED BY <3>1, <3>2, <3>3, <3>4, <1>3 DEF EventInv
  <2> QED BY <2>2, <2>3, <2>4
<1>10. ConnectionInv'
  <2> SUFFICES ASSUME NEW f \in 1..built, event'[f] \in {"none", "queued"}, ctx'[f] = "alive"
               PROVE  conn'[f] \/ cancelled'[f]
    BY <1>3 DEF ConnectionInv
  <2>1. f \in Chained /\ f # 0
    BY <1>5 DEF Chained
  <2>2. CASE f = g
    BY <2>1, <2>2 DEF FinishStep
  <2>3. CASE f # g
    <3>1. conn'[f] = conn[f] /\ ctx'[f] = ctx[f]
      BY <2>1, <2>3 DEF FinishStep
    <3>2. event[f] \in {"none", "queued"}
      BY <2>1, <2>3, <1>1, <1>2, <1>5 DEF Chained
    <3> QED BY <3>1, <3>2, <1>3 DEF ConnectionInv
  <2> QED BY <2>2, <2>3
<1>11. GoneInv'
  <2> SUFFICES ASSUME NEW f \in 1..built, Gone(f)'
               PROVE  \/ data'[f] # "running" \/ cancelled'[f] \/ Settled(f - 1)'
                      \/ ctx'[f] = "dying" /\ walk'[f] = f - 1
    BY <1>3 DEF GoneInv
  <2>1. f \in Chained /\ f # 0 /\ f \in Futures /\ f - 1 \in Futures
    BY <1>5 DEF Chained, Futures
  <2>2. CASE f = g
    BY <2>1, <2>2, <1>2, <1>1 DEF FinishStep, Gone
  <2>3. CASE f # g
    <3>1. ctx'[f] = ctx[f] /\ walk'[f] = walk[f]
      BY <2>1, <2>3 DEF FinishStep
    <3> QED BY <3>1, <2>1, <1>2, <1>3 DEF GoneInv, Gone
  <2> QED BY <2>2, <2>3
<1>12. SettledInv'
  <2>1. ASSUME NEW h \in Futures, data'[h] # "running" PROVE Settled(h)'
    <3>1. CASE h = g
      BY <3>1 DEF FinishStep
    <3>2. CASE h # g /\ h = g + 1 /\ Continues(g, v) /\ cancelled[h]
      BY <3>2, <1>3 DEF Settled
    <3>3. CASE h # g /\ ~(h = g + 1 /\ Continues(g, v) /\ cancelled[h])
      BY <3>3, <2>1, <1>1, <1>2 DEF SettledInv
    <3> QED BY <3>1, <3>2, <3>3
  <2>2. promise' = "pending" => data'[0] = "running"
    <3> SUFFICES ASSUME promise' = "pending" PROVE data'[0] = "running"
      OBVIOUS
    <3>1. g # 0 /\ promise = "pending"
      BY DEF FinishStep
    <3> QED BY <3>1, <1>1, <1>5 DEF SettledInv, Futures
  <2> QED BY <2>1, <2>2 DEF SettledInv
<1>13. CancelInv'
  <2>1. ASSUME NEW t \in Futures, NEW w, w = walk'[t], w # Nobody
        PROVE  w < built /\ (cancelled[w + 1] \/ ctx'[w + 1] \in {"dying", "destroyed"})
    <3>1. CASE w = walk[t]
      <4>1. w < built /\ (cancelled[w + 1] \/ Gone(w + 1))
        BY <3>1, <2>1 DEF CancelInv
      <4>2. w \in Futures
        BY <3>1, <2>1 DEF TypeOK
      <4>3. w + 1 \in Chained
        BY <4>1, <4>2, <1>5 DEF Futures, Chained
      <4> QED BY <4>1, <4>3, <1>2 DEF Gone
    <3>2. CASE w # walk[t]
      <4>1. t = g /\ g # 0 /\ walk'[t] = g - 1 /\ ctx'[g] = "dying"
        BY <3>2, <2>1, <1>5 DEF FinishStep, Futures, Chained
      <4>2. w + 1 = g
        BY <4>1, <2>1, <1>5
      <4> QED BY <4>1, <4>2, <2>1, <1>5
    <3> QED BY <3>1, <3>2
  <2>2. ASSUME NEW h \in 0..built-1, cancelled[h] PROVE cancelled[h + 1] \/ Gone(h + 1)'
    BY <2>2, <1>2, <1>5 DEF CancelInv, Chained
  <2>3. ASSUME NEW h \in Futures, data'[h] = "null" PROVE cancelled[h]
    <3>1. CASE data[h] = "null"
      BY <3>1, <2>3 DEF CancelInv
    <3>2. CASE data[h] # "null"
      BY <3>2, <2>3, <1>1 DEF FinishStep, Outcome
    <3> QED BY <3>1, <3>2
  <2>4. \A t \in Futures : walk'[t] # Nobody =>
            walk'[t] < built' /\ (cancelled'[walk'[t] + 1] \/ ctx'[walk'[t] + 1] \in {"dying", "destroyed"})
    BY <2>1, <1>3
  <2> QED BY <2>4, <2>2, <2>3, <1>3 DEF CancelInv, Gone
<1>14. ValueInv'
  <2> SUFFICES ASSUME NEW h \in Futures, data'[h] = "value"
               PROVE  /\ h > 0 => event'[h] = "done" /\ ~conn'[h] /\ ctx'[h] # "emitting"
                      /\ \A f \in (1..h) \ Handlers :
                            (\A k \in f..h : k \notin Handlers) =>
                                ran[f] = 1 /\ data'[f - 1] = "value"
    BY <1>3 DEF ValueInv
  <2>1. CASE data[h] = "value"
    <3>1. ASSUME h > 0 PROVE event'[h] = "done" /\ ~conn'[h] /\ ctx'[h] # "emitting"
      <4>1. event[h] = "done" /\ ~conn[h] /\ ctx[h] # "emitting" /\ h \in Chained /\ h # 0
        BY <3>1, <2>1 DEF ValueInv, Futures, Chained
      <4>2. h # g
        BY <4>1, <1>5 DEF FinishStep
      <4>3. ~(h = g + 1 /\ Continues(g, v))
        BY <4>1, <1>2, <1>5 DEF Chained
      <4> QED BY <4>1, <4>2, <4>3, <1>1 DEF FinishStep
    <3>2. ASSUME NEW f \in (1..h) \ Handlers, \A k \in f..h : k \notin Handlers
          PROVE  ran[f] = 1 /\ data'[f - 1] = "value"
      <4>1. f - 1 \in Futures
        BY <1>5 DEF Futures
      <4> QED BY <4>1, <3>2, <2>1, <1>2 DEF ValueInv
    <3> QED BY <3>1, <3>2
  <2>2. CASE data[h] # "value"
    <3>1. h = g /\ v = "value"
      BY <2>2, <1>1 DEF Outcome
    <3>2. CASE g = 0
      BY <3>1, <3>2
    <3>3. CASE g # 0
      <4>1. event[g] = "executing" /\ g \in Chained /\ g - 1 \in Futures
        BY <3>1, <3>3, <1>5 DEF FinishStep, Chained, Futures
      <4>2. ran[g] = 1 /\ ~conn[g] /\ ctx[g] = "alive" /\ (g \notin Handlers => data[g - 1] = "value")
        BY <4>1 DEF EventInv
      <4>3. event'[g] = "done" /\ ~conn'[g] /\ ctx'[g] = "alive"
        BY <4>1, <4>2, <3>3 DEF FinishStep
      <4>4. ASSUME NEW f \in (1..g) \ Handlers, \A k \in f..g : k \notin Handlers
            PROVE  ran[f] = 1 /\ data'[f - 1] = "value"
        <5>1. data[g - 1] = "value" /\ f - 1 \in Futures
          BY <4>2, <4>4, <4>1, <1>5 DEF Chained, Futures
        <5>2. CASE f = g
          BY <5>1, <5>2, <4>2, <1>2
        <5>3. CASE f # g
          <6>1. f \in (1..g-1) \ Handlers /\ \A k \in f..g-1 : k \notin Handlers
            BY <4>4, <5>3, <4>1 DEF Chained
          <6> QED BY <6>1, <5>1, <4>1, <1>2 DEF ValueInv
        <5> QED BY <5>2, <5>3
      <4> QED BY <3>1, <4>3, <4>4
    <3> QED BY <3>2, <3>3
  <2> QED BY <2>1, <2>2
<1>15. ContextInv'
  <2> SUFFICES ASSUME NEW h \in Futures, data'[h] = "ctx"
               PROVE  \E f \in 1..h : ctx'[f] # "alive"
    BY DEF ContextInv
  <2>1. CASE data[h] = "ctx"
    <3>1. PICK f \in 1..h : ctx[f] # "alive"
      BY <2>1 DEF ContextInv
    <3>2. f \in Chained
      BY <1>5 DEF Chained, Futures
    <3> QED BY <3>1, <3>2, <1>2
  <2>2. CASE data[h] # "ctx"
    BY <2>2, <1>1 DEF Outcome, FinishStep
  <2> QED BY <2>1, <2>2
<1> QED
  BY <1>4, <1>7, <1>8, <1>9, <1>10, <1>11, <1>12, <1>13, <1>14, <1>15
-----------------------------------------------------------------------------
(* The invariant holds before the first then(). *)
LEMMA InitInv == ASSUME Init PROVE IInv
<1> USE DEF Init
<1> 0 \in Futures /\ Chained \subseteq Futures
  BY ChainAssumption DEF Futures, Chained
<1>1. TypeOK
  <2>1. data \in [Futures -> Data]
    BY DEF Data
  <2>2. walk \in [Futures -> Futures \cup {Nobody}] /\ ran \in [Chained -> 0..1]
    BY DEF Nobody
  <2> QED BY <2>1, <2>2 DEF TypeOK
<1>2. UserInv /\ UnbuiltInv
  BY DEF UserInv, UnbuiltInv
<1>3. EventInv
  BY DEF EventInv
<1>4. ConnectionInv /\ GoneInv /\ SettledInv
  BY ChainAssumption DEF ConnectionInv, GoneInv, SettledInv, Futures
<1>5. CancelInv /\ ValueInv /\ ContextInv
  BY DEF CancelInv, ValueInv, ContextInv, Futures
<1> QED BY <1>1, <1>2, <1>3, <1>4, <1>5 DEF IInv

(* Finish() keeps the types. *)
LEMMA OutcomeType ==
    ASSUME TypeOK, NEW g \in Futures, NEW v \in Data,
           NEW events, events \in {event, [event EXCEPT ![g] = "done"]}, Finish(g, v, events)
    PROVE  /\ data' \in [Futures -> Data]
           /\ event' \in [Chained -> {"none", "queued", "executing", "done", "removed"}]
           /\ woken' \in BOOLEAN
<1>1. data' \in [Futures -> Data]
  BY DEF Finish, TypeOK, Outcome, Data, Errors
<1>2. event' \in [Chained -> {"none", "queued", "executing", "done", "removed"}]
  BY DEF Finish, TypeOK
<1>3. woken' \in BOOLEAN
  BY DEF Finish, TypeOK
<1> QED BY <1>1, <1>2, <1>3

(* Setting the promise is a FinishStep. *)
LEMMA SetPromiseFinishes ==
    ASSUME IInv, NEW v \in {"value", "exc"}, SetPromise(v)
    PROVE  FinishStep(0, v)
<1> USE DEF IInv
<1>1. /\ UNCHANGED <<cont, cancelled, conn, ran, ctx, walk, userVars>>
      /\ promise = "pending" /\ promise' = v /\ Finish(0, v, event)
  BY DEF SetPromise
<1>2. 0 \in Futures /\ v \in Data /\ built \in Futures
  BY ChainAssumption DEF Futures, Data, Errors, TypeOK
<1>3. TypeOK'
  BY <1>1, <1>2, OutcomeType DEF TypeOK, userVars
<1> QED
  BY <1>1, <1>2, <1>3 DEF FinishStep, Settled, Continues, userVars, Chained, Futures

(* A delivery that does not start the callback is a FinishStep; an error    *)
(* that is passed on is not the null error of a cancelled parent.           *)
LEMMA DeliverFinishes ==
    ASSUME IInv, NEW f \in Chained, Deliver(f), cancelled[f] \/ Skips(f)
    PROVE  \E v \in Data : FinishStep(f, v)
<1> USE DEF IInv
<1>1. /\ UNCHANGED <<promise, cont, cancelled, ctx, walk, userVars>>
      /\ ctx[f] = "alive" /\ event[f] = "queued"
  BY DEF Deliver
<1>2. f \in Futures /\ f - 1 \in Futures /\ f # 0 /\ f \in 1..built /\ built \in Futures
  BY <1>1, ChainAssumption DEF Futures, Chained, TypeOK, UnbuiltInv
<1>3. Continues(f, data[f - 1]) => ~Settled(f)
  BY <1>1, <1>2 DEF Continues, Settled, Gone
<1>4. CASE cancelled[f]
  <2>1. Finish(f, "null", [event EXCEPT ![f] = "done"]) /\ UNCHANGED <<conn, ran>>
    BY <1>4 DEF Deliver
  <2>2. "null" \in Data
    BY DEF Data, Errors
  <2>3. TypeOK'
    BY <1>1, <1>2, <2>1, <2>2, OutcomeType DEF TypeOK, userVars
  <2>4. event'[f] = "done"
    BY <2>1, <1>2 DEF Finish, TypeOK, Futures, Chained
  <2>5. FinishStep(f, "null")
    BY <1>1, <1>2, <1>4, <2>1, <2>2, <2>3, <2>4 DEF FinishStep, Settled, Continues, userVars, Chained, Futures
  <2> QED BY <2>2, <2>5
<1>5. CASE ~cancelled[f] /\ Skips(f)
  <2>1. /\ Finish(f, data[f - 1], [event EXCEPT ![f] = "done"])
        /\ UNCHANGED ran /\ conn' = [conn EXCEPT ![f] = FALSE]
    BY <1>5 DEF Deliver
  <2>2. data[f - 1] \in Errors /\ data[f - 1] \in Data \ {"running"}
    BY <1>5 DEF Skips, Data, Errors
  <2>3. TypeOK'
    BY <1>1, <1>2, <2>1, <2>2, OutcomeType DEF TypeOK, userVars
  <2>4. event'[f] = "done"
    BY <2>1, <1>2 DEF Finish, TypeOK, Futures, Chained
  <2>5. data[f - 1] # "null"
    <3> SUFFICES ASSUME data[f - 1] = "null" PROVE FALSE
      OBVIOUS
    <3>1. cancelled[f - 1] /\ f - 1 \in 0..built-1 /\ (f - 1) + 1 = f
      BY <1>2 DEF CancelInv, Futures
    <3>2. cancelled[f] \/ Gone(f)
      BY <3>1 DEF CancelInv
    <3> QED BY <3>2, <1>1, <1>5 DEF Gone
  <2>6. data[f - 1] = "ctx" => \E h \in 1..f : ctx'[h] # "alive"
    <3> SUFFICES ASSUME data[f - 1] = "ctx" PROVE \E h \in 1..f : ctx'[h] # "alive"
      OBVIOUS
    <3>1. PICK h \in 1..(f - 1) : ctx[h] # "alive"
      BY <1>2 DEF ContextInv
    <3> QED BY <3>1, <1>1, <1>2 DEF Futures
  <2>7. conn \in [Futures -> BOOLEAN] /\ conn'[f] = FALSE /\ \A h \in Chained : h # f => conn'[h] = conn[h]
    BY <2>1, <1>2 DEF TypeOK, Chained, Futures
  <2>8. Settled(f)'
    BY <2>4, <1>2 DEF Settled
  <2>9. \E events \in {event, [event EXCEPT ![f] = "done"]} : Finish(f, data[f - 1], events)
    BY <2>1
  <2>10. FinishStep(f, data[f - 1])
    BY <1>1, <1>2, <1>3, <2>1, <2>2, <2>3, <2>4, <2>5, <2>6, <2>7, <2>8, <2>9
    DEF FinishStep, userVars, Errors, Futures
  <2> QED BY <2>2, <2>10
<1> QED BY <1>4, <1>5

(* A delivery that starts the callback keeps the invariant. *)
LEMMA DeliverExecutes ==
    ASSUME IInv, NEW f \in Chained, Deliver(f), ~cancelled[f], ~Skips(f)
    PROVE  IInv'
<1> USE DEF IInv
<1>1. /\ UNCHANGED <<promise, cont, cancelled, ctx, walk, userVars>>
      /\ ctx[f] = "alive" /\ event[f] = "queued"
  BY DEF Deliver
<1>2. f \in Futures /\ f - 1 \in Futures /\ f # 0 /\ f \in 1..built /\ built \in Futures
  BY <1>1, ChainAssumption DEF Futures, Chained, TypeOK, UnbuiltInv
<1>3. /\ UNCHANGED <<data, woken>>
      /\ conn' = [conn EXCEPT ![f] = FALSE]
      /\ event' = [event EXCEPT ![f] = "executing"]
      /\ ran' = [ran EXCEPT ![f] = @ + 1]
  BY DEF Deliver
<1>4. UNCHANGED <<promise, data, cont, cancelled, ctx, walk, built, userPc, result>>
  BY <1>1, <1>3 DEF userVars
<1>5. /\ \A h \in Chained : h # f => event'[h] = event[h] /\ ran'[h] = ran[h]
      /\ \A h \in Futures : h # f => conn'[h] = conn[h]
      /\ event'[f] = "executing" /\ ran'[f] = 1 /\ ~conn'[f]
  <2>1. ran[f] = 0
    BY <1>1 DEF EventInv
  <2> QED BY <1>3, <2>1, <1>2 DEF TypeOK
<1>6. TypeOK'
  <2>1. ran' \in [Chained -> 0..1]
    BY <1>3, <1>5 DEF TypeOK
  <2>2. event' \in [Chained -> {"none", "queued", "executing", "done", "removed"}]
    BY <1>3 DEF TypeOK
  <2>3. conn' \in [Futures -> BOOLEAN]
    BY <1>3 DEF TypeOK
  <2> QED BY <2>1, <2>2, <2>3, <1>3, <1>4 DEF TypeOK
<1>7. /\ \A h \in Chained : Gone(h)' <=> Gone(h)
      /\ \A h \in Futures : Settled(h) => Settled(h)'
  <2>1. \A h \in Chained : Gone(h)' <=> Gone(h)
    BY <1>4 DEF Gone
  <2>2. ASSUME NEW h \in Futures, Settled(h) PROVE Settled(h)'
    <3>1. h # 0 => h \in Chained
      BY DEF Futures, Chained
    <3> QED BY <2>2, <3>1, <2>1, <1>4, <1>5, <1>1 DEF Settled
  <2> QED BY <2>1, <2>2
<1>8. UserInv'
  BY <1>4 DEF UserInv
<1>9. UnbuiltInv'
  <2>1. f <= built
    BY <1>2 DEF Futures
  <2> QED BY <2>1, <1>4, <1>5, <1>2 DEF UnbuiltInv, Chained, Futures
<1>10. EventInv'
  <2>1. /\ data[f - 1] # "running" /\ Settled(f - 1)' /\ data[f] = "running"
        /\ f \notin Handlers => data[f - 1] = "value"
    BY <1>1, <1>2, <1>7 DEF EventInv, Gone, Skips, Data, TypeOK
  <2>2. \A h \in Chained : h - 1 \in Futures
    BY <1>2, ChainAssumption DEF Futures, Chained
  <2>3. \A h \in Chained : h # f => conn'[h] = conn[h]
    BY <1>5 DEF Futures, Chained
  <2> QED BY <2>1, <2>2, <2>3, <1>1, <1>4, <1>5, <1>7 DEF EventInv
<1>11. ConnectionInv'
  <2>1. \A h \in 1..built : h \in Chained /\ h \in Futures
    BY <1>2, ChainAssumption DEF Futures, Chained
  <2> QED BY <2>1, <1>4, <1>5 DEF ConnectionInv
<1>12. GoneInv'
  <2>1. \A h \in 1..built : h \in Chained /\ h - 1 \in Futures
    BY <1>2, ChainAssumption DEF Futures, Chained
  <2> QED BY <2>1, <1>4, <1>7 DEF GoneInv
<1>13. SettledInv'
  BY <1>4, <1>7 DEF SettledInv
<1>14. CancelInv'
  BY <1>4 DEF CancelInv, Gone
<1>15. ValueInv'
  <2> SUFFICES ASSUME NEW h \in Futures, data[h] = "value"
               PROVE  /\ h > 0 => event'[h] = "done" /\ ~conn'[h] /\ ctx[h] # "emitting"
                      /\ \A k \in (1..h) \ Handlers :
                            (\A i \in k..h : i \notin Handlers) =>
                                ran'[k] = 1 /\ data[k - 1] = "value"
    BY <1>4 DEF ValueInv
  <2>1. h # f
    BY <1>1, <1>2 DEF ValueInv, Futures
  <2>2. h > 0 => event'[h] = "done" /\ ~conn'[h] /\ ctx[h] # "emitting"
    BY <2>1, <1>5 DEF ValueInv, Futures, Chained
  <2>3. ASSUME NEW k \in (1..h) \ Handlers, \A i \in k..h : i \notin Handlers
        PROVE  ran'[k] = 1 /\ data[k - 1] = "value"
    <3>1. ran[k] = 1 /\ data[k - 1] = "value"
      BY <2>3 DEF ValueInv
    <3>2. k \in Chained
      BY ChainAssumption DEF Futures, Chained
    <3> QED BY <3>1, <3>2, <1>5
  <2> QED BY <2>2, <2>3
<1>16. ContextInv'
  BY <1>4 DEF ContextInv
<1> QED BY <1>6, <1>8, <1>9, <1>10, <1>11, <1>12, <1>13, <1>14, <1>15, <1>16

(* The end of a callback is a FinishStep. *)
LEMMA ReturnFinishes ==
    ASSUME IInv, NEW f \in Chained, NEW v \in {"value", "exc"}, Return(f, v)
    PROVE  FinishStep(f, v)
<1> USE DEF IInv
<1>1. /\ UNCHANGED <<promise, cont, cancelled, conn, ran, ctx, walk, userVars>>
      /\ event[f] = "executing" /\ Finish(f, v, [event EXCEPT ![f] = "done"])
  BY DEF Return
<1>2. f \in Futures /\ f # 0 /\ f \in 1..built /\ built \in Futures
  BY <1>1, ChainAssumption DEF Futures, Chained, TypeOK, UnbuiltInv
<1>3. v \in Data
  BY DEF Data, Errors
<1>4. TypeOK'
  BY <1>1, <1>2, <1>3, OutcomeType DEF TypeOK, userVars
<1>5. event'[f] = "done"
  BY <1>1, <1>2 DEF Finish, TypeOK, Futures, Chained
<1>6. ctx[f] = "alive" /\ ~conn[f]
  BY <1>1 DEF EventInv
<1> QED
  BY <1>1, <1>2, <1>3, <1>4, <1>5, <1>6
  DEF FinishStep, Settled, Continues, Gone, userVars, Chained, Futures

(* finish_with_context_exception() is a FinishStep. *)
LEMMA ContextExceptionFinishes ==
    ASSUME IInv, NEW f \in Chained, ContextException(f)
    PROVE  FinishStep(f, "ctx")
<1> USE DEF IInv
<1>1. /\ UNCHANGED <<promise, cont, cancelled, conn, ran, userVars>>
      /\ ctx[f] = "emitting" /\ ctx' = [ctx EXCEPT ![f] = "dying"]
      /\ Finish(f, "ctx", event)
      /\ walk' = [walk EXCEPT ![f] = f - 1]
  BY DEF ContextException, ParentToCancel
<1>2. f \in Futures /\ f - 1 \in Futures /\ f # 0 /\ f \in 1..built /\ built \in Futures
  BY <1>1, ChainAssumption DEF Futures, Chained, TypeOK, UnbuiltInv
<1>3. "ctx" \in Data
  BY DEF Data, Errors
<1>4. /\ ctx'[f] = "dying" /\ walk'[f] = f - 1 /\ walk'[0] = walk[0]
      /\ \A h \in Chained : h # f => ctx'[h] = ctx[h] /\ walk'[h] = walk[h]
  BY <1>1, <1>2 DEF TypeOK, Futures, Chained
<1>5. TypeOK'
  <2>1. ctx' \in [Chained -> {"alive", "emitting", "dying", "destroyed"}]
    BY <1>1 DEF TypeOK
  <2>2. walk' \in [Futures -> Futures \cup {Nobody}]
    BY <1>1, <1>2 DEF TypeOK
  <2> QED BY <1>1, <1>2, <1>3, <2>1, <2>2, OutcomeType DEF TypeOK, userVars
<1>6. event'[f] = event[f]
  BY <1>1, <1>2 DEF Finish, TypeOK, Futures, Chained
<1>7. Continues(f, "ctx") => ~Settled(f)
  BY <1>1, <1>2 DEF Continues, Settled, Gone, EventInv
<1>8. Settled(f)'
  BY <1>4, <1>2 DEF Settled, Gone
<1>9. \E h \in 1..f : ctx'[h] # "alive"
  BY <1>4, <1>2
<1> QED
  BY <1>1, <1>2, <1>3, <1>4, <1>5, <1>6, <1>7, <1>8, <1>9 DEF FinishStep, userVars, Futures

(* then() keeps the invariant. *)
LEMMA ThenInv == ASSUME IInv, Then PROVE IInv'
<1> USE DEF IInv
<1> DEFINE next == built + 1
<1>1. /\ UNCHANGED <<promise, data, cancelled, ran, ctx, walk, userPc, woken, result>>
      /\ userPc = "idle" /\ ctx[next] = "alive" /\ built' = built + 1
      /\ conn' = [conn EXCEPT ![next] = TRUE]
  BY DEF Then, Connects
<1>2. /\ built \in Futures /\ next \in Chained /\ next \in Futures
      /\ built < MaxChain /\ MaxChain \in Nat
  BY ChainAssumption DEF Then, Futures, Chained, TypeOK
<1>3. /\ data[next] = "running" /\ cont[next] = "unknown" /\ ~cancelled[next]
      /\ event[next] = "none" /\ ran[next] = 0 /\ next # built /\ cont[built] = "unknown"
      /\ ~cancelled[built]
  <2>1. next > built /\ next # built
    BY <1>2 DEF Futures
  <2> QED BY <2>1, <1>1, <1>2 DEF UnbuiltInv, EventInv, UserInv
<1>4. /\ \A h \in Futures : h # built => cont'[h] = cont[h]
      /\ cont'[built] = IF data[built] = "running" THEN "callback" ELSE "unknown"
      /\ \A h \in Chained : h # next => event'[h] = event[h] /\ conn'[h] = conn[h]
      /\ event'[next] = IF data[built] = "running" THEN "none" ELSE "queued"
      /\ conn'[next] = TRUE
      /\ conn' \in [Futures -> BOOLEAN]
      /\ cont' \in [Futures -> {"unknown", "callback", "wait", "no"}]
      /\ event' \in [Chained -> {"none", "queued", "executing", "done", "removed"}]
  <2>1. /\ \A h \in Chained : h # next => conn'[h] = conn[h]
        /\ conn'[next] = TRUE
        /\ conn' \in [Futures -> BOOLEAN]
    BY <1>1, <1>2 DEF TypeOK, Futures, Chained
  <2>2. CASE data[built] = "running"
    <3>1. cont' = [cont EXCEPT ![built] = "callback"] /\ UNCHANGED event
      BY <2>2 DEF Then
    <3> QED BY <3>1, <2>1, <2>2, <1>2, <1>3 DEF TypeOK
  <2>3. CASE data[built] # "running"
    <3>1. event' = [event EXCEPT ![next] = "queued"] /\ UNCHANGED cont
      BY <2>3 DEF Then
    <3> QED BY <3>1, <2>1, <2>3, <1>2, <1>3 DEF TypeOK
  <2> QED BY <2>2, <2>3
<1>5. /\ \A h \in Futures : h # built /\ Settled(h) => Settled(h)'
      /\ \A h \in Futures : h = built /\ data[h] # "running" => Settled(h)'
      /\ \A h \in Chained : Gone(h)' <=> Gone(h)
  <2>1. \A h \in Chained : Gone(h)' <=> Gone(h)
    BY <1>1 DEF Gone
  <2>2. ASSUME NEW h \in Futures, h # built, Settled(h) PROVE Settled(h)'
    <3>1. h # 0 => h \in Chained
      BY DEF Futures, Chained
    <3> QED BY <2>1, <2>2, <3>1, <1>1, <1>3, <1>4 DEF Settled
  <2>3. \A h \in Futures : h = built /\ data[h] # "running" => Settled(h)'
    BY <1>4 DEF Settled
  <2> QED BY <2>1, <2>2, <2>3
<1>6. TypeOK'
  BY <1>1, <1>2, <1>4 DEF TypeOK
<1>7. UserInv'
  <2>1. \A f \in Futures : cont'[f] = "callback" => f < built'
    BY <1>1, <1>2, <1>4 DEF UserInv, Futures
  <2>2. result' = "none"
    BY <1>1 DEF UserInv
  <2>3. cont'[next] = "unknown" /\ ~cancelled'[next]
    BY <1>1, <1>2, <1>3, <1>4
  <2> QED BY <2>1, <2>2, <2>3, <1>1 DEF UserInv
<1>8. UnbuiltInv'
  <2> SUFFICES ASSUME NEW f \in Chained, f > built + 1
               PROVE  /\ data[f] = "running" /\ cont'[f] = "unknown"
                      /\ ~cancelled[f] /\ ~conn'[f]
                      /\ event'[f] = "none" /\ ctx[f] # "emitting"
    BY <1>1 DEF UnbuiltInv
  <2>1. f # next /\ f # built /\ f > built /\ f \in Futures
    BY <1>2 DEF Futures, Chained
  <2> QED BY <2>1, <1>4 DEF UnbuiltInv
<1>9. EventInv'
  <2>1. ASSUME NEW f \in Chained, event'[f] # "none"
        PROVE  data[f - 1] # "running" /\ Settled(f - 1)'
    <3>1. CASE f = next
      <4>1. f - 1 = built /\ f - 1 \in Futures
        BY <3>1, <1>2 DEF Futures
      <4> QED BY <4>1, <3>1, <2>1, <1>4, <1>5
    <3>2. CASE f # next
      <4>1. event[f] # "none"
        BY <3>2, <2>1, <1>4
      <4>2. f - 1 # built /\ f - 1 \in Futures
        BY <3>2, <1>2, ChainAssumption DEF Futures, Chained
      <4> QED BY <4>1, <4>2, <1>5 DEF EventInv
    <3> QED BY <3>1, <3>2
  <2>2. ASSUME NEW f \in Chained
        PROVE  /\ event'[f] \in {"none", "queued"} => ran[f] = 0
               /\ event'[f] = "executing" =>
                      /\ ran[f] = 1 /\ ~conn'[f] /\ ctx[f] = "alive"
                      /\ f \notin Handlers => data[f - 1] = "value"
               /\ event'[f] \in {"queued", "executing"} /\ ~Gone(f) => data[f] = "running"
               /\ event'[f] = "done" /\ (conn'[f] \/ ctx[f] = "emitting") => cancelled[f]
               /\ event'[f] = "removed" => ctx[f] = "destroyed"
               /\ ctx[f] = "emitting" => event'[f] # "executing"
    <3>1. CASE f = next
      BY <3>1, <1>1, <1>3, <1>4
    <3>2. CASE f # next
      BY <3>2, <1>4 DEF EventInv
    <3> QED BY <3>1, <3>2
  <2> QED BY <2>1, <2>2, <1>1, <1>5 DEF EventInv
<1>10. ConnectionInv'
  <2> SUFFICES ASSUME NEW f \in 1..built + 1, event'[f] \in {"none", "queued"}, ctx[f] = "alive"
               PROVE  conn'[f] \/ cancelled[f]
    BY <1>1 DEF ConnectionInv
  <2>1. f \in Chained /\ (f # next => f \in 1..built)
    BY <1>2 DEF Futures, Chained
  <2> QED BY <2>1, <1>4 DEF ConnectionInv
<1>11. GoneInv'
  <2> SUFFICES ASSUME NEW f \in 1..built + 1, Gone(f)
               PROVE  \/ data[f] # "running" \/ cancelled[f] \/ Settled(f - 1)'
                      \/ ctx[f] = "dying" /\ walk[f] = f - 1
    <3>1. \A f \in 1..built + 1 : f \in Chained
      BY <1>2 DEF Futures, Chained
    <3> QED BY <3>1, <1>1, <1>5 DEF GoneInv
  <2>1. f # next
    BY <1>1 DEF Gone
  <2>2. f \in 1..built /\ f - 1 \in Futures /\ f - 1 # built
    BY <2>1, <1>2, ChainAssumption DEF Futures
  <2> QED BY <2>2, <1>5 DEF GoneInv
<1>12. SettledInv'
  BY <1>1, <1>5 DEF SettledInv
<1>13. CancelInv'
  <2>1. \A t \in Futures : walk[t] # Nobody =>
            walk[t] < built + 1 /\ (cancelled[walk[t] + 1] \/ Gone(walk[t] + 1))
    BY <1>2 DEF CancelInv, Futures, TypeOK, Nobody
  <2>2. \A g \in 0..(built + 1) - 1 : cancelled[g] => cancelled[g + 1] \/ Gone(g + 1)
    <3>1. \A g \in 0..(built + 1) - 1 : g # built => g \in 0..built - 1
      BY <1>2 DEF Futures
    <3> QED BY <3>1, <1>3 DEF CancelInv
  <2> QED BY <2>1, <2>2, <1>1 DEF CancelInv, Gone
<1>14. ValueInv'
  <2>1. ASSUME NEW h \in Futures, data[h] = "value", h > 0
        PROVE  event'[h] = "done" /\ ~conn'[h] /\ ctx[h] # "emitting"
    <3>1. h # next /\ h \in Chained
      BY <2>1, <1>3 DEF Futures, Chained
    <3> QED BY <3>1, <2>1, <1>4 DEF ValueInv
  <2> QED BY <2>1, <1>1 DEF ValueInv
<1>15. ContextInv'
  BY <1>1 DEF ContextInv
<1> QED
  BY <1>6, <1>7, <1>8, <1>9, <1>10, <1>11, <1>12, <1>13, <1>14, <1>15

(* get(), detach() and the waits keep the invariant. *)
LEMMA UserStepInv ==
    ASSUME IInv, Get \/ GetReady \/ Detach \/ CancelWait \/ CancelReady
    PROVE  IInv'
<1> USE DEF IInv
<1>1. /\ UNCHANGED <<promise, data, cancelled, conn, event, ran, ctx, walk, built, woken>>
      /\ userPc' \in {"getting", "waiting", "done"}
      /\ userPc' = "getting" => userPc = "idle"
      /\ \/ UNCHANGED cont
         \/ cont' = [cont EXCEPT ![built] = "wait"]
         \/ cont' = [cont EXCEPT ![built] = "no"]
      /\ \/ UNCHANGED result
         \/ userPc \in {"idle", "getting"} /\ userPc' = "done" /\ Ready(built) /\ result' = data[built]
      /\ userPc \in {"idle", "getting", "cancelling", "waiting"}
  BY DEF Get, GetReady, Detach, CancelWait, CancelReady, stateVars, eventVars
<1>2. built \in Futures /\ \A f \in Futures : f # built => cont'[f] = cont[f]
  BY <1>1 DEF TypeOK
<1>3. cont'[built] # "callback"
  <2>1. cont[built] # "callback"
    BY <1>2 DEF UserInv, Futures
  <2> QED BY <2>1, <1>1, <1>2 DEF TypeOK
<1>4. /\ \A f \in Futures : Settled(f) => Settled(f)'
      /\ \A f \in Chained : Gone(f)' <=> Gone(f)
  BY <1>1, <1>2, <1>3 DEF Settled, Gone
<1>5. TypeOK'
  <2>1. cont' \in [Futures -> {"unknown", "callback", "wait", "no"}]
    BY <1>1 DEF TypeOK
  <2>2. result' \in {"none", "value"} \cup Errors
    BY <1>1, <1>2 DEF TypeOK, Ready, Data
  <2> QED BY <1>1, <2>1, <2>2 DEF TypeOK
<1>6. UserInv'
  <2>1. \A f \in Futures : cont'[f] = "callback" => f < built
    BY <1>2, <1>3 DEF UserInv
  <2>2. CASE UNCHANGED result
    BY <2>1, <2>2, <1>1, <1>2 DEF UserInv
  <2>3. CASE userPc \in {"idle", "getting"} /\ userPc' = "done" /\ Ready(built) /\ result' = data[built]
    <3>1. data[built] # "null"
      BY <2>3, <1>2 DEF UserInv, CancelInv
    <3>2. data[built] = "ctx" => \E f \in 1..built : ctx[f] # "alive"
      BY <1>2 DEF ContextInv
    <3> QED BY <3>1, <3>2, <2>1, <2>3, <1>1 DEF UserInv
  <2> QED BY <2>2, <2>3, <1>1
<1>7. UnbuiltInv'
  BY <1>1, <1>2 DEF UnbuiltInv, Futures, Chained
<1>8. EventInv'
  <2>1. \A f \in Chained : f - 1 \in Futures
    BY ChainAssumption DEF Futures, Chained
  <2> QED BY <2>1, <1>1, <1>4 DEF EventInv
<1>9. ConnectionInv'
  BY <1>1 DEF ConnectionInv
<1>10. GoneInv'
  <2>1. \A f \in 1..built : f \in Chained /\ f - 1 \in Futures
    BY <1>2, ChainAssumption DEF Futures, Chained
  <2> QED BY <2>1, <1>1, <1>4 DEF GoneInv
<1>11. SettledInv'
  BY <1>1, <1>4 DEF SettledInv
<1>12. CancelInv'
  BY <1>1 DEF CancelInv, Gone
<1>13. ValueInv' /\ ContextInv'
  BY <1>1 DEF ValueInv, ContextInv
<1> QED
  BY <1>5, <1>6, <1>7, <1>8, <1>9, <1>10, <1>11, <1>12, <1>13

(* The first critical section of cancel() keeps the invariant. *)
LEMMA CancelUserInv ==
    ASSUME IInv, NEW pc \in {"cancelling", "done"}, Cancel(pc)
    PROVE  IInv'
<1> USE DEF IInv
<1>1. /\ UNCHANGED <<promise, data, cont, conn, event, ran, ctx, built, woken, result>>
      /\ userPc = "idle" /\ userPc' = pc
      /\ cancelled' = [cancelled EXCEPT ![built] = TRUE]
      /\ walk' = [walk EXCEPT ![User] = built - 1]
  BY DEF Cancel, eventVars
<1>2. /\ built \in Futures /\ 0 \in Futures /\ built - 1 \in Futures \cup {Nobody}
      /\ MaxChain \in Nat
  BY ChainAssumption DEF Futures, TypeOK, Nobody
<1>3. /\ \A h \in Futures : cancelled'[h] <=> cancelled[h] \/ h = built
      /\ \A h \in Futures : h # 0 => walk'[h] = walk[h]
      /\ walk'[0] = built - 1
  BY <1>1, <1>2 DEF TypeOK, User
<1>4. /\ \A h \in Futures : Settled(h) => Settled(h)'
      /\ \A h \in Chained : Gone(h)' <=> Gone(h)
  BY <1>1, <1>3 DEF Settled, Gone
<1>5. /\ \A h \in Chained : h \in Futures /\ h - 1 \in Futures /\ h # 0
      /\ \A h \in 1..built : h \in Chained
  BY <1>2, ChainAssumption DEF Chained, Futures
<1>6. TypeOK'
  <2>1. cancelled' \in [Futures -> BOOLEAN] /\ walk' \in [Futures -> Futures \cup {Nobody}]
    BY <1>1, <1>2 DEF TypeOK, User
  <2> QED BY <2>1, <1>1 DEF TypeOK
<1>7. UserInv'
  BY <1>1 DEF UserInv
<1>8. UnbuiltInv'
  BY <1>1, <1>3, <1>5, <1>2 DEF UnbuiltInv, Futures
<1>9. EventInv'
  BY <1>1, <1>3, <1>4, <1>5 DEF EventInv
<1>10. ConnectionInv'
  BY <1>1, <1>3, <1>5 DEF ConnectionInv
<1>11. GoneInv'
  BY <1>1, <1>3, <1>4, <1>5 DEF GoneInv
<1>12. SettledInv'
  BY <1>1, <1>4 DEF SettledInv
<1>13. CancelInv'
  <2>1. \A t \in Futures : walk'[t] # Nobody =>
            /\ walk'[t] < built
            /\ cancelled'[walk'[t] + 1] \/ ctx'[walk'[t] + 1] \in {"dying", "destroyed"}
    <3> SUFFICES ASSUME NEW t \in Futures, NEW w, w = walk'[t], w # Nobody
                 PROVE  w < built /\ (cancelled'[w + 1] \/ ctx'[w + 1] \in {"dying", "destroyed"})
      OBVIOUS
    <3>1. CASE t = 0
      <4>1. w = built - 1 /\ w + 1 = built /\ w < built
        BY <3>1, <1>2, <1>3 DEF Futures
      <4> QED BY <4>1, <1>2, <1>3
    <3>2. CASE t # 0
      <4>1. w = walk[t] /\ w \in Futures
        BY <3>2, <1>3 DEF TypeOK
      <4>2. w < built /\ (cancelled[w + 1] \/ Gone(w + 1))
        BY <4>1 DEF CancelInv
      <4>3. w + 1 \in Futures
        BY <4>1, <4>2, <1>2 DEF Futures
      <4> QED BY <4>2, <4>3, <1>1, <1>3 DEF Gone
    <3> QED BY <3>1, <3>2
  <2>2. \A g \in 0..built-1 : cancelled'[g] => cancelled'[g + 1] \/ Gone(g + 1)
    <3>1. \A g \in 0..built-1 : g # built /\ g \in Futures /\ g + 1 \in Futures
      BY <1>2 DEF Futures
    <3> QED BY <3>1, <1>3 DEF CancelInv
  <2>3. \A g \in Futures : data[g] = "null" => cancelled'[g]
    BY <1>3 DEF CancelInv
  <2> QED BY <2>1, <2>2, <2>3, <1>1 DEF CancelInv, Gone
<1>14. ValueInv' /\ ContextInv'
  BY <1>1 DEF ValueInv, ContextInv
<1> QED
  BY <1>6, <1>7, <1>8, <1>9, <1>10, <1>11, <1>12, <1>13, <1>14

(* Cancelling one parent keeps the invariant. *)
LEMMA CancelParentInv ==
    ASSUME IInv, NEW t \in Futures, CancelParent(t)
    PROVE  IInv'
<1> USE DEF IInv
<1>1. /\ UNCHANGED <<promise, data, cont, event, ran, ctx, built, userPc, woken, result>>
      /\ walk[t] # Nobody
  BY DEF CancelParent, eventVars, userVars
<1>2. PICK f \in Futures : f = walk[t]
  BY <1>1 DEF TypeOK
<1>3. /\ f < built /\ f + 1 \in Chained /\ built \in Futures /\ MaxChain \in Nat
      /\ cancelled[f + 1] \/ Gone(f + 1)
  BY <1>1, <1>2, ChainAssumption DEF CancelInv, Futures, Chained, TypeOK
<1>4. /\ \A h \in Chained : h \in Futures /\ h - 1 \in Futures /\ h # 0
      /\ \A h \in 1..built : h \in Chained
  BY <1>3 DEF Chained, Futures
<1>5. CASE ~(Alive(f) /\ ~cancelled[f])
  <2>1. walk' = [walk EXCEPT ![t] = Nobody] /\ UNCHANGED <<cancelled, conn>>
    BY <1>2, <1>5 DEF CancelParent
  <2>2. walk'[t] = Nobody /\ \A h \in Futures : h # t => walk'[h] = walk[h]
    BY <2>1 DEF TypeOK
  <2>3. /\ \A h \in Futures : Settled(h)' <=> Settled(h)
        /\ \A h \in Chained : Gone(h)' <=> Gone(h)
    BY <1>1, <2>1 DEF Settled, Gone
  <2>4. TypeOK'
    BY <1>1, <2>1 DEF TypeOK
  <2>5. UserInv' /\ UnbuiltInv' /\ EventInv' /\ ConnectionInv'
    <3>1. EventInv'
      BY <1>1, <2>1, <2>3, <1>4 DEF EventInv
    <3> QED BY <3>1, <1>1, <2>1 DEF UserInv, UnbuiltInv, ConnectionInv
  <2>6. GoneInv'
    <3> SUFFICES ASSUME NEW h \in 1..built, Gone(h)
                 PROVE  \/ data[h] # "running" \/ cancelled[h] \/ Settled(h - 1)
                        \/ ctx[h] = "dying" /\ walk'[h] = h - 1
      BY <1>1, <2>1, <2>3, <1>4 DEF GoneInv
    <3>1. CASE h = t /\ f = h - 1
      <4>1. cancelled[f] \/ data[f] # "running"
        BY <1>5 DEF Alive
      <4>2. Settled(f)
        BY <4>1 DEF SettledInv, Settled
      <4> QED BY <3>1, <4>2
    <3>2. CASE ~(h = t /\ f = h - 1)
      BY <3>2, <2>2, <1>2, <1>4 DEF GoneInv
    <3> QED BY <3>1, <3>2
  <2>7. SettledInv' /\ ValueInv' /\ ContextInv'
    BY <1>1, <2>1, <2>3 DEF SettledInv, ValueInv, ContextInv
  <2>8. CancelInv'
    BY <1>1, <2>1, <2>2 DEF CancelInv, Gone
  <2> QED BY <2>4, <2>5, <2>6, <2>7, <2>8
<1>6. CASE Alive(f) /\ ~cancelled[f]
  <2>1. /\ cancelled' = [cancelled EXCEPT ![f] = TRUE]
        /\ conn' = [conn EXCEPT ![f] = FALSE]
        /\ walk' = [walk EXCEPT ![t] = f - 1]
    BY <1>2, <1>6 DEF CancelParent
  <2>2. /\ \A h \in Futures : cancelled'[h] <=> cancelled[h] \/ h = f
        /\ \A h \in Futures : conn'[h] <=> conn[h] /\ h # f
        /\ \A h \in Futures : h # t => walk'[h] = walk[h]
        /\ walk'[t] = f - 1
    BY <2>1 DEF TypeOK
  <2>3. /\ \A h \in Futures : Settled(h) => Settled(h)'
        /\ \A h \in Chained : Gone(h)' <=> Gone(h)
        /\ Settled(f)'
    BY <1>1, <2>2 DEF Settled, Gone
  <2>4. TypeOK'
    <3>1. walk' \in [Futures -> Futures \cup {Nobody}]
      <4>1. f - 1 \in Futures \cup {Nobody}
        BY <1>3 DEF Futures, Nobody
      <4> QED BY <4>1, <2>1 DEF TypeOK
    <3>2. cancelled' \in [Futures -> BOOLEAN] /\ conn' \in [Futures -> BOOLEAN]
      BY <2>1 DEF TypeOK
    <3> QED BY <3>1, <3>2, <1>1 DEF TypeOK
  <2>5. UserInv'
    <3>1. f # built
      BY <1>3 DEF Futures
    <3> QED BY <3>1, <1>1, <1>3, <2>2 DEF UserInv
  <2>6. UnbuiltInv'
    BY <1>1, <1>3, <1>4, <2>2 DEF UnbuiltInv, Futures, Chained
  <2>7. EventInv'
    BY <1>1, <2>2, <2>3, <1>4 DEF EventInv
  <2>8. ConnectionInv'
    BY <1>1, <2>2, <1>4 DEF ConnectionInv
  <2>9. GoneInv'
    <3> SUFFICES ASSUME NEW h \in 1..built, Gone(h)
                 PROVE  \/ data[h] # "running" \/ cancelled'[h] \/ Settled(h - 1)'
                        \/ ctx[h] = "dying" /\ walk'[h] = h - 1
      BY <1>1, <2>3, <1>4 DEF GoneInv
    <3>1. CASE h = t /\ f = h - 1
      BY <3>1, <2>3
    <3>2. CASE ~(h = t /\ f = h - 1)
      BY <3>2, <2>2, <2>3, <1>2, <1>4 DEF GoneInv
    <3> QED BY <3>1, <3>2
  <2>10. SettledInv'
    BY <1>1, <2>3 DEF SettledInv
  <2>11. CancelInv'
    <3>1. \A u \in Futures : walk'[u] # Nobody =>
              /\ walk'[u] < built
              /\ cancelled'[walk'[u] + 1] \/ ctx'[walk'[u] + 1] \in {"dying", "destroyed"}
      <4> SUFFICES ASSUME NEW u \in Futures, NEW w, w = walk'[u], w # Nobody
                   PROVE  w < built /\ (cancelled'[w + 1] \/ ctx'[w + 1] \in {"dying", "destroyed"})
        OBVIOUS
      <4>1. CASE u = t
        <5>1. w = f - 1 /\ w + 1 = f /\ w < built
          BY <4>1, <2>2, <1>3 DEF Futures
        <5> QED BY <5>1, <2>2
      <4>2. CASE u # t
        <5>1. w = walk[u] /\ w \in Futures
          BY <4>2, <2>2 DEF TypeOK
        <5>2. w < built /\ (cancelled[w + 1] \/ Gone(w + 1))
          BY <5>1 DEF CancelInv
        <5>3. w + 1 \in Futures
          BY <5>1, <5>2, <1>3 DEF Futures
        <5> QED BY <5>2, <5>3, <1>1, <2>2 DEF Gone
      <4> QED BY <4>1, <4>2
    <3>2. \A g \in 0..built-1 : cancelled'[g] => cancelled'[g + 1] \/ Gone(g + 1)
      <4>1. \A g \in 0..built-1 : g \in Futures /\ g + 1 \in Futures
        BY <1>3 DEF Futures
      <4> QED BY <4>1, <1>3, <2>2 DEF CancelInv
    <3>3. \A g \in Futures : data[g] = "null" => cancelled'[g]
      BY <2>2 DEF CancelInv
    <3> QED BY <3>1, <3>2, <3>3, <1>1 DEF CancelInv, Gone
  <2>12. ValueInv' /\ ContextInv'
    BY <1>1, <2>2 DEF ValueInv, ContextInv
  <2> QED
    BY <2>4, <2>5, <2>6, <2>7, <2>8, <2>9, <2>10, <2>11, <2>12
<1> QED BY <1>5, <1>6

(* The destructor of a context keeps the invariant. *)
LEMMA DestroyInv ==
    ASSUME IInv, NEW f \in Chained, BeginDestroy(f) \/ EndDestroy(f)
    PROVE  IInv'
<1> USE DEF IInv
<1>1. /\ UNCHANGED <<promise, data, cont, cancelled, conn, ran, walk, built, userPc, woken, result>>
      /\ \A h \in Chained : h # f => ctx'[h] = ctx[h] /\ event'[h] = event[h]
      /\ \/ /\ ctx[f] = "alive" /\ event[f] # "executing" /\ event'[f] = event[f]
            /\ ctx'[f] = IF conn[f] THEN "emitting" ELSE "dying"
         \/ /\ ctx[f] = "dying" /\ ctx'[f] = "destroyed" /\ walk[f] = Nobody
            /\ event'[f] = IF event[f] = "queued" THEN "removed" ELSE event[f]
      /\ ctx' \in [Chained -> {"alive", "emitting", "dying", "destroyed"}]
      /\ event' \in [Chained -> {"none", "queued", "executing", "done", "removed"}]
  BY DEF BeginDestroy, EndDestroy, stateVars, eventVars, userVars, TypeOK
<1>2. /\ \A h \in Chained : h \in Futures /\ h - 1 \in Futures /\ h # 0
      /\ \A h \in 1..built : h \in Chained
      /\ built \in Futures /\ MaxChain \in Nat
      /\ \A h \in Futures : h # 0 => h \in Chained
  BY ChainAssumption DEF Chained, Futures, TypeOK
<1>3. \A h \in Chained : Gone(h) => Gone(h)'
  BY <1>1 DEF Gone
<1>4. \A h \in Futures : Settled(h) => Settled(h)'
  BY <1>1, <1>2, <1>3 DEF Settled
<1>5. TypeOK'
  BY <1>1 DEF TypeOK
<1>6. UserInv'
  <2>1. result = "ctx" => \E h \in 1..built : ctx'[h] # "alive"
    BY <1>1, <1>2 DEF UserInv
  <2> QED BY <2>1, <1>1 DEF UserInv
<1>7. UnbuiltInv'
  BY <1>1 DEF UnbuiltInv
<1>8. EventInv'
  <2> SUFFICES ASSUME NEW h \in Chained
               PROVE  /\ event'[h] # "none" => data[h - 1] # "running" /\ Settled(h - 1)'
                      /\ event'[h] \in {"none", "queued"} => ran[h] = 0
                      /\ event'[h] = "executing" =>
                             /\ ran[h] = 1 /\ ~conn[h] /\ ctx'[h] = "alive"
                             /\ h \notin Handlers => data[h - 1] = "value"
                      /\ event'[h] \in {"queued", "executing"} /\ ~Gone(h)' => data[h] = "running"
                      /\ event'[h] = "done" /\ (conn[h] \/ ctx'[h] = "emitting") => cancelled[h]
                      /\ event'[h] = "removed" => ctx'[h] = "destroyed"
                      /\ ctx'[h] = "emitting" => event'[h] # "executing"
    BY <1>1 DEF EventInv
  <2>1. event[h] # "none" => data[h - 1] # "running" /\ Settled(h - 1)'
    BY <1>2, <1>4 DEF EventInv
  <2>2. CASE h = f
    BY <2>1, <2>2, <1>1, <1>3 DEF EventInv, Gone
  <2>3. CASE h # f
    BY <2>1, <2>3, <1>1, <1>3 DEF EventInv
  <2> QED BY <2>2, <2>3
<1>9. ConnectionInv'
  BY <1>1, <1>2 DEF ConnectionInv
<1>10. GoneInv'
  <2> SUFFICES ASSUME NEW h \in 1..built, Gone(h)'
               PROVE  \/ data[h] # "running" \/ cancelled[h] \/ Settled(h - 1)'
                      \/ ctx'[h] = "dying" /\ walk[h] = h - 1
    BY <1>1 DEF GoneInv
  <2>1. h \in Chained /\ h - 1 \in Futures /\ h - 1 # Nobody
    BY <1>2 DEF Futures, Nobody
  <2>2. CASE h = f /\ ctx[f] = "alive"
    <3>1. ~conn[f]
      BY <2>2, <1>1 DEF Gone
    <3>2. cancelled[f] \/ event[f] \in {"done", "removed"}
      BY <3>1, <2>1, <2>2, <1>1 DEF ConnectionInv, TypeOK
    <3>3. event[f] \in {"done", "removed"} => Settled(f - 1)
      BY DEF EventInv
    <3> QED BY <3>2, <3>3, <2>1, <2>2, <1>4
  <2>3. CASE h = f /\ ctx[f] # "alive"
    BY <2>1, <2>3, <1>1, <1>2, <1>4 DEF GoneInv, Gone
  <2>4. CASE h # f
    BY <2>1, <2>4, <1>1, <1>4 DEF GoneInv, Gone
  <2> QED BY <2>2, <2>3, <2>4
<1>11. SettledInv'
  BY <1>1, <1>4 DEF SettledInv
<1>12. CancelInv'
  <2>1. \A h \in Futures : h + 1 \in Chained /\ Gone(h + 1) => Gone(h + 1)'
    BY <1>3
  <2>2. \A t \in Futures : walk[t] # Nobody => walk[t] \in Futures /\ (walk[t] < built => walk[t] + 1 \in Chained)
    BY <1>2 DEF TypeOK, Futures, Chained
  <2>3. \A g \in 0..built-1 : g \in Futures /\ g + 1 \in Chained
    BY <1>2 DEF Futures, Chained
  <2> QED BY <2>1, <2>2, <2>3, <1>1 DEF CancelInv, Gone
<1>13. ValueInv'
  BY <1>1, <1>2 DEF ValueInv
<1>14. ContextInv'
  <2>1. \A h \in Futures : \A k \in 1..h : k \in Chained
    BY <1>2 DEF Futures, Chained
  <2> QED BY <2>1, <1>1 DEF ContextInv
<1> QED
  BY <1>5, <1>6, <1>7, <1>8, <1>9, <1>10, <1>11, <1>12, <1>13, <1>14

-----------------------------------------------------------------------------
(* What PostIsSafe says of one step. *)
PostsSafely == \A f \in Chained : event[f] = "none" /\ event'[f] = "queued" => ctx[f] # "destroyed"

(* A state that finishes posts no call to a context that is gone: the       *)
(* parent of such a context was cancelled or is settled.                    *)
LEMMA FinishPosts ==
    ASSUME IInv, NEW g \in Futures, NEW v, FinishStep(g, v)
    PROVE  PostsSafely
<1> USE DEF IInv
<1> SUFFICES ASSUME NEW f \in Chained, event[f] = "none", event'[f] = "queued", ctx[f] = "destroyed"
             PROVE  FALSE
  BY DEF PostsSafely
<1>1. f # g
  BY DEF FinishStep, Chained
<1>2. f = g + 1 /\ Continues(g, v) /\ Posts(f)
  BY <1>1, FinishFacts
<1>3. f \in 1..built /\ f - 1 = g
  BY <1>2, ChainAssumption DEF Chained, Futures, TypeOK, UserInv, Continues
<1>4. ~Settled(f - 1)
  BY <1>2, <1>3 DEF FinishStep
<1> QED BY <1>2, <1>3, <1>4 DEF GoneInv, Gone, Posts

(* Every step keeps the invariant and posts safely. *)
LEMMA Step == ASSUME IInv, [Next]_vars PROVE IInv' /\ (PostsSafely \/ UNCHANGED vars)
<1>1. CASE \E g \in Futures, v \in Data : FinishStep(g, v)
  BY <1>1, FinishInv, FinishPosts
<1>2. CASE \E v \in {"value", "exc"} : SetPromise(v)
  <2>1. 0 \in Futures /\ "value" \in Data /\ "exc" \in Data
    BY ChainAssumption DEF Futures, Data, Errors
  <2> QED BY <1>1, <1>2, <2>1, SetPromiseFinishes
<1>3. CASE \E f \in Chained : Deliver(f)
  <2> PICK f \in Chained : Deliver(f)
    BY <1>3
  <2>1. CASE cancelled[f] \/ Skips(f)
    <3>1. f \in Futures
      BY DEF Futures, Chained
    <3> QED BY <1>1, <2>1, <3>1, DeliverFinishes
  <2>2. CASE ~cancelled[f] /\ ~Skips(f)
    <3>1. event' = [event EXCEPT ![f] = "executing"]
      BY <2>2 DEF Deliver
    <3>2. PostsSafely
      BY <3>1 DEF PostsSafely, IInv, TypeOK
    <3> QED BY <2>2, <3>2, DeliverExecutes
  <2> QED BY <2>1, <2>2
<1>4. CASE \E f \in Chained, v \in {"value", "exc"} : Return(f, v)
  <2>1. Chained \subseteq Futures /\ "value" \in Data /\ "exc" \in Data
    BY DEF Futures, Chained, Data, Errors
  <2> QED BY <1>1, <1>4, <2>1, ReturnFinishes
<1>5. CASE \E f \in Chained : ContextException(f)
  <2>1. Chained \subseteq Futures /\ "ctx" \in Data
    BY DEF Futures, Chained, Data, Errors
  <2> QED BY <1>1, <1>5, <2>1, ContextExceptionFinishes
<1>6. CASE Then
  <2>1. \A f \in Chained : event[f] = "none" /\ event'[f] = "queued" => ctx[f] = "alive"
    BY <1>6 DEF Then, IInv, TypeOK
  <2> QED BY <1>6, <2>1, ThenInv DEF PostsSafely
<1>7. CASE Get \/ GetReady \/ Detach \/ CancelWait \/ CancelReady
  <2>1. UNCHANGED event
    BY <1>7 DEF Get, GetReady, Detach, CancelWait, CancelReady, eventVars
  <2> QED BY <1>7, <2>1, UserStepInv DEF PostsSafely
<1>8. CASE \E pc \in {"cancelling", "done"} : Cancel(pc)
  <2>1. UNCHANGED event
    BY <1>8 DEF Cancel, eventVars
  <2> QED BY <1>8, <2>1, CancelUserInv DEF PostsSafely
<1>9. CASE \E t \in Futures : CancelParent(t)
  <2>1. UNCHANGED event
    BY <1>9 DEF CancelParent, eventVars
  <2> QED BY <1>9, <2>1, CancelParentInv DEF PostsSafely
<1>10. CASE \E f \in Chained : BeginDestroy(f) \/ EndDestroy(f)
  <2>1. PostsSafely
    BY <1>10 DEF BeginDestroy, EndDestroy, eventVars, PostsSafely, IInv, TypeOK
  <2> QED BY <1>10, <2>1, DestroyInv
<1>11. CASE UNCHANGED vars
  BY <1>11
  DEF vars, stateVars, eventVars, userVars, IInv, TypeOK, UserInv, UnbuiltInv, EventInv,
      ConnectionInv, GoneInv, SettledInv, CancelInv, ValueInv, ContextInv, Settled, Gone
<1> QED
  BY <1>2, <1>3, <1>4, <1>5, <1>6, <1>7, <1>8, <1>9, <1>10, <1>11
  DEF Next, UserStep, ContextStep, Terminated

(* The invariant holds in every state that FutureChain can reach. *)
THEOREM Invariant == Spec => []IInv
BY InitInv, Step, PTL DEF Spec

(* Types; among them that no callback of then() is ever started twice. *)
THEOREM TypeCorrect == Spec => []TypeOK
BY Invariant, PTL DEF IInv

(* The assertions of finish_with_callback() never fail: a delivered call    *)
(* finds its state running, and connected unless it was cancelled.          *)
THEOREM DeliveryAssertions == Spec => []DeliveryIsExpected
<1>1. IInv => DeliveryIsExpected
  <2> SUFFICES ASSUME IInv, NEW f \in Chained, event[f] = "queued", ctx[f] = "alive"
               PROVE  data[f] = "running" /\ (conn[f] \/ cancelled[f])
    BY DEF DeliveryIsExpected
  <2>1. f \in 1..built
    BY ChainAssumption DEF IInv, TypeOK, UnbuiltInv, Chained, Futures
  <2> QED BY <2>1 DEF IInv, EventInv, ConnectionInv, Gone
<1> QED BY <1>1, Invariant, PTL

(* get() returns what the chain computed, and never a null error. *)
THEOREM ResultIsRight == Spec => []ResultIsJustified
<1>1. IInv => ResultIsJustified
  <2> SUFFICES ASSUME IInv PROVE ResultIsJustified
    OBVIOUS
  <2>1. built \in Futures
    BY DEF IInv, TypeOK
  <2> QED BY <2>1 DEF ResultIsJustified, IInv, UserInv, ValueInv
<1> QED BY <1>1, Invariant, PTL

(* Nothing is ever posted to a context that is destroyed. *)
THEOREM PostsAreSafe == Spec => PostIsSafe
<1>1. IInv /\ [Next]_vars => [PostsSafely]_vars
  BY Step
<1>2. PostIsSafe <=> [][PostsSafely]_vars
  BY DEF PostIsSafe, PostsSafely
<1> QED BY <1>1, <1>2, Invariant, PTL DEF Spec
=============================================================================
