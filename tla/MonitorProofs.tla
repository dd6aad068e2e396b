---------------------------- MODULE MonitorProofs ----------------------------
(***************************************************************************)
(* The safety properties of Monitor, and that it implements LatestValue,    *)
(* for every set of properties and every number of values.                  *)
(*                                                                         *)
(* An action is in one of four places: the queue, the server's hands, the   *)
(* inbox, or done with.  The invariants say for each kind of action what    *)
(* the places ahead of it hold: that is what makes a value that is          *)
(* overwritten in the queue, or a server that is killed behind a            *)
(* notification, harmless.                                                  *)
(***************************************************************************)
EXTENDS Monitor, SequenceTheorems, FiniteSetTheorems, TLAPS

Executing(k) == serverPc = "executing" /\ current.key = k
InInbox(k) == \E i \in DOMAIN inbox : inbox[i].key = k

(* A deferred delete is the last event there is: nothing is posted behind   *)
(* it, since there is no Monitor any more.                                  *)
DeleteInv ==
    /\ monitor = "destroyed" => mainPc = "idle"
    /\ \A i \in DOMAIN serverEvents :
           serverEvents[i] = "deferredDelete" => i = Len(serverEvents) /\ monitor = "destroyed"
    /\ serverPc = "destroyed" =>
           /\ monitor = "destroyed" /\ serverEvents = <<>>
           /\ \A k \in Keys : queue[k] = Absent

(* The value of a property is overtaken on its way only by later ones: the  *)
(* one in the queue is the last that was set, the one in the server's hands *)
(* is later than the one in the hardware.                                   *)
ValueInv ==
    \A p \in Properties :
        /\ applied[p] <= issued[p]
        /\ Executing(Write(p)) =>
               current.value \in Values /\ applied[p] < current.value /\ current.value <= issued[p]
        /\ queue[Write(p)] # Absent =>
               /\ queue[Write(p)] = issued[p]
               /\ applied[p] < issued[p]
               /\ Executing(Write(p)) => current.value < issued[p]
        /\ queue[Write(p)] = Absent =>
               IF Executing(Write(p)) THEN current.value = issued[p] ELSE applied[p] = issued[p]

(* The initialization requests that are still to be answered. *)
Outstanding == {k \in InitKeys : queue[k] # Absent \/ Executing(k) \/ InInbox(k)}

(* Each initialization request is in one place, is counted until its reply  *)
(* is handled, and has left its result by then.                             *)
RequestInv ==
    /\ announced = IF pendingInit = 0 THEN 1 ELSE 0
    /\ pendingInit = 0 => capsKnown /\ \A p \in Properties : cache[p] # Unset
    /\ monitor = "alive" =>
        /\ pendingInit = Cardinality(Outstanding)
        /\ \A k \in InitKeys :
               /\ queue[k] # Absent => ~Executing(k) /\ ~InInbox(k)
               /\ Executing(k) => ~InInbox(k)
               /\ \A i, j \in DOMAIN inbox : inbox[i].key = k /\ inbox[j].key = k => i = j
        /\ Caps \in Outstanding \/ capsKnown
        /\ \A p \in Properties : Read(p) \in Outstanding \/ cache[p] # Unset
        /\ \A p \in Properties : issued[p] > 0 => pendingInit = 0

(* The last reply to a write carries the value in the hardware. *)
LastReplyTo(p, v) ==
    \E i \in DOMAIN inbox :
        /\ inbox[i].key = Write(p) /\ inbox[i].value = v
        /\ \A j \in DOMAIN inbox : inbox[j].key = Write(p) => j <= i

CacheInv ==
    monitor = "alive" =>
        \A p \in Properties :
            applied[p] > 0 => LastReplyTo(p, applied[p]) \/ (~InInbox(Write(p)) /\ cache[p] = applied[p])

IInv ==
    /\ TypeOK
    /\ ActionIsNotified
    /\ DeleteInv
    /\ ValueInv
    /\ RequestInv
    /\ CacheInv

-----------------------------------------------------------------------------
(* The requests and the writes are different keys. *)
LEMMA KeyFacts ==
    /\ Caps \in InitKeys
    /\ \A p \in Properties : Read(p) \in InitKeys /\ Read(p) # Caps
    /\ \A p \in Properties : Write(p) \in Keys /\ Write(p) \notin InitKeys
    /\ \A p, q \in Properties : Write(p) = Write(q) => p = q
    /\ \A p, q \in Properties : Read(p) = Read(q) => p = q
    /\ InitKeys \subseteq Keys
    /\ \A k \in Keys : k \notin InitKeys => k.property \in Properties /\ k = Write(k.property)
    /\ \A k \in InitKeys : k # Caps => k.property \in Properties /\ k = Read(k.property)
    /\ \A k \in Keys : k.type = "WriteProperty" <=> k \notin InitKeys
<1> USE SentinelAssumption DEF Keys, InitKeys
<1>1. Caps \in InitKeys /\ InitKeys \subseteq Keys
  OBVIOUS
<1>2. \A p \in Properties : Read(p) \in InitKeys /\ Read(p) # Caps
  BY DEF Caps, Read
<1>3. \A p \in Properties : Write(p) \in Keys /\ Write(p) \notin InitKeys
  BY DEF Caps, Read, Write
<1>4. \A p, q \in Properties : Write(p) = Write(q) => p = q
  <2> TAKE p, q \in Properties
  <2>1. Write(p).property = p /\ Write(q).property = q
    BY DEF Write
  <2>2. QED
    BY <2>1
<1>5. \A p, q \in Properties : Read(p) = Read(q) => p = q
  <2> TAKE p, q \in Properties
  <2>1. Read(p).property = p /\ Read(q).property = q
    BY DEF Read
  <2>2. QED
    BY <2>1
<1>6. \A k \in Keys : k \notin InitKeys => k.property \in Properties /\ k = Write(k.property)
  BY DEF Write
<1>7. \A k \in InitKeys : k # Caps => k.property \in Properties /\ k = Read(k.property)
  BY DEF Read
<1>8. \A k \in Keys : k.type = "WriteProperty" <=> k \notin InitKeys
  BY DEF Caps, Read, Write
<1>9. QED
  BY <1>1, <1>2, <1>3, <1>4, <1>5, <1>6, <1>7, <1>8

LEMMA InitKeysFinite == IsFiniteSet(InitKeys)
<1> DEFINE reads == {Read(p) : p \in Properties}
           f == [p \in Properties |-> Read(p)]
<1>1. f \in Surjection(Properties, reads)
  BY DEF Surjection
<1>2. IsFiniteSet(reads)
  BY <1>1, PropertiesAssumption, FS_Surjection
<1>3. IsFiniteSet({Caps})
  BY FS_Singleton
<1>4. QED
  BY <1>2, <1>3, FS_Union DEF InitKeys

LEMMA OutstandingFinite ==
    /\ IsFiniteSet(Outstanding) /\ IsFiniteSet(Outstanding')
    /\ Cardinality(Outstanding) \in 0..Cardinality(InitKeys)
    /\ Cardinality(Outstanding') \in 0..Cardinality(InitKeys)
<1>1. Outstanding \in SUBSET InitKeys /\ Outstanding' \in SUBSET InitKeys
  BY DEF Outstanding
<1>2. QED
  BY <1>1, InitKeysFinite, FS_Subset, FS_CardinalityType

(* What the operators on sequences do, index by index. *)
LEMMA AppendFacts ==
  ASSUME NEW S, NEW s \in Seq(S), NEW e \in S
  PROVE  /\ Append(s, e) \in Seq(S)
         /\ Len(s) \in Nat /\ DOMAIN s = 1..Len(s)
         /\ Len(Append(s, e)) = Len(s) + 1 /\ DOMAIN Append(s, e) = 1..(Len(s) + 1)
         /\ \A i \in DOMAIN s : i \in DOMAIN Append(s, e) /\ Append(s, e)[i] = s[i]
         /\ \A i \in DOMAIN Append(s, e) : i \in DOMAIN s \/ i = Len(s) + 1
         /\ Len(s) + 1 \in DOMAIN Append(s, e) /\ Append(s, e)[Len(s) + 1] = e
  BY AppendProperties, LenProperties

LEMMA TailFacts ==
  ASSUME NEW S, NEW s \in Seq(S), s # <<>>
  PROVE  /\ Head(s) \in S /\ Head(s) = s[1] /\ Tail(s) \in Seq(S)
         /\ Len(s) \in Nat /\ Len(s) > 0 /\ DOMAIN s = 1..Len(s) /\ 1 \in DOMAIN s
         /\ Len(Tail(s)) = Len(s) - 1 /\ DOMAIN Tail(s) = 1..(Len(s) - 1)
         /\ \A i \in DOMAIN Tail(s) : i + 1 \in DOMAIN s /\ Tail(s)[i] = s[i + 1]
         /\ \A i \in DOMAIN s : i = 1 \/ (i - 1 \in DOMAIN Tail(s) /\ Tail(s)[i - 1] = s[i])
<1>1. Len(s) \in Nat \ {0} /\ DOMAIN s = 1..Len(s)
  BY EmptySeq, LenProperties
<1>2. Tail(s) \in Seq(S) /\ Len(Tail(s)) = Len(s) - 1
  BY HeadTailProperties
<1>3. DOMAIN Tail(s) = 1..(Len(s) - 1)
  BY <1>2, LenProperties
<1>4. QED
  BY <1>1, <1>2, <1>3, HeadTailProperties

-----------------------------------------------------------------------------
LEMMA InitInv == Init => IInv
<1> SUFFICES ASSUME Init PROVE IInv
  OBVIOUS
<1> USE DEF Init
<1>1. queue = [k \in Keys |-> IF k \in InitKeys THEN 0 ELSE Absent] /\ inbox = <<>>
  OBVIOUS
<1>2. TypeOK
  <2>1. Cardinality(InitKeys) \in Nat
    BY InitKeysFinite, FS_CardinalityType
  <2>2. 0 \in Values
    BY BoundAssumption DEF Values
  <2>3. serverEvents \in Seq({"processQueue", "deferredDelete"}) /\ inbox \in Seq(Replies)
    OBVIOUS
  <2>4. current \in Actions
    BY KeyFacts DEF Actions, NoAction
  <2>5. queue \in [Keys -> Values \cup {Absent}] /\ cache \in [Properties -> Values \cup {Unset, NaN}]
    BY <2>2
  <2>6. issued \in [Properties -> Values] /\ applied \in [Properties -> Values]
    BY <2>2
  <2>7. pendingInit \in 0..Cardinality(InitKeys) /\ announced \in Nat /\ capsKnown \in BOOLEAN
    <3>1. pendingInit = Cardinality(InitKeys)
      OBVIOUS
    <3>2. announced \in Nat
      OBVIOUS
    <3>3. capsKnown \in BOOLEAN
      OBVIOUS
    <3>4. QED
      BY <2>1, <3>1, <3>2, <3>3
  <2>8. QED
    BY <2>3, <2>4, <2>5, <2>6, <2>7, Zenon DEF TypeOK
<1>3. ActionIsNotified
  BY DEF ActionIsNotified, Elements
<1>4. DeleteInv
  BY DEF DeleteInv
<1>5. ValueInv
  BY KeyFacts DEF ValueInv, Executing
<1>6. RequestInv
  <2>1. Outstanding = InitKeys
    BY KeyFacts, <1>1, SentinelAssumption DEF Outstanding
  <2>2. Cardinality(InitKeys) # 0
    BY InitKeysFinite, FS_EmptySet, KeyFacts
  <2>3. \A k : ~Executing(k) /\ ~InInbox(k)
    BY DEF Executing, InInbox
  <2>4. QED
    BY <2>1, <2>2, <2>3, KeyFacts DEF RequestInv
<1>7. CacheInv
  BY DEF CacheInv
<1>8. QED
  BY <1>2, <1>3, <1>4, <1>5, <1>6, <1>7 DEF IInv

LEMMA SetPropertyInv == ASSUME NEW p \in Properties, IInv, SetProperty(p) PROVE IInv'
<1> DEFINE v == issued[p] + 1
<1> USE DEF IInv, clientVars, serverVars
<1>1. /\ Write(p) \in Keys /\ v \in Values /\ v > 0 /\ v # Absent
      /\ queue' = [queue EXCEPT ![Write(p)] = v] /\ issued' = [issued EXCEPT ![p] = v]
      /\ queue \in [Keys -> Values \cup {Absent}] /\ issued \in [Properties -> Values]
      /\ applied \in [Properties -> Values]
  BY KeyFacts, BoundAssumption, SentinelAssumption DEF SetProperty, TypeOK, Values, WithAction
<1>2. UNCHANGED <<monitor, pendingInit, announced, capsKnown, cache, inbox, serverPc, current,
                  serverEvents, applied>>
  BY DEF SetProperty
<1>3. \A k \in InitKeys : k # Write(p) /\ queue'[k] = queue[k]
  BY <1>1, KeyFacts
<1>4. TypeOK'
  BY <1>1, <1>2 DEF TypeOK, SetProperty
<1>5. ActionIsNotified'
  BY DEF ActionIsNotified, SetProperty
<1>6. DeleteInv'
  BY <1>2 DEF DeleteInv, SetProperty
<1>7. ValueInv'
  <2> SUFFICES ASSUME NEW q \in Properties
               PROVE  ValueInv!(q)'
    BY DEF ValueInv
  <2>1. CASE q = p
    BY <1>1, <1>2, <2>1 DEF ValueInv, Executing, Values
  <2>2. CASE q # p
    <3>1. Write(q) # Write(p) /\ Write(q) \in Keys
      BY <2>2, KeyFacts
    <3>2. queue'[Write(q)] = queue[Write(q)] /\ issued'[q] = issued[q]
      BY <1>1, <2>2, <3>1
    <3>3. QED
      BY <1>2, <3>2 DEF ValueInv, Executing
  <2>3. QED
    BY <2>1, <2>2
<1>8. RequestInv'
  <2>1. Outstanding' = Outstanding
    BY <1>2, <1>3 DEF Outstanding, Executing, InInbox
  <2>2. pendingInit = 0
    BY DEF SetProperty
  <2>3. QED
    BY <1>2, <1>3, <2>1, <2>2 DEF RequestInv, Executing, InInbox
<1>9. CacheInv'
  BY <1>2 DEF CacheInv, LastReplyTo, InInbox
<1>10. QED
  BY <1>4, <1>5, <1>6, <1>7, <1>8, <1>9

LEMMA NotifyServerInv == ASSUME IInv, NotifyServer PROVE IInv'
<1> USE DEF IInv, clientVars, serverVars
<1>1. UNCHANGED <<monitor, pendingInit, announced, capsKnown, cache, inbox, queue, serverPc, current,
                  issued, applied>>
  BY DEF NotifyServer
<1>2. /\ serverEvents \in Seq({"processQueue", "deferredDelete"})
      /\ serverEvents' = Append(serverEvents, "processQueue") /\ monitor # "destroyed"
  BY DEF NotifyServer, TypeOK, DeleteInv
<1>3. TypeOK'
  BY <1>1, <1>2, AppendFacts DEF TypeOK, NotifyServer
<1>4. ActionIsNotified'
  BY <1>2, AppendFacts DEF ActionIsNotified, Elements
<1>5. DeleteInv'
  BY <1>1, <1>2, AppendFacts DEF DeleteInv
<1>6. ValueInv'
  BY <1>1 DEF ValueInv, Executing
<1>7. RequestInv'
  <2>1. Outstanding' = Outstanding
    BY <1>1 DEF Outstanding, Executing, InInbox
  <2>2. QED
    BY <1>1, <2>1 DEF RequestInv, Executing, InInbox
<1>8. CacheInv'
  BY <1>1 DEF CacheInv, LastReplyTo, InInbox
<1>9. QED
  BY <1>3, <1>4, <1>5, <1>6, <1>7, <1>8

LEMMA DestroyMonitorInv == ASSUME IInv, DestroyMonitor PROVE IInv'
<1> USE DEF IInv, clientVars, serverVars
<1>1. UNCHANGED <<mainPc, pendingInit, announced, capsKnown, cache, queue, serverPc, current,
                  issued, applied>>
  BY DEF DestroyMonitor
<1>2. /\ serverEvents \in Seq({"processQueue", "deferredDelete"})
      /\ serverEvents' = Append(serverEvents, "deferredDelete")
      /\ monitor = "alive" /\ monitor' = "destroyed" /\ inbox' = <<>> /\ mainPc = "idle"
  BY DEF DestroyMonitor, DeletedLater, TypeOK
<1>3. TypeOK'
  BY <1>1, <1>2, AppendFacts DEF TypeOK
<1>4. ActionIsNotified'
  BY <1>1, <1>2, AppendFacts DEF ActionIsNotified, Elements
<1>5. DeleteInv'
  BY <1>1, <1>2, AppendFacts DEF DeleteInv
<1>6. ValueInv'
  BY <1>1 DEF ValueInv, Executing
<1>7. RequestInv'
  BY <1>1, <1>2 DEF RequestInv
<1>8. CacheInv'
  BY <1>2 DEF CacheInv
<1>9. QED
  BY <1>3, <1>4, <1>5, <1>6, <1>7, <1>8

LEMMA TakeEventInv == ASSUME IInv, TakeEvent PROVE IInv'
<1> USE DEF IInv, clientVars, serverVars
<1>1. UNCHANGED <<mainPc, monitor, pendingInit, announced, capsKnown, cache, inbox, queue, current,
                  issued, applied>>
  BY DEF TakeEvent
<1>2. /\ serverEvents \in Seq({"processQueue", "deferredDelete"}) /\ serverEvents # <<>>
      /\ serverEvents' = Tail(serverEvents) /\ serverPc = "idle"
      /\ serverPc' = IF Head(serverEvents) = "processQueue" THEN "popping" ELSE "destroyed"
  BY DEF TakeEvent, TypeOK
<1>3. ASSUME Head(serverEvents) # "processQueue"
      PROVE  /\ monitor = "destroyed" /\ serverEvents' = <<>>
             /\ \A k \in Keys : queue[k] = Absent
  <2>0. 1 \in DOMAIN serverEvents /\ serverEvents[1] = "deferredDelete"
    BY <1>2, <1>3, TailFacts
  <2>1. Len(serverEvents) = 1 /\ monitor = "destroyed" /\ serverEvents[1] # "processQueue"
    BY <2>0 DEF DeleteInv
  <2>2. "processQueue" \notin Elements(serverEvents)
    BY <1>2, <2>1, TailFacts DEF Elements
  <2>3. \A k \in Keys : queue[k] = Absent
    BY <1>2, <2>1, <2>2 DEF ActionIsNotified, DeleteInv
  <2>4. serverEvents' = <<>>
    BY <1>2, <2>1, TailFacts, EmptySeq
  <2>5. QED
    BY <2>1, <2>3, <2>4
<1>4. TypeOK'
  BY <1>1, <1>2, TailFacts DEF TypeOK
<1>5. ActionIsNotified'
  BY <1>1, <1>2, <1>3 DEF ActionIsNotified
<1>6. DeleteInv'
  <2>1. ASSUME NEW i \in DOMAIN serverEvents', serverEvents'[i] = "deferredDelete"
        PROVE  i = Len(serverEvents') /\ monitor' = "destroyed"
    BY <1>1, <1>2, <2>1, TailFacts DEF DeleteInv
  <2>2. QED
    BY <1>1, <1>2, <1>3, <2>1 DEF DeleteInv
<1>7. ValueInv'
  BY <1>1, <1>2 DEF ValueInv, Executing
<1>8. RequestInv'
  <2>1. \A k : Executing(k)' = Executing(k) /\ InInbox(k)' = InInbox(k)
    BY <1>1, <1>2 DEF Executing, InInbox
  <2>2. Outstanding' = Outstanding
    BY <1>1, <2>1 DEF Outstanding
  <2>3. QED
    BY <1>1, <2>1, <2>2 DEF RequestInv
<1>9. CacheInv'
  BY <1>1 DEF CacheInv, LastReplyTo, InInbox
<1>10. QED
  BY <1>4, <1>5, <1>6, <1>7, <1>8, <1>9

LEMMA PopActionInv == ASSUME NEW k \in Keys, IInv, PopAction(k) PROVE IInv'
<1> USE DEF IInv, clientVars, serverVars
<1>1. UNCHANGED <<mainPc, monitor, pendingInit, announced, capsKnown, cache, inbox, serverEvents,
                  issued, applied>>
  BY DEF PopAction
<1>2. /\ queue \in [Keys -> Values \cup {Absent}] /\ queue[k] # Absent /\ queue[k] \in Values
      /\ queue' = [queue EXCEPT ![k] = Absent] /\ serverPc = "popping" /\ serverPc' = "executing"
      /\ current' = [key |-> k, value |-> queue[k]]
  BY DEF PopAction, TypeOK
<1>3. \A l : ~Executing(l) /\ (Executing(l)' <=> l = k) /\ InInbox(l)' = InInbox(l)
  BY <1>1, <1>2 DEF Executing, InInbox
<1>4. TypeOK'
  BY <1>1, <1>2 DEF TypeOK, Actions
<1>5. ActionIsNotified'
  BY <1>2 DEF ActionIsNotified
<1>6. DeleteInv'
  BY <1>1, <1>2 DEF DeleteInv
<1>7. ValueInv'
  <2> SUFFICES ASSUME NEW q \in Properties
               PROVE  ValueInv!(q)'
    BY DEF ValueInv
  <2>1. Write(q) \in Keys
    BY KeyFacts
  <2>2. CASE Write(q) = k
    <3>1. ~Executing(Write(q)) /\ Executing(Write(q))' /\ queue[Write(q)] # Absent
      BY <1>2, <1>3, <2>2
    <3>2. queue[Write(q)] = issued[q] /\ applied[q] < issued[q] /\ issued[q] \in Values
      BY <3>1 DEF ValueInv, TypeOK
    <3>3. current'.value = issued[q] /\ queue'[Write(q)] = Absent
      BY <1>2, <2>1, <2>2, <3>2
    <3>4. QED
      BY <1>1, <3>1, <3>2, <3>3 DEF ValueInv, Values
  <2>3. CASE Write(q) # k
    BY <1>1, <1>2, <1>3, <2>1, <2>3 DEF ValueInv
  <2>4. QED
    BY <2>2, <2>3
<1>8. RequestInv'
  <2>1. Outstanding' = Outstanding
    BY <1>1, <1>2, <1>3, KeyFacts DEF Outstanding
  <2>2. QED
    BY <1>1, <1>2, <1>3, <2>1, KeyFacts DEF RequestInv
<1>9. CacheInv'
  BY <1>1 DEF CacheInv, LastReplyTo, InInbox
<1>10. QED
  BY <1>4, <1>5, <1>6, <1>7, <1>8, <1>9

LEMMA PopNothingInv == ASSUME IInv, PopNothing PROVE IInv'
<1> USE DEF IInv, clientVars, serverVars
<1>1. UNCHANGED <<mainPc, monitor, pendingInit, announced, capsKnown, cache, inbox, queue, current,
                  serverEvents, issued, applied>>
  BY DEF PopNothing
<1>2. serverPc = "popping" /\ serverPc' = "idle" /\ \A k \in Keys : queue[k] = Absent
  BY DEF PopNothing
<1>3. \A k : Executing(k)' = Executing(k) /\ InInbox(k)' = InInbox(k)
  BY <1>1, <1>2 DEF Executing, InInbox
<1>4. TypeOK'
  BY <1>1, <1>2 DEF TypeOK
<1>5. ActionIsNotified'
  BY <1>1, <1>2 DEF ActionIsNotified
<1>6. DeleteInv'
  BY <1>1, <1>2 DEF DeleteInv
<1>7. ValueInv'
  BY <1>1, <1>3 DEF ValueInv
<1>8. RequestInv'
  <2>1. Outstanding' = Outstanding
    BY <1>1, <1>3 DEF Outstanding
  <2>2. QED
    BY <1>1, <1>3, <2>1 DEF RequestInv
<1>9. CacheInv'
  BY <1>1 DEF CacheInv, LastReplyTo, InInbox
<1>10. QED
  BY <1>4, <1>5, <1>6, <1>7, <1>8, <1>9

(* A reply that is posted: the inbox of a Monitor grows by it, that of a     *)
(* Monitor that is gone stays as it is.                                     *)
LEMMA PostFacts ==
  ASSUME IInv, NEW value \in Values \cup {NaN}, Post(value)
  PROVE  /\ inbox' \in Seq(Replies)
         /\ monitor = "alive" =>
                /\ inbox' = Append(inbox, [key |-> current.key, value |-> value])
                /\ \A k : InInbox(k)' <=> InInbox(k) \/ k = current.key
<1>1. inbox \in Seq(Replies) /\ [key |-> current.key, value |-> value] \in Replies
  BY DEF IInv, TypeOK, Actions, Replies
<1>2. inbox' \in Seq(Replies)
  BY <1>1, AppendFacts DEF Post
<1>3. ASSUME monitor = "alive"
      PROVE  /\ inbox' = Append(inbox, [key |-> current.key, value |-> value])
             /\ \A k : InInbox(k)' <=> InInbox(k) \/ k = current.key
  <2>1. inbox' = Append(inbox, [key |-> current.key, value |-> value])
    BY <1>3 DEF Post
  <2>2. ASSUME NEW k PROVE InInbox(k)' <=> InInbox(k) \/ k = current.key
    BY <1>1, <2>1, AppendFacts DEF InInbox
  <2>3. QED
    BY <2>1, <2>2
<1>4. QED
  BY <1>2, <1>3

(* A reply to another action changes nothing about the last reply to p.      *)
LEMMA OtherReply ==
  ASSUME inbox \in Seq(Replies), NEW r \in Replies, inbox' = Append(inbox, r),
         NEW p \in Properties, r.key # Write(p), NEW v
  PROVE  /\ LastReplyTo(p, v) => LastReplyTo(p, v)'
         /\ InInbox(Write(p))' = InInbox(Write(p))
<1>1. InInbox(Write(p))' = InInbox(Write(p))
  BY AppendFacts DEF InInbox
<1>2. ASSUME LastReplyTo(p, v) PROVE LastReplyTo(p, v)'
  <2>1. PICK i \in DOMAIN inbox :
            /\ inbox[i].key = Write(p) /\ inbox[i].value = v
            /\ \A j \in DOMAIN inbox : inbox[j].key = Write(p) => j <= i
    BY <1>2 DEF LastReplyTo
  <2>2. \A j \in DOMAIN inbox' : inbox'[j].key = Write(p) => j <= i
    BY <2>1, AppendFacts
  <2>3. i \in DOMAIN inbox' /\ inbox'[i] = inbox[i]
    BY <2>1, AppendFacts
  <2>4. QED
    BY <2>1, <2>2, <2>3 DEF LastReplyTo
<1>3. QED
  BY <1>1, <1>2

LEMMA ExecuteReadInv == ASSUME IInv, ExecuteRead PROVE IInv'
<1> USE DEF IInv, clientVars, serverVars
<1>1. UNCHANGED <<mainPc, monitor, pendingInit, announced, capsKnown, cache, queue, serverEvents,
                  issued, applied>>
  BY DEF ExecuteRead
<1>2. /\ serverPc = "executing" /\ serverPc' = "popping" /\ current' = NoAction
      /\ current.key \in InitKeys
  BY DEF ExecuteRead, NextIteration
<1>3. PICK v \in Values \cup {NaN} : Post(v)
  <2>1. CASE current.key = Caps
    BY <2>1, BoundAssumption DEF ExecuteRead, Values
  <2>2. CASE current.key # Caps
    <3>1. current.key.property \in Properties
      BY <1>2, <2>2, KeyFacts
    <3>2. QED
      BY <2>2, <3>1 DEF ExecuteRead, TypeOK
  <2>3. QED
    BY <2>1, <2>2
<1>4. \A k : (Executing(k) <=> k = current.key) /\ ~Executing(k)'
  BY <1>2 DEF Executing
<1>5. TypeOK'
  BY <1>1, <1>2, <1>3, PostFacts, KeyFacts DEF TypeOK, NoAction, Actions
<1>6. ActionIsNotified'
  BY <1>2 DEF ActionIsNotified
<1>7. DeleteInv'
  BY <1>1, <1>2 DEF DeleteInv
<1>8. ValueInv'
  <2>1. \A p \in Properties : ~Executing(Write(p)) /\ ~Executing(Write(p))'
    BY <1>2, <1>4, KeyFacts
  <2>2. QED
    BY <1>1, <2>1 DEF ValueInv
<1>9. RequestInv'
  <2>1. CASE monitor = "destroyed"
    BY <1>1, <2>1 DEF RequestInv
  <2>2. CASE monitor = "alive"
    <3>1. \A k : InInbox(k)' <=> InInbox(k) \/ k = current.key
      BY <1>3, <2>2, PostFacts
    <3>2. Outstanding' = Outstanding
      BY <1>1, <1>4, <3>1 DEF Outstanding
    <3>3. ASSUME NEW k \in InitKeys, NEW i \in DOMAIN inbox', NEW j \in DOMAIN inbox',
                 inbox'[i].key = k, inbox'[j].key = k
          PROVE  i = j
      <4>1. inbox' = Append(inbox, [key |-> current.key, value |-> v]) /\ inbox \in Seq(Replies)
            /\ [key |-> current.key, value |-> v] \in Replies
        BY <1>3, <2>2, PostFacts DEF TypeOK, Actions, Replies
      <4>2. k = current.key => ~InInbox(k)
        BY <1>4, <2>2 DEF RequestInv
      <4>3. QED
        BY <2>2, <3>3, <4>1, <4>2, AppendFacts DEF RequestInv, InInbox
    <3>4. QED
      BY <1>1, <1>4, <2>2, <3>1, <3>2, <3>3 DEF RequestInv
  <2>3. QED
    BY <2>1, <2>2 DEF TypeOK
<1>10. CacheInv'
  <2> SUFFICES ASSUME monitor = "alive", NEW p \in Properties, applied[p] > 0
               PROVE  \/ LastReplyTo(p, applied[p])'
                      \/ ~InInbox(Write(p))' /\ cache[p] = applied[p]
    BY <1>1 DEF CacheInv, LastReplyTo
  <2>1. inbox' = Append(inbox, [key |-> current.key, value |-> v]) /\ inbox \in Seq(Replies)
        /\ [key |-> current.key, value |-> v] \in Replies
    BY <1>3, PostFacts DEF TypeOK, Actions, Replies
  <2>2. current.key # Write(p)
    BY <1>2, KeyFacts
  <2>3. LastReplyTo(p, applied[p]) \/ (~InInbox(Write(p)) /\ cache[p] = applied[p])
    BY DEF CacheInv
  <2>4. \A a : LastReplyTo(p, a) => LastReplyTo(p, a)'
    BY <2>1, <2>2, OtherReply
  <2>5. InInbox(Write(p))' = InInbox(Write(p))
    BY <2>1, <2>2, OtherReply
  <2>6. CASE LastReplyTo(p, applied[p])
    BY <1>1, <2>4, <2>6 DEF LastReplyTo
  <2>7. QED
    BY <2>3, <2>5, <2>6
<1>11. QED
  BY <1>5, <1>6, <1>7, <1>8, <1>9, <1>10

LEMMA ExecuteWriteInv == ASSUME NEW p \in Properties, IInv, ExecuteWrite(p) PROVE IInv'
<1> DEFINE v == current.value
           reply == [key |-> current.key, value |-> v]
<1> USE DEF IInv, clientVars, serverVars
<1>1. UNCHANGED <<mainPc, monitor, pendingInit, announced, capsKnown, cache, queue, serverEvents,
                  issued>>
  BY DEF ExecuteWrite
<1>2. /\ serverPc = "executing" /\ serverPc' = "popping" /\ current' = NoAction
      /\ current.key = Write(p) /\ Executing(Write(p))
      /\ applied' = [applied EXCEPT ![p] = v] /\ Post(v)
  BY DEF ExecuteWrite, NextIteration, Executing
<1>3. v \in Values /\ applied[p] < v /\ v <= issued[p] /\ issued[p] > 0
  BY <1>2 DEF ValueInv, TypeOK, Values
<1>4. /\ inbox' \in Seq(Replies) /\ reply \in Replies
      /\ monitor = "alive" => inbox' = Append(inbox, reply)
      /\ monitor = "alive" => \A k : InInbox(k)' <=> InInbox(k) \/ k = Write(p)
  BY <1>2, <1>3, PostFacts, KeyFacts DEF Replies
<1>5. \A k : (Executing(k) <=> k = Write(p)) /\ ~Executing(k)'
  BY <1>2 DEF Executing
<1>6. TypeOK'
  BY <1>1, <1>2, <1>3, <1>4, KeyFacts DEF TypeOK, NoAction, Actions
<1>7. ActionIsNotified'
  BY <1>2 DEF ActionIsNotified
<1>8. DeleteInv'
  BY <1>1, <1>2 DEF DeleteInv
<1>9. ValueInv'
  <2> SUFFICES ASSUME NEW q \in Properties
               PROVE  ValueInv!(q)'
    BY DEF ValueInv
  <2>1. CASE q = p
    BY <1>1, <1>2, <1>3, <1>5, <2>1 DEF ValueInv, TypeOK
  <2>2. CASE q # p
    <3>1. ~Executing(Write(q)) /\ ~Executing(Write(q))'
      BY <1>5, <2>2, KeyFacts
    <3>2. applied'[q] = applied[q]
      BY <1>2, <2>2 DEF TypeOK
    <3>3. QED
      BY <1>1, <3>1, <3>2 DEF ValueInv
  <2>3. QED
    BY <2>1, <2>2
<1>10. RequestInv'
  <2>1. CASE monitor = "destroyed"
    BY <1>1, <2>1 DEF RequestInv
  <2>2. CASE monitor = "alive"
    <3>1. ASSUME NEW k \in InitKeys
          PROVE  k # Write(p) /\ ~Executing(k) /\ ~Executing(k)' /\ (InInbox(k)' <=> InInbox(k))
      <4>1. k # Write(p)
        BY KeyFacts
      <4>2. QED
        BY <1>4, <1>5, <2>2, <4>1
    <3>2. Outstanding' = Outstanding
      BY <1>1, <3>1 DEF Outstanding
    <3>3. ASSUME NEW k \in InitKeys, NEW i \in DOMAIN inbox', NEW j \in DOMAIN inbox',
                 inbox'[i].key = k, inbox'[j].key = k
          PROVE  i = j
      <4>1. /\ i \in DOMAIN inbox => inbox'[i] = inbox[i]
            /\ j \in DOMAIN inbox => inbox'[j] = inbox[j]
            /\ i \notin DOMAIN inbox => inbox'[i] = reply
            /\ j \notin DOMAIN inbox => inbox'[j] = reply
        BY <1>4, <2>2, AppendFacts DEF TypeOK
      <4>2. reply.key # k
        BY <1>2, KeyFacts
      <4>3. QED
        BY <2>2, <3>3, <4>1, <4>2 DEF RequestInv
    <3>4. QED
      BY <1>1, <2>2, <3>1, <3>2, <3>3 DEF RequestInv
  <2>3. QED
    BY <2>1, <2>2 DEF TypeOK
<1>11. CacheInv'
  <2> SUFFICES ASSUME monitor = "alive", NEW q \in Properties, applied'[q] > 0
               PROVE  \/ LastReplyTo(q, applied[q])'
                      \/ ~InInbox(Write(q))' /\ cache[q] = applied'[q]
    BY <1>1 DEF CacheInv, LastReplyTo
  <2>1. inbox \in Seq(Replies) /\ inbox' = Append(inbox, reply)
    BY <1>4 DEF TypeOK
  <2>2. CASE q = p
    <3>1. applied'[q] = v
      BY <1>2, <2>2 DEF TypeOK
    <3>2. /\ Len(inbox) + 1 \in DOMAIN inbox' /\ inbox'[Len(inbox) + 1] = reply
          /\ \A j \in DOMAIN inbox' : j <= Len(inbox) + 1
      BY <1>4, <2>1, AppendFacts
    <3>3. reply.key = Write(q) /\ reply.value = v
      BY <1>2, <2>2
    <3>4. QED
      BY <3>1, <3>2, <3>3 DEF LastReplyTo
  <2>3. CASE q # p
    <3>1. applied'[q] = applied[q] /\ reply.key # Write(q)
      BY <1>2, <2>3, KeyFacts DEF TypeOK
    <3>2. LastReplyTo(q, applied[q]) \/ (~InInbox(Write(q)) /\ cache[q] = applied[q])
      BY <3>1 DEF CacheInv
    <3>3. \A a : LastReplyTo(q, a) => LastReplyTo(q, a)'
      BY <1>4, <2>1, <3>1, OtherReply
    <3>4. InInbox(Write(q))' = InInbox(Write(q))
      BY <1>4, <2>1, <3>1, OtherReply
    <3>5. CASE LastReplyTo(q, applied[q])
      BY <3>1, <3>3, <3>5 DEF LastReplyTo
    <3>6. QED
      BY <3>1, <3>2, <3>4, <3>5
  <2>4. QED
    BY <2>2, <2>3
<1>12. QED
  BY <1>6, <1>7, <1>8, <1>9, <1>10, <1>11

LEMMA HandleReplyInv == ASSUME IInv, HandleReply PROVE IInv'
<1> DEFINE reply == Head(inbox)
<1>0. PICK k : k = reply.key
  OBVIOUS
<1> USE <1>0
<1> USE DEF IInv, clientVars, serverVars
<1>1. /\ UNCHANGED <<mainPc, monitor, queue, serverPc, current, serverEvents, issued, applied>>
      /\ monitor = "alive" /\ inbox # <<>>
  BY DEF HandleReply
<1>2. /\ inbox' = Tail(inbox)
      /\ capsKnown' = (capsKnown \/ k = Caps)
      /\ cache' = IF k = Caps THEN cache ELSE [cache EXCEPT ![k.property] = reply.value]
      /\ pendingInit' = IF k \notin InitKeys \/ pendingInit = 0 THEN pendingInit ELSE pendingInit - 1
      /\ announced' = IF pendingInit # 0 /\ pendingInit' = 0 THEN announced + 1 ELSE announced
      /\ reply \in Replies /\ k \in Keys /\ reply.value \in Values \cup {NaN}
  <2>1. reply \in Replies /\ k \in Keys /\ reply.value \in Values \cup {NaN}
    <3>1. reply \in Replies
      BY <1>1, TailFacts DEF TypeOK
    <3>2. QED
      BY <3>1 DEF Replies
  <2>2. QED
    BY <2>1, KeyFacts DEF HandleReply, AfterReply
<1>3. /\ inbox \in Seq(Replies) /\ inbox' \in Seq(Replies)
      /\ 1 \in DOMAIN inbox /\ inbox[1] = reply /\ DOMAIN inbox = 1..Len(inbox) /\ Len(inbox) \in Nat
      /\ \A i \in DOMAIN inbox' : i + 1 \in DOMAIN inbox /\ inbox'[i] = inbox[i + 1]
      /\ \A i \in DOMAIN inbox : i = 1 \/ (i - 1 \in DOMAIN inbox' /\ inbox'[i - 1] = inbox[i])
      /\ DOMAIN inbox' = 1..(Len(inbox) - 1)
  BY <1>1, <1>2, TailFacts DEF TypeOK
<1>4. \A l : Executing(l)' = Executing(l) /\ (InInbox(l) <=> l = k \/ InInbox(l)')
  <2> TAKE l
  <2>1. Executing(l)' = Executing(l)
    BY <1>1 DEF Executing
  <2>2. InInbox(l) => l = k \/ InInbox(l)'
    BY <1>3 DEF InInbox
  <2>3. InInbox(l)' => InInbox(l)
    BY <1>3 DEF InInbox
  <2>4. InInbox(k)
    BY <1>3 DEF InInbox
  <2>5. QED
    BY <2>1, <2>2, <2>3, <2>4
<1>5. k # Caps => k.property \in Properties /\ (k = Read(k.property) \/ k = Write(k.property))
  BY <1>2, KeyFacts
<1>6. Outstanding' = Outstanding \ {k}
  <2>1. ASSUME k \in InitKeys
        PROVE  queue[k] = Absent /\ ~Executing(k) /\ ~InInbox(k)'
    <3>1. ASSUME NEW i \in DOMAIN inbox', inbox'[i].key = k PROVE FALSE
      BY <1>1, <1>3, <2>1, <3>1 DEF RequestInv
    <3>2. ~InInbox(k)'
      BY <3>1 DEF InInbox
    <3>3. InInbox(k)
      BY <1>4
    <3>4. QED
      BY <1>1, <2>1, <3>2, <3>3 DEF RequestInv
  <2>2. ASSUME NEW l \in InitKeys
        PROVE  l \in Outstanding' <=> l \in Outstanding /\ l # k
    <3>1. queue'[l] = queue[l] /\ (Executing(l)' <=> Executing(l))
      BY <1>1, <1>4
    <3>2. CASE l = k
      BY <2>1, <3>1, <3>2 DEF Outstanding
    <3>3. CASE l # k
      BY <1>4, <3>1, <3>3 DEF Outstanding
    <3>4. QED
      BY <3>2, <3>3
  <2>3. QED
    BY <2>2 DEF Outstanding
<1>7. k \in InitKeys => k \in Outstanding
  BY <1>4 DEF Outstanding
<1>8. pendingInit = Cardinality(Outstanding) /\ pendingInit' = Cardinality(Outstanding')
  <2>1. pendingInit = Cardinality(Outstanding)
    BY <1>1 DEF RequestInv
  <2>2. CASE k \in InitKeys
    <3>1. Cardinality(Outstanding') = Cardinality(Outstanding) - 1
      BY <1>6, <1>7, <2>2, OutstandingFinite, FS_RemoveElement
    <3>2. QED
      BY <1>2, <2>1, <2>2, <3>1, OutstandingFinite
  <2>3. CASE k \notin InitKeys
    <3>1. Outstanding' = Outstanding
      BY <1>6, <2>3 DEF Outstanding
    <3>2. QED
      BY <1>2, <2>1, <2>3, <3>1
  <2>4. QED
    BY <2>2, <2>3, <2>1
<1>9. \A p \in Properties : cache'[p] # cache[p] =>
          k \in {Read(p), Write(p)} /\ cache'[p] = reply.value /\ cache'[p] # Unset
  BY <1>2, <1>5, SentinelAssumption DEF TypeOK, Values
<1>10. TypeOK'
  BY <1>1, <1>2, <1>3, <1>5, <1>8, OutstandingFinite DEF TypeOK
<1>11. ActionIsNotified'
  BY <1>1 DEF ActionIsNotified
<1>12. DeleteInv'
  BY <1>1 DEF DeleteInv
<1>13. ValueInv'
  BY <1>1, <1>4 DEF ValueInv
<1>14. RequestInv'
  <2>1. announced' = IF pendingInit' = 0 THEN 1 ELSE 0
    BY <1>2 DEF RequestInv, TypeOK
  <2>2. Caps \in Outstanding' \/ capsKnown'
    BY <1>1, <1>2, <1>6 DEF RequestInv
  <2>3. \A p \in Properties : Read(p) \in Outstanding' \/ cache'[p] # Unset
    <3> TAKE p \in Properties
    <3>1. CASE k = Read(p)
      <4>1. k # Caps /\ k.property = p
        BY <3>1, KeyFacts
      <4>2. QED
        BY <1>2, <4>1, SentinelAssumption DEF TypeOK, Values
    <3>2. CASE k # Read(p)
      BY <1>1, <1>6, <1>9, <3>2 DEF RequestInv
    <3>3. QED
      BY <3>1, <3>2
  <2>4. pendingInit' = 0 => Outstanding' = {}
    BY <1>8, OutstandingFinite, FS_EmptySet
  <2>5. ASSUME NEW l \in InitKeys
        PROVE  /\ queue'[l] # Absent => ~Executing(l)' /\ ~InInbox(l)'
               /\ Executing(l)' => ~InInbox(l)'
               /\ \A i, j \in DOMAIN inbox' : inbox'[i].key = l /\ inbox'[j].key = l => i = j
    <3>1. queue'[l] # Absent => ~Executing(l)' /\ ~InInbox(l)'
      BY <1>1, <1>4 DEF RequestInv
    <3>2. Executing(l)' => ~InInbox(l)'
      BY <1>1, <1>4 DEF RequestInv
    <3>3. ASSUME NEW i \in DOMAIN inbox', NEW j \in DOMAIN inbox', inbox'[i].key = l, inbox'[j].key = l
          PROVE  i = j
      BY <1>1, <1>3, <3>3 DEF RequestInv
    <3>4. QED
      BY <3>1, <3>2, <3>3
  <2>6. \A p \in Properties : issued'[p] > 0 => pendingInit' = 0
    BY <1>1, <1>2 DEF RequestInv
  <2>7. QED
    BY <1>8, <2>1, <2>2, <2>3, <2>4, <2>5, <2>6 DEF RequestInv
<1>15. CacheInv'
  <2> SUFFICES ASSUME NEW p \in Properties, applied[p] > 0
               PROVE  LastReplyTo(p, applied[p])' \/ (~InInbox(Write(p))' /\ cache'[p] = applied[p])
    BY <1>1 DEF CacheInv, LastReplyTo
  <2>1. k # Read(p)
    <3>1. issued[p] > 0
      BY DEF ValueInv, TypeOK, Values
    <3>2. Outstanding = {}
      BY <1>1, <1>8, <3>1, OutstandingFinite, FS_EmptySet DEF RequestInv
    <3>3. QED
      BY <1>7, <3>2, KeyFacts
  <2>2. CASE LastReplyTo(p, applied[p])
    <3>1. PICK i \in DOMAIN inbox :
              /\ inbox[i].key = Write(p) /\ inbox[i].value = applied[p]
              /\ \A j \in DOMAIN inbox : inbox[j].key = Write(p) => j <= i
      BY <2>2 DEF LastReplyTo
    <3>2. CASE i = 1
      <4>1. k = Write(p) /\ reply.value = applied[p]
        BY <1>3, <3>1, <3>2
      <4>2. \A j \in DOMAIN inbox' : inbox'[j].key # Write(p)
        BY <1>3, <3>1, <3>2
      <4>3. k # Caps /\ k.property = p
        BY <4>1, KeyFacts
      <4>4. cache'[p] = applied[p]
        BY <1>2, <4>1, <4>3 DEF TypeOK
      <4>5. QED
        BY <4>2, <4>4 DEF InInbox
    <3>3. CASE i # 1
      <4>1. i - 1 \in DOMAIN inbox' /\ inbox'[i - 1] = inbox[i]
        BY <1>3, <3>3
      <4>2. \A j \in DOMAIN inbox' : inbox'[j].key = Write(p) => j <= i - 1
        BY <1>3, <3>1
      <4>3. QED
        BY <1>1, <3>1, <4>1, <4>2 DEF LastReplyTo
    <3>4. QED
      BY <3>2, <3>3
  <2>3. CASE ~InInbox(Write(p)) /\ cache[p] = applied[p]
    <3>1. k # Write(p) /\ ~InInbox(Write(p))'
      BY <1>4, <2>3
    <3>2. QED
      BY <1>9, <2>1, <2>3, <3>1
  <2>4. QED
    BY <1>1, <2>2, <2>3 DEF CacheInv
<1>16. QED
  BY <1>10, <1>11, <1>12, <1>13, <1>14, <1>15

LEMMA StutterInv == ASSUME IInv, UNCHANGED vars PROVE IInv'
<1> USE DEF vars, clientVars, serverVars
<1>1. \A k : Executing(k)' = Executing(k) /\ InInbox(k)' = InInbox(k)
  BY DEF Executing, InInbox
<1>2. Outstanding' = Outstanding
  BY <1>1 DEF Outstanding
<1>3. TypeOK' /\ ActionIsNotified' /\ DeleteInv'
  BY DEF IInv, TypeOK, ActionIsNotified, DeleteInv
<1>4. ValueInv'
  BY <1>1 DEF IInv, ValueInv
<1>5. RequestInv'
  BY <1>1, <1>2 DEF IInv, RequestInv
<1>6. CacheInv'
  BY DEF IInv, CacheInv, LastReplyTo, InInbox
<1>7. QED
  BY <1>3, <1>4, <1>5, <1>6 DEF IInv

LEMMA StepInv == IInv /\ [Next]_vars => IInv'
<1> SUFFICES ASSUME IInv, [Next]_vars PROVE IInv'
  OBVIOUS
<1>1. ASSUME NEW p \in Properties, SetProperty(p) PROVE IInv'
  BY <1>1, SetPropertyInv
<1>2. CASE NotifyServer
  BY <1>2, NotifyServerInv
<1>3. CASE HandleReply
  BY <1>3, HandleReplyInv
<1>4. CASE DestroyMonitor
  BY <1>4, DestroyMonitorInv
<1>5. CASE ServerStep
  BY <1>5, TakeEventInv, PopActionInv, PopNothingInv, ExecuteReadInv, ExecuteWriteInv DEF ServerStep
<1>6. CASE UNCHANGED vars
  BY <1>6, StutterInv
<1>7. QED
  BY <1>1, <1>2, <1>3, <1>4, <1>5, <1>6 DEF Next, Terminated

(* IInv holds in every reachable state, whatever the constants. *)
THEOREM Invariant == Spec => []IInv
<1>1. QED
  BY InitInv, StepInv, PTL DEF Spec

(* Every variable keeps its type. *)
THEOREM TypeCorrect == Spec => []TypeOK
<1>1. IInv => TypeOK
  BY DEF IInv
<1>2. QED
  BY <1>1, Invariant, PTL

(* Monitor::setProperty() and MonitorServer::processQueue() never leave an   *)
(* action in the queue with nobody to process it.                           *)
THEOREM NoLostWakeup == Spec => []ActionIsNotified
<1>1. IInv => ActionIsNotified
  BY DEF IInv
<1>2. QED
  BY <1>1, Invariant, PTL

(* ~Monitor() may kill its server without waiting: the values that were set *)
(* are written before it dies.                                              *)
THEOREM LastValuesAreWritten == Spec => []NothingLostAtDestruction
<1>1. IInv => NothingLostAtDestruction
  <2> SUFFICES ASSUME IInv, serverPc = "destroyed" PROVE applied = issued
    BY DEF NothingLostAtDestruction
  <2>1. \A p \in Properties : queue[Write(p)] = Absent /\ ~Executing(Write(p))
    BY KeyFacts DEF IInv, DeleteInv, Executing
  <2>2. \A p \in Properties : applied[p] = issued[p]
    BY <2>1 DEF IInv, ValueInv
  <2>3. QED
    BY <2>2 DEF IInv, TypeOK
<1>2. QED
  BY <1>1, Invariant, PTL

(* initialized() is emitted once, and then everything has been read. *)
THEOREM InitializationIsComplete == Spec => []InitializedIsComplete
<1>1. IInv => InitializedIsComplete
  BY DEF IInv, RequestInv, InitializedIsComplete
<1>2. QED
  BY <1>1, Invariant, PTL

(* Once nothing is under way, property() returns the last value set.        *)
THEOREM CacheIsRight == Spec => []CacheSettles
<1>1. IInv => CacheSettles
  <2> SUFFICES ASSUME IInv, \A k \in Keys : queue[k] = Absent, serverPc = "idle", inbox = <<>>,
                      monitor = "alive", NEW p \in Properties, issued[p] > 0
               PROVE  cache[p] = issued[p]
    BY DEF CacheSettles
  <2>1. applied[p] = issued[p]
    BY KeyFacts DEF IInv, ValueInv, Executing
  <2>2. ~LastReplyTo(p, applied[p])
    BY DEF LastReplyTo
  <2>3. QED
    BY <2>1, <2>2 DEF IInv, CacheInv
<1>2. QED
  BY <1>1, Invariant, PTL

-----------------------------------------------------------------------------
(* Each step of the monitor is one of the channel's, or none: setProperty() *)
(* sets the next value, and the server writes one that is later than the    *)
(* one before.                                                              *)
LEMMA StepSimulates == IInv /\ [Next]_vars => [Channel!Next]_Channel!channel
<1> SUFFICES ASSUME IInv, [Next]_vars PROVE [Channel!Next]_Channel!channel
  OBVIOUS
<1> USE DEF Channel!channel, Channel!Next
<1>1. ASSUME NEW p \in Properties, SetProperty(p) PROVE Channel!Issue(p)
  BY <1>1 DEF SetProperty, Channel!Issue
<1>2. ASSUME NEW p \in Properties, ExecuteWrite(p) PROVE Channel!Apply(p)
  <2>1. current.value \in (applied[p] + 1)..issued[p]
    BY <1>2 DEF ExecuteWrite, IInv, ValueInv, Executing, TypeOK, Values
  <2>2. QED
    BY <1>2, <2>1 DEF ExecuteWrite, Channel!Apply
<1>3. CASE UNCHANGED <<issued, applied>>
  BY <1>3
<1>4. QED
  BY <1>1, <1>2, <1>3 DEF Next, ServerStep, NotifyServer, HandleReply, DestroyMonitor, TakeEvent,
     PopAction, PopNothing, ExecuteRead, Terminated, vars

(* The Monitor, its queue and its server are a channel that applies the      *)
(* values of a property in order, skipping only overtaken ones.  (That the  *)
(* last one is applied in the end is the fairness part of LatestValue.)     *)
THEOREM ImplementsLatestValue == Spec => Channel!SafeSpec
<1>1. Init => Channel!Init
  BY DEF Init, Channel!Init
<1>2. QED
  BY <1>1, StepSimulates, Invariant, PTL DEF Spec, Channel!SafeSpec
=============================================================================
