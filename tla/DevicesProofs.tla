------------------------------ MODULE DevicesProofs -----------------------------
(***************************************************************************)
(* The safety properties of StreamingConnection, UpnpDiscovery and the two   *)
(* parts of WinMonitor, for every number of promises, datagrams and          *)
(* enumerations and whatever is sent, plugged in and asked for.              *)
(*                                                                         *)
(* Each of the four has an invariant of its own.  They share no variable,    *)
(* and a step of one leaves the others' alone.                               *)
(***************************************************************************)
EXTENDS Devices, SequenceLemmas

-----------------------------------------------------------------------------
Sockets == {"none", "unconnected", "connecting", "connected"}
Outcomes == {"pending", "value", "error", "cancelled"}
Commands == [promise : Nat \ {0}, held : BOOLEAN]

ConnectionTypeOK ==
    /\ m_socket \in Sockets
    /\ m_connectPromise \in Nat
    /\ m_commandQueue \in Seq(Commands)
    /\ promised \in Seq(Outcomes)
    /\ wire \in Seq(Nat \ {0})
    /\ connection \in {"alive", "crashed", "destroyed"}
    /\ risked \in BOOLEAN

Pending == {p \in DOMAIN promised : promised[p] = "pending"}

(* What send() queued and nothing undefined touched: every command still    *)
(* holds the state of its promise, which is no other command's and not that *)
(* of start().                                                              *)
QueueInv ==
    \A i \in DOMAIN m_commandQueue :
        /\ m_commandQueue[i].held
        /\ m_commandQueue[i].promise # m_connectPromise
        /\ \A j \in DOMAIN m_commandQueue :
            m_commandQueue[i].promise = m_commandQueue[j].promise => i = j

(* What the state of the socket says about the promises and the wire. *)
SocketInv ==
    /\ m_socket \in {"none", "unconnected"} => m_connectPromise = 0 /\ m_commandQueue = <<>>
    /\ m_socket = "connecting" => m_connectPromise # 0 /\ wire = <<>>
    /\ m_socket = "connected" => m_connectPromise = 0 /\ wire = Payloads

(* An undefined step is remembered in risked; as long as there was none,    *)
(* the pending promises are the held ones.  The invariant has to say of     *)
(* every command that its state is there, or handleSocketErrorOccured()     *)
(* might set it twice.                                                      *)
ConnectionInv ==
    /\ ConnectionTypeOK
    /\ connection = "crashed" => risked
    /\ connection = "alive" /\ ~risked => Pending = HeldPromises /\ QueueInv /\ SocketInv

(* The fields of queued commands. *)
LEMMA QueueType ==
  ASSUME NEW queue \in Seq(Commands)
  PROVE  /\ DOMAIN queue = 1..Len(queue) /\ Len(queue) \in Nat
         /\ \A i \in DOMAIN queue : queue[i].promise \in Nat \ {0} /\ queue[i].held \in BOOLEAN
<1>1. /\ DOMAIN queue = 1..Len(queue) /\ Len(queue) \in Nat
      /\ \A i \in DOMAIN queue : queue[i] \in Commands
  OBVIOUS
<1> QED
  BY <1>1 DEF Commands

(* The promises of a queue. *)
LEMMA PayloadsType ==
  ASSUME NEW queue \in Seq(Commands),
         NEW payloads, payloads = [i \in DOMAIN queue |-> queue[i].promise]
  PROVE  /\ payloads \in Seq(Nat \ {0})
         /\ Len(payloads) = Len(queue)
         /\ DOMAIN payloads = DOMAIN queue
         /\ ToSet(payloads) = {queue[i].promise : i \in DOMAIN queue}
<1>1. payloads \in Seq(Nat \ {0}) /\ Len(payloads) = Len(queue)
  BY QueueType
<1> QED
  BY <1>1 DEF ToSet

(* The promises the connection holds. *)
LEMMA HeldType ==
  ASSUME ConnectionTypeOK
  PROVE  HeldPromises = ({m_connectPromise} \ {0})
             \union {m_commandQueue[i].promise : i \in DOMAIN m_commandQueue}
<1>1. m_commandQueue \in Seq(Commands)
  BY DEF ConnectionTypeOK
<1> QED
  BY <1>1, PayloadsType DEF HeldPromises, Payloads

(* The same after a step. *)
LEMMA HeldTypeNext ==
  ASSUME ConnectionTypeOK'
  PROVE  HeldPromises' = ({m_connectPromise'} \ {0})
             \union {m_commandQueue'[i].promise : i \in DOMAIN m_commandQueue'}
<1> DEFINE p == Payloads'
<1>1. m_commandQueue' \in Seq(Commands) /\ p = [i \in DOMAIN m_commandQueue' |-> m_commandQueue'[i].promise]
  BY DEF ConnectionTypeOK, Payloads
<1>2. ToSet(p) = {m_commandQueue'[i].promise : i \in DOMAIN m_commandQueue'}
  <2> HIDE DEF p
  <2> QED BY <1>1, PayloadsType
<1> QED
  BY <1>2 DEF HeldPromises, ToSet

(* Setting all held promises. *)
LEMMA SettledType ==
  ASSUME ConnectionTypeOK, NEW outcome \in Outcomes
  PROVE  /\ Settled(outcome) \in Seq(Outcomes)
         /\ Len(Settled(outcome)) = Len(promised)
         /\ \A p \in 1..Len(promised) :
                Settled(outcome)[p] = IF p \in HeldPromises THEN outcome ELSE promised[p]
<1>1. promised \in Seq(Outcomes) /\ DOMAIN promised = 1..Len(promised) /\ Len(promised) \in Nat
  BY DEF ConnectionTypeOK
<1> HIDE DEF Outcomes
<1> QED
BY <1>1 DEF Settled

(* Appending an outcome. *)
LEMMA AppendType ==
  ASSUME NEW s \in Seq(Outcomes), NEW outcome \in Outcomes
  PROVE  /\ Append(s, outcome) \in Seq(Outcomes)
         /\ Len(Append(s, outcome)) = Len(s) + 1 /\ Len(s) \in Nat
         /\ \A p \in 1..Len(s) : Append(s, outcome)[p] = s[p]
         /\ Append(s, outcome)[Len(s) + 1] = outcome
         /\ DOMAIN Append(s, outcome) = 1..Len(s) + 1 /\ DOMAIN s = 1..Len(s)
OBVIOUS

(* The property follows from the invariant. *)
LEMMA PromisesAreKeptFromInv ==
  ASSUME ConnectionInv PROVE PromisesAreKept
<1>1. SUFFICES ASSUME connection = "alive", ~risked
               PROVE  /\ Pending = HeldPromises
                      /\ IsInjective(Payloads) /\ m_connectPromise \notin ToSet(Payloads)
                      /\ m_socket \in {"none", "unconnected"} => Pending = {}
                      /\ m_socket = "connecting" => m_connectPromise # 0 /\ wire = <<>>
                      /\ m_socket = "connected" => m_connectPromise = 0 /\ wire = Payloads
  BY DEF ConnectionInv, PromisesAreKept, Pending
<1>2. Pending = HeldPromises /\ QueueInv /\ SocketInv /\ ConnectionTypeOK
  BY <1>1 DEF ConnectionInv
<1>3. IsInjective(Payloads) /\ m_connectPromise \notin ToSet(Payloads)
  <2>1. m_commandQueue \in Seq(Commands)
    BY <1>2 DEF ConnectionTypeOK
  <2>2. /\ DOMAIN Payloads = DOMAIN m_commandQueue
        /\ ToSet(Payloads) = {m_commandQueue[i].promise : i \in DOMAIN m_commandQueue}
    BY <2>1, PayloadsType DEF Payloads
  <2> QED
    BY <1>2, <2>2 DEF IsInjective, QueueInv, Payloads
<1>4. m_socket \in {"none", "unconnected"} => Pending = {}
  BY <1>2, HeldType DEF SocketInv
<1> QED
  BY <1>2, <1>3, <1>4 DEF SocketInv

(* stop() cancels all that is pending. *)
LEMMA StopInv ==
  ASSUME ConnectionInv, Stop
  PROVE  ConnectionInv'
<1>1. CASE IsSetTwice /\ Crash
  <2>1. risked
    BY <1>1 DEF ConnectionInv, Stop, QueueInv, IsSetTwice, ConnectionTypeOK
  <2>2. ConnectionTypeOK'
    BY <1>1 DEF ConnectionInv, ConnectionTypeOK, Crash
  <2> QED
    BY <1>1, <2>1, <2>2 DEF ConnectionInv, Crash
<1>2. CASE ~IsSetTwice /\ ~(IsSetTwice /\ Crash)
  <2>1. /\ ConnectionTypeOK /\ connection = "alive"
        /\ m_socket' = "none" /\ m_connectPromise' = 0 /\ m_commandQueue' = <<>> /\ wire' = <<>>
        /\ promised' = Settled("cancelled")
        /\ UNCHANGED <<connection, risked>>
    BY <1>2 DEF Stop, ConnectionInv
  <2>2. ConnectionTypeOK'
    BY <2>1, SettledType DEF ConnectionTypeOK, Sockets, Outcomes
  <2>3. ~risked => Pending' = {}
    <3>1. promised \in Seq(Outcomes) /\ promised' \in Seq(Outcomes)
      BY <2>1, <2>2 DEF ConnectionTypeOK
    <3>2. ~risked => \A p \in 1..Len(promised') : promised'[p] # "pending"
      BY <2>1, <3>1, SettledType DEF ConnectionInv, Pending, Outcomes
    <3> QED
      BY <3>1, <3>2 DEF Pending
  <2>4. HeldPromises' = {}
    BY <2>1, <2>2, HeldTypeNext
  <2>5. QueueInv' /\ SocketInv'
    BY <2>1 DEF QueueInv, SocketInv
  <2> QED
    BY <2>1, <2>2, <2>3, <2>4, <2>5 DEF ConnectionInv
<1> QED
  BY <1>1, <1>2 DEF Stop

(* After Settled() nothing is pending. *)
LEMMA NothingPending ==
  ASSUME ConnectionTypeOK, Pending = HeldPromises, NEW outcome \in Outcomes \ {"pending"}
  PROVE  \A p \in 1..Len(promised) : Settled(outcome)[p] # "pending"
<1>1. promised \in Seq(Outcomes)
  BY DEF ConnectionTypeOK
<1> QED
  BY <1>1, SettledType DEF Pending

(* A promise is set twice only after a send() without a connection. *)
LEMMA TwiceIsRisked ==
  ASSUME ConnectionInv, connection = "alive", IsSetTwice
  PROVE  risked
BY DEF ConnectionInv, QueueInv, IsSetTwice, ConnectionTypeOK

(* A crash after undefined behaviour. *)
LEMMA CrashInv ==
  ASSUME ConnectionInv, risked, Crash
  PROVE  ConnectionInv'
<1>1. ConnectionTypeOK'
  BY DEF ConnectionInv, ConnectionTypeOK, Crash
<1> QED
  BY <1>1 DEF ConnectionInv, Crash

(* start(), with and without a signal inside connectToHost(). *)
LEMMA StartInv ==
  ASSUME ConnectionInv, Start
  PROVE  ConnectionInv'
<1>1. CASE IsSetTwice /\ Crash
  BY <1>1, TwiceIsRisked, CrashInv DEF Start, CanPromise
<1>2. CASE /\ connection = "alive" /\ ConnectionTypeOK
           /\ m_commandQueue' = <<>> /\ wire' = <<>>
           /\ m_socket' = "connecting" /\ m_connectPromise' = Fresh
           /\ promised' = Append(Settled("cancelled"), "pending")
           /\ UNCHANGED <<connection, risked>>
  <2> DEFINE s == Settled("cancelled")
  <2>1. s \in Seq(Outcomes) /\ Len(s) = Len(promised) /\ Len(promised) \in Nat
    BY <1>2, SettledType DEF Outcomes, ConnectionTypeOK
  <2>2. promised' = Append(s, "pending") /\ "pending" \in Outcomes
    BY <1>2 DEF Outcomes
  <2>3. ~risked => \A p \in 1..Len(promised) : s[p] # "pending"
    BY <1>2, NothingPending DEF Outcomes, ConnectionInv
  <2> HIDE DEF s
  <2>4. ConnectionTypeOK'
    <3>1. promised' \in Seq(Outcomes)
      BY <2>1, <2>2, AppendType
    <3> HIDE DEF Commands, Outcomes
    <3>2. <<>> \in Seq(Commands) /\ <<>> \in Seq(Nat \ {0})
      OBVIOUS
    <3> QED
      BY <1>2, <2>1, <3>1, <3>2 DEF ConnectionTypeOK, Sockets, Fresh
  <2>5. ~risked => Pending' = {Fresh}
    BY <2>1, <2>2, <2>3, AppendType DEF Pending, Fresh
  <2>6. HeldPromises' = {Fresh}
    <3>1. Fresh # 0
      BY <2>1 DEF Fresh
    <3> QED
      BY <1>2, <2>4, <3>1, HeldTypeNext
  <2>7. QueueInv' /\ SocketInv'
    BY <1>2, <2>1 DEF QueueInv, SocketInv, Fresh
  <2> QED
    BY <1>2, <2>4, <2>5, <2>6, <2>7 DEF ConnectionInv
<1>3. ASSUME ConnectionTypeOK,
             NEW end \in {[socket |-> "connected", outcome |-> "value"],
                          [socket |-> "unconnected", outcome |-> "error"]},
             m_commandQueue' = <<>>, wire' = <<>>,
             m_socket' = end.socket, m_connectPromise' = 0,
             promised' = Append(Settled("cancelled"), end.outcome),
             connection' = "crashed", risked' = TRUE
      PROVE  ConnectionInv'
  <2>1. end.socket \in Sockets /\ end.outcome \in Outcomes
    BY DEF Sockets, Outcomes
  <2>2. Settled("cancelled") \in Seq(Outcomes)
    BY <1>3, SettledType DEF Outcomes
  <2>3. promised' \in Seq(Outcomes)
    BY <1>3, <2>1, <2>2, AppendType
  <2>4. ConnectionTypeOK'
    BY <1>3, <2>1, <2>3 DEF ConnectionTypeOK
  <2> QED
    BY <1>3, <2>4 DEF ConnectionInv
<1>4. ConnectionTypeOK
  BY DEF ConnectionInv
<1> QED
  BY <1>1, <1>2, <1>3, <1>4 DEF Start, CanPromise

(* A connection that breaks inside flush(). *)
LEMMA BreakInv ==
  ASSUME ConnectionTypeOK, BreakDuringFlush, promised' \in Seq(Outcomes)
  PROVE  ConnectionInv'
<1>1. ConnectionTypeOK'
  BY DEF ConnectionTypeOK, BreakDuringFlush, Sockets
<1> QED
  BY <1>1 DEF ConnectionInv, BreakDuringFlush

(* A command that is added to the queue, with its promise. *)
LEMMA SendInv ==
  ASSUME ConnectionInv, Send
  PROVE  ConnectionInv'
<1> USE DEF Outcomes
<1>1. /\ ConnectionTypeOK /\ connection = "alive" /\ promised \in Seq(Outcomes)
      /\ Len(promised) \in Nat /\ Fresh = Len(promised) + 1
  BY DEF ConnectionInv, ConnectionTypeOK, Send, CanPromise, Fresh
<1>2. CASE SendUnconnected
  <2> DEFINE c == [promise |-> Fresh, held |-> FALSE]
  <2>1. c \in Commands
    BY <1>1 DEF Commands
  <2>2. /\ m_commandQueue' = Append(m_commandQueue, c)
        /\ promised' = Append(promised, "error") /\ risked' = TRUE
        /\ UNCHANGED <<m_socket, m_connectPromise, wire, connection>>
    BY <1>2 DEF SendUnconnected
  <2> HIDE DEF c
  <2>3. ConnectionTypeOK'
    BY <1>1, <2>1, <2>2, AppendType DEF ConnectionTypeOK
  <2> QED
    BY <1>1, <2>2, <2>3 DEF ConnectionInv
<1>3. CASE /\ m_socket \in {"connecting", "connected"}
           /\ m_commandQueue' = Append(m_commandQueue, [promise |-> Fresh, held |-> TRUE])
           /\ promised' = Append(promised, "pending")
           /\ wire' = IF m_socket = "connected" THEN Append(wire, Fresh) ELSE wire
           /\ UNCHANGED <<m_socket, m_connectPromise, connection, risked>>
  <2> DEFINE c == [promise |-> Fresh, held |-> TRUE]
             n == Len(m_commandQueue)
  <2>1. c \in Commands /\ c.promise = Fresh /\ c.held /\ m_commandQueue \in Seq(Commands)
    BY <1>1 DEF Commands, ConnectionTypeOK
  <2>2. m_commandQueue' = Append(m_commandQueue, c)
    BY <1>3
  <2> HIDE DEF c
  <2>3. /\ n \in Nat /\ DOMAIN m_commandQueue = 1..n /\ DOMAIN m_commandQueue' = 1..n + 1
        /\ \A i \in 1..n : m_commandQueue'[i] = m_commandQueue[i]
        /\ m_commandQueue'[n + 1] = c
        /\ m_commandQueue' \in Seq(Commands)
    BY <2>1, <2>2, AppendProperties, LenProperties
  <2>4. wire' \in Seq(Nat \ {0})
    <3>1. wire \in Seq(Nat \ {0}) /\ Fresh \in Nat \ {0}
      BY <1>1 DEF ConnectionTypeOK
    <3>2. Append(wire, Fresh) \in Seq(Nat \ {0})
      BY <3>1, AppendProperties
    <3> QED
      BY <1>3, <3>1, <3>2
  <2>5. ConnectionTypeOK'
    BY <1>1, <1>3, <2>3, <2>4, AppendType DEF ConnectionTypeOK
  <2>6. SUFFICES ASSUME ~risked
                 PROVE  Pending' = HeldPromises' /\ QueueInv' /\ SocketInv'
    BY <1>1, <1>3, <2>5 DEF ConnectionInv
  <2>7. Pending = HeldPromises /\ QueueInv /\ SocketInv
    BY <1>1, <2>6 DEF ConnectionInv
  <2>8. Pending' = Pending \union {Fresh}
    BY <1>1, <1>3, AppendType DEF Pending
  <2>9. HeldPromises' = HeldPromises \union {Fresh}
    <3>1. HeldPromises = ({m_connectPromise} \ {0}) \union {m_commandQueue[i].promise : i \in 1..n}
      BY <1>1, <2>3, HeldType
    <3>2. HeldPromises' = ({m_connectPromise'} \ {0}) \union {m_commandQueue'[i].promise : i \in 1..n + 1}
      BY <2>3, <2>5, HeldTypeNext
    <3>3. {m_commandQueue'[i].promise : i \in 1..n + 1} = {m_commandQueue[i].promise : i \in 1..n} \union {Fresh}
      BY <2>1, <2>3
    <3> QED
      BY <1>3, <3>1, <3>2, <3>3
  <2>10. \A p \in Pending : p \in 1..Len(promised)
    BY <1>1 DEF Pending
  <2>11. /\ m_connectPromise \in Nat /\ (m_connectPromise # 0 => m_connectPromise \in 1..Len(promised))
         /\ \A i \in DOMAIN m_commandQueue : m_commandQueue[i].promise \in 1..Len(promised)
    BY <1>1, <2>7, <2>10, HeldType DEF ConnectionTypeOK
  <2>12. \A i \in 1..n : m_commandQueue[i].promise \in 1..Len(promised)
    BY <2>3, <2>11
  <2>13. m_connectPromise # Fresh
    BY <1>1, <2>11
  <2>14. QueueInv'
    BY <1>1, <1>3, <2>1, <2>3, <2>7, <2>12, <2>13 DEF QueueInv
  <2>15. SocketInv'
    <3>1. m_socket = "connected" => wire' = Payloads'
      <4>1. SUFFICES ASSUME m_socket = "connected" PROVE wire' = Payloads'
        OBVIOUS
      <4>2. wire' = Append(Payloads, Fresh)
        BY <1>3, <2>7, <4>1 DEF SocketInv
      <4>3. Payloads \in Seq(Nat \ {0}) /\ Len(Payloads) = n /\ Fresh \in Nat \ {0}
        <5>1. Payloads \in Seq(Nat \ {0}) /\ Len(Payloads) = Len(m_commandQueue)
          BY <2>1, PayloadsType DEF Payloads
        <5> QED
          BY <1>1, <5>1
      <4>4. /\ DOMAIN wire' = 1..n + 1 /\ wire'[n + 1] = Fresh
            /\ \A i \in 1..n : wire'[i] = Payloads[i]
            /\ wire' \in Seq(Nat \ {0})
        BY <2>3, <4>2, <4>3
      <4>5. wire' = [i \in 1..n + 1 |-> wire'[i]]
        BY <4>4
      <4>6. \A i \in 1..n + 1 : wire'[i] = m_commandQueue'[i].promise
        BY <2>1, <2>3, <4>4 DEF Payloads
      <4> QED
        BY <2>3, <4>5, <4>6 DEF Payloads
    <3> QED
      BY <1>3, <2>7, <3>1 DEF SocketInv
  <2> QED
    BY <2>7, <2>8, <2>9, <2>14, <2>15
<1>4. CASE SendNow /\ promised' = Append(Settled("error"), "error") /\ BreakDuringFlush
  <2>1. promised' \in Seq(Outcomes)
    BY <1>1, <1>4, SettledType, AppendType
  <2> QED
    BY <1>1, <1>4, <2>1, BreakInv
<1> QED
  BY <1>2, <1>3, <1>4 DEF Send, SendUnconnected, SendLater, SendNow

(* Setting one outcome. *)
LEMMA ExceptType ==
  ASSUME NEW s \in Seq(Outcomes), NEW k \in Nat, NEW outcome \in Outcomes
  PROVE  /\ [s EXCEPT ![k] = outcome] \in Seq(Outcomes)
         /\ Len([s EXCEPT ![k] = outcome]) = Len(s)
         /\ DOMAIN [s EXCEPT ![k] = outcome] = DOMAIN s
         /\ \A p \in DOMAIN s : [s EXCEPT ![k] = outcome][p] = IF p = k THEN outcome ELSE s[p]
<1> DEFINE t == [p \in 1..Len(s) |-> IF p = k THEN outcome ELSE s[p]]
<1>1. /\ s \in [1..Len(s) -> Outcomes] /\ Len(s) \in Nat
      /\ [s EXCEPT ![k] = outcome] = t
  OBVIOUS
<1>2. t \in Seq(Outcomes) /\ Len(t) = Len(s)
  BY <1>1
<1> QED
  BY <1>1, <1>2

(* handleSocketConnected() writes the whole queue. *)
LEMMA ConnectedInv ==
  ASSUME ConnectionInv, HandleSocketConnected
  PROVE  ConnectionInv'
<1>1. /\ ConnectionTypeOK /\ connection = "alive" /\ m_socket = "connecting"
      /\ promised \in Seq(Outcomes) /\ m_connectPromise \in Nat /\ Len(promised) \in Nat
      /\ DOMAIN promised = 1..Len(promised) /\ m_commandQueue \in Seq(Commands)
  BY DEF ConnectionInv, ConnectionTypeOK, HandleSocketConnected
<1>2. CASE /\ m_socket' = "connected" /\ m_connectPromise' = 0
           /\ promised' = [promised EXCEPT ![m_connectPromise] = "value"]
           /\ wire' = Payloads
           /\ UNCHANGED <<m_commandQueue, connection, risked>>
  <2>1. /\ promised' \in Seq(Outcomes) /\ Len(promised') = Len(promised)
        /\ DOMAIN promised' = DOMAIN promised
        /\ \A p \in DOMAIN promised : promised'[p] = IF p = m_connectPromise THEN "value" ELSE promised[p]
    <3>1. "value" \in Outcomes
      BY DEF Outcomes
    <3> QED
      BY <1>1, <1>2, <3>1, ExceptType
  <2>2. wire' \in Seq(Nat \ {0})
    BY <1>1, <1>2, PayloadsType DEF Payloads
  <2>3. ConnectionTypeOK'
    BY <1>1, <1>2, <2>1, <2>2 DEF ConnectionTypeOK, Sockets
  <2>4. SUFFICES ASSUME ~risked
                 PROVE  Pending' = HeldPromises' /\ QueueInv' /\ SocketInv'
    BY <1>1, <1>2, <2>3 DEF ConnectionInv
  <2>5. Pending = HeldPromises /\ QueueInv /\ SocketInv
    BY <1>1, <2>4 DEF ConnectionInv
  <2>6. Pending' = Pending \ {m_connectPromise}
    BY <2>1 DEF Pending
  <2>7. HeldPromises' = HeldPromises \ {m_connectPromise}
    <3>1. m_connectPromise \notin {m_commandQueue[i].promise : i \in DOMAIN m_commandQueue}
      BY <2>5 DEF QueueInv
    <3> QED
      BY <1>1, <1>2, <2>3, <3>1, HeldType, HeldTypeNext
  <2>8. QueueInv'
    BY <1>1, <1>2, <2>5, QueueType DEF QueueInv
  <2>9. SocketInv'
    BY <1>2 DEF SocketInv, Payloads
  <2> QED
    BY <2>5, <2>6, <2>7, <2>8, <2>9
<1>3. CASE /\ promised' = [Settled("error") EXCEPT ![m_connectPromise] = "value"]
           /\ BreakDuringFlush
  <2>1. Settled("error") \in Seq(Outcomes) /\ "value" \in Outcomes
    BY <1>1, SettledType DEF Outcomes
  <2>2. promised' \in Seq(Outcomes)
    BY <1>1, <1>3, <2>1, ExceptType
  <2> QED
    BY <1>1, <1>3, <2>2, BreakInv
<1> QED
  BY <1>2, <1>3 DEF HandleSocketConnected

(* handleSocketErrorOccured() fails all that is pending. *)
LEMMA ErrorInv ==
  ASSUME ConnectionInv, HandleSocketErrorOccured
  PROVE  ConnectionInv'
<1>1. CASE IsSetTwice /\ Crash
  BY <1>1, TwiceIsRisked, CrashInv DEF HandleSocketErrorOccured
<1>2. CASE ~(IsSetTwice /\ Crash)
  <2>1. /\ ConnectionTypeOK /\ connection = "alive"
        /\ m_socket' = "unconnected" /\ m_connectPromise' = 0 /\ m_commandQueue' = <<>>
        /\ promised' = Settled("error")
        /\ UNCHANGED <<wire, connection, risked>>
    BY <1>2 DEF HandleSocketErrorOccured, ConnectionInv, QueueAfterError
  <2>2. promised \in Seq(Outcomes) /\ promised' \in Seq(Outcomes) /\ Len(promised') = Len(promised)
    BY <2>1, SettledType DEF Outcomes, ConnectionTypeOK
  <2>3. ConnectionTypeOK'
    BY <2>1, <2>2 DEF ConnectionTypeOK, Sockets
  <2>4. ~risked => Pending' = {}
    <3>1. ~risked => \A p \in 1..Len(promised') : promised'[p] # "pending"
      BY <2>1, <2>2, NothingPending DEF ConnectionInv, Outcomes
    <3> QED
      BY <2>2, <3>1 DEF Pending
  <2>5. HeldPromises' = {}
    BY <2>1, <2>3, HeldTypeNext
  <2>6. QueueInv' /\ SocketInv'
    BY <2>1 DEF QueueInv, SocketInv
  <2> QED
    BY <2>1, <2>3, <2>4, <2>5, <2>6 DEF ConnectionInv
<1> QED
  BY <1>1, <1>2 DEF HandleSocketErrorOccured

(* ~StreamingConnection(). *)
LEMMA DestroyInv ==
  ASSUME ConnectionInv, DestroyConnection
  PROVE  ConnectionInv'
<1>1. ConnectionTypeOK'
  BY DEF ConnectionInv, ConnectionTypeOK, DestroyConnection, Sockets
<1> QED
  BY <1>1 DEF ConnectionInv, DestroyConnection

(* The connection starts in the invariant. *)
LEMMA ConnectionInitInv ==
  ASSUME InitConnection PROVE ConnectionInv
<1>1. ConnectionTypeOK
  <2>1. <<>> \in Seq(Commands) /\ <<>> \in Seq(Outcomes) /\ <<>> \in Seq(Nat \ {0})
    OBVIOUS
  <2> QED
    BY <2>1 DEF InitConnection, ConnectionTypeOK, Sockets
<1>2. HeldPromises = {}
  BY <1>1, HeldType DEF InitConnection
<1> QED
  BY <1>1, <1>2 DEF InitConnection, ConnectionInv, Pending, QueueInv, SocketInv

(* Every step of the connection keeps its invariant. *)
LEMMA ConnectionStepInv ==
  ASSUME ConnectionInv, NextConnection \/ UNCHANGED connectionVars
  PROVE  ConnectionInv'
<1>1. CASE UNCHANGED connectionVars
  BY <1>1 DEF connectionVars, ConnectionInv, ConnectionTypeOK, Pending, HeldPromises, Payloads,
      QueueInv, SocketInv
<1> QED
  BY <1>1, StartInv, StopInv, SendInv, DestroyInv, ConnectedInv, ErrorInv DEF NextConnection

-----------------------------------------------------------------------------
DiscoveryTypeOK ==
    /\ m_sockets \subseteq Addresses
    /\ heos \in {"none", "created", "destroyed"}
    /\ inbox \in [Addresses -> Seq(Datagrams)]
    /\ received \in Seq(Datagrams)
    /\ announced \in Seq(Nat)

(* Requests leave and datagrams arrive only while there is an entity to     *)
(* hear of them.                                                            *)
EntityInv ==
    /\ heos = "none" => requests = {}
    /\ heos = "destroyed" => m_sockets = {}
    /\ \A a \in Addresses : inbox[a] # <<>> => heos = "created"

(* What a datagram has to be like, as the property says it. *)
IsST(line) == line.colon /\ line.name \in SpellingsOfST
NamesUpTo(d, k) ==
    \E i \in 2..k :
        /\ IsST(d[i]) /\ Trimmed[d[i].value] = HeosTarget
        /\ \A j \in i + 1..k : ~IsST(d[j])
Counts(d) ==
    /\ ~d[1].colon /\ d[1].name = "HTTP/1.1 200 OK" /\ d[1].cr <= 1
    /\ NamesUpTo(d, Len(d))

(* The numbers of those that count of the first m datagrams, in order. *)
IsReport(numbers, datagrams, m) ==
    /\ \A n \in 1..m : Counts(datagrams[n]) => \E i \in DOMAIN numbers : numbers[i] = n
    /\ \A i \in DOMAIN numbers : numbers[i] \in 1..m /\ Counts(datagrams[numbers[i]])
    /\ \A i, j \in DOMAIN numbers : i < j => numbers[i] < numbers[j]

(* What was reported is what counts of all that was read: the loop of       *)
(* readPendingDatagrams() goes on where the last one stopped.               *)
DiscoveryInv == DiscoveryTypeOK /\ EntityInv /\ IsReport(announced, received, Len(received))

(* The property follows from the invariant. *)
LEMMA DevicesAreFoundFromInv ==
  ASSUME DiscoveryInv PROVE DevicesAreFound
<1>1. /\ \A n \in DOMAIN received : Counts(received[n]) => \E i \in DOMAIN announced : announced[i] = n
      /\ \A i \in DOMAIN announced : announced[i] \in DOMAIN received /\ Counts(received[announced[i]])
      /\ \A i, j \in DOMAIN announced : i < j => announced[i] < announced[j]
  <2>1. DOMAIN received = 1..Len(received)
    BY DEF DiscoveryInv, DiscoveryTypeOK
  <2> QED
    BY <2>1 DEF DiscoveryInv, IsReport
<1>2. ToSet(announced) = {n \in DOMAIN received : Counts(received[n])}
  BY <1>1 DEF ToSet
<1> QED
  BY <1>1, <1>2 DEF DevicesAreFound, Counts, NamesUpTo, IsST

(* The lines of a datagram. *)
LEMMA DatagramType ==
  ASSUME NEW d \in Datagrams
  PROVE  /\ d \in Seq(Lines) /\ Len(d) \in Nat /\ Len(d) >= 1 /\ DOMAIN d = 1..Len(d)
         /\ \A i \in 1..Len(d) :
                /\ d[i] \in Lines /\ d[i].colon \in BOOLEAN /\ d[i].cr \in Nat
                /\ d[i].colon => d[i].name \in DOMAIN LowerCase
                /\ ~d[i].colon => d[i].value = ""
<1>1. d \in Seq(Lines) /\ d # <<>>
  BY DatagramsAssumption
<1>2. Len(d) \in Nat /\ Len(d) >= 1 /\ DOMAIN d = 1..Len(d) /\ \A i \in 1..Len(d) : d[i] \in Lines
  BY <1>1
<1>3. \A i \in 1..Len(d) : d[i].colon \in BOOLEAN /\ d[i].cr \in Nat
  BY <1>2 DEF Lines
<1>4. \A i \in 1..Len(d) : IF d[i].colon THEN d[i].name \in DOMAIN LowerCase ELSE d[i].value = ""
  BY <1>2, DatagramsAssumption
<1> QED
  BY <1>1, <1>2, <1>3, <1>4

(* The status line, with or without its '\r'. *)
LEMMA ReplyLine ==
  ASSUME NEW d \in Datagrams
  PROVE  IsReply(d) <=> ~d[1].colon /\ d[1].name = "HTTP/1.1 200 OK" /\ d[1].cr <= 1
<1>1. d[1] \in Lines /\ (~d[1].colon => d[1].value = "")
  <2>1. Len(d) \in Nat /\ Len(d) >= 1
    BY DatagramType
  <2>2. 1 \in 1..Len(d)
    BY <2>1
  <2> QED
    BY <2>2, DatagramType
<1> DEFINE l == d[1]
<1>2. l = [colon |-> l.colon, name |-> l.name, value |-> l.value, cr |-> l.cr] /\ l.cr \in Nat
  BY <1>1 DEF Lines
<1> HIDE DEF l
<1>3. Chopped(l) = [colon |-> l.colon, name |-> l.name, value |-> l.value,
                    cr |-> IF l.cr > 0 THEN l.cr - 1 ELSE l.cr]
  BY <1>2 DEF Chopped
<1>4. IsReply(d) <=> Chopped(l) = StatusLine
  BY DEF IsReply, l
<1>5. l.colon \in BOOLEAN /\ (~l.colon => l.value = "")
  BY <1>1 DEF l, Lines
<1>6. Chopped(l) = StatusLine <=> ~l.colon /\ l.name = "HTTP/1.1 200 OK" /\ l.cr <= 1
  <2> DEFINE c == IF l.cr > 0 THEN l.cr - 1 ELSE l.cr
  <2>1. c = 0 <=> l.cr <= 1
    BY <1>2
  <2>2. Chopped(l) = [colon |-> l.colon, name |-> l.name, value |-> l.value, cr |-> c]
    BY <1>3
  <2> HIDE DEF c
  <2>3. Chopped(l) = StatusLine <=>
            l.colon = FALSE /\ l.name = "HTTP/1.1 200 OK" /\ l.value = "" /\ c = 0
    <3>1. ASSUME Chopped(l) = StatusLine
          PROVE  l.colon = FALSE /\ l.name = "HTTP/1.1 200 OK" /\ l.value = "" /\ c = 0
      <4>1. /\ Chopped(l).colon = l.colon /\ Chopped(l).name = l.name
            /\ Chopped(l).value = l.value /\ Chopped(l).cr = c
        BY <2>2
      <4>2. /\ StatusLine.colon = FALSE /\ StatusLine.name = "HTTP/1.1 200 OK"
            /\ StatusLine.value = "" /\ StatusLine.cr = 0
        BY DEF StatusLine
      <4>3. l.colon = StatusLine.colon
        BY <3>1, <4>1
      <4>4. l.colon = FALSE
        BY <4>2, <4>3, Zenon
      <4> QED
        BY <3>1, <4>1, <4>2, <4>4
    <3>2. ASSUME l.colon = FALSE, l.name = "HTTP/1.1 200 OK", l.value = "", c = 0
          PROVE  Chopped(l) = StatusLine
      BY <2>2, <3>2 DEF StatusLine
    <3> QED
      BY <3>1, <3>2
  <2>4. l.colon = FALSE <=> ~l.colon
    BY <1>5
  <2> QED
    BY <1>5, <2>1, <2>3, <2>4
<1> QED
  BY <1>4, <1>6 DEF l

(* One line more: the search target is that of the last line that names one. *)
LEMMA OneLine ==
  ASSUME NEW d \in Datagrams, NEW k \in 2..Len(d), NEW reply,
         DOMAIN reply = {"searchTarget", "headers"},
         reply.searchTarget = HeosTarget <=> NamesUpTo(d, k - 1)
  PROVE  /\ DOMAIN WithLine(reply, d[k]) = {"searchTarget", "headers"}
         /\ WithLine(reply, d[k]).searchTarget = HeosTarget <=> NamesUpTo(d, k)
<1>1. k \in 1..Len(d) /\ k - 1 \in 1..Len(d) /\ k \in Nat /\ d[k].colon \in BOOLEAN
  <2>1. Len(d) \in Nat
    BY DatagramType
  <2>2. k \in 1..Len(d) /\ k - 1 \in 1..Len(d) /\ k \in Nat
    BY <2>1
  <2> QED
    BY <2>2, DatagramType
<1>2. IsST(d[k]) <=> d[k].colon /\ LowerCase[d[k].name] = "st"
  BY <1>1, DatagramType, LowerCaseAssumption DEF IsST
<1>3. /\ DOMAIN WithLine(reply, d[k]) = {"searchTarget", "headers"}
      /\ WithLine(reply, d[k]).searchTarget =
            IF IsST(d[k]) THEN Trimmed[d[k].value] ELSE reply.searchTarget
  BY <1>2 DEF WithLine
<1>4. CASE IsST(d[k])
  <2>1. NamesUpTo(d, k) <=> Trimmed[d[k].value] = HeosTarget
    BY <1>1, <1>4 DEF NamesUpTo
  <2> QED
    BY <1>3, <1>4, <2>1
<1>5. CASE ~IsST(d[k])
  <2>1. NamesUpTo(d, k) <=> NamesUpTo(d, k - 1)
    BY <1>1, <1>5 DEF NamesUpTo
  <2> QED
    BY <1>3, <1>5, <2>1
<1> QED
  BY <1>4, <1>5

(* The search target of a parsed answer is the one its last "ST" line       *)
(* names: by induction over the lines.                                      *)
LEMMA ParsedTarget ==
  ASSUME NEW d \in Datagrams
  PROVE  Parsed(d).searchTarget = HeosTarget <=> NamesUpTo(d, Len(d))
<1> DEFINE n == Len(d)
           Following(f, i) == IF i = 1 THEN EmptyReply ELSE WithLine(f[i - 1], d[i])
           IsLoop(f, k) == f = [i \in 1..k |-> Following(f, i)]
           Defined == {k \in Nat : \E f : IsLoop(f, k)}
<1>1. n \in Nat /\ n >= 1
  BY DatagramType
<1>2. 0 \in Defined
  <2> DEFINE f == [i \in 1..0 |-> EmptyReply]
  <2>1. IsLoop(f, 0)
    OBVIOUS
  <2> HIDE DEF f, IsLoop
  <2> QED
    BY <2>1
<1>3. \A k \in Nat : k \in Defined => k + 1 \in Defined
  <2>1. SUFFICES ASSUME NEW k \in Nat, NEW f, IsLoop(f, k) PROVE \E g : IsLoop(g, k + 1)
    <3> HIDE DEF IsLoop
    <3> QED
      OBVIOUS
  <2> DEFINE g == [i \in 1..k + 1 |-> IF i <= k THEN f[i] ELSE Following(f, i)]
  <2>2. \A i \in 1..k : f[i] = Following(f, i)
    BY <2>1
  <2>3. \A i \in 1..k + 1 : g[i] = Following(g, i)
    BY <2>2
  <2>4. IsLoop(g, k + 1)
    BY <2>3
  <2> HIDE DEF g, IsLoop
  <2> QED
    BY <2>4
<1>4. \E f : IsLoop(f, n)
  <2> HIDE DEF IsLoop
  <2>1. n \in Defined
    <3> HIDE DEF Defined
    <3> QED
      BY <1>1, <1>2, <1>3, SetInduction
  <2> QED
    BY <2>1
<1> DEFINE reply == CHOOSE f : IsLoop(f, n)
<1>5. IsLoop(reply, n)
  <2> HIDE DEF IsLoop
  <2> QED
    BY <1>4
<1>6. Parsed(d) = reply[n]
  BY DEF Parsed
<1> HIDE DEF reply
<1>7. \A i \in 1..n : reply[i] = IF i = 1 THEN EmptyReply ELSE WithLine(reply[i - 1], d[i])
  BY <1>5
<1> HIDE DEF IsLoop, Following
<1> DEFINE Good == {k \in Nat : k \in 1..n =>
                        /\ DOMAIN reply[k] = {"searchTarget", "headers"}
                        /\ reply[k].searchTarget = HeosTarget <=> NamesUpTo(d, k)}
<1>8. \A k \in Nat : k \in Good => k + 1 \in Good
  <2>1. SUFFICES ASSUME NEW k \in Nat, k \in Good, k + 1 \in 1..n
                 PROVE  /\ DOMAIN reply[k + 1] = {"searchTarget", "headers"}
                        /\ reply[k + 1].searchTarget = HeosTarget <=> NamesUpTo(d, k + 1)
    OBVIOUS
  <2>2. CASE k = 0
    <3>1. reply[k + 1] = EmptyReply
      BY <1>7, <2>1, <2>2
    <3>2. ~NamesUpTo(d, k + 1)
      BY <2>2 DEF NamesUpTo
    <3>3. DOMAIN EmptyReply = {"searchTarget", "headers"} /\ EmptyReply.searchTarget # HeosTarget
      BY TargetAssumption DEF EmptyReply
    <3> HIDE DEF n
    <3> QED
      BY <3>1, <3>2, <3>3
  <2>3. CASE k # 0
    <3>1. k + 1 \in 2..n /\ (k + 1) - 1 = k /\ k \in 1..n
      BY <1>1, <2>1, <2>3
    <3>2. /\ DOMAIN reply[k] = {"searchTarget", "headers"}
          /\ reply[k].searchTarget = HeosTarget <=> NamesUpTo(d, k)
      BY <2>1, <3>1
    <3>3. reply[k + 1] = WithLine(reply[k], d[k + 1])
      BY <1>7, <3>1
    <3> HIDE DEF Good, n
    <3>4. k + 1 \in 2..Len(d)
      BY <3>1 DEF n
    <3>5. ASSUME NEW m \in 2..Len(d), m - 1 = k, m = k + 1
          PROVE  /\ DOMAIN WithLine(reply[k], d[m]) = {"searchTarget", "headers"}
                 /\ WithLine(reply[k], d[m]).searchTarget = HeosTarget <=> NamesUpTo(d, m)
      BY <3>2, <3>5, OneLine
    <3> QED
      BY <3>1, <3>3, <3>4, <3>5
  <2> QED
    BY <2>2, <2>3
<1>9. 0 \in Good
  OBVIOUS
<1>10. n \in Good
  <2> HIDE DEF Good
  <2> QED
    BY <1>1, <1>8, <1>9, SetInduction
<1> QED
  BY <1>1, <1>6, <1>10

(* The code's test of a datagram is the property's. *)
LEMMA AnnouncedCounts ==
  ASSUME NEW d \in Datagrams, heos = "created"
  PROVE  IsAnnounced(d) <=> Counts(d)
BY ReplyLine, ParsedTarget DEF IsAnnounced, Counts

(* One datagram more. *)
LEMMA OneDatagram ==
  ASSUME NEW numbers \in Seq(Nat), NEW datagrams, NEW m \in Nat,
         IsReport(numbers, datagrams, m)
  PROVE  /\ Append(numbers, m + 1) \in Seq(Nat)
         /\ Counts(datagrams[m + 1]) => IsReport(Append(numbers, m + 1), datagrams, m + 1)
         /\ ~Counts(datagrams[m + 1]) => IsReport(numbers, datagrams, m + 1)
<1> DEFINE more == Append(numbers, m + 1)
           n == Len(numbers)
<1>1. /\ more \in Seq(Nat) /\ n \in Nat /\ DOMAIN numbers = 1..n /\ DOMAIN more = 1..n + 1
      /\ \A i \in 1..n : more[i] = numbers[i]
      /\ more[n + 1] = m + 1
  <2>1. m + 1 \in Nat
    OBVIOUS
  <2> QED
    BY <2>1, AppendProperties, LenProperties
<1> HIDE DEF more, n
<1>2. /\ \A k \in 1..m : Counts(datagrams[k]) => \E i \in 1..n : numbers[i] = k
      /\ \A i \in 1..n : numbers[i] \in 1..m /\ Counts(datagrams[numbers[i]])
      /\ \A i, j \in 1..n : i < j => numbers[i] < numbers[j]
  BY <1>1 DEF IsReport
<1>3. ASSUME ~Counts(datagrams[m + 1]) PROVE IsReport(numbers, datagrams, m + 1)
  <2>1. \A k \in 1..m + 1 : Counts(datagrams[k]) => k \in 1..m
    BY <1>3
  <2>2. \A i \in 1..n : numbers[i] \in 1..m + 1
    BY <1>2
  <2> QED
    BY <1>1, <1>2, <2>1, <2>2 DEF IsReport
<1>4. ASSUME Counts(datagrams[m + 1]) PROVE IsReport(more, datagrams, m + 1)
  <2>1. ASSUME NEW k \in 1..m + 1, Counts(datagrams[k]) PROVE \E i \in DOMAIN more : more[i] = k
    <3>1. CASE k = m + 1
      BY <1>1, <3>1
    <3>2. CASE k # m + 1
      <4>1. PICK i \in 1..n : numbers[i] = k
        BY <1>2, <2>1, <3>2
      <4>2. more[i] = k
        BY <1>1, <4>1
      <4>3. i \in DOMAIN more
        BY <1>1, <4>1
      <4> QED
        BY <4>2, <4>3
    <3> QED
      BY <3>1, <3>2
  <2>2. ASSUME NEW i \in DOMAIN more PROVE more[i] \in 1..m + 1 /\ Counts(datagrams[more[i]])
    <3>1. CASE i = n + 1
      BY <1>1, <1>4, <3>1
    <3>2. CASE i \in 1..n
      BY <1>1, <1>2, <3>2
    <3> QED
      BY <1>1, <2>2, <3>1, <3>2
  <2>3. ASSUME NEW i \in DOMAIN more, NEW j \in DOMAIN more, i < j PROVE more[i] < more[j]
    <3>1. i \in 1..n
      BY <1>1, <2>3
    <3>2. CASE j = n + 1
      <4>1. numbers[i] \in 1..m
        BY <1>2, <3>1
      <4>2. more[i] = numbers[i]
        BY <1>1, <3>1
      <4>3. more[j] = m + 1
        BY <1>1, <3>2
      <4>4. numbers[i] < m + 1
        BY <4>1
      <4> QED
        BY <4>2, <4>3, <4>4
    <3>3. CASE j \in 1..n
      BY <1>1, <1>2, <2>3, <3>1, <3>3
    <3> QED
      BY <1>1, <3>2, <3>3
  <2> QED
    BY <2>1, <2>2, <2>3 DEF IsReport
<1> QED
  BY <1>1, <1>3, <1>4 DEF more

(* A readyRead() extends the report by what it reads: by induction over the *)
(* pending datagrams.                                                       *)
LEMMA AnnouncingReports ==
  ASSUME DiscoveryInv, heos = "created", NEW new \in Seq(Datagrams)
  PROVE  /\ Announcing(new) \in Seq(Nat)
         /\ IsReport(Announcing(new), received \o new, Len(received) + Len(new))
<1> DEFINE n == Len(new)
           old == Len(received)
           all == received \o new
           Following(f, i) == IF i = 0 THEN announced
                         ELSE IF IsAnnounced(new[i]) THEN Append(f[i - 1], old + i)
                         ELSE f[i - 1]
           IsLoop(f, k) == f = [i \in 0..k |-> Following(f, i)]
           Defined == {k \in Nat : \E f : IsLoop(f, k)}
<1>1. /\ n \in Nat /\ old \in Nat
      /\ \A i \in 1..n : new[i] \in Datagrams /\ all[old + i] = new[i]
      /\ \A i \in 1..old : all[i] = received[i]
      /\ announced \in Seq(Nat) /\ IsReport(announced, received, old)
  BY ConcatProperties DEF DiscoveryInv, DiscoveryTypeOK
<1>2. 0 \in Defined
  <2> DEFINE f == [i \in 0..0 |-> announced]
  <2>1. IsLoop(f, 0)
    OBVIOUS
  <2> HIDE DEF f, IsLoop
  <2> QED
    BY <2>1
<1>3. \A k \in Nat : k \in Defined => k + 1 \in Defined
  <2>1. SUFFICES ASSUME NEW k \in Nat, NEW f, IsLoop(f, k) PROVE \E g : IsLoop(g, k + 1)
    <3> HIDE DEF IsLoop
    <3> QED
      OBVIOUS
  <2> DEFINE g == [i \in 0..k + 1 |-> IF i <= k THEN f[i] ELSE Following(f, i)]
  <2>2. \A i \in 0..k : f[i] = Following(f, i)
    BY <2>1
  <2>3. \A i \in 0..k + 1 : g[i] = Following(g, i)
    BY <2>2
  <2>4. IsLoop(g, k + 1)
    BY <2>3
  <2> HIDE DEF g, IsLoop
  <2> QED
    BY <2>4
<1>4. \E f : IsLoop(f, n)
  <2> HIDE DEF IsLoop
  <2>1. n \in Defined
    <3> HIDE DEF Defined
    <3> QED
      BY <1>1, <1>2, <1>3, SetInduction
  <2> QED
    BY <2>1
<1> DEFINE read == CHOOSE f : IsLoop(f, n)
<1>5. IsLoop(read, n)
  <2> HIDE DEF IsLoop
  <2> QED
    BY <1>4
<1>6. Announcing(new) = read[n]
  BY DEF Announcing
<1> HIDE DEF read
<1>7. \A i \in 0..n : read[i] = Following(read, i)
  BY <1>5
<1> HIDE DEF IsLoop
<1> DEFINE Good == {k \in Nat : k \in 0..n => read[k] \in Seq(Nat) /\ IsReport(read[k], all, old + k)}
<1>8. 0 \in Good
  <2>1. read[0] = announced
    BY <1>1, <1>7
  <2>2. IsReport(announced, all, old)
    BY <1>1 DEF IsReport
  <2> HIDE DEF all, old
  <2>3. old + 0 = old
    BY <1>1
  <2> QED
    BY <1>1, <2>1, <2>2, <2>3
<1>9. \A k \in Nat : k \in Good => k + 1 \in Good
  <2>1. SUFFICES ASSUME NEW k \in Nat, k \in Good, k + 1 \in 0..n
                 PROVE  read[k + 1] \in Seq(Nat) /\ IsReport(read[k + 1], all, old + (k + 1))
    OBVIOUS
  <2>2. k \in 0..n /\ k + 1 \in 1..n /\ (k + 1) - 1 = k /\ k + 1 # 0
    BY <1>1, <2>1
  <2>3. read[k] \in Seq(Nat) /\ IsReport(read[k], all, old + k)
    BY <2>1, <2>2
  <2>4. read[k + 1] = IF IsAnnounced(new[k + 1]) THEN Append(read[k], old + (k + 1)) ELSE read[k]
    BY <1>7, <2>2
  <2>5. IsAnnounced(new[k + 1]) <=> Counts(all[old + (k + 1)])
    BY <1>1, <2>2, AnnouncedCounts
  <2>6. old + k \in Nat /\ (old + k) + 1 = old + (k + 1)
    BY <1>1
  <2> HIDE DEF all, old, n, Good, Following
  <2>7. /\ Append(read[k], (old + k) + 1) \in Seq(Nat)
        /\ Counts(all[(old + k) + 1]) => IsReport(Append(read[k], (old + k) + 1), all, (old + k) + 1)
        /\ ~Counts(all[(old + k) + 1]) => IsReport(read[k], all, (old + k) + 1)
    BY <2>3, <2>6, OneDatagram
  <2> QED
    BY <2>3, <2>4, <2>5, <2>6, <2>7
<1>10. n \in Good
  <2> HIDE DEF Good
  <2> QED
    BY <1>1, <1>8, <1>9, SetInduction
<1> QED
  BY <1>1, <1>6, <1>10

(* The discovery starts in its invariant. *)
LEMMA DiscoveryInitInv ==
  ASSUME InitDiscovery PROVE DiscoveryInv
<1>1. <<>> \in Seq(Datagrams) /\ <<>> \in Seq(Nat)
  OBVIOUS
<1>2. DiscoveryTypeOK
  BY <1>1 DEF InitDiscovery, DiscoveryTypeOK
<1> QED
  BY <1>2 DEF InitDiscovery, DiscoveryInv, EntityInv, IsReport

(* One readyRead(). *)
LEMMA ReadPendingDatagramsInv ==
  ASSUME DiscoveryInv, NEW a \in Addresses, ReadPendingDatagrams(a)
  PROVE  DiscoveryInv'
<1>1. /\ inbox[a] # <<>> /\ received' = received \o inbox[a] /\ announced' = Announcing(inbox[a])
      /\ inbox' = [inbox EXCEPT ![a] = <<>>]
      /\ UNCHANGED <<m_sockets, m_started, heos, requests, warned>>
      /\ inbox[a] \in Seq(Datagrams) /\ received \in Seq(Datagrams) /\ heos = "created"
  BY DEF ReadPendingDatagrams, DiscoveryInv, DiscoveryTypeOK, EntityInv
<1>2. /\ received' \in Seq(Datagrams) /\ Len(received') = Len(received) + Len(inbox[a])
  BY <1>1, ConcatProperties
<1>3. announced' \in Seq(Nat) /\ IsReport(announced', received', Len(received'))
  BY <1>1, <1>2, AnnouncingReports
<1>4. inbox' \in [Addresses -> Seq(Datagrams)] /\ \A b \in Addresses : inbox'[b] # <<>> => inbox[b] # <<>>
  <2>1. <<>> \in Seq(Datagrams)
    OBVIOUS
  <2> QED
    BY <1>1, <2>1 DEF DiscoveryInv, DiscoveryTypeOK
<1>5. DiscoveryTypeOK'
  BY <1>1, <1>2, <1>3, <1>4 DEF DiscoveryInv, DiscoveryTypeOK
<1>6. EntityInv'
  BY <1>1, <1>4 DEF DiscoveryInv, EntityInv
<1> QED
  BY <1>3, <1>5, <1>6 DEF DiscoveryInv

(* A datagram that arrives is read by nobody yet. *)
LEMMA ArriveInv ==
  ASSUME DiscoveryInv, Arrive
  PROVE  DiscoveryInv'
<1>1. PICK request \in requests, d \in Datagrams :
        /\ request.from \in m_sockets
        /\ inbox' = [inbox EXCEPT ![request.from] = Append(@, d)]
        /\ UNCHANGED <<m_sockets, m_started, heos, requests, warned, received, announced>>
  BY DEF Arrive
<1>2. heos = "created" /\ request.from \in Addresses
  BY <1>1 DEF DiscoveryInv, DiscoveryTypeOK, EntityInv
<1>3. Append(inbox[request.from], d) \in Seq(Datagrams)
  BY <1>1, <1>2, AppendProperties DEF DiscoveryInv, DiscoveryTypeOK
<1>4. DiscoveryTypeOK'
  BY <1>1, <1>2, <1>3 DEF DiscoveryInv, DiscoveryTypeOK
<1> QED
  BY <1>1, <1>2, <1>4 DEF DiscoveryInv, EntityInv

(* Every step of the discovery keeps its invariant. *)
LEMMA DiscoveryStepInv ==
  ASSUME DiscoveryInv, NextDiscovery \/ UNCHANGED discoveryVars
  PROVE  DiscoveryInv'
<1>1. CASE UNCHANGED discoveryVars
  BY <1>1 DEF discoveryVars, DiscoveryInv, DiscoveryTypeOK, EntityInv
<1>2. CASE StartEndpoint
  <2>1. DiscoveryTypeOK'
    BY <1>2 DEF StartEndpoint, DiscoveryInv, DiscoveryTypeOK
  <2> QED
    BY <1>2, <2>1 DEF StartEndpoint, DiscoveryInv, EntityInv
<1>3. CASE CreateHeos
  <2>1. DiscoveryTypeOK'
    BY <1>3 DEF CreateHeos, DiscoveryInv, DiscoveryTypeOK
  <2> QED
    BY <1>3, <2>1 DEF CreateHeos, DiscoveryInv, EntityInv
<1>4. CASE DestroyHeos
  <2>1. DiscoveryTypeOK'
    <3>1. <<>> \in Seq(Datagrams)
      OBVIOUS
    <3> QED
      BY <1>4, <3>1 DEF DestroyHeos, DiscoveryInv, DiscoveryTypeOK
  <2> QED
    BY <1>4, <2>1 DEF DestroyHeos, DiscoveryInv, EntityInv
<1> QED
  BY <1>1, <1>2, <1>3, <1>4, ArriveInv, ReadPendingDatagramsInv DEF NextDiscovery

-----------------------------------------------------------------------------
Infos == [device : STRING, monitorIndex : Nat, text : STRING, id : STRING]
Physicals == [device : STRING, index : Nat, is : Panels]
Enumerations == [list : Seq(Infos), seen : Topologies]

(* A list that enumMonitors() may return for t. *)
IsListOf(list, t) ==
    \A k \in DOMAIN list :
        \E a \in DOMAIN t.adapters : \E j \in DOMAIN t.adapters[a].monitors :
            /\ ~t.adapters[a].mirroring
            /\ list[k] = [device |-> t.adapters[a].name, monitorIndex |-> j,
                          text |-> t.adapters[a].monitors[j].text,
                          id |-> t.adapters[a].monitors[j].id]

EnumerationTypeOK ==
    /\ topology \in Topologies
    /\ infos \in Seq(Enumerations)
    /\ handlesMade \in Nat
    /\ IsFiniteSet(winMonitors)

(* Every handle was made by a finished enumeration, is open as long as its  *)
(* WinMonitor lives and is given once.                                      *)
HandleInv ==
    /\ openHandles = {m.handle : m \in winMonitors}
    /\ \A m \in winMonitors : m.handle \in 1..handlesMade /\ m.enumeration \in finished
    /\ \A m, n \in winMonitors : m.handle = n.handle => m = n

(* The list of an enumeration is one of what it saw, which may be no longer *)
(* what is plugged in; ids are unique in an enumeration, and right if there *)
(* was no change.                                                           *)
DeviceIdInv ==
    /\ \A e \in DOMAIN infos : IsListOf(infos[e].list, infos[e].seen)
    /\ \A m, n \in winMonitors : m.enumeration = n.enumeration /\ m.deviceId = n.deviceId => m = n
    /\ \A m \in winMonitors : m.steady /\ m.deviceId[1] = "device" => m.deviceId[2] = m.is.id

(* Handles are new because they are counted, so the numbers that were given *)
(* are part of it.                                                          *)
EnumerationInv == EnumerationTypeOK /\ HandleInv /\ DeviceIdInv

-----------------------------------------------------------------------------
(* The parts of what is plugged in. *)
LEMMA TopologyType ==
  ASSUME NEW t \in Topologies
  PROVE  /\ t.adapters \in Seq(Adapters) /\ t.displays \in Seq(Displays)
         /\ DOMAIN t.adapters = 1..Len(t.adapters) /\ Len(t.adapters) \in Nat
         /\ DOMAIN t.displays = 1..Len(t.displays) /\ Len(t.displays) \in Nat
         /\ \A a \in DOMAIN t.adapters :
                /\ t.adapters[a].name \in STRING /\ t.adapters[a].mirroring \in BOOLEAN
                /\ t.adapters[a].monitors \in Seq(Panels)
         /\ \A d \in DOMAIN t.displays :
                t.displays[d].device \in STRING /\ t.displays[d].physical \in Seq(Panels)
<1>1. t.adapters \in Seq(Adapters) /\ t.displays \in Seq(Displays)
  BY TopologiesAssumption
<1>2. /\ \A a \in DOMAIN t.adapters : t.adapters[a] \in Adapters
      /\ \A d \in DOMAIN t.displays : t.displays[d] \in Displays
  BY <1>1
<1> QED
  BY <1>1, <1>2 DEF Adapters, Displays

(* A monitor in a list. *)
LEMMA PanelType ==
  ASSUME NEW s \in Seq(Panels), NEW j \in DOMAIN s
  PROVE  j \in Nat /\ s[j] \in Panels /\ s[j].text \in STRING /\ s[j].id \in STRING
<1>1. s[j] \in Panels /\ j \in Nat
  OBVIOUS
<1> QED
  BY <1>1 DEF Panels

(* enumMonitors() lists what is plugged in. *)
LEMMA MonitorInfosProperties ==
  ASSUME NEW t \in Topologies
  PROVE  /\ MonitorInfos(t.adapters) \in Seq(Infos)
         /\ IsListOf(MonitorInfos(t.adapters), t)
<1> DEFINE of(a) == IF a.mirroring THEN <<>>
                    ELSE [j \in DOMAIN a.monitors |->
                            [device |-> a.name, monitorIndex |-> j,
                             text |-> a.monitors[j].text, id |-> a.monitors[j].id]]
           ss == [i \in DOMAIN t.adapters |-> of(t.adapters[i])]
           list == FlattenSeq(ss)
<1>1. MonitorInfos(t.adapters) = list
  BY DEF MonitorInfos
<1>2. ASSUME NEW i \in DOMAIN t.adapters PROVE ss[i] \in Seq(Infos)
  <2>1. CASE t.adapters[i].mirroring
    BY <2>1
  <2>2. CASE ~t.adapters[i].mirroring
    <3>1. /\ DOMAIN t.adapters[i].monitors = 1..Len(t.adapters[i].monitors)
          /\ Len(t.adapters[i].monitors) \in Nat
      BY TopologyType
    <3>2. ASSUME NEW j \in DOMAIN t.adapters[i].monitors
          PROVE  [device |-> t.adapters[i].name, monitorIndex |-> j,
                  text |-> t.adapters[i].monitors[j].text,
                  id |-> t.adapters[i].monitors[j].id] \in Infos
      BY TopologyType, PanelType DEF Infos
    <3> HIDE DEF Infos
    <3>3. ss[i] = [j \in 1..Len(t.adapters[i].monitors) |->
                    [device |-> t.adapters[i].name, monitorIndex |-> j,
                     text |-> t.adapters[i].monitors[j].text, id |-> t.adapters[i].monitors[j].id]]
      BY <2>2, <3>1
    <3> HIDE DEF ss
    <3> QED
      BY <3>1, <3>2, <3>3
  <2> QED
    BY <2>1, <2>2
<1>3. ss \in [1..Len(t.adapters) -> Seq(Infos)] /\ Len(t.adapters) \in Nat
  BY <1>2, TopologyType
<1>4. /\ list \in Seq(Infos)
      /\ \A k \in DOMAIN list : \E a \in 1..Len(t.adapters) : \E j \in DOMAIN ss[a] : list[k] = ss[a][j]
  <2> DEFINE n == Len(t.adapters)
  <2>1. n \in Nat /\ ss \in [1..n -> Seq(Infos)]
    BY <1>3
  <2> HIDE DEF ss, n, Infos
  <2>2. /\ FlattenSeq(ss) \in Seq(Infos)
        /\ \A k \in DOMAIN FlattenSeq(ss) :
                \E a \in 1..n : \E j \in DOMAIN ss[a] : FlattenSeq(ss)[k] = ss[a][j]
    BY <2>1, FlattenProperties DEF IsFrom
  <2> QED
    BY <2>2 DEF n
<1>5. IsListOf(list, t)
  <2>1. SUFFICES ASSUME NEW k \in DOMAIN list, NEW a \in DOMAIN t.adapters, NEW j \in DOMAIN ss[a],
                        list[k] = ss[a][j]
                 PROVE  /\ ~t.adapters[a].mirroring /\ j \in DOMAIN t.adapters[a].monitors
                        /\ list[k] = [device |-> t.adapters[a].name, monitorIndex |-> j,
                                      text |-> t.adapters[a].monitors[j].text,
                                      id |-> t.adapters[a].monitors[j].id]
    <3> HIDE DEF list, ss
    <3>1. \A k \in DOMAIN list : \E a \in DOMAIN t.adapters : \E j \in DOMAIN ss[a] : list[k] = ss[a][j]
      BY <1>4, TopologyType
    <3> QED
      BY <3>1 DEF IsListOf
  <2>2. ss[a] = of(t.adapters[a])
    OBVIOUS
  <2>3. ~t.adapters[a].mirroring
    <3>1. SUFFICES ASSUME t.adapters[a].mirroring PROVE FALSE
      OBVIOUS
    <3>2. ss[a] = <<>>
      BY <2>2, <3>1
    <3> HIDE DEF ss
    <3> QED
      BY <3>2
  <2> HIDE DEF list
  <2> QED
    BY <2>1, <2>2, <2>3
<1> QED
  BY <1>1, <1>4, <1>5

(* The id that is found belongs to an element of the list that fits. *)
LEMMA DeviceIdFits ==
  ASSUME NEW list \in Seq(Infos), NEW device, NEW index, NEW text,
         MonitorDeviceId(list, device, index, text) # NoId
  PROVE  \E k \in DOMAIN list :
            /\ list[k].monitorIndex = index /\ list[k].device = device
            /\ list[k].text = text /\ list[k].id # "malformed"
            /\ MonitorDeviceId(list, device, index, text) = list[k].id
<1> DEFINE fits == {k \in DOMAIN list : list[k].monitorIndex = index /\ list[k].device = device
                                        /\ list[k].text = text /\ list[k].id # "malformed"}
<1>1. fits \in SUBSET Nat
  OBVIOUS
<1>2. MonitorDeviceId(list, device, index, text) = IF fits = {} THEN NoId ELSE list[Min(fits)].id
  BY DEF MonitorDeviceId
<1>3. fits # {} => Min(fits) \in fits
  <2> HIDE DEF fits
  <2> QED
    BY <1>1, MinIsLeast
<1> QED
  BY <1>2, <1>3

(* The physical monitors of the displays that can be read, each once. *)
LEMMA PhysicalMonitorsProperties ==
  ASSUME NEW t \in Topologies, NEW readable
  PROVE  LET physical == PhysicalMonitors(t.displays, readable)
         IN  /\ physical \in Seq(Physicals)
             /\ \A k \in DOMAIN physical :
                    \E d \in DOMAIN t.displays : \E j \in DOMAIN t.displays[d].physical :
                        physical[k] = [device |-> t.displays[d].device, index |-> j,
                                       is |-> t.displays[d].physical[j]]
             /\ \A k, l \in DOMAIN physical :
                    physical[k].device = physical[l].device /\ physical[k].index = physical[l].index
                        => k = l
<1> DEFINE element(d, j) == [device |-> t.displays[d].device, index |-> j, is |-> t.displays[d].physical[j]]
           of(d) == IF d \notin readable THEN <<>>
                    ELSE [j \in DOMAIN t.displays[d].physical |-> element(d, j)]
           ss == [d \in DOMAIN t.displays |-> of(d)]
           physical == FlattenSeq(ss)
<1>1. PhysicalMonitors(t.displays, readable) = physical
  BY DEF PhysicalMonitors
<1>2. ASSUME NEW d \in DOMAIN t.displays
      PROVE  /\ ss[d] \in Seq(Physicals)
             /\ \A j \in DOMAIN ss[d] : j \in DOMAIN t.displays[d].physical /\ ss[d][j] = element(d, j)
  <2>1. CASE d \notin readable
    BY <2>1
  <2>2. CASE d \in readable
    <3>1. /\ DOMAIN t.displays[d].physical = 1..Len(t.displays[d].physical)
          /\ Len(t.displays[d].physical) \in Nat
      BY TopologyType
    <3>2. ASSUME NEW j \in DOMAIN t.displays[d].physical PROVE element(d, j) \in Physicals
      BY TopologyType, PanelType DEF Physicals
    <3>3. ss[d] = [j \in 1..Len(t.displays[d].physical) |-> element(d, j)]
      BY <2>2, <3>1
    <3> HIDE DEF ss, element
    <3> QED
      BY <3>1, <3>2, <3>3
  <2> QED
    BY <2>1, <2>2
<1> HIDE DEF of
<1>3. ss \in [1..Len(t.displays) -> Seq(Physicals)] /\ Len(t.displays) \in Nat
  BY <1>2, TopologyType
<1>4. \A d, e \in 1..Len(t.displays) : \A j \in DOMAIN ss[d], l \in DOMAIN ss[e] :
        ss[d][j].device = ss[e][l].device /\ ss[d][j].index = ss[e][l].index => d = e /\ j = l
  <2>1. SUFFICES ASSUME NEW d \in DOMAIN t.displays, NEW e \in DOMAIN t.displays,
                        NEW j \in DOMAIN ss[d], NEW l \in DOMAIN ss[e],
                        ss[d][j].device = ss[e][l].device, ss[d][j].index = ss[e][l].index
                 PROVE  d = e /\ j = l
    <3> HIDE DEF ss
    <3> QED
      BY TopologyType
  <2>2. ss[d][j] = element(d, j) /\ ss[e][l] = element(e, l)
    BY <1>2
  <2> HIDE DEF ss
  <2>3. t.displays[d].device = t.displays[e].device /\ j = l
    BY <2>1, <2>2
  <2> QED
    BY <2>3, TopologiesAssumption
<1> HIDE DEF ss
<1>5. /\ physical \in Seq(Physicals)
      /\ \A k \in DOMAIN physical : \E d \in DOMAIN t.displays : \E j \in DOMAIN ss[d] : physical[k] = ss[d][j]
      /\ \A k, l \in DOMAIN physical : physical[k] = physical[l] => k = l
  <2> DEFINE n == Len(t.displays)
  <2>1. n \in Nat /\ ss \in [1..n -> Seq(Physicals)] /\ DOMAIN t.displays = 1..n
    BY <1>3, TopologyType
  <2>2. \A d, e \in 1..n : \A j \in DOMAIN ss[d], l \in DOMAIN ss[e] :
            ss[d][j] = ss[e][l] => d = e /\ j = l
    BY <1>4
  <2> HIDE DEF n, Physicals
  <2>3. FlattenSeq(ss) \in Seq(Physicals)
    BY <2>1, FlattenProperties
  <2>4. \A k \in DOMAIN FlattenSeq(ss) :
            \E d \in 1..n : \E j \in DOMAIN ss[d] : FlattenSeq(ss)[k] = ss[d][j]
    <3>1. IsFrom(FlattenSeq(ss), ss, n)
      BY <2>1, FlattenProperties
    <3> QED
      BY <3>1 DEF IsFrom
  <2>5. \A k, l \in DOMAIN FlattenSeq(ss) : FlattenSeq(ss)[k] = FlattenSeq(ss)[l] => k = l
    <3>1. AreDistinct(ss, n)
      BY <2>2 DEF AreDistinct
    <3> QED
      BY <2>1, <3>1, FlattenProperties DEF IsOnce
  <2> QED
    BY <2>1, <2>3, <2>4, <2>5
<1> HIDE DEF physical
<1>7. ASSUME NEW k \in DOMAIN physical, NEW l \in DOMAIN physical,
             physical[k].device = physical[l].device, physical[k].index = physical[l].index
      PROVE  k = l
  <2>1. PICK d \in DOMAIN t.displays : \E j \in DOMAIN ss[d] : physical[k] = ss[d][j]
    BY <1>5
  <2>2. PICK j \in DOMAIN ss[d] : physical[k] = ss[d][j]
    BY <2>1
  <2>3. PICK e \in DOMAIN t.displays : \E i \in DOMAIN ss[e] : physical[l] = ss[e][i]
    BY <1>5
  <2>4. PICK i \in DOMAIN ss[e] : physical[l] = ss[e][i]
    BY <2>3
  <2>5. d = e /\ j = i
    <3>1. d \in 1..Len(t.displays) /\ e \in 1..Len(t.displays)
      BY TopologyType
    <3> QED
      BY <1>4, <1>7, <2>2, <2>4, <3>1
  <2> QED
    BY <1>5, <2>2, <2>4, <2>5
<1>8. ASSUME NEW k \in DOMAIN physical
      PROVE  \E d \in DOMAIN t.displays : \E j \in DOMAIN t.displays[d].physical :
                        physical[k] = [device |-> t.displays[d].device, index |-> j,
                                       is |-> t.displays[d].physical[j]]
  <2>1. PICK d \in DOMAIN t.displays : \E j \in DOMAIN ss[d] : physical[k] = ss[d][j]
    BY <1>5, TopologyType
  <2> QED
    BY <1>2, <2>1
<1> QED
  BY <1>1, <1>5, <1>7, <1>8

(* The elements of a list of t with one id are those of one monitor. *)
LEMMA ListIdsAreUnique ==
  ASSUME NEW t \in Topologies, NEW list, IsListOf(list, t),
         NEW k \in DOMAIN list, NEW l \in DOMAIN list,
         list[k].id = list[l].id, list[k].id # "malformed"
  PROVE  list[k].device = list[l].device /\ list[k].monitorIndex = list[l].monitorIndex
<1>1. PICK a \in DOMAIN t.adapters : \E i \in DOMAIN t.adapters[a].monitors :
        /\ ~t.adapters[a].mirroring
        /\ list[k] = [device |-> t.adapters[a].name, monitorIndex |-> i,
                      text |-> t.adapters[a].monitors[i].text, id |-> t.adapters[a].monitors[i].id]
  BY DEF IsListOf
<1>2. PICK i \in DOMAIN t.adapters[a].monitors :
        list[k] = [device |-> t.adapters[a].name, monitorIndex |-> i,
                   text |-> t.adapters[a].monitors[i].text, id |-> t.adapters[a].monitors[i].id]
  BY <1>1
<1>3. PICK b \in DOMAIN t.adapters : \E j \in DOMAIN t.adapters[b].monitors :
        /\ ~t.adapters[b].mirroring
        /\ list[l] = [device |-> t.adapters[b].name, monitorIndex |-> j,
                      text |-> t.adapters[b].monitors[j].text, id |-> t.adapters[b].monitors[j].id]
  BY DEF IsListOf
<1>4. PICK j \in DOMAIN t.adapters[b].monitors :
        list[l] = [device |-> t.adapters[b].name, monitorIndex |-> j,
                   text |-> t.adapters[b].monitors[j].text, id |-> t.adapters[b].monitors[j].id]
  BY <1>3
<1>5. /\ ~t.adapters[a].mirroring /\ ~t.adapters[b].mirroring
      /\ t.adapters[a].monitors[i].id = t.adapters[b].monitors[j].id
      /\ t.adapters[a].monitors[i].id # "malformed"
  BY <1>1, <1>2, <1>3, <1>4
<1>6. a = b /\ i = j
  BY <1>5, TopologiesAssumption
<1> QED
  BY <1>2, <1>4, <1>6

(* The displays and the adapters of t number a monitor alike. *)
LEMMA PanelsAgree ==
  ASSUME NEW t \in Topologies, NEW a \in DOMAIN t.adapters, NEW d \in DOMAIN t.displays,
         ~t.adapters[a].mirroring, t.adapters[a].name = t.displays[d].device,
         NEW j \in DOMAIN t.adapters[a].monitors, j \in DOMAIN t.displays[d].physical,
         t.adapters[a].monitors[j].text = t.displays[d].physical[j].text
  PROVE  t.adapters[a].monitors[j].id = t.displays[d].physical[j].id
<1>1. a \in {x \in DOMAIN t.adapters : ~t.adapters[x].mirroring}
  OBVIOUS
<1>2. j \in DOMAIN t.adapters[a].monitors \cap DOMAIN t.displays[d].physical
  OBVIOUS
<1> QED
  BY <1>1, <1>2, TopologiesAssumption

(* The monitors that an enumeration makes. *)
LEMMA MadeFromProperties ==
  ASSUME EnumerationInv, NEW e \in DOMAIN infos, NEW readable, NEW made, made = MadeFrom(e, readable)
  PROVE  /\ IsFiniteSet(made) /\ Cardinality(made) \in Nat
         /\ \A m \in made : /\ m.enumeration = e
                            /\ m.handle \in handlesMade + 1..handlesMade + Cardinality(made)
                            /\ m.steady /\ m.deviceId[1] = "device" => m.deviceId[2] = m.is.id
         /\ \A m, n \in made : m.handle = n.handle => m = n
         /\ \A m, n \in made : m.deviceId = n.deviceId => m = n
<1> DEFINE physical == PhysicalMonitors(topology.displays, readable)
           list == infos[e].list
           id(i) == MonitorDeviceId(list, physical[i].device, physical[i].index, physical[i].is.text)
           handle(i) == handlesMade + i
           monitor(i) == [enumeration |-> e, handle |-> handle(i), is |-> physical[i].is,
                          steady |-> infos[e].seen = topology,
                          deviceId |-> IF id(i) = NoId THEN <<"random", handle(i)>> ELSE <<"device", id(i)>>]
           n == Len(physical)
<1>1. /\ topology \in Topologies /\ handlesMade \in Nat
      /\ list \in Seq(Infos) /\ infos[e].seen \in Topologies /\ IsListOf(list, infos[e].seen)
  <2>1. infos \in Seq(Enumerations) /\ topology \in Topologies /\ handlesMade \in Nat
    BY DEF EnumerationInv, EnumerationTypeOK
  <2>2. infos[e] \in Enumerations
    BY <2>1
  <2>3. list \in Seq(Infos) /\ infos[e].seen \in Topologies
    BY <2>2 DEF Enumerations
  <2> QED
    BY <2>1, <2>3 DEF EnumerationInv, DeviceIdInv
<1>2. /\ physical \in Seq(Physicals)
      /\ \A k \in DOMAIN physical :
            \E d \in DOMAIN topology.displays : \E j \in DOMAIN topology.displays[d].physical :
                physical[k] = [device |-> topology.displays[d].device, index |-> j,
                               is |-> topology.displays[d].physical[j]]
      /\ \A k, l \in DOMAIN physical :
            physical[k].device = physical[l].device /\ physical[k].index = physical[l].index => k = l
  BY <1>1, PhysicalMonitorsProperties
<1>3. DOMAIN physical = 1..n /\ n \in Nat
  BY <1>2
<1>4. made = {monitor(i) : i \in 1..n}
  BY <1>3 DEF MadeFrom
<1> HIDE DEF physical, list, n
<1>5. ASSUME NEW i \in 1..n, id(i) # NoId
      PROVE  \E k \in DOMAIN list :
                /\ list[k].monitorIndex = physical[i].index /\ list[k].device = physical[i].device
                /\ list[k].text = physical[i].is.text /\ list[k].id # "malformed"
                /\ id(i) = list[k].id
  BY <1>1, <1>5, DeviceIdFits
<1>6. ASSUME NEW i \in 1..n, NEW l \in 1..n, id(i) # NoId, id(i) = id(l) PROVE i = l
  <2> HIDE DEF id
  <2>1. PICK j \in DOMAIN list :
            /\ list[j].monitorIndex = physical[i].index /\ list[j].device = physical[i].device
            /\ list[j].id # "malformed" /\ id(i) = list[j].id
    BY <1>5, <1>6
  <2>2. PICK k \in DOMAIN list :
            /\ list[k].monitorIndex = physical[l].index /\ list[k].device = physical[l].device
            /\ list[k].id # "malformed" /\ id(l) = list[k].id
    BY <1>5, <1>6
  <2>3. list[j].device = list[k].device /\ list[j].monitorIndex = list[k].monitorIndex
    BY <1>1, <1>6, <2>1, <2>2, ListIdsAreUnique
  <2> QED
    BY <1>2, <1>3, <2>1, <2>2, <2>3
<1>7. ASSUME NEW i \in 1..n, infos[e].seen = topology, id(i) # NoId
      PROVE  id(i) = physical[i].is.id
  <2> HIDE DEF id
  <2>1. PICK k \in DOMAIN list :
            /\ list[k].monitorIndex = physical[i].index /\ list[k].device = physical[i].device
            /\ list[k].text = physical[i].is.text /\ id(i) = list[k].id
    BY <1>5, <1>7
  <2>2. PICK a \in DOMAIN topology.adapters : \E j \in DOMAIN topology.adapters[a].monitors :
            /\ ~topology.adapters[a].mirroring
            /\ list[k] = [device |-> topology.adapters[a].name, monitorIndex |-> j,
                          text |-> topology.adapters[a].monitors[j].text,
                          id |-> topology.adapters[a].monitors[j].id]
    BY <1>1, <1>7 DEF IsListOf
  <2>3. PICK j \in DOMAIN topology.adapters[a].monitors :
            /\ ~topology.adapters[a].mirroring
            /\ list[k].device = topology.adapters[a].name /\ list[k].monitorIndex = j
            /\ list[k].text = topology.adapters[a].monitors[j].text
            /\ list[k].id = topology.adapters[a].monitors[j].id
    BY <2>2
  <2>4. PICK d \in DOMAIN topology.displays : \E l \in DOMAIN topology.displays[d].physical :
            physical[i] = [device |-> topology.displays[d].device, index |-> l,
                           is |-> topology.displays[d].physical[l]]
    BY <1>2, <1>3
  <2>5. PICK l \in DOMAIN topology.displays[d].physical :
            /\ physical[i].device = topology.displays[d].device /\ physical[i].index = l
            /\ physical[i].is = topology.displays[d].physical[l]
    BY <2>4
  <2>6. /\ topology.adapters[a].name = topology.displays[d].device /\ j = l
        /\ topology.adapters[a].monitors[j].text = topology.displays[d].physical[j].text
    BY <2>1, <2>3, <2>5
  <2>7. topology.adapters[a].monitors[j].id = topology.displays[d].physical[j].id
    <3>1. j \in DOMAIN topology.displays[d].physical
      BY <2>5, <2>6
    <3> QED
      BY <1>1, <2>3, <2>6, <3>1, PanelsAgree
  <2> QED
    BY <2>1, <2>3, <2>5, <2>6, <2>7
<1> HIDE DEF id
<1>8. Cardinality(made) = n /\ IsFiniteSet(made)
  <2> DEFINE f == [i \in 1..n |-> monitor(i)]
  <2>1. f \in Bijection(1..n, made)
    <3>1. \A i, l \in 1..n : f[i] = f[l] => i = l
      BY <1>1, <1>3
    <3>2. f \in [1..n -> made] /\ \A m \in made : \E i \in 1..n : f[i] = m
      BY <1>4
    <3> HIDE DEF f
    <3> QED
      BY <3>1, <3>2 DEF Bijection, Injection, Surjection, IsInjective
  <2>2. IsFiniteSet(1..n) /\ Cardinality(1..n) = n
    BY <1>3, FS_Interval
  <2> QED
    BY <2>1, <2>2, FS_Bijection DEF ExistsBijection
<1>9. ASSUME NEW m \in made
      PROVE  /\ m.enumeration = e
             /\ m.handle \in handlesMade + 1..handlesMade + n
             /\ m.steady /\ m.deviceId[1] = "device" => m.deviceId[2] = m.is.id
  <2>1. PICK i \in 1..n : m = monitor(i)
    BY <1>4
  <2>2. m.steady /\ m.deviceId[1] = "device" => m.deviceId[2] = m.is.id
    BY <1>7, <2>1
  <2> QED
    BY <1>1, <1>3, <2>1, <2>2
<1>10. ASSUME NEW m \in made, NEW o \in made
       PROVE  /\ m.handle = o.handle => m = o
              /\ m.deviceId = o.deviceId => m = o
  <2>1. PICK i \in 1..n : m = monitor(i)
    BY <1>4
  <2>2. PICK l \in 1..n : o = monitor(l)
    BY <1>4
  <2>3. m.handle = o.handle => i = l
    BY <1>1, <1>3, <2>1, <2>2
  <2>4. m.deviceId = o.deviceId => i = l
    <3>1. SUFFICES ASSUME m.deviceId = o.deviceId PROVE i = l
      OBVIOUS
    <3>2. m.deviceId[1] = o.deviceId[1] /\ m.deviceId[2] = o.deviceId[2]
      BY <3>1
    <3>3. CASE id(i) = NoId
      BY <1>1, <1>3, <2>1, <2>2, <3>2, <3>3
    <3>4. CASE id(i) # NoId
      BY <1>6, <2>1, <2>2, <3>2, <3>4
    <3> QED
      BY <3>3, <3>4
  <2> QED
    BY <2>1, <2>2, <2>3, <2>4
<1>11. \A m, o \in made : m.handle = o.handle => m = o
  BY <1>10
<1>12. \A m, o \in made : m.deviceId = o.deviceId => m = o
  BY <1>10
<1>13. \A m \in made : /\ m.enumeration = e
                       /\ m.handle \in handlesMade + 1..handlesMade + Cardinality(made)
                       /\ m.steady /\ m.deviceId[1] = "device" => m.deviceId[2] = m.is.id
  BY <1>8, <1>9
<1> HIDE DEF monitor
<1> QED
  BY <1>3, <1>8, <1>11, <1>12, <1>13

(* enumMonitors(). *)
LEMMA BeginEnumerationInv ==
  ASSUME EnumerationInv, BeginEnumeration
  PROVE  EnumerationInv'
<1> DEFINE r == [list |-> MonitorInfos(topology.adapters), seen |-> topology]
<1>1. /\ topology \in Topologies /\ infos \in Seq(Enumerations)
      /\ infos' = Append(infos, r)
      /\ UNCHANGED <<topology, finished, winMonitors, openHandles, handlesMade>>
  BY DEF EnumerationInv, EnumerationTypeOK, BeginEnumeration
<1>2. r \in Enumerations /\ IsListOf(r.list, r.seen)
  BY <1>1, MonitorInfosProperties DEF Enumerations
<1> HIDE DEF r
<1>3. /\ infos' \in Seq(Enumerations)
      /\ DOMAIN infos' = DOMAIN infos \union {Len(infos) + 1}
      /\ infos'[Len(infos) + 1] = r
      /\ \A e \in DOMAIN infos : infos'[e] = infos[e]
  BY <1>1, <1>2, AppendProperties, LenProperties
<1>4. \A e \in DOMAIN infos' : IsListOf(infos'[e].list, infos'[e].seen)
  BY <1>2, <1>3 DEF EnumerationInv, DeviceIdInv
<1> QED
  BY <1>1, <1>3, <1>4 DEF EnumerationInv, EnumerationTypeOK, HandleInv, DeviceIdInv

(* EnumDisplayMonitors() makes monitors of handles and ids not given        *)
(* before.                                                                  *)
LEMMA EnumDisplaysInv ==
  ASSUME EnumerationInv, NEW e \in DOMAIN infos, EnumDisplays(e)
  PROVE  EnumerationInv'
<1>1. PICK readable \in SUBSET DOMAIN topology.displays :
        LET made == MadeFrom(e, readable)
        IN  /\ winMonitors' = winMonitors \union made
            /\ openHandles' = openHandles \union {m.handle : m \in made}
            /\ handlesMade' = handlesMade + Cardinality(made)
  BY DEF EnumDisplays
<1> DEFINE made == MadeFrom(e, readable)
           c == Cardinality(made)
<1>2. /\ winMonitors' = winMonitors \union made
      /\ openHandles' = openHandles \union {m.handle : m \in made}
      /\ handlesMade' = handlesMade + c
      /\ e \notin finished /\ finished' = finished \union {e}
      /\ UNCHANGED <<topology, infos>>
  BY <1>1 DEF EnumDisplays
<1>3. /\ IsFiniteSet(made) /\ c \in Nat
      /\ \A m \in made : /\ m.enumeration = e
                         /\ m.handle \in handlesMade + 1..handlesMade + c
                         /\ m.steady /\ m.deviceId[1] = "device" => m.deviceId[2] = m.is.id
      /\ \A m, n \in made : m.handle = n.handle => m = n
      /\ \A m, n \in made : m.deviceId = n.deviceId => m = n
  BY MadeFromProperties
<1> HIDE DEF made, c
<1>8. \A m \in made : m.enumeration = e
  BY <1>3
<1>9. \A m \in made : m.handle \in handlesMade + 1..handlesMade + c
  BY <1>3
<1>10. \A m \in made : m.steady /\ m.deviceId[1] = "device" => m.deviceId[2] = m.is.id
  BY <1>3
<1>4. /\ IsFiniteSet(winMonitors) /\ handlesMade \in Nat /\ topology \in Topologies
      /\ infos \in Seq(Enumerations)
      /\ openHandles = {m.handle : m \in winMonitors}
      /\ \A m \in winMonitors : m.handle \in 1..handlesMade /\ m.enumeration \in finished
      /\ \A m, n \in winMonitors : m.handle = n.handle => m = n
  BY DEF EnumerationInv, EnumerationTypeOK, HandleInv
<1>5. EnumerationTypeOK'
  <2>1. IsFiniteSet(winMonitors')
    BY <1>2, <1>3, <1>4, FS_Union
  <2>2. handlesMade' \in Nat
    BY <1>2, <1>3, <1>4
  <2> QED
    BY <1>2, <1>4, <2>1, <2>2 DEF EnumerationTypeOK
<1>6. HandleInv'
  <2>1. openHandles' = {m.handle : m \in winMonitors'}
    BY <1>2, <1>4
  <2>2. \A m \in winMonitors' : m.handle \in 1..handlesMade' /\ m.enumeration \in finished'
    <3>1. c \in Nat
      BY <1>3
    <3>2. \A m \in made : m.handle \in 1..handlesMade + c
      BY <1>4, <1>9, <3>1
    <3>3. \A m \in winMonitors : m.handle \in 1..handlesMade + c
      BY <1>4, <3>1
    <3> QED
      BY <1>2, <1>4, <1>8, <3>2, <3>3
  <2>3. \A m \in winMonitors, n \in made : m.handle # n.handle
    <3>1. \A m \in winMonitors : m.handle \in 1..handlesMade
      BY <1>4
    <3> QED
      BY <1>4, <1>9, <3>1
  <2>4. \A m, n \in winMonitors' : m.handle = n.handle => m = n
    BY <1>2, <1>3, <1>4, <2>3
  <2> QED
    BY <2>1, <2>2, <2>4 DEF HandleInv
<1>7. DeviceIdInv'
  <2>1. /\ \A i \in DOMAIN infos : IsListOf(infos[i].list, infos[i].seen)
        /\ \A m, n \in winMonitors : m.enumeration = n.enumeration /\ m.deviceId = n.deviceId => m = n
        /\ \A m \in winMonitors : m.steady /\ m.deviceId[1] = "device" => m.deviceId[2] = m.is.id
    BY DEF EnumerationInv, DeviceIdInv
  <2>2. \A m \in winMonitors, n \in made : m.enumeration # n.enumeration
    BY <1>2, <1>4, <1>8
  <2>3. \A m, n \in winMonitors' : m.enumeration = n.enumeration /\ m.deviceId = n.deviceId => m = n
    BY <1>2, <1>3, <2>1, <2>2
  <2>4. \A m \in winMonitors' : m.steady /\ m.deviceId[1] = "device" => m.deviceId[2] = m.is.id
    BY <1>2, <1>10, <2>1
  <2> QED
    BY <1>2, <2>1, <2>3, <2>4 DEF DeviceIdInv
<1> QED
  BY <1>5, <1>6, <1>7 DEF EnumerationInv

(* ~WinMonitor() closes its own handle and no other. *)
LEMMA DestroyWinMonitorInv ==
  ASSUME EnumerationInv, NEW m \in winMonitors, DestroyWinMonitor(m)
  PROVE  EnumerationInv'
<1>1. /\ winMonitors' = winMonitors \ {m} /\ openHandles' = openHandles \ {m.handle}
      /\ UNCHANGED <<topology, infos, finished, handlesMade>>
  BY DEF DestroyWinMonitor
<1>2. IsFiniteSet(winMonitors')
  BY <1>1, FS_RemoveElement DEF EnumerationInv, EnumerationTypeOK
<1>3. EnumerationTypeOK'
  BY <1>1, <1>2 DEF EnumerationInv, EnumerationTypeOK
<1>4. HandleInv'
  <2>1. openHandles' = {n.handle : n \in winMonitors'}
    BY <1>1 DEF EnumerationInv, HandleInv
  <2> QED
    BY <1>1, <2>1 DEF EnumerationInv, HandleInv
<1>5. DeviceIdInv'
  BY <1>1 DEF EnumerationInv, DeviceIdInv
<1> QED
  BY <1>3, <1>4, <1>5 DEF EnumerationInv

(* The enumeration starts in its invariant. *)
LEMMA EnumerationInitInv ==
  ASSUME InitEnumeration PROVE EnumerationInv
<1>1. EnumerationTypeOK
  BY FS_EmptySet DEF InitEnumeration, EnumerationTypeOK
<1> QED
  BY <1>1 DEF InitEnumeration, EnumerationInv, HandleInv, DeviceIdInv

(* Every step of the enumeration keeps its invariant. *)
LEMMA EnumerationStepInv ==
  ASSUME EnumerationInv, NextEnumeration \/ UNCHANGED enumerationVars
  PROVE  EnumerationInv'
<1>1. CASE UNCHANGED enumerationVars
  BY <1>1 DEF enumerationVars, EnumerationInv, EnumerationTypeOK, HandleInv, DeviceIdInv
<1>2. CASE ChangeTopology
  BY <1>2 DEF ChangeTopology, EnumerationInv, EnumerationTypeOK, HandleInv, DeviceIdInv
<1> QED
  BY <1>1, <1>2, BeginEnumerationInv, EnumDisplaysInv, DestroyWinMonitorInv DEF NextEnumeration

(* The property follows from the invariant; that there are as many handles  *)
(* as monitors is that the map from monitors to handles is one-to-one.      *)
LEMMA HandlesAreOwnedFromInv ==
  ASSUME EnumerationInv PROVE HandlesAreOwned
<1>1. Cardinality(openHandles) = Cardinality(winMonitors)
  <2> DEFINE f == [m \in winMonitors |-> m.handle]
  <2>1. f \in Bijection(winMonitors, openHandles)
    <3>1. \A m, n \in winMonitors : f[m] = f[n] => m = n
      BY DEF EnumerationInv, HandleInv
    <3>2. f \in [winMonitors -> openHandles] /\ \A h \in openHandles : \E m \in winMonitors : f[m] = h
      BY DEF EnumerationInv, HandleInv
    <3> HIDE DEF f
    <3> QED
      BY <3>1, <3>2 DEF Bijection, Injection, Surjection, IsInjective
  <2> HIDE DEF f
  <2> QED
    BY <2>1, FS_Bijection DEF ExistsBijection, EnumerationInv, EnumerationTypeOK
<1> QED
  BY <1>1 DEF HandlesAreOwned, EnumerationInv, HandleInv, DeviceIdInv

-----------------------------------------------------------------------------
(* Powers of two up to 2^31. *)
LEMMA PowerIs ==
  \A e \in 0..30 : 2^e \in Nat \ {0} /\ 2^(e + 1) = 2 * 2^e
<1> DEFINE Doubles(e) == 2^e \in Nat \ {0} /\ 2^(e + 1) = 2 * 2^e
<1>1. Doubles(0) /\ Doubles(1) /\ Doubles(2) /\ Doubles(3)
  OBVIOUS
<1>2. Doubles(4) /\ Doubles(5) /\ Doubles(6) /\ Doubles(7)
  OBVIOUS
<1>3. Doubles(8) /\ Doubles(9) /\ Doubles(10) /\ Doubles(11)
  OBVIOUS
<1>4. Doubles(12) /\ Doubles(13) /\ Doubles(14) /\ Doubles(15)
  OBVIOUS
<1>5. Doubles(16) /\ Doubles(17) /\ Doubles(18) /\ Doubles(19)
  OBVIOUS
<1>6. Doubles(20) /\ Doubles(21) /\ Doubles(22) /\ Doubles(23)
  OBVIOUS
<1>7. Doubles(24) /\ Doubles(25) /\ Doubles(26) /\ Doubles(27)
  OBVIOUS
<1>8. Doubles(28) /\ Doubles(29) /\ Doubles(30)
  OBVIOUS
<1> HIDE DEF Doubles
<1>9. ASSUME NEW e \in 0..30 PROVE Doubles(e)
  <2>1. e \in 0..7 \/ e \in 8..15 \/ e \in 16..23 \/ e \in 24..30
    OBVIOUS
  <2>2. CASE e \in 0..7
    <3>1. e = 0 \/ e = 1 \/ e = 2 \/ e = 3 \/ e = 4 \/ e = 5 \/ e = 6 \/ e = 7
      BY <2>2
    <3> QED
      BY <3>1, <1>1, <1>2
  <2>3. CASE e \in 8..15
    <3>1. e = 8 \/ e = 9 \/ e = 10 \/ e = 11 \/ e = 12 \/ e = 13 \/ e = 14 \/ e = 15
      BY <2>3
    <3> QED
      BY <3>1, <1>3, <1>4
  <2>4. CASE e \in 16..23
    <3>1. e = 16 \/ e = 17 \/ e = 18 \/ e = 19 \/ e = 20 \/ e = 21 \/ e = 22 \/ e = 23
      BY <2>4
    <3> QED
      BY <3>1, <1>5, <1>6
  <2>5. CASE e \in 24..30
    <3>1. e = 24 \/ e = 25 \/ e = 26 \/ e = 27 \/ e = 28 \/ e = 29 \/ e = 30
      BY <2>5
    <3> QED
      BY <3>1, <1>7, <1>8
  <2> QED
    BY <2>1, <2>2, <2>3, <2>4, <2>5
<1> QED
  BY <1>9 DEF Doubles

(* Their products. *)
LEMMA PowersMultiply ==
  ASSUME NEW a \in 0..31, NEW b \in 0..31, a + b <= 31 PROVE 2^(a + b) = 2^a * 2^b
<1> DEFINE Holds(k) == 2^(a + k) = 2^a * 2^k
           Good == {k \in Nat : a + k <= 31 => Holds(k)}
<1>1. 0 \in Good
  <2>1. 2^0 = 1 /\ a + 0 = a /\ 2^a \in Nat
    <3>1. 2^0 = 1 /\ 2^31 = 2147483648
      OBVIOUS
    <3>2. CASE a = 31
      BY <3>1, <3>2
    <3>3. CASE a # 31
      <4>1. a \in 0..30 /\ a + 0 = a
        BY <3>3
      <4>2. 2^a \in Nat
        BY <4>1, PowerIs
      <4> QED
        BY <3>1, <4>1, <4>2
    <3> QED
      BY <3>2, <3>3
  <2> DEFINE u == 2^a
  <2>2. 2^(a + 0) = u /\ 2^0 = 1 /\ u \in Nat
    BY <2>1
  <2> HIDE DEF u
  <2>3. 2^(a + 0) = u * 2^0
    BY <2>2
  <2> QED
    BY <2>3 DEF u
<1>2. \A k \in Nat : k \in Good => k + 1 \in Good
  <2>1. SUFFICES ASSUME NEW k \in Nat, Holds(k), a + (k + 1) <= 31 PROVE Holds(k + 1)
    <3> HIDE DEF Holds
    <3> QED
      OBVIOUS
  <2>2. /\ k \in 0..30 /\ a \in 0..30 /\ a + k \in 0..30 /\ a + (k + 1) = (a + k) + 1
    BY <2>1
  <2> DEFINE u == 2^a
             v == 2^k
  <2>3. 2^(k + 1) = 2 * v /\ 2^((a + k) + 1) = 2 * 2^(a + k) /\ u \in Nat /\ v \in Nat
    BY <2>2, PowerIs
  <2>4. 2^(a + k) = u * v
    BY <2>1
  <2>5. 2^(a + (k + 1)) = 2 * (u * v)
    BY <2>2, <2>3, <2>4
  <2> HIDE DEF u, v
  <2>6. 2 * (u * v) = u * (2 * v)
    BY <2>3
  <2> QED
    BY <2>3, <2>5, <2>6 DEF u
<1> HIDE DEF Holds
<1>3. Nat \subseteq Good
  <2> HIDE DEF Good
  <2> QED
    BY <1>1, <1>2, SetInduction
<1>4. Holds(b)
  BY <1>3
<1> QED
  BY <1>4 DEF Holds

(* Division with a remainder. *)
LEMMA DivisionIs ==
  ASSUME NEW a \in Nat, NEW b \in Nat \ {0}
  PROVE  a \div b \in Nat /\ (a % b) \in 0..b - 1 /\ a = b * (a \div b) + (a % b)
OBVIOUS

(* A quotient is rounded to a nearest number, and never beyond one. *)
LEMMA RoundedIs ==
  ASSUME NEW a \in Nat, NEW b \in Nat \ {0}
  PROVE  LET q == RoundedQuotient(a, b)
         IN  /\ q \in Nat /\ 2 * (q * b) <= 2 * a + b /\ 2 * a <= 2 * (q * b) + b
             /\ \A m \in Nat : a <= m * b => q <= m
<1> DEFINE q == a \div b
           r == a % b
           up == 2 * r > b \/ (2 * r = b /\ q % 2 = 1)
<1>1. q \in Nat /\ r \in 0..b - 1 /\ a = b * q + r
  BY DivisionIs
<1>2. RoundedQuotient(a, b) = IF up THEN q + 1 ELSE q
  BY DEF RoundedQuotient
<1>3. (up => 2 * r >= b) /\ (~up => 2 * r <= b)
  <2> HIDE DEF q, r
  <2> QED
    BY <1>1
<1> HIDE DEF q, r, up
<1>4. q * b = b * q /\ (q + 1) * b = b * q + b /\ b * q \in Nat
  BY <1>1
<1>5. ASSUME NEW m \in Nat, a <= m * b PROVE q <= m /\ (up => q + 1 <= m)
  <2>1. q <= m
    <3>1. b * q <= b * m
      BY <1>1, <1>5
    <3> QED
      BY <1>1, <3>1
  <2>2. q = m => r = 0
    <3>1. m * b = b * m
      OBVIOUS
    <3> QED
      BY <1>1, <1>5, <3>1
  <2> QED
    BY <1>1, <1>3, <2>1, <2>2
<1>6. CASE up
  <2> DEFINE w == RoundedQuotient(a, b)
  <2>1. w = q + 1
    BY <1>2, <1>6
  <2>2. w * b = b * q + b
    BY <1>4, <2>1
  <2> HIDE DEF w
  <2>3. w \in Nat /\ 2 * (w * b) <= 2 * a + b /\ 2 * a <= 2 * (w * b) + b
    BY <1>1, <1>3, <1>4, <1>6, <2>1, <2>2
  <2> QED
    BY <1>5, <1>6, <2>1, <2>3 DEF w
<1>7. CASE ~up
  <2> DEFINE w == RoundedQuotient(a, b)
  <2>1. w = q
    BY <1>2, <1>7
  <2>2. w * b = b * q
    BY <1>4, <2>1
  <2> HIDE DEF w
  <2>3. w \in Nat /\ 2 * (w * b) <= 2 * a + b /\ 2 * a <= 2 * (w * b) + b
    BY <1>1, <1>3, <1>4, <1>7, <2>1, <2>2
  <2> QED
    BY <1>5, <2>1, <2>3 DEF w
<1> QED
  BY <1>6, <1>7

(* The first power that something holds of. *)
LEMMA FirstIs ==
  ASSUME NEW n \in Nat, NEW S \in SUBSET (0..n), S # {}
  PROVE  \E b \in S : b > 0 => b - 1 \notin S
<1>1. S \in SUBSET Nat
  OBVIOUS
<1>2. Min(S) \in S /\ \A k \in S : Min(S) <= k
  BY <1>1, MinIsLeast
<1> DEFINE m == Min(S)
<1>3. m \in S /\ (\A k \in S : m <= k) /\ m \in Nat
  BY <1>1, <1>2
<1> HIDE DEF m
<1>4. m - 1 \notin S
  BY <1>3
<1> QED
  BY <1>3, <1>4

(* The number of bits. *)
LEMMA BitsIs ==
  ASSUME NEW n \in Nat, n < 2^31
  PROVE  LET b == Bits(n)
         IN  b \in 0..31 /\ n < 2^b /\ (b > 0 => n >= 2^(b - 1))
<1> DEFINE Is(b) == (b = 31 \/ n < 2^b) /\ (b > 0 => n >= 2^(b - 1))
           S == {b \in 0..31 : n < 2^b}
<1>1. S \in SUBSET (0..31) /\ 31 \in S
  OBVIOUS
<1>2. PICK b \in S : b > 0 => b - 1 \notin S
  <2> HIDE DEF S
  <2> QED
    BY <1>1, FirstIs
<1>3. b \in 0..31 /\ n < 2^b
  OBVIOUS
<1>4. b > 0 => n >= 2^(b - 1)
  <2> SUFFICES ASSUME b > 0 PROVE n >= 2^(b - 1)
    OBVIOUS
  <2>1. b - 1 \in 0..30 /\ ~(n < 2^(b - 1))
    BY <1>2, <1>3
  <2>2. 2^(b - 1) \in Nat
    BY <2>1, PowerIs
  <2> DEFINE u == 2^(b - 1)
  <2>3. u \in Nat /\ ~(n < u)
    BY <2>1, <2>2
  <2> HIDE DEF u
  <2>4. n >= u
    BY <2>3
  <2> QED
    BY <2>4 DEF u
<1>5. \E c \in 0..31 : Is(c)
  BY <1>3, <1>4
<1> DEFINE c == CHOOSE c \in 0..31 : Is(c)
<1>6. c = Bits(n)
  BY DEF Bits
<1>7. c \in 0..31 /\ Is(c)
  <2> HIDE DEF Is
  <2> QED
    BY <1>5
<1> HIDE DEF c
<1> QED
  BY <1>6, <1>7

(* How many bits a quotient has that is between 0 and 1. *)
LEMMA ExponentIs ==
  ASSUME NEW n \in 1..127, NEW d \in 1..127, n <= d
  PROVE  LET e == Exponent(n, d)
         IN  /\ e \in 23..30 /\ 2^e \in Nat /\ n * 2^e >= d * 2^23
             /\ n * 2^e < d * 2^24 /\ 2^e >= 2^23
<1> DEFINE Is(e) == n * 2^e >= d * 2^23 /\ (e > 0 => n * 2^(e - 1) < d * 2^23)
           S == {e \in 0..30 : n * 2^e >= d * 2^23}
<1>1. 2^30 = 1073741824 /\ 2^23 = 8388608 /\ 2^24 = 16777216 /\ 2^0 = 1
  OBVIOUS
<1>2. S \in SUBSET (0..30) /\ 30 \in S
  BY <1>1
<1>3. PICK e \in S : e > 0 => e - 1 \notin S
  <2> HIDE DEF S
  <2> QED
    BY <1>2, FirstIs
<1>4. e \in 0..30 /\ n * 2^e >= d * 2^23
  OBVIOUS
<1>5. e > 0 => n * 2^(e - 1) < d * 2^23
  <2> SUFFICES ASSUME e > 0 PROVE n * 2^(e - 1) < d * 2^23
    OBVIOUS
  <2>1. e - 1 \in 0..30
    BY <1>4
  <2>2. ~(n * 2^(e - 1) >= d * 2^23) /\ 2^(e - 1) \in Nat
    BY <1>3, <2>1, PowerIs
  <2> DEFINE u == n * 2^(e - 1)
             v == d * 2^23
  <2>3. u \in Nat /\ v \in Nat /\ ~(u >= v)
    BY <1>1, <2>2
  <2> HIDE DEF u, v
  <2>4. u < v
    BY <2>3
  <2> QED
    BY <2>4 DEF u, v
<1>6. \E c \in 0..30 : Is(c)
  BY <1>4, <1>5
<1> DEFINE c == CHOOSE c \in 0..30 : Is(c)
<1>7. c = Exponent(n, d)
  BY DEF Exponent
<1>8. c \in 0..30 /\ Is(c)
  <2> HIDE DEF Is
  <2> QED
    BY <1>6
<1> HIDE DEF c
<1> DEFINE P == 2^c
           half == 2^(c - 1)
<1>9. P \in Nat /\ n * P >= d * 8388608
  BY <1>1, <1>8, PowerIs
<1>10. P >= 8388608
  <2> HIDE DEF P
  <2>1. d * 8388608 >= n * 8388608 /\ n * P >= n * 8388608
    BY <1>9
  <2>2. ASSUME P < 8388608 PROVE FALSE
    <3>1. n * P < n * 8388608
      BY <1>9, <2>2
    <3> QED
      BY <1>9, <2>1, <3>1
  <2> QED
    BY <1>9, <2>2
<1>11. c >= 23
  <2> SUFFICES ASSUME c \in 0..22 PROVE FALSE
    BY <1>8
  <2> DEFINE rest == 2^(22 - c)
  <2>1. 22 - c \in 0..30 /\ 23 - c \in 0..31 /\ (22 - c) + 1 = 23 - c /\ c + (23 - c) = 23
    OBVIOUS
  <2>2. rest \in Nat \ {0} /\ 2^(23 - c) = 2 * rest
    BY <2>1, PowerIs
  <2>3. 2^23 = P * 2^(23 - c)
    <3> DEFINE k == 23 - c
    <3>1. c \in 0..31 /\ k \in 0..31 /\ c + k <= 31 /\ c + k = 23
      OBVIOUS
    <3> HIDE DEF k
    <3>2. 2^(c + k) = 2^c * 2^k
      BY <3>1, PowersMultiply
    <3>3. 2^23 = 2^c * 2^k
      BY <3>1, <3>2
    <3> QED
      BY <3>3 DEF k
  <2>4. P * (2 * rest) = 8388608
    BY <1>1, <2>2, <2>3
  <2>5. P \in Nat /\ P >= 8388608
    BY <1>9, <1>10
  <2> HIDE DEF P, rest
  <2>6. P * (2 * rest) >= P * 2
    BY <2>2, <2>5
  <2> QED
    BY <2>4, <2>5, <2>6
<1>12. P = 2 * half /\ half \in Nat /\ n * half < d * 8388608
  <2>1. c - 1 \in 0..30 /\ (c - 1) + 1 = c
    BY <1>8, <1>11
  <2>2. half \in Nat /\ 2^((c - 1) + 1) = 2 * half
    BY <2>1, PowerIs
  <2> QED
    BY <1>1, <1>8, <1>11, <2>1, <2>2
<1>13. n * P < d * 16777216
  <2> HIDE DEF P, half
  <2>1. n * P = 2 * (n * half)
    BY <1>12
  <2> QED
    BY <1>12, <2>1
<1> QED
  BY <1>1, <1>7, <1>8, <1>9, <1>10, <1>11, <1>13

(* A factor keeps the order. *)
LEMMA ProductIsMonotone ==
  ASSUME NEW a \in Int, NEW b \in Int, NEW c \in Nat, a <= b PROVE a * c <= b * c
OBVIOUS

(* Two roundings: of n / d to Q / P, and of R * Q to Y, a multiple of U. *)
AreRounded(R, n, d, P, Q, U, Y) ==
    /\ R \in 0..127 /\ n \in 1..127 /\ d \in 1..127
    /\ P \in Nat /\ P >= 8388608 /\ Q \in Nat /\ U \in Nat /\ Y \in Nat
    /\ 2 * (Q * d) <= 2 * (n * P) + d /\ 2 * (n * P) <= 2 * (Q * d) + d
    /\ 65536 * U <= P /\ 2 * Y <= 2 * (R * Q) + U /\ 2 * (R * Q) <= 2 * Y + U

(* Y / P is at R * n / d, but for less than half a step of 1 / d. *)
IsClose(R, n, d, P, Y) ==
    /\ 512 * (Y * d) <= 512 * ((R * n) * P) + P
    /\ 512 * ((R * n) * P) <= 512 * (Y * d) + P

(* What the two roundings may change of range * num / den. *)
LEMMA ErrorIs ==
  ASSUME NEW R, NEW n, NEW d, NEW P, NEW Q, NEW U, NEW Y, AreRounded(R, n, d, P, Q, U, Y)
  PROVE  IsClose(R, n, d, P, Y)
<1>0. /\ R \in 0..127 /\ n \in 1..127 /\ d \in 1..127
      /\ P \in Nat /\ P >= 8388608 /\ Q \in Nat /\ U \in Nat /\ Y \in Nat
      /\ 2 * (Q * d) <= 2 * (n * P) + d /\ 2 * (n * P) <= 2 * (Q * d) + d
      /\ 65536 * U <= P /\ 2 * Y <= 2 * (R * Q) + U /\ 2 * (R * Q) <= 2 * Y + U
  BY DEF AreRounded
<1>01. /\ R \in 0..127 /\ n \in 1..127 /\ d \in 1..127 /\ P \in Nat
       /\ Q \in Nat /\ U \in Nat /\ Y \in Nat
  BY <1>0
<1> DEFINE X == R * Q
           a == Q * d
           b == n * P
<1>1. a \in Nat /\ b \in Nat /\ X \in Nat
  BY <1>01
<1>2. X * d = R * a /\ (R * n) * P = R * b
  BY <1>01
<1>3. 2 * a <= 2 * b + d /\ 2 * b <= 2 * a + d
  BY <1>0
<1>4. 2 * Y <= 2 * X + U /\ 2 * X <= 2 * Y + U
  BY <1>0
<1> DEFINE Xd == X * d
           Yd == Y * d
           Ra == R * a
           Rb == R * b
           Rd == R * d
           Ud == U * d
<1> HIDE DEF X, a, b
<1>5. 2 * Ra <= 2 * Rb + Rd /\ 2 * Rb <= 2 * Ra + Rd
  <2>1. (2 * a) * R <= (2 * b + d) * R /\ (2 * b) * R <= (2 * a + d) * R
    BY <1>01, <1>1, <1>3, ProductIsMonotone
  <2>2. (2 * a) * R = 2 * Ra /\ (2 * b + d) * R = 2 * Rb + Rd
    BY <1>01, <1>1
  <2>3. (2 * b) * R = 2 * Rb /\ (2 * a + d) * R = 2 * Ra + Rd
    BY <1>01, <1>1
  <2> QED
    BY <2>1, <2>2, <2>3
<1>6. 2 * Yd <= 2 * Xd + Ud /\ 2 * Xd <= 2 * Yd + Ud
  <2>1. (2 * Y) * d <= (2 * X + U) * d /\ (2 * X) * d <= (2 * Y + U) * d
    BY <1>01, <1>1, <1>4, ProductIsMonotone
  <2>2. (2 * Y) * d = 2 * Yd /\ (2 * X + U) * d = 2 * Xd + Ud
    BY <1>01, <1>1
  <2>3. (2 * X) * d = 2 * Xd /\ (2 * Y + U) * d = 2 * Yd + Ud
    BY <1>01, <1>1
  <2> QED
    BY <2>1, <2>2, <2>3
<1>7. Rd \in Nat /\ Ud \in Nat /\ Xd \in Nat /\ Yd \in Nat /\ Rb \in Nat
  BY <1>01, <1>1
<1>8. Rd <= 127 * d /\ Ud <= 127 * U
  <2>1. U * d = d * U
    BY <1>01
  <2> QED
    BY <1>01, <2>1, ProductIsMonotone
<1>9. Xd = Ra /\ (R * n) * P = Rb
  BY <1>2
<1> HIDE DEF Xd, Yd, Ra, Rb, Rd, Ud
<1>10. 512 * Yd <= 512 * Rb + P /\ 512 * Rb <= 512 * Yd + P
  <2>1. 2 * Yd <= 2 * Rb + Rd + Ud /\ 2 * Rb <= 2 * Yd + Rd + Ud /\ Rd <= 16129
    BY <1>01, <1>5, <1>6, <1>7, <1>8, <1>9
  <2>2. P >= 8388608 /\ 65536 * U <= P /\ Ud <= 127 * U
    BY <1>0, <1>8
  <2> QED
    BY <1>01, <1>7, <2>1, <2>2
<1> QED
  BY <1>9, <1>10 DEF IsClose, Yd

(* A positive factor can be left out. *)
LEMMA FactorOut ==
  ASSUME NEW P \in Nat \ {0}, NEW a \in Int, NEW b \in Int, P * a < P * (b + 1) PROVE a <= b
<1> SUFFICES ASSUME a >= b + 1 PROVE FALSE
  OBVIOUS
<1>1. P * a >= P * (b + 1)
  OBVIOUS
<1> QED
  BY <1>1

(* s are the whole steps of Y / P, or one more when it is just below; f is   *)
(* the rest.                                                                *)
AreSteps(R, n, d, P, Y, y, f, s) ==
    /\ R \in 0..127 /\ n \in 1..127 /\ d \in 1..127
    /\ P \in Nat /\ P >= 8388608 /\ Y \in Nat /\ Y <= R * P
    /\ 512 * (Y * d) <= 512 * ((R * n) * P) + P /\ 512 * ((R * n) * P) <= 512 * (Y * d) + P
    /\ y \in Nat /\ f \in 0..P - 1 /\ Y = P * y + f
    /\ s \in Nat /\ (s = y \/ (s = y + 1 /\ 262144 * (P - f) <= P))

(* The whole steps of a product are within one step of it. *)
LEMMA StepsAre ==
  ASSUME NEW R, NEW n, NEW d, NEW P, NEW Y, NEW y, NEW f, NEW s, AreSteps(R, n, d, P, Y, y, f, s)
  PROVE  s \in 0..R /\ s * d <= R * n /\ R * n <= (s + 1) * d
<1>0. /\ R \in 0..127 /\ n \in 1..127 /\ d \in 1..127
      /\ P \in Nat /\ P >= 8388608 /\ Y \in Nat /\ Y <= R * P
      /\ 512 * (Y * d) <= 512 * ((R * n) * P) + P /\ 512 * ((R * n) * P) <= 512 * (Y * d) + P
      /\ y \in Nat /\ f \in 0..P - 1 /\ Y = P * y + f
      /\ s \in Nat /\ (s = y \/ (s = y + 1 /\ 262144 * (P - f) <= P))
  BY DEF AreSteps
<1> DEFINE N == R * n
           z == y * d
           fd == f * d
<1>1. N \in Nat /\ z \in Nat /\ fd \in Nat
  BY <1>0
<1>2. Y * d = P * z + fd
  <2>1. (P * y + f) * d = P * (y * d) + f * d
    BY <1>0
  <2> QED
    BY <1>0, <2>1
<1>3. N * P = P * N
  BY <1>0
<1>4. fd <= (P - 1) * d /\ (P - 1) * d = P * d - d
  BY <1>0
<1>5. s = y + 1 => 262144 * (P * d - fd) <= 127 * P
  <2> SUFFICES ASSUME 262144 * (P - f) <= P PROVE 262144 * (P * d - fd) <= 127 * P
    BY <1>0
  <2> DEFINE g == P - f
  <2>1. g \in Nat /\ 262144 * g <= P
    BY <1>0
  <2>2. P * d - fd = g * d
    BY <1>0
  <2> HIDE DEF g
  <2>3. g * d <= g * 127
    BY <1>0, <2>1
  <2> QED
    BY <1>0, <2>1, <2>2, <2>3
<1> DEFINE Yd == Y * d
           NP == N * P
<1>6. 512 * Yd <= 512 * NP + P /\ 512 * NP <= 512 * Yd + P
  BY <1>0
<1>7. y <= R
  <2>1. P * y < P * (R + 1)
    <3>1. P * y <= R * P /\ P * (R + 1) = R * P + P
      BY <1>0
    <3> QED
      BY <1>0, <3>1
  <2> QED
    BY <1>0, <2>1, FactorOut
<1>8. s = y + 1 => y + 1 <= R
  <2> SUFFICES ASSUME s = y + 1 PROVE y + 1 <= R
    BY <1>0
  <2>1. f >= 1
    BY <1>0
  <2>2. P * (y + 1) < P * (R + 1)
    <3>1. P * (y + 1) = P * y + P /\ P * (R + 1) = R * P + P
      BY <1>0
    <3> QED
      BY <1>0, <2>1, <3>1
  <2> QED
    BY <1>0, <2>2, FactorOut
<1>9. s \in 0..R
  BY <1>0, <1>7, <1>8
<1>10. Yd = P * z + fd /\ NP = P * N
  BY <1>0, <1>2, <1>3
<1> HIDE DEF N, z, fd, Yd, NP
<1> DEFINE Pz == P * z
           PN == P * N
           Pd == P * d
<1>11. Pz \in Nat /\ PN \in Nat /\ Pd \in Nat
  BY <1>0, <1>1
<1>12. 512 * (Pz + fd) <= 512 * PN + P /\ 512 * PN <= 512 * (Pz + fd) + P /\ fd < Pd
  <2>1. fd < Pd
    BY <1>0, <1>1, <1>4
  <2>2. Yd = Pz + fd /\ NP = PN
    BY <1>0, <1>10
  <2> HIDE DEF Pz, PN, Pd
  <2> QED
    BY <1>0, <1>6, <2>1, <2>2
<1>13. Pz < PN + P /\ PN < Pz + Pd + P
  <2> HIDE DEF Pz, PN, Pd
  <2> QED
    BY <1>0, <1>1, <1>11, <1>12
<1>14. z <= N /\ N <= z + d
  <2>1. P * (N + 1) = PN + P /\ P * ((z + d) + 1) = Pz + Pd + P
    BY <1>0, <1>1
  <2> QED
    BY <1>0, <1>1, <1>13, <2>1, FactorOut
<1>15. s = y + 1 => z + d <= N
  <2> SUFFICES ASSUME s = y + 1 PROVE z + d <= N
    BY <1>0
  <2>1. 262144 * (Pd - fd) <= 127 * P
    BY <1>0, <1>5
  <2>2. Pz + Pd < PN + P
    <3> HIDE DEF Pz, PN, Pd
    <3> QED
      BY <1>0, <1>1, <1>11, <1>12, <2>1
  <2>3. P * (z + d) = Pz + Pd /\ P * (N + 1) = PN + P
    BY <1>0, <1>1
  <2> QED
    BY <1>0, <1>1, <2>2, <2>3, FactorOut
<1>16. (y + 1) * d = z + d /\ (y + 2) * d = z + d + d /\ y * d = z
  BY <1>0 DEF z
<1>17. CASE s = y
  BY <1>0, <1>9, <1>14, <1>16, <1>17 DEF N
<1>18. CASE s = y + 1
  <2>1. s * d = z + d /\ (s + 1) * d = z + d + d
    BY <1>0, <1>16, <1>18
  <2>2. z + d <= N /\ N <= z + d + d
    BY <1>0, <1>1, <1>14, <1>15, <1>18
  <2> QED
    BY <1>0, <1>9, <2>1, <2>2 DEF N
<1> QED
  BY <1>0, <1>17, <1>18

(* What Truncated() makes of low + range * (num / den): the whole steps, or  *)
(* one step less or more only where the quotient is at an integer.           *)
LEMMA TruncatedIs ==
  ASSUME NEW low \in Nat, NEW range \in Nat, low + range <= 127,
         NEW n \in Nat, NEW d \in 1..127, n <= d
  PROVE  LET s == Truncated(low, range, n, d) - low
         IN  s \in 0..range /\ s * d <= range * n /\ range * n <= (s + 1) * d
<1> DEFINE e == Exponent(n, d)
           P == 2^e
           Q == RoundedQuotient(n * 2^e, d)
           X == range * Q
           k == IF Bits(X) > 24 THEN Bits(X) - 24 ELSE 0
           U == 2^k
           Y == RoundedQuotient(X, U) * U
           W == low + Y \div P
           left == 24 - Bits(W)
           carried == e > left /\ RoundedQuotient(Y % P, 2^(e - left)) = 2^left
<1>1. Truncated(low, range, n, d) = IF n < 1 THEN low ELSE IF carried THEN W + 1 ELSE W
  BY DEF Truncated
<1>2. CASE n < 1
  <2> DEFINE t == Truncated(low, range, n, d)
  <2>1. t = low /\ n = 0
    BY <1>1, <1>2
  <2> HIDE DEF t
  <2>2. t - low = 0
    BY <2>1
  <2>3. 0 \in 0..range /\ 0 * d <= range * n /\ range * n <= (0 + 1) * d
    BY <2>1
  <2> QED
    BY <2>2, <2>3 DEF t
<1>3. CASE n >= 1
  <2>1. n \in 1..127 /\ range \in 0..127
    BY <1>3
  <2>2. e \in 23..30 /\ P \in Nat /\ n * P < d * 2^24 /\ P >= 2^23
    <3>1. /\ e \in 23..30 /\ 2^e \in Nat /\ n * 2^e >= d * 2^23
          /\ n * 2^e < d * 2^24 /\ 2^e >= 2^23
      BY <2>1, ExponentIs, ZenonT(30)
    <3> QED
      BY <3>1, ZenonT(30)
  <2>3. /\ 2^24 = 16777216 /\ 2^23 = 8388608 /\ 2^31 = 2147483648 /\ 2^0 = 1
        /\ 2^7 = 128 /\ 2^17 = 131072
    OBVIOUS
  <2>4. n * P \in Nat /\ n * P <= 16777216 * d /\ n * P <= P * d
    <3> HIDE DEF P
    <3>1. n * P \in Nat /\ n * P < d * 16777216
      BY <2>2, <2>3
    <3>2. n * P <= P * d
      BY <2>1, <2>2
    <3> QED
      BY <3>1, <3>2
  <2>5. /\ Q \in Nat /\ 2 * (Q * d) <= 2 * (n * P) + d /\ 2 * (n * P) <= 2 * (Q * d) + d
        /\ Q <= 16777216 /\ Q <= P
    <3> DEFINE a == n * P
    <3>1. a \in Nat /\ a <= 16777216 * d /\ a <= P * d /\ P \in Nat /\ d \in Nat \ {0}
      BY <2>2, <2>4
    <3>2. Q = RoundedQuotient(a, d)
      OBVIOUS
    <3> HIDE DEF a, P, Q
    <3>3. /\ Q \in Nat /\ 2 * (Q * d) <= 2 * a + d /\ 2 * a <= 2 * (Q * d) + d
          /\ \A m \in Nat : a <= m * d => Q <= m
      BY <3>1, <3>2, RoundedIs
    <3> QED
      BY <3>1, <3>3 DEF a
  <2> HIDE DEF Q
  <2>6. X \in Nat /\ X < 2^31 /\ X <= range * P
    <3> HIDE DEF P
    <3>1. /\ range * Q <= range * P /\ range * Q <= range * 16777216
          /\ range * 16777216 <= 127 * 16777216
      BY <2>1, <2>2, <2>5
    <3> QED
      BY <2>1, <2>3, <2>5, <3>1
  <2> DEFINE b == Bits(X)
  <2>7. b \in 0..31 /\ X < 2^b /\ (b > 0 => X >= 2^(b - 1))
    <3> HIDE DEF X
    <3> QED
      BY <2>6, BitsIs
  <2>8. k \in 0..7 /\ U \in Nat \ {0} /\ 65536 * U <= P
    <3> HIDE DEF X, b
    <3>1. CASE b > 24
      <4>1. k = b - 24 /\ k \in 1..7 /\ k + 23 = b - 1
        BY <2>7, <3>1 DEF b
      <4> HIDE DEF k
      <4>a. k \in 0..30 /\ k \in 0..31 /\ 23 \in 0..31 /\ k + 23 <= 31
        BY <4>1
      <4>2. U \in Nat \ {0}
        BY <4>a, PowerIs, ZenonT(30)
      <4>3. 2^(k + 23) = 2^k * 2^23
        BY <4>a, PowersMultiply, ZenonT(30)
      <4>4. U * 8388608 <= range * P
        <5>1. X >= 2^(b - 1)
          BY <2>7, <3>1
        <5>2. 2^(b - 1) = U * 8388608
          BY <2>3, <4>1, <4>3
        <5> HIDE DEF U, P
        <5> QED
          BY <2>1, <2>2, <2>6, <4>2, <5>1, <5>2
      <4>5. range * P <= 127 * P
        <5> HIDE DEF P
        <5> QED
          BY <2>1, <2>2
      <4> DEFINE RP == range * P
      <4>6. U * 8388608 <= RP /\ RP <= 127 * P /\ RP \in Nat
        <5> HIDE DEF P
        <5> QED
          BY <2>1, <2>2, <4>4, <4>5
      <4> HIDE DEF U, P, RP
      <4>7. 65536 * U <= P
        BY <2>2, <4>2, <4>6
      <4> QED
        BY <4>1, <4>2, <4>7 DEF P, U
    <3>2. CASE ~(b > 24)
      <4>1. k = 0
        BY <3>2 DEF b
      <4>2. U = 1
        BY <2>3, <4>1
      <4> HIDE DEF P
      <4> QED
        BY <2>2, <2>3, <4>1, <4>2
    <3> QED
      BY <3>1, <3>2
  <2>9. P = U * 2^(e - k) /\ 2^(e - k) \in Nat \ {0}
    <3> DEFINE r == e - k
    <3>1. k \in 0..31 /\ r \in 0..30 /\ k + r = e
      <4> HIDE DEF e, k
      <4> QED
        BY <2>2, <2>8
    <3> HIDE DEF e, k, r
    <3>a. r \in 0..31 /\ k + r <= 31
      BY <2>2, <3>1
    <3>b. 2^(k + r) = 2^k * 2^r
      BY <3>1, <3>a, PowersMultiply, ZenonT(30)
    <3>c. 2^r \in Nat \ {0}
      BY <3>1, PowerIs, ZenonT(30)
    <3>2. 2^(k + r) = 2^k * 2^r /\ 2^r \in Nat \ {0}
      BY <3>b, <3>c
    <3> QED
      BY <3>1, <3>2 DEF r
  <2> DEFINE y0 == RoundedQuotient(X, U)
             M == 2^(e - k)
  <2>10. /\ Y \in Nat /\ 2 * Y <= 2 * X + U /\ 2 * X <= 2 * Y + U /\ Y <= range * P
    <3>1. X \in Nat /\ U \in Nat \ {0} /\ M \in Nat \ {0} /\ P = U * M /\ X <= range * P
      BY <2>6, <2>8, <2>9
    <3>2. Y = y0 * U
      OBVIOUS
    <3> HIDE DEF X, U, M, P, Y
    <3>3. /\ y0 \in Nat /\ 2 * (y0 * U) <= 2 * X + U /\ 2 * X <= 2 * (y0 * U) + U
          /\ \A m \in Nat : X <= m * U => y0 <= m
      BY <3>1, RoundedIs
    <3>4. range * P = (range * M) * U /\ range * M \in Nat
      BY <2>1, <3>1
    <3>5. y0 <= range * M
      BY <3>1, <3>3, <3>4
    <3> HIDE DEF y0
    <3> DEFINE m == range * M
    <3>6. y0 * U <= m * U
      <4>1. y0 \in Nat /\ m \in Nat /\ y0 <= m /\ U \in Nat
        BY <3>1, <3>3, <3>4, <3>5
      <4> HIDE DEF m
      <4> QED
        BY <4>1
    <3>7. y0 * U \in Nat
      BY <3>1, <3>3
    <3> QED
      BY <3>2, <3>3, <3>4, <3>6, <3>7
  <2> DEFINE y == Y \div P
             f == Y % P
  <2>11. y \in Nat /\ f \in 0..P - 1 /\ Y = P * y + f
    <3>1. P \in Nat \ {0}
      BY <2>2, <2>3
    <3> HIDE DEF P, Y
    <3> QED
      BY <2>10, <3>1, DivisionIs
  <2>12. IsClose(range, n, d, P, Y)
    <3>1. P \in Nat /\ P >= 8388608 /\ U \in Nat
      BY <2>2, <2>3, <2>8
    <3>2. 2 * Y <= 2 * (range * Q) + U /\ 2 * (range * Q) <= 2 * Y + U
      BY <2>10
    <3> HIDE DEF P, Y, U, X
    <3>3. AreRounded(range, n, d, P, Q, U, Y)
      BY <2>1, <2>5, <2>8, <2>10, <3>1, <3>2 DEF AreRounded
    <3> QED
      BY <3>3, ErrorIs
  <2>13. P >= 8388608
    BY <2>2, <2>3
  <2>14. ASSUME NEW s \in Nat, s = y \/ (s = y + 1 /\ 262144 * (P - f) <= P)
        PROVE  s \in 0..range /\ s * d <= range * n /\ range * n <= (s + 1) * d
    <3> HIDE DEF P, Y, y, f
    <3>1. AreSteps(range, n, d, P, Y, y, f, s)
      BY <2>1, <2>2, <2>10, <2>11, <2>12, <2>13, <2>14 DEF IsClose, AreSteps
    <3> QED
      BY <3>1, StepsAre
  <2>15. W \in 0..127 /\ W = low + y
    <3> HIDE DEF y
    <3>1. y \in 0..range
      BY <2>11, <2>14
    <3> QED
      BY <3>1 DEF y
  <2> DEFINE c == Bits(W)
  <2>16. c \in 0..7
    <3> HIDE DEF W
    <3>1. c \in 0..31 /\ (c > 0 => W >= 2^(c - 1))
      BY <2>3, <2>15, BitsIs
    <3> HIDE DEF c
    <3> SUFFICES ASSUME c \in 8..31 PROVE FALSE
      BY <3>1
    <3> DEFINE r == c - 8
    <3>2. r \in 0..30 /\ 7 + r <= 31 /\ 7 + r = c - 1
      OBVIOUS
    <3> HIDE DEF r
    <3>3. 2^(7 + r) = 2^7 * 2^r /\ 2^r \in Nat \ {0}
      <4>1. 7 \in 0..31 /\ r \in 0..31
        BY <3>2
      <4>2. 2^(7 + r) = 2^7 * 2^r
        BY <3>2, <4>1, PowersMultiply, ZenonT(30)
      <4>3. 2^r \in Nat \ {0}
        BY <3>2, PowerIs, ZenonT(30)
      <4> QED
        BY <4>2, <4>3
    <3> DEFINE u == 2^r
    <3>4. W >= 128 * u /\ u \in Nat \ {0}
      BY <2>3, <3>1, <3>2, <3>3
    <3> HIDE DEF u
    <3> QED
      BY <2>15, <3>4
  <2>17. carried => 262144 * (P - f) <= P
    <3> SUFFICES ASSUME carried PROVE 262144 * (P - f) <= P
      OBVIOUS
    <3> DEFINE r == e - left
               G == 2^r
               H == 2^left
    <3>1. left \in 17..24 /\ e > left /\ RoundedQuotient(f, G) = H
      <4> HIDE DEF W
      <4> QED
        BY <2>16
    <3>2. r \in 0..30 /\ left + r = e /\ left <= 30
      <4> HIDE DEF e, left
      <4> QED
        BY <2>2, <3>1
    <3> DEFINE h == 2^(left - 17)
    <3>3. G \in Nat \ {0} /\ P = H * G /\ H = 131072 * h /\ h \in Nat \ {0}
      <4> DEFINE j == left - 17
      <4>1. j \in 0..30 /\ 17 + j = left
        <5> HIDE DEF left
        <5> QED
          BY <3>1
      <4> HIDE DEF e, left, r, j
      <4>a. /\ left \in 0..31 /\ r \in 0..31 /\ left + r <= 31
            /\ 17 \in 0..31 /\ j \in 0..31 /\ 17 + j <= 31
        BY <2>2, <3>1, <3>2, <4>1
      <4>b. 2^(left + r) = 2^left * 2^r
        BY <4>a, PowersMultiply, ZenonT(30)
      <4>c. 2^(17 + j) = 2^17 * 2^j
        BY <4>a, PowersMultiply, ZenonT(30)
      <4>d. 2^r \in Nat \ {0}
        BY <3>2, PowerIs, ZenonT(30)
      <4>e. 2^j \in Nat \ {0}
        BY <4>1, PowerIs, ZenonT(30)
      <4>2. 2^(left + r) = 2^left * 2^r /\ 2^r \in Nat \ {0}
        BY <4>b, <4>d
      <4>3. 2^(17 + j) = 2^17 * 2^j /\ 2^j \in Nat \ {0}
        BY <4>c, <4>e
      <4> QED
        BY <2>3, <3>2, <4>1, <4>2, <4>3 DEF j
    <3>4. f \in Nat
      <4> HIDE DEF f, P
      <4> QED
        BY <2>2, <2>11
    <3> HIDE DEF f, G, H, P, h
    <3>5. 2 * (H * G) <= 2 * f + G
      <4> DEFINE q == RoundedQuotient(f, G)
      <4>1. G \in Nat \ {0} /\ q = H
        BY <3>1, <3>3
      <4>2. 2 * (q * G) <= 2 * f + G
        BY <3>4, <4>1, RoundedIs
      <4> HIDE DEF q
      <4> QED
        BY <4>1, <4>2
    <3>6. H * G >= 131072 * G
      <4>1. h * G >= G /\ H * G = 131072 * (h * G)
        BY <3>3
      <4> QED
        BY <3>3, <4>1
    <3>7. 2 * P <= 2 * f + G /\ P >= 131072 * G /\ P \in Nat
      BY <2>2, <3>3, <3>5, <3>6 DEF P
    <3> QED
      BY <2>11, <3>3, <3>4, <3>7
  <2> DEFINE s == IF carried THEN y + 1 ELSE y
  <2>18. Truncated(low, range, n, d) - low = s
    <3> DEFINE t == Truncated(low, range, n, d)
    <3>1. t = IF carried THEN W + 1 ELSE W
      BY <1>1, <1>3
    <3> HIDE DEF t, carried, W, y
    <3>2. t - low = IF carried THEN y + 1 ELSE y
      BY <2>11, <2>15, <3>1
    <3> QED
      BY <3>2 DEF t
  <2>19. s \in Nat /\ (s = y \/ (s = y + 1 /\ 262144 * (P - f) <= P))
    <3> HIDE DEF carried, y, f, P
    <3> QED
      BY <2>11, <2>17
  <2> HIDE DEF s
  <2>20. s \in 0..range /\ s * d <= range * n /\ range * n <= (s + 1) * d
    <3> HIDE DEF y, f, P
    <3> QED
      BY <2>14, <2>19
  <2> QED
    BY <2>18, <2>20
<1> QED
  BY <1>2, <1>3

(* What a monitor has, and what it is asked for. *)
ValidTriplets == [min : Numbers, current : Nat, max : Numbers]
Askable == {NaN} \cup [num : Int, den : Numbers \ {0}]

(* What is cached has a range, and what was read is a quotient by its size; *)
(* every write is in range.                                                 *)
MonitorInv ==
    /\ native \in [Properties -> ValidTriplets]
    /\ cached \in [Properties -> ValidTriplets]
    /\ \A p \in Properties : cached[p] # NoTriplet => cached[p].min < cached[p].max
    /\ reading \in Askable
    /\ WritesAreInRange

(* What is made of a value that is asked for. *)
LEMMA MappedIs ==
  ASSUME NEW t \in ValidTriplets, t.min < t.max, NEW asked \in [num : Int, den : Numbers \ {0}],
         asked # NaN, NEW sent \in MappedToNative(t, asked)
  PROVE  LET range == t.max - t.min
             steps == sent - t.min
             target == IF asked.num < 0 THEN 0
                       ELSE IF asked.num > asked.den THEN range * asked.den ELSE range * asked.num
         IN  steps \in 0..range /\ steps * asked.den <= target /\ target <= (steps + 1) * asked.den
<1> DEFINE low == t.min
           range == t.max - t.min
           num == asked.num
           den == asked.den
           steps == sent - t.min
           v == Clamped01(asked)
<1>1. low \in Nat /\ range \in Nat /\ low + range <= 127 /\ num \in Int /\ den \in 1..127
  BY DEF ValidTriplets, Numbers
<1>2. sent = Truncated(low, range, v.num, v.den)
  BY DEF MappedToNative
<1>3. v = IF num < 0 THEN [num |-> 0, den |-> 1]
          ELSE IF num > den THEN [num |-> 1, den |-> 1] ELSE asked
  BY DEF Clamped01
<1>4. /\ num < 0 => v.num = 0 /\ v.den = 1
      /\ ~(num < 0) /\ num > den => v.num = 1 /\ v.den = 1
      /\ ~(num < 0) /\ ~(num > den) => v.num = num /\ v.den = den
  <2> HIDE DEF v
  <2> QED
    BY <1>3
<1> HIDE DEF v
<1>5. v.num \in Nat /\ v.den \in 1..127 /\ v.num <= v.den
  <2> HIDE DEF num, den
  <2> QED
    BY <1>1, <1>4
<1> DEFINE n == v.num
           d == v.den
<1>6. steps \in 0..range /\ steps * d <= range * n /\ range * n <= (steps + 1) * d
  <2>1. n \in Nat /\ d \in 1..127 /\ n <= d
    BY <1>5
  <2>2. steps = Truncated(low, range, n, d) - low
    BY <1>2
  <2> HIDE DEF n, d, steps, low, range
  <2> QED
    BY <1>1, <2>1, <2>2, TruncatedIs
<1>7. /\ num < 0 => n = 0 /\ d = 1
      /\ ~(num < 0) /\ num > den => n = 1 /\ d = 1
      /\ ~(num < 0) /\ ~(num > den) => n = num /\ d = den
  BY <1>4
<1> DEFINE target == IF num < 0 THEN 0 ELSE IF num > den THEN range * den ELSE range * num
<1>8. steps * den <= target /\ target <= (steps + 1) * den
  <2> HIDE DEF n, d, steps, low, range, num, den
  <2>1. CASE num < 0
    <3>1. steps = 0 /\ target = 0
      BY <1>1, <1>6, <1>7, <2>1
    <3> HIDE DEF target
    <3> QED
      BY <1>1, <3>1
  <2>2. CASE ~(num < 0) /\ num > den
    <3>1. steps \in 0..range /\ steps <= range /\ range <= steps + 1 /\ target = range * den
      BY <1>1, <1>6, <1>7, <2>2
    <3> HIDE DEF target
    <3> QED
      BY <1>1, <3>1
  <2>3. CASE ~(num < 0) /\ ~(num > den)
    <3>1. target = range * num
      BY <2>3
    <3> HIDE DEF target
    <3> QED
      BY <1>6, <1>7, <2>3, <3>1
  <2> QED
    BY <2>1, <2>2, <2>3
<1> QED
  BY <1>6, <1>8

(* A write is in range and leaves a valid triplet. *)
LEMMA WriteInv ==
  ASSUME native \in [Properties -> ValidTriplets], NEW p \in Properties,
         NEW t \in ValidTriplets, t.min < t.max, NEW asked \in Askable, NEW left,
         Write(p, asked, t, left)
  PROVE  native' \in [Properties -> ValidTriplets] /\ WritesAreInRange'
<1>1. PICK n \in FailuresWith(left), sent \in MappedToNative(t, asked) :
        /\ written' = [asked |-> asked, triplet |-> t, sent |-> sent]
        /\ native' = IF Succeeds(left, n) /\ sent \in native[p].min..native[p].max
                     THEN [native EXCEPT ![p].current = sent] ELSE native
  BY DEF Write
<1>2. native' \in [Properties -> ValidTriplets]
  <2>1. CASE Succeeds(left, n) /\ sent \in native[p].min..native[p].max
    <3>1. native[p] \in ValidTriplets /\ native[p].min \in Nat /\ native[p].max \in Nat
      BY DEF ValidTriplets, Numbers
    <3>2. sent \in Nat
      BY <2>1, <3>1
    <3>3. [native[p] EXCEPT !.current = sent] \in ValidTriplets
      BY <3>1, <3>2 DEF ValidTriplets
    <3>4. native' = [native EXCEPT ![p] = [native[p] EXCEPT !.current = sent]]
      BY <1>1, <2>1
    <3> QED
      BY <3>3, <3>4
  <2>2. CASE ~(Succeeds(left, n) /\ sent \in native[p].min..native[p].max)
    BY <1>1, <2>2
  <2> QED
    BY <2>1, <2>2
<1>3. WritesAreInRange'
  <2>1. CASE asked = NaN
    BY <1>1, <2>1 DEF WritesAreInRange
  <2>2. CASE asked # NaN
    <3> DEFINE range == t.max - t.min
               steps == sent - t.min
               target == IF asked.num < 0 THEN 0
                         ELSE IF asked.num > asked.den THEN range * asked.den ELSE range * asked.num
    <3>1. asked \in [num : Int, den : Numbers \ {0}]
      BY <2>2 DEF Askable
    <3>2. steps \in 0..range /\ steps * asked.den <= target /\ target <= (steps + 1) * asked.den
      BY <2>2, <3>1, MappedIs
    <3>3. written'.asked = asked /\ written'.triplet = t /\ written'.sent = sent
      BY <1>1
    <3> QED
      BY <3>2, <3>3 DEF WritesAreInRange
  <2> QED
    BY <2>1, <2>2
<1> QED
  BY <1>2, <1>3

(* What is read of a monitor is a triplet with a range, or nothing. *)
LEMMA TripletReadIs ==
  ASSUME native \in [Properties -> ValidTriplets], NEW p \in Properties, NEW n
  PROVE  LET t == TripletRead(p, n)
         IN  t \in ValidTriplets /\ (t # NoTriplet => t.min < t.max)
<1>1. NoTriplet \in ValidTriplets
  BY DEF NoTriplet, ValidTriplets, Numbers
<1> QED
  BY <1>1 DEF TripletRead

(* A value that was read is a quotient. *)
LEMMA MappedFromIs ==
  ASSUME NEW t \in ValidTriplets, t.min < t.max
  PROVE  MappedFromNative(t) \in Askable
<1>1. t.min \in 0..127 /\ t.max \in 0..127 /\ t.current \in Nat
  BY DEF ValidTriplets, Numbers
<1> DEFINE low == t.min
           high == t.max
           now == t.current
           den == high - low
           num == IF now < low THEN 2 * den ELSE now - low
<1>2. low \in 0..127 /\ high \in 0..127 /\ now \in Nat /\ low < high
  BY <1>1
<1>3. MappedFromNative(t) = [num |-> num, den |-> den]
  BY DEF MappedFromNative
<1> HIDE DEF low, high, now
<1>4. num \in Int /\ den \in Numbers \ {0}
  BY <1>2 DEF Numbers
<1> HIDE DEF num, den
<1> QED
  BY <1>3, <1>4 DEF Askable

(* What a monitor may report is a triplet. *)
LEMMA TripletsAre == Triplets \subseteq ValidTriplets
<1>1. ASSUME NEW r \in Ranges, NEW c \in Currents
      PROVE  [min |-> r.min, current |-> c, max |-> r.max] \in ValidTriplets
  <2>1. r \in [min : Numbers, max : Numbers] /\ c \in Nat
    BY ValuesAssumption
  <2> QED
    BY <2>1 DEF ValidTriplets
<1> QED
  BY <1>1 DEF Triplets

(* Initially nothing was read or written. *)
LEMMA MonitorInitInv == InitMonitor => MonitorInv
<1> SUFFICES ASSUME InitMonitor PROVE MonitorInv
  OBVIOUS
<1>1. Triplets \subseteq ValidTriplets
  BY TripletsAre
<1>2. native \in [Properties -> Triplets]
  BY DEF InitMonitor
<1>3. native \in [Properties -> ValidTriplets]
  <2> HIDE DEF InitMonitor
  <2> QED
    BY <1>1, <1>2
<1>4. NoTriplet \in ValidTriplets
  BY DEF NoTriplet, ValidTriplets, Numbers
<1>5. cached \in [Properties -> ValidTriplets] /\ \A p \in Properties : cached[p] = NoTriplet
  BY <1>4 DEF InitMonitor
<1>6. reading \in Askable
  BY DEF InitMonitor, Askable
<1>7. WritesAreInRange
  BY DEF InitMonitor, WritesAreInRange
<1> QED
  BY <1>3, <1>5, <1>6, <1>7 DEF MonitorInv

(* A property is read. *)
LEMMA PropertyInv ==
  ASSUME MonitorInv, NEW p \in Properties, Property(p) PROVE MonitorInv'
<1>1. PICK n \in FailuresWith(m_retriesLeft) :
        LET triplet == TripletRead(p, n)
        IN  /\ cached' = IF triplet = NoTriplet THEN cached ELSE [cached EXCEPT ![p] = triplet]
            /\ reading' = IF triplet = NoTriplet THEN NaN ELSE MappedFromNative(triplet)
            /\ UNCHANGED <<native, capable, written>>
  BY DEF Property
<1> DEFINE t == TripletRead(p, n)
<1>2. t \in ValidTriplets /\ (t # NoTriplet => t.min < t.max)
  BY TripletReadIs DEF MonitorInv
<1>3. /\ cached' = IF t = NoTriplet THEN cached ELSE [cached EXCEPT ![p] = t]
      /\ reading' = IF t = NoTriplet THEN NaN ELSE MappedFromNative(t)
      /\ native' = native /\ written' = written
  BY <1>1
<1> HIDE DEF t
<1>4. reading' \in Askable
  BY <1>2, <1>3, MappedFromIs DEF Askable
<1>5. /\ cached' \in [Properties -> ValidTriplets]
      /\ \A q \in Properties : cached'[q] # NoTriplet => cached'[q].min < cached'[q].max
  BY <1>2, <1>3 DEF MonitorInv
<1>6. WritesAreInRange'
  BY <1>3 DEF MonitorInv, WritesAreInRange
<1> QED
  BY <1>3, <1>4, <1>5, <1>6 DEF MonitorInv

(* A property is written, after it was read where it has to be. *)
LEMMA SetPropertyInv ==
  ASSUME MonitorInv, NEW p \in Properties, NEW asked \in Askable, SetProperty(p, asked)
  PROVE  MonitorInv'
<1>1. reading' = reading
  BY DEF SetProperty
<1>2. native \in [Properties -> ValidTriplets] /\ cached[p] \in ValidTriplets
  BY DEF MonitorInv
<1>3. CASE cached[p] # NoTriplet /\ Write(p, asked, cached[p], m_retriesLeft) /\ UNCHANGED cached
  <2>1. cached[p].min < cached[p].max
    BY <1>3 DEF MonitorInv
  <2>2. native' \in [Properties -> ValidTriplets] /\ WritesAreInRange'
    BY <1>2, <1>3, <2>1, WriteInv
  <2> QED
    BY <1>1, <1>3, <2>2 DEF MonitorInv
<1>4. ASSUME NEW t, NEW left, t = NoTriplet \/ t.min < t.max, t \in ValidTriplets, t # NoTriplet,
             cached' = [cached EXCEPT ![p] = t], Write(p, asked, t, left)
      PROVE  MonitorInv'
  <2>1. native' \in [Properties -> ValidTriplets] /\ WritesAreInRange'
    BY <1>2, <1>4, WriteInv
  <2>2. /\ cached' \in [Properties -> ValidTriplets]
        /\ \A q \in Properties : cached'[q] # NoTriplet => cached'[q].min < cached'[q].max
    BY <1>4 DEF MonitorInv
  <2> QED
    BY <1>1, <2>1, <2>2 DEF MonitorInv
<1>5. CASE UNCHANGED <<native, cached, written>>
  BY <1>1, <1>5 DEF MonitorInv, WritesAreInRange
<1>6. CASE cached[p] = NoTriplet
  <2>1. PICK n \in FailuresWith(m_retriesLeft) :
          \/ /\ TripletRead(p, n) # NoTriplet
             /\ cached' = [cached EXCEPT ![p] = TripletRead(p, n)]
             /\ Write(p, asked, TripletRead(p, n), LeftAfter(m_retriesLeft, n))
          \/ UNCHANGED <<native, cached, written>>
    BY <1>6 DEF SetProperty
  <2>2. /\ TripletRead(p, n) \in ValidTriplets
        /\ TripletRead(p, n) # NoTriplet => TripletRead(p, n).min < TripletRead(p, n).max
    BY <1>2, TripletReadIs
  <2> QED
    BY <1>4, <1>5, <2>1, <2>2
<1> QED
  BY <1>3, <1>6 DEF SetProperty

(* Every step keeps it. *)
LEMMA MonitorStepInv ==
  ASSUME MonitorInv, NextMonitor \/ UNCHANGED monitorVars PROVE MonitorInv'
<1>1. CASE UNCHANGED monitorVars
  BY <1>1 DEF monitorVars, MonitorInv, WritesAreInRange
<1>2. CASE Capabilities
  <2>1. UNCHANGED <<native, cached, reading, written>>
    BY <1>2 DEF Capabilities
  <2> QED
    BY <2>1 DEF MonitorInv, WritesAreInRange
<1>3. CASE ChangeNative
  <2>1. Triplets \subseteq ValidTriplets
    BY TripletsAre
  <2>2. PICK p \in Properties, t \in Triplets : native' = [native EXCEPT ![p] = t]
    BY <1>3 DEF ChangeNative
  <2>3. native' \in [Properties -> ValidTriplets]
    BY <2>1, <2>2 DEF MonitorInv
  <2>4. UNCHANGED <<cached, reading, written>>
    BY <1>3 DEF ChangeNative
  <2> QED
    BY <2>3, <2>4 DEF MonitorInv, WritesAreInRange
<1>4. CASE \E p \in Properties : Property(p)
  BY <1>4, PropertyInv
<1>5. CASE \E p \in Properties : \E asked \in {reading} \union OtherValues : SetProperty(p, asked)
  <2>1. {reading} \union OtherValues \subseteq Askable
    BY ValuesAssumption DEF MonitorInv, Askable
  <2> QED
    BY <1>5, <2>1, SetPropertyInv
<1> QED
  BY <1>1, <1>2, <1>3, <1>4, <1>5 DEF NextMonitor

-----------------------------------------------------------------------------

(* The parts together. *)
IInv == ConnectionInv /\ DiscoveryInv /\ EnumerationInv /\ MonitorInv

(* The initial states are in the invariant. *)
LEMMA InitInv == Init => IInv
<1> SUFFICES ASSUME Init PROVE IInv
  OBVIOUS
<1>1. ConnectionInv
  BY ConnectionInitInv DEF Init
<1>2. DiscoveryInv
  BY DiscoveryInitInv DEF Init
<1>3. EnumerationInv
  BY EnumerationInitInv DEF Init
<1>4. MonitorInv
  BY MonitorInitInv DEF Init
<1> QED
  BY <1>1, <1>2, <1>3, <1>4 DEF IInv

(* Every step keeps the invariant. *)
LEMMA StepInv ==
  ASSUME IInv, [Next]_vars PROVE IInv'
<1>1. NextConnection \/ UNCHANGED connectionVars
  BY DEF Next, vars
<1>2. NextDiscovery \/ UNCHANGED discoveryVars
  BY DEF Next, vars
<1>3. NextEnumeration \/ UNCHANGED enumerationVars
  BY DEF Next, vars
<1>4. ConnectionInv'
  BY <1>1, ConnectionStepInv DEF IInv
<1>5. DiscoveryInv'
  BY <1>2, DiscoveryStepInv DEF IInv
<1>6. EnumerationInv'
  BY <1>3, EnumerationStepInv DEF IInv
<1>7. NextMonitor \/ UNCHANGED monitorVars
  BY DEF Next, vars
<1>8. MonitorInv'
  BY <1>7, MonitorStepInv DEF IInv
<1> QED
  BY <1>4, <1>5, <1>6, <1>8 DEF IInv

(* The inductive invariant holds of every behaviour, however many promises, *)
(* datagrams and enumerations there are.                                    *)
THEOREM Invariant == Spec => []IInv
  BY InitInv, StepInv, PTL DEF Spec

(* Every future that start() and send() returned is pending exactly while   *)
(* the connection holds its promise, what is written to the socket is what  *)
(* is pending, and only undefined behaviour makes the program crash         *)
(* (stop(), start(), send(), handleSocketConnected(),                       *)
(* handleSocketErrorOccured()).                                             *)
THEOREM EveryPromiseIsKept == Spec => []PromisesAreKept
<1>1. IInv => PromisesAreKept
  BY PromisesAreKeptFromInv DEF IInv
<1> QED
  BY <1>1, Invariant, PTL

(* Every answer that names the target is reported once, in the order they   *)
(* were read, and nothing else is, for all datagrams there may be           *)
(* (readPendingDatagrams(), Heos::handleDiscovered()).                      *)
THEOREM EveryDeviceIsFound == Spec => []DevicesAreFound
<1>1. IInv => DevicesAreFound
  BY DevicesAreFoundFromInv DEF IInv
<1> QED
  BY <1>1, Invariant, PTL

(* Every open handle of a physical monitor is that of exactly one           *)
(* WinMonitor, whatever overlaps and fails, and a monitor has the id of no  *)
(* other (enumerateMonitors(), monitorDeviceId(), ~WinMonitor()).           *)
THEOREM EveryHandleIsOwned == Spec => []HandlesAreOwned
<1>1. IInv => HandlesAreOwned
  BY HandlesAreOwnedFromInv DEF IInv
<1> QED
  BY <1>1, Invariant, PTL

(* What is sent to a monitor is in the range it was computed for and within *)
(* one step below the value that was asked for, whatever the ranges, values *)
(* and failures are (mapToNative(), setProperty()).                         *)
THEOREM EveryWriteIsInRange == Spec => []WritesAreInRange
<1>1. IInv => WritesAreInRange
  BY DEF IInv, MonitorInv
<1> QED
  BY <1>1, Invariant, PTL
=============================================================================
