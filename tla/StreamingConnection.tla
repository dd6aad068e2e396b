------------------------- MODULE StreamingConnection -------------------------
(***************************************************************************)
(* lib/heos: StreamingConnection, a TCP connection whose start() and send() *)
(* return futures.  The socket belongs to Qt and to the network; its         *)
(* signals are handled in the thread of the connection, some of them inside *)
(* a call of the connection: connectToHost() is given an address, so it can *)
(* connect or fail before it returns, and flush() reports a broken           *)
(* connection before it returns.                                            *)
(*                                                                         *)
(* A promise is a number.  Release builds have no assertions: setting a      *)
(* promise that was set before dereferences a null state.                   *)
(***************************************************************************)
EXTENDS Integers, Sequences, SequencesExt

CONSTANT MaxPromises    \* bound on the promises that are made

ASSUME MaxPromisesAssumption == MaxPromises \in Nat \ {0}

VARIABLES
    m_socket,           \* "none", or the state of the socket
    m_connectPromise,   \* the promise, or 0
    m_commandQueue,     \* the commands: promise, and whether its state is still there
    promised,           \* what became of each promise
    wire,               \* the payloads written to this socket; a payload is its promise
    connection,         \* "alive", "crashed" or "destroyed"
    risked              \* history: the code was left to undefined behaviour

connectionVars == <<m_socket, m_connectPromise, m_commandQueue, promised, wire, connection, risked>>

InitConnection ==
    /\ m_socket = "none" /\ m_connectPromise = 0 /\ m_commandQueue = <<>>
    /\ promised = <<>> /\ wire = <<>>
    /\ connection = "alive" /\ risked = FALSE

Fresh == Len(promised) + 1
CanPromise == connection = "alive" /\ Len(promised) < MaxPromises

Payloads == [i \in DOMAIN m_commandQueue |-> m_commandQueue[i].promise]
HeldPromises == ({m_connectPromise} \ {0}) \union ToSet(Payloads)

(* set_error() takes the state of the promise; the second call finds none. *)
IsSetTwice == \E i \in DOMAIN m_commandQueue : ~m_commandQueue[i].held

Settled(outcome) ==
    [p \in DOMAIN promised |-> IF p \in HeldPromises THEN outcome ELSE promised[p]]

Crash == connection' = "crashed" /\ UNCHANGED <<m_socket, m_connectPromise, m_commandQueue, promised, wire, risked>>

(* clear(), after handleSocketErrorOccured() has set every promise. *)
KeepTaken ==        \* mutant: without clear()
    [i \in DOMAIN m_commandQueue |-> [m_commandQueue[i] EXCEPT !.held = FALSE]]
QueueAfterError == <<>>

Stop ==
    /\ connection = "alive"
    /\ \/ IsSetTwice /\ Crash
       \/ /\ ~IsSetTwice
          /\ m_socket' = "none" /\ m_connectPromise' = 0 /\ m_commandQueue' = <<>> /\ wire' = <<>>
          /\ promised' = Settled("cancelled")
          /\ UNCHANGED <<connection, risked>>

(* If a slot runs inside connectToHost(), m_connectPromise is null when its   *)
(* future is asked for.                                                     *)
Start ==
    /\ CanPromise
    /\ \/ IsSetTwice /\ Crash
       \/ /\ ~IsSetTwice
          /\ m_commandQueue' = <<>> /\ wire' = <<>>
          /\ \/ /\ m_socket' = "connecting" /\ m_connectPromise' = Fresh
                /\ promised' = Append(Settled("cancelled"), "pending")
                /\ UNCHANGED <<connection, risked>>
             \/ \E end \in {[socket |-> "connected", outcome |-> "value"],
                            [socket |-> "unconnected", outcome |-> "error"]} :
                /\ m_socket' = end.socket /\ m_connectPromise' = 0
                /\ promised' = Append(Settled("cancelled"), end.outcome)
                /\ connection' = "crashed" /\ risked' = TRUE

(* If flush() fails, handleSocketErrorOccured() clears the queue that send()  *)
(* and handleSocketConnected() hold a reference into.                        *)
BreakDuringFlush ==
    /\ m_socket' = "unconnected" /\ m_connectPromise' = 0 /\ m_commandQueue' = <<>>
    /\ connection' = "crashed" /\ risked' = TRUE
    /\ UNCHANGED wire

SendUnconnected ==
    /\ m_socket = "unconnected"
    /\ m_commandQueue' = Append(m_commandQueue, [promise |-> Fresh, held |-> FALSE])
    /\ promised' = Append(promised, "error")
    /\ risked' = TRUE           \* future() of a promise without a state
    /\ UNCHANGED <<m_socket, m_connectPromise, wire, connection>>

SendLater ==
    /\ m_socket = "connecting"
    /\ m_commandQueue' = Append(m_commandQueue, [promise |-> Fresh, held |-> TRUE])
    /\ promised' = Append(promised, "pending")
    /\ UNCHANGED <<m_socket, m_connectPromise, wire, connection, risked>>

SendNow ==
    /\ m_socket = "connected"
    /\ \/ /\ m_commandQueue' = Append(m_commandQueue, [promise |-> Fresh, held |-> TRUE])
          /\ promised' = Append(promised, "pending")
          /\ wire' = Append(wire, Fresh)
          /\ UNCHANGED <<m_socket, m_connectPromise, connection, risked>>
       \/ /\ promised' = Append(Settled("error"), "error")
          /\ BreakDuringFlush

(* "Must call start() first": without a socket there is no call. *)
Send == CanPromise /\ (SendUnconnected \/ SendLater \/ SendNow)

HandleSocketConnected ==
    /\ connection = "alive" /\ m_socket = "connecting"
    /\ \/ /\ m_socket' = "connected" /\ m_connectPromise' = 0
          /\ promised' = [promised EXCEPT ![m_connectPromise] = "value"]
          /\ wire' = Payloads
          /\ UNCHANGED <<m_commandQueue, connection, risked>>
       \/ /\ m_commandQueue # <<>>
          /\ promised' = [Settled("error") EXCEPT ![m_connectPromise] = "value"]
          /\ BreakDuringFlush

(* The host is not reached, or it closes the connection. *)
HandleSocketErrorOccured ==
    /\ connection = "alive" /\ m_socket \in {"connecting", "connected"}
    /\ \/ IsSetTwice /\ Crash
       \/ /\ ~IsSetTwice
          /\ m_socket' = "unconnected" /\ m_connectPromise' = 0
          /\ m_commandQueue' = QueueAfterError
          /\ promised' = Settled("error")
          /\ UNCHANGED <<wire, connection, risked>>

(* The destructor sets no promise: what is pending is pending for ever. *)
DestroyConnection ==
    /\ connection = "alive" /\ connection' = "destroyed"
    /\ m_socket' = "none" /\ m_connectPromise' = 0 /\ m_commandQueue' = <<>> /\ wire' = <<>>
    /\ UNCHANGED <<promised, risked>>

NextConnection ==
    \/ Start \/ Stop \/ Send \/ DestroyConnection
    \/ HandleSocketConnected \/ HandleSocketErrorOccured

-----------------------------------------------------------------------------
(* As long as nothing undefined was reached, every future that start() and    *)
(* send() returned is pending exactly while the connection still holds its    *)
(* promise, none is pending without a socket or after an error, and what was  *)
(* written to the socket is what is pending, in order, each once              *)
(* (stop(), send(), handleSocketConnected(), handleSocketErrorOccured()).     *)
(* Nothing else than a signal inside a call, or a send() after an error,      *)
(* makes the program crash.                                                 *)
PromisesAreKept ==
    LET pending == {p \in DOMAIN promised : promised[p] = "pending"}
    IN  /\ connection = "crashed" => risked
        /\ connection = "alive" /\ ~risked =>
            /\ pending = HeldPromises
            /\ IsInjective(Payloads) /\ m_connectPromise \notin ToSet(Payloads)
            /\ m_socket \in {"none", "unconnected"} => pending = {}
            /\ m_socket = "connecting" => m_connectPromise # 0 /\ wire = <<>>
            /\ m_socket = "connected" => m_connectPromise = 0 /\ wire = Payloads
=============================================================================
