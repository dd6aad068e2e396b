---------------------------- MODULE UpnpDiscovery ----------------------------
(***************************************************************************)
(* lib/upnp/upnp_discovery_endpoint and core/heos: the endpoint sends a      *)
(* search request from one socket for each network address and reads the     *)
(* answers; the entity Heos reports those that name its search target.       *)
(* Answers are lost, reordered, doubled and malformed as the network and the *)
(* devices like.                                                            *)
(*                                                                         *)
(* A datagram is a sequence of lines, without the '\n' between them; a line   *)
(* has a number of '\r' at its end, and is a name and a value around its      *)
(* first colon, or has no colon and is all name.                            *)
(***************************************************************************)
EXTENDS Integers, Sequences, SequencesExt

CONSTANTS
    Addresses,      \* addresses of the network interfaces
    Loopback,       \* the loopback ones of them
    Datagrams,      \* what devices and other programs may send to a socket
    LowerCase,      \* toLower() of each name
    Trimmed,        \* trimmed() of each value
    HeosTarget,     \* the search target of the HEOS devices
    MaxDatagrams    \* bound on the datagrams received, and pending at one socket

ASSUME LoopbackAssumption == Loopback \subseteq Addresses

Lines == [colon : BOOLEAN, name : STRING, value : STRING, cr : Nat]
SpellingsOfST == {"ST", "St", "sT", "st"}

(* split() gives at least one line; what has no colon has no value. *)
ASSUME DatagramsAssumption ==
    \A d \in Datagrams :
        /\ d \in Seq(Lines) /\ d # <<>>
        /\ \A i \in DOMAIN d : IF d[i].colon THEN d[i].name \in DOMAIN LowerCase ELSE d[i].value = ""
ASSUME LowerCaseAssumption == \A n \in DOMAIN LowerCase : LowerCase[n] = "st" <=> n \in SpellingsOfST
ASSUME TargetAssumption == HeosTarget # ""

VARIABLES
    m_sockets,      \* the addresses sockets are bound to
    m_started,
    heos,           \* the entity: "none", "created" or "destroyed"
    requests,       \* addresses a search request left from, with its MX and ST
    warned,         \* "Failed to send UPnP datagram" was logged
    inbox,          \* the datagrams pending at each socket
    received,       \* history: all datagrams read
    announced       \* history: "Discovered HEOS device", by its number in received

discoveryVars == <<m_sockets, m_started, heos, requests, warned, inbox, received, announced>>

InitDiscovery ==
    /\ m_sockets = {} /\ m_started = FALSE /\ heos = "none"
    /\ requests = {} /\ warned = FALSE
    /\ inbox = [a \in Addresses |-> <<>>]
    /\ received = <<>> /\ announced = <<>>

(* The `address` parameter is shadowed by the variable of the loop. *)
StartEndpoint ==
    /\ ~m_started /\ heos = "none"      \* in the constructor of the entity pool
    /\ m_started' = TRUE
    /\ \E bound \in SUBSET (Addresses \ Loopback) : m_sockets' = bound
    /\ UNCHANGED <<heos, requests, warned, inbox, received, announced>>

DefaultRequest == [maxWaitTime |-> 1, searchTarget |-> "ssdp:all"]
Clamped(n, low, high) == IF n < low THEN low ELSE IF n > high THEN high ELSE n

Discover(request) ==
    \E sent \in SUBSET m_sockets :
        /\ requests' = {[from |-> a, mx |-> Clamped(request.maxWaitTime, 1, 5),
                         st |-> request.searchTarget] : a \in sent}
        /\ warned' = (sent = {})

CreateHeos ==
    /\ m_started /\ heos = "none" /\ heos' = "created"
    /\ Discover(DefaultRequest)
    /\ UNCHANGED <<m_sockets, m_started, inbox, received, announced>>

(* ~DefaultEntityPool() destroys the entities first. *)
DestroyHeos ==
    /\ heos = "created" /\ heos' = "destroyed"
    /\ m_sockets' = {} /\ m_started' = FALSE
    /\ inbox' = [a \in Addresses |-> <<>>]
    /\ UNCHANGED <<requests, warned, received, announced>>

(* A port is known to nobody before a request left from it. *)
Arrive ==
    \E request \in requests, d \in Datagrams :
        /\ request.from \in m_sockets
        /\ Len(received) + Len(inbox[request.from]) < MaxDatagrams
        /\ inbox' = [inbox EXCEPT ![request.from] = Append(@, d)]
        /\ UNCHANGED <<m_sockets, m_started, heos, requests, warned, received, announced>>

-----------------------------------------------------------------------------
(* readPendingDatagrams() *)

Chopped(line) == IF line.cr > 0 THEN [line EXCEPT !.cr = @ - 1] ELSE line
StatusLine == [colon |-> FALSE, name |-> "HTTP/1.1 200 OK", value |-> "", cr |-> 0]
IsReply(datagram) == Chopped(datagram[1]) = StatusLine

EmptyReply == [searchTarget |-> "", headers |-> <<>>]

(* UpnpSearchTarget(value) replaces what an earlier line said; emplace() does not. *)
CaseSensitive(reply, line) ==   \* mutant: without toLower()
    IF ~line.colon THEN reply
    ELSE IF line.name = "st" THEN [reply EXCEPT !.searchTarget = Trimmed[line.value]]
    ELSE [reply EXCEPT !.headers = @ @@ (LowerCase[line.name] :> Trimmed[line.value])]
WithLine(reply, line) ==
    IF ~line.colon THEN reply
    ELSE IF LowerCase[line.name] = "st" THEN [reply EXCEPT !.searchTarget = Trimmed[line.value]]
    ELSE [reply EXCEPT !.headers = @ @@ (LowerCase[line.name] :> Trimmed[line.value])]

Parsed(datagram) ==
    LET reply[i \in 1..Len(datagram)] ==
            IF i = 1 THEN EmptyReply ELSE WithLine(reply[i - 1], datagram[i])
    IN  reply[Len(datagram)]

(* Heos::handleDiscovered() *)
IsAnnounced(datagram) == heos = "created" /\ IsReply(datagram) /\ Parsed(datagram).searchTarget = HeosTarget

Announcing(datagrams) ==
    LET read[i \in 0..Len(datagrams)] ==
            IF i = 0 THEN announced
            ELSE IF IsAnnounced(datagrams[i]) THEN Append(read[i - 1], Len(received) + i)
            ELSE read[i - 1]
    IN  read[Len(datagrams)]

(* One readyRead(); datagrams that arrive during the loop are read by it too. *)
ReadPendingDatagrams(a) ==
    /\ inbox[a] # <<>>
    /\ received' = received \o inbox[a]
    /\ announced' = Announcing(inbox[a])
    /\ inbox' = [inbox EXCEPT ![a] = <<>>]
    /\ UNCHANGED <<m_sockets, m_started, heos, requests, warned>>

NextDiscovery ==
    \/ StartEndpoint \/ CreateHeos \/ DestroyHeos \/ Arrive
    \/ \E a \in Addresses : ReadPendingDatagrams(a)

-----------------------------------------------------------------------------
(* A device is reported once for each of its answers, in the order they were  *)
(* read, and nothing else is reported: an answer counts if its last "ST"      *)
(* line, however that is spelled and padded, names the target, whatever       *)
(* malformed lines are around it (UpnpDiscoveryEndpoint::                     *)
(* readPendingDatagrams(), Heos::handleDiscovered()).                        *)
DevicesAreFound ==
    LET isST(line) == line.colon /\ line.name \in SpellingsOfST
        names(d, target) ==
            \E i \in 2..Len(d) :
                /\ isST(d[i]) /\ Trimmed[d[i].value] = target
                /\ \A j \in i + 1..Len(d) : ~isST(d[j])
        counts(d) == ~d[1].colon /\ d[1].name = "HTTP/1.1 200 OK" /\ d[1].cr <= 1 /\ names(d, HeosTarget)
    IN  /\ ToSet(announced) = {n \in DOMAIN received : counts(received[n])}
        /\ \A i, j \in DOMAIN announced : i < j => announced[i] < announced[j]
=============================================================================
