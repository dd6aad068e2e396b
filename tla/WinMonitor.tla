----------------------------- MODULE WinMonitor -----------------------------
(***************************************************************************)
(* platform/win: WinMonitorManager, which finds the monitors and makes a     *)
(* WinMonitor for each, and WinMonitor, which reads and writes a property    *)
(* through DDC/CI calls that fail now and then.  The manager enumerates in   *)
(* worker threads, several at a time, while monitors are plugged in and out; *)
(* a WinMonitor lives in the thread of its server and is used by it alone.   *)
(*                                                                         *)
(* floats have 24 bits of mantissa.  A value is the quotient it was rounded  *)
(* from, [num, den], or NaN; a conversion of NaN to an integer is undefined. *)
(***************************************************************************)
EXTENDS Integers, Sequences, FiniteSets, SequencesExt

CONSTANTS
    Topologies,     \* what may be plugged in: adapters with their monitors, and displays
    Ranges,         \* min and max a monitor may report
    Currents,       \* current values a monitor may report
    Properties,     \* brightness and contrast
    OtherValues,    \* values a knob may ask for, beside those that were read
    NaN,
    NaNResults,     \* integers a conversion of NaN may give
    MAX_RETRIES,
    MaxEnumerations \* bound on the calls of enumerateMonitors()

Panels == [text : STRING, id : STRING]
Adapters == [name : STRING, mirroring : BOOLEAN, monitors : Seq(Panels)]
Displays == [device : STRING, physical : Seq(Panels)]

(* Windows gives a monitor's interface an id of its own and each display the  *)
(* name of its adapter, and numbers the monitors of both alike; the code     *)
(* checks the last by comparing their texts.                                *)
ASSUME TopologiesAssumption ==
    /\ Topologies \subseteq [adapters : Seq(Adapters), displays : Seq(Displays)]
    /\ \A t \in Topologies :
        LET real == {a \in DOMAIN t.adapters : ~t.adapters[a].mirroring}
            monitor(a, j) == t.adapters[a].monitors[j]
            physical(d, j) == t.displays[d].physical[j]
        IN  /\ \A a, b \in real :
                \A i \in DOMAIN t.adapters[a].monitors, j \in DOMAIN t.adapters[b].monitors :
                    monitor(a, i).id = monitor(b, j).id /\ monitor(a, i).id # "malformed" => a = b /\ i = j
            /\ \A d, e \in DOMAIN t.displays : t.displays[d].device = t.displays[e].device => d = e
            /\ \A a \in real, d \in DOMAIN t.displays :
                t.adapters[a].name = t.displays[d].device =>
                    \A j \in DOMAIN t.adapters[a].monitors \cap DOMAIN t.displays[d].physical :
                        monitor(a, j).text = physical(d, j).text => monitor(a, j).id = physical(d, j).id
ASSUME RetriesAssumption == MAX_RETRIES \in Nat
ASSUME EnumerationsAssumption == MaxEnumerations \in Nat \ {0}

(* Monitors report small numbers, 0 to 100 as a rule: Truncated() is floats as *)
(* they are for numbers of up to 7 bits.                                    *)
Numbers == 0..127
ASSUME ValuesAssumption ==
    /\ Ranges \subseteq [min : Numbers, max : Numbers] /\ Currents \subseteq Nat
    /\ OtherValues \subseteq {NaN} \cup [num : Int, den : Numbers \ {0}]

VARIABLES
    topology,       \* what is plugged in
    infos,          \* for each enumeration, the result of enumMonitors(), and what it saw
    finished,       \* enumerations that are done
    winMonitors,    \* the WinMonitors that live
    openHandles,    \* physical monitor handles that are open
    handlesMade     \* how many were ever opened

enumerationVars == <<topology, infos, finished, winMonitors, openHandles, handlesMade>>

VARIABLES
    native,         \* of one monitor: the range and the current value of each property
    cached,         \* m_cachedProperties
    m_retriesLeft,
    reading,        \* what property() returned last
    capable,        \* what capabilities() returned last
    written         \* the last write: value asked for, range used, integer sent

monitorVars == <<native, cached, m_retriesLeft, reading, capable, written>>

-----------------------------------------------------------------------------
(* WinMonitorManager *)

InitEnumeration ==
    /\ topology \in Topologies
    /\ infos = <<>> /\ finished = {}
    /\ winMonitors = {} /\ openHandles = {} /\ handlesMade = 0

(* enumMonitors(): monitors of all adapters that are no mirroring drivers. *)
MonitorInfos(adapters) ==
    LET of(a) == IF a.mirroring THEN <<>>
                 ELSE [j \in DOMAIN a.monitors |->
                        [device |-> a.name, monitorIndex |-> j,
                         text |-> a.monitors[j].text, id |-> a.monitors[j].id]]
    IN  FlattenSeq([i \in DOMAIN adapters |-> of(adapters[i])])

(* monitorDeviceId(): an id that is not of the usual form is skipped.        *)
NoId == ""
AnyIndex(list, device, index, text) ==   \* mutant: without the test of monitorIndex
    LET fits == {k \in DOMAIN list : list[k].device = device /\ list[k].text = text
                                     /\ list[k].id # "malformed"}
    IN  IF fits = {} THEN NoId ELSE list[Min(fits)].id
MonitorDeviceId(list, device, index, text) ==
    LET fits == {k \in DOMAIN list : list[k].monitorIndex = index /\ list[k].device = device
                                     /\ list[k].text = text /\ list[k].id # "malformed"}
    IN  IF fits = {} THEN NoId ELSE list[Min(fits)].id

BeginEnumeration ==
    /\ Len(infos) < MaxEnumerations
    /\ infos' = Append(infos, [list |-> MonitorInfos(topology.adapters), seen |-> topology])
    /\ UNCHANGED <<topology, finished, winMonitors, openHandles, handlesMade>>

PhysicalMonitors(displays, readable) ==
    LET of(d) == IF d \notin readable THEN <<>>
                 ELSE [j \in DOMAIN displays[d].physical |->
                        [device |-> displays[d].device, index |-> j, is |-> displays[d].physical[j]]]
    IN  FlattenSeq([d \in DOMAIN displays |-> of(d)])

(* The monitors of the displays whose calls succeed; an id that is not found  *)
(* is made up.                                                              *)
MadeFrom(e, readable) ==
    LET physical == PhysicalMonitors(topology.displays, readable)
        id(i) == MonitorDeviceId(infos[e].list, physical[i].device, physical[i].index, physical[i].is.text)
        handle(i) == handlesMade + i
    IN  {[enumeration |-> e, handle |-> handle(i), is |-> physical[i].is,
          steady |-> infos[e].seen = topology,
          deviceId |-> IF id(i) = NoId THEN <<"random", handle(i)>> ELSE <<"device", id(i)>>] :
            i \in DOMAIN physical}

(* EnumDisplayMonitors() may fail, GetMonitorInfoW() and the calls for the    *)
(* handles may fail for any display; then those have no WinMonitor.          *)
EnumDisplays(e) ==
    /\ e \notin finished /\ finished' = finished \union {e}
    /\ \E readable \in SUBSET DOMAIN topology.displays :
        LET made == MadeFrom(e, readable)
        IN  /\ winMonitors' = winMonitors \union made
            /\ openHandles' = openHandles \union {m.handle : m \in made}
            /\ handlesMade' = handlesMade + Cardinality(made)
    /\ UNCHANGED <<topology, infos>>

(* Something is plugged in or out, and displayChange() starts an enumeration. *)
ChangeTopology ==
    /\ Len(infos) < MaxEnumerations
    /\ \E t \in Topologies \ {topology} : topology' = t
    /\ UNCHANGED <<infos, finished, winMonitors, openHandles, handlesMade>>

(* ~WinMonitor(), with its server. *)
DestroyWinMonitor(m) ==
    /\ winMonitors' = winMonitors \ {m}
    /\ openHandles' = openHandles \ {m.handle}
    /\ UNCHANGED <<topology, infos, finished, handlesMade>>

NextEnumeration ==
    \/ BeginEnumeration \/ ChangeTopology
    \/ \E e \in DOMAIN infos : EnumDisplays(e)
    \/ \E m \in winMonitors : DestroyWinMonitor(m)

-----------------------------------------------------------------------------
(* floats: a result is rounded to 24 bits, ties to even.                      *)

RoundedQuotient(a, b) ==
    LET q == a \div b
        r == a % b
    IN  IF 2 * r > b \/ (2 * r = b /\ q % 2 = 1) THEN q + 1 ELSE q

Bits(n) == CHOOSE b \in 0..31 : (b = 31 \/ n < 2^b) /\ (b > 0 => n >= 2^(b - 1))

(* The float next to num / den is m / 2^e; 0 < num <= den < 2^7. *)
Exponent(num, den) == CHOOSE e \in 0..30 : num * 2^e >= den * 2^23 /\ (e > 0 => num * 2^(e - 1) < den * 2^23)

(* low + range * (num / den) in floats, truncated: a product that is just     *)
(* below an integer stays below it unless it is rounded up.                  *)
Truncated(low, range, num, den) ==
    LET e == Exponent(num, den)
        exact == range * RoundedQuotient(num * 2^e, den)
        unit == 2^(IF Bits(exact) > 24 THEN Bits(exact) - 24 ELSE 0)
        product == RoundedQuotient(exact, unit) * unit
        whole == low + product \div 2^e
        left == 24 - Bits(whole)
        isCarried == e > left /\ RoundedQuotient(product % 2^e, 2^(e - left)) = 2^left
    IN  IF num < 1 THEN low ELSE IF isCarried THEN whole + 1 ELSE whole

Unclamped(asked) == asked       \* mutant: without std::clamp()
Clamped01(asked) ==
    IF asked.num < 0 THEN [num |-> 0, den |-> 1]
    ELSE IF asked.num > asked.den THEN [num |-> 1, den |-> 1] ELSE asked

(* mapToNative(), for a cached triplet. *)
MappedToNative(triplet, asked) ==
    IF asked = NaN THEN NaNResults
    ELSE LET v == Clamped01(asked)
         IN  {Truncated(triplet.min, triplet.max - triplet.min, v.num, v.den)}

(* mapFromNative(); a difference of DWORDs that is below zero wraps around.  *)
MappedFromNative(triplet) ==
    LET den == triplet.max - triplet.min
    IN  [num |-> IF triplet.current < triplet.min THEN 2 * den ELSE triplet.current - triplet.min,
         den |-> den]

-----------------------------------------------------------------------------
(* WinMonitor *)

NoTriplet == [min |-> 0, current |-> 0, max |-> 0]
NothingWritten == [asked |-> NaN, triplet |-> NoTriplet, sent |-> 0]
Triplets == {[min |-> r.min, current |-> c, max |-> r.max] : r \in Ranges, c \in Currents}

InitMonitor ==
    /\ native \in [Properties -> Triplets]
    /\ cached = [p \in Properties |-> NoTriplet]
    /\ m_retriesLeft = MAX_RETRIES
    /\ reading = NaN /\ capable = {} /\ written = NothingWritten

(* maybeRetryCall(), when the call fails n times in a row; the budget is that *)
(* of all calls together.                                                    *)
FailuresWith(left) == 0..left + 1
Succeeds(left, n) == n <= left
LeftAfter(left, n) == IF n <= left THEN left - n ELSE 0

Capabilities ==
    \E n \in FailuresWith(m_retriesLeft) :
        /\ m_retriesLeft' = LeftAfter(m_retriesLeft, n)
        /\ IF Succeeds(m_retriesLeft, n) THEN capable' \in SUBSET Properties ELSE capable' = {}
        /\ UNCHANGED <<native, cached, reading, written>>

(* property(), with n failures: the triplet, or none. *)
TripletRead(p, n) ==
    IF Succeeds(m_retriesLeft, n) /\ native[p].min < native[p].max THEN native[p] ELSE NoTriplet

Property(p) ==
    \E n \in FailuresWith(m_retriesLeft) :
        LET triplet == TripletRead(p, n)
        IN  /\ m_retriesLeft' = LeftAfter(m_retriesLeft, n)
            /\ cached' = IF triplet = NoTriplet THEN cached ELSE [cached EXCEPT ![p] = triplet]
            /\ reading' = IF triplet = NoTriplet THEN NaN ELSE MappedFromNative(triplet)
            /\ UNCHANGED <<native, capable, written>>

(* setPropertyInternal(), after the budget became left. *)
Write(p, asked, triplet, left) ==
    \E n \in FailuresWith(left), sent \in MappedToNative(triplet, asked) :
        /\ m_retriesLeft' = LeftAfter(left, n)
        /\ written' = [asked |-> asked, triplet |-> triplet, sent |-> sent]
        /\ native' = IF Succeeds(left, n) /\ sent \in native[p].min..native[p].max
                     THEN [native EXCEPT ![p].current = sent] ELSE native

(* Without a cached triplet the property is read first. *)
SetProperty(p, asked) ==
    /\ \/ /\ cached[p] # NoTriplet
          /\ Write(p, asked, cached[p], m_retriesLeft)
          /\ UNCHANGED cached
       \/ /\ cached[p] = NoTriplet
          /\ \E n \in FailuresWith(m_retriesLeft) :
                LET triplet == TripletRead(p, n)
                    left == LeftAfter(m_retriesLeft, n)
                IN  \/ /\ triplet # NoTriplet
                       /\ cached' = [cached EXCEPT ![p] = triplet]
                       /\ Write(p, asked, triplet, left)
                    \/ /\ triplet = NoTriplet
                       /\ m_retriesLeft' = left
                       /\ UNCHANGED <<native, cached, written>>
    /\ UNCHANGED <<reading, capable>>

(* The user presses a button of the monitor, or switches its input. *)
ChangeNative ==
    /\ \E p \in Properties, t \in Triplets : native' = [native EXCEPT ![p] = t]
    /\ UNCHANGED <<cached, m_retriesLeft, reading, capable, written>>

NextMonitor ==
    \/ Capabilities \/ ChangeNative
    \/ \E p \in Properties :
        Property(p) \/ \E asked \in {reading} \union OtherValues : SetProperty(p, asked)

-----------------------------------------------------------------------------
(* However enumerations overlap, fail and meet a change of what is plugged    *)
(* in, every open physical monitor handle belongs to exactly one WinMonitor,  *)
(* no two monitors of an enumeration have one device id, and an enumeration   *)
(* that met no change gives a monitor no other monitor's id                   *)
(* (enumerateMonitors(), monitorDeviceId(), ~WinMonitor()).                   *)
HandlesAreOwned ==
    /\ openHandles = {m.handle : m \in winMonitors}
    /\ Cardinality(openHandles) = Cardinality(winMonitors)
    /\ \A m, n \in winMonitors :
        m.enumeration = n.enumeration /\ m.deviceId = n.deviceId => m = n
    /\ \A m \in winMonitors :
        m.steady /\ m.deviceId[1] = "device" => m.deviceId[2] = m.is.id

(* An integer that is sent to a monitor is in the range it was computed for,  *)
(* and less than one step below the value that was asked for or at it, up to  *)
(* the float that is just below an integer: then it is one step below         *)
(* (mapToNative(), setProperty()).                                            *)
WritesAreInRange ==
    LET t == written.triplet
        range == t.max - t.min
        steps == written.sent - t.min
        asked == written.asked
        target == IF asked.num < 0 THEN 0
                  ELSE IF asked.num > asked.den THEN range * asked.den ELSE range * asked.num
    IN  written # NothingWritten /\ asked # NaN =>
            /\ steps \in 0..range
            /\ steps * asked.den <= target
            /\ target <= (steps + 1) * asked.den
=============================================================================
