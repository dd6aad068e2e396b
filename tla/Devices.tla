------------------------------- MODULE Devices -------------------------------
(* The parts of the program that talk to devices.  They share no state, so a  *)
(* behaviour is one of one of them.                                          *)
EXTENDS StreamingConnection, UpnpDiscovery, WinMonitor

VARIABLE part

Parts == {"connection", "discovery", "enumeration", "monitor"}

vars == <<part, connectionVars, discoveryVars, enumerationVars, monitorVars>>

Init ==
    /\ part \in Parts
    /\ InitConnection /\ InitDiscovery /\ InitEnumeration /\ InitMonitor
    /\ part # "monitor" => native = CHOOSE n \in [Properties -> Triplets] : TRUE
    /\ part # "enumeration" => topology = CHOOSE t \in Topologies : TRUE

Next ==
    /\ UNCHANGED part
    /\ \/ /\ part = "connection" /\ NextConnection
          /\ UNCHANGED <<discoveryVars, enumerationVars, monitorVars>>
       \/ /\ part = "discovery" /\ NextDiscovery
          /\ UNCHANGED <<connectionVars, enumerationVars, monitorVars>>
       \/ /\ part = "enumeration" /\ NextEnumeration
          /\ UNCHANGED <<connectionVars, discoveryVars, monitorVars>>
       \/ /\ part = "monitor" /\ NextMonitor
          /\ UNCHANGED <<connectionVars, discoveryVars, enumerationVars>>

Spec == Init /\ [][Next]_vars
=============================================================================
