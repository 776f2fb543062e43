------------------------------ MODULE MCParts ------------------------------
(* An instance of Parts for TLC.                                           *)
EXTENDS Parts

\* One client calls twice, the others only take places.
CallsOfFirst == <<2, 0, 0>>

\* Two servers; a VLAN of its own for each station.
TwoServers == <<"s1", "s2">>
OwnVlans == [h \in VlanHosts |-> IF h = "h1" THEN 10 ELSE 20]

\* Two timers of different periods.
TwoTimers == <<2, 3>>
=============================================================================
