---------------------------- MODULE DaemonProofs ----------------------------
(***************************************************************************)
(* Theorems about the parts of Parts that run in the daemons of the        *)
(* switch: the VLANs of stations, the watchdog, the status for SNMP, the   *)
(* lights, the learning thread of the RTU and its hash.  Each holds for all*)
(* values of the constants of its part, as in NicProofs.                   *)
(***************************************************************************)
EXTENDS Parts, Iteration, FiniteSetTheorems, SequenceTheorems, TLAPS

-----------------------------------------------------------------------------
(* The VLANs of the stations                                               *)

VlanDevs == [state : Vlan!States, up : BOOLEAN, peer : VlanHosts \cup {Vlan!Nobody},
             chosen : Vlan!Vlans]
VlanKids == [runs : BOOLEAN, server : Vlan!Servers, who : VlanHosts] \cup {Vlan!NoKid}

\* The messages that are to be read lead from what the port knows of its link to
\* the link, and each tells of a change.
VlanNews(up, l, m) ==
    /\ m = <<>> => (up <=> l # Vlan!Nobody)
    /\ m # <<>> => (m[1] <=> ~up) /\ (m[Len(m)] <=> l # Vlan!Nobody)
    /\ \A i \in 1 .. Len(m) - 1 : m[i + 1] <=> ~m[i]

\* What each state knows of the station, unless there is news.
VlanKnows(d, k, v, l, f) ==
    /\ d.state = "sniff" => f \in {Vlan!Nobody, Vlan!Switch, l}
    /\ d.state = "radclient" => d.peer = l
    /\ d.state = "auth" => k.who = l
    /\ d.state = "config" => d.chosen = VlanVerdict[l]
    /\ d.state = "configured" => v = VlanVerdict[l]

\* A port: its struct, child, VLAN, link, messages and frame; the ports that were
\* told to start again and those that lost a child.
VlanOk(p, d, k, v, l, m, f, told, gone) ==
    /\ d \in VlanDevs /\ k \in VlanKids /\ v \in Vlan!Vlans
    /\ f \in VlanHosts \cup {Vlan!Nobody, Vlan!Switch}
    /\ VlanNews(d.up, l, m)
    /\ d.state \in {"sniff", "radclient", "auth", "config", "configured"} => d.up
    /\ d.state \in {"radclient", "auth"} => d.peer \in VlanHosts
    /\ d.state = "auth" => k.who = d.peer
    /\ d.state \in {"down", "wait"} => v = VlanAuthVlan
    /\ (m = <<>> /\ l # Vlan!Nobody) => VlanKnows(d, k, v, l, f)
    /\ (k # Vlan!NoKid /\ p \notin told) => d.state \in {"auth", "godown", "wait"}
    /\ p \in gone => p \in told

VlanTypes ==
    /\ dev \in [VlanPorts -> VlanDevs] /\ kid \in [VlanPorts -> VlanKids]
    /\ order \in [DOMAIN VlanServerList -> Vlan!Servers]
    /\ vlan \in [VlanPorts -> Vlan!Vlans]
    /\ link \in [VlanPorts -> VlanHosts \cup {Vlan!Nobody}]
    /\ news \in [VlanPorts -> Seq(BOOLEAN)] /\ \A p \in VlanPorts : Len(news[p]) <= VlanMaxNews
    /\ frame \in [VlanPorts -> VlanHosts \cup {Vlan!Nobody, Vlan!Switch}]
    /\ errors \in 0 .. VlanMaxErrors
    /\ again \subseteq VlanPorts /\ lost \subseteq VlanPorts

VlanInv ==
    /\ VlanTypes
    /\ \A p \in VlanPorts :
          VlanOk(p, dev[p], kid[p], vlan[p], link[p], news[p], frame[p], again, lost)

LEMMA VlanConstants ==
    /\ Vlan!Nobody \notin VlanHosts /\ Vlan!Switch \notin VlanHosts
    /\ VlanServerList \in Seq(Vlan!Servers) /\ VlanServerList # <<>>
    /\ VlanVerdict \in [VlanHosts -> Vlan!Vlans] /\ VlanAuthVlan \in Vlan!Vlans
    /\ VlanMaxNews \in Nat /\ VlanMaxErrors \in Nat
    /\ Vlan!Nobody # Vlan!Switch
BY PartsConstants DEF Vlan!ConstantsOK, Vlan!Vlans, Vlan!Nobody, Vlan!Switch

LEMMA SequenceTail ==
    ASSUME NEW S, NEW s \in Seq(S), s # <<>>
    PROVE  /\ Len(s) \in Nat \ {0} /\ s[1] \in S
           /\ Tail(s) \in Seq(S) /\ Len(Tail(s)) = Len(s) - 1
           /\ \A i \in 1 .. Len(Tail(s)) : Tail(s)[i] = s[i + 1]
           /\ Tail(s) = <<>> <=> Len(s) = 1
<1>1. /\ Head(s) \in S /\ Tail(s) \in Seq(S) /\ Len(Tail(s)) = Len(s) - 1
      /\ \A i \in 1 .. Len(Tail(s)) : Tail(s)[i] = s[i + 1]
  BY HeadTailProperties
<1>2. Len(s) \in Nat \ {0} /\ s[1] = Head(s)
  OBVIOUS
<1>3. \A t \in Seq(S) : t = <<>> <=> Len(t) = 0
  OBVIOUS
<1>4. Tail(s) = <<>> <=> Len(s) - 1 = 0
  BY <1>1, <1>3
<1> QED
  BY <1>1, <1>2, <1>4

\* The order of the servers is a sequence of them as long as the list.
LEMMA VlanOrder ==
    ASSUME NEW o \in [DOMAIN VlanServerList -> Vlan!Servers]
    PROVE  /\ o \in Seq(Vlan!Servers) /\ Len(o) = Len(VlanServerList) /\ Len(o) \in Nat \ {0}
           /\ Head(o) \in Vlan!Servers
<1> DEFINE n == Len(VlanServerList)
<1>1. n \in Nat \ {0} /\ DOMAIN VlanServerList = 1 .. n
  BY VlanConstants
<1> HIDE DEF n
<1>2. o \in [1 .. n -> Vlan!Servers]
  BY <1>1
<1>3. o \in Seq(Vlan!Servers) /\ Len(o) = n
  BY <1>1, <1>2
<1>4. Head(o) = o[1] /\ o[1] \in Vlan!Servers
  BY <1>1, <1>2, <1>3
<1> QED
  BY <1>1, <1>3, <1>4 DEF n

\* The server that failed goes to the end.
LEMMA VlanFailed ==
    ASSUME order \in [DOMAIN VlanServerList -> Vlan!Servers], NEW s \in Vlan!Servers
    PROVE  Vlan!Failed(s) \in [DOMAIN VlanServerList -> Vlan!Servers]
<1> DEFINE n == Len(VlanServerList)
           place == CHOOSE i \in 1 .. Len(order) : order[i] = s
<1>1. n \in Nat \ {0} /\ DOMAIN VlanServerList = 1 .. n /\ Len(order) = n
  BY VlanConstants, VlanOrder
<1> HIDE DEF n
<1>2. order \in [1 .. n -> Vlan!Servers]
  BY <1>1
<1>3. Vlan!Failed(s) = [i \in 1 .. n |-> IF i = n THEN s
                                         ELSE IF i < place THEN order[i] ELSE order[i + 1]]
  BY <1>1 DEF Vlan!Failed
<1> HIDE DEF place
<1>4. ASSUME NEW i \in 1 .. n
      PROVE  (IF i = n THEN s ELSE IF i < place THEN order[i] ELSE order[i + 1]) \in Vlan!Servers
  <2>1. CASE i = n
    BY <2>1
  <2>2. CASE i # n
    <3>1. i + 1 \in 1 .. n
      BY <1>1, <2>2
    <3> QED
      BY <1>2, <2>2, <3>1
  <2> QED
    BY <2>1, <2>2
<1> QED
  BY <1>1, <1>3, <1>4

LEMMA VlanInit == Init => VlanInv
<1> SUFFICES ASSUME Vlan!Init PROVE VlanInv
  BY DEF Init
<1> USE VlanConstants
<1>1. /\ link \in [VlanPorts -> VlanHosts \cup {Vlan!Nobody}]
      /\ dev = [p \in VlanPorts |->
                   [state |-> IF link[p] # Vlan!Nobody THEN "justup" ELSE "godown",
                    up |-> link[p] # Vlan!Nobody, peer |-> Vlan!Nobody, chosen |-> VlanAuthVlan]]
      /\ kid = [p \in VlanPorts |-> Vlan!NoKid] /\ order = VlanServerList
      /\ vlan \in [VlanPorts -> Vlan!Vlans] /\ news = [p \in VlanPorts |-> <<>>]
      /\ frame = [p \in VlanPorts |-> Vlan!Nobody] /\ errors = 0 /\ again = {} /\ lost = {}
  BY DEF Vlan!Init
<1>2. ASSUME NEW p \in VlanPorts
      PROVE  /\ dev[p] \in VlanDevs /\ dev[p].state \in {"justup", "godown"}
             /\ dev[p].up <=> link[p] # Vlan!Nobody
  <2>1. CASE link[p] # Vlan!Nobody
    <3>1. dev[p] = [state |-> "justup", up |-> TRUE, peer |-> Vlan!Nobody,
            chosen |-> VlanAuthVlan]
      BY <1>1, <2>1
    <3> QED
      BY <2>1, <3>1 DEF VlanDevs, Vlan!States
  <2>2. CASE link[p] = Vlan!Nobody
    <3>1. dev[p] = [state |-> "godown", up |-> FALSE, peer |-> Vlan!Nobody,
            chosen |-> VlanAuthVlan]
      BY <1>1, <2>2
    <3> QED
      BY <2>2, <3>1 DEF VlanDevs, Vlan!States
  <2> QED
    BY <2>1, <2>2
<1>3. order \in [DOMAIN VlanServerList -> Vlan!Servers]
  BY <1>1
<1>4. VlanTypes
  <2>1. dev \in [VlanPorts -> VlanDevs]
    BY <1>1, <1>2
  <2>2. kid \in [VlanPorts -> VlanKids]
    BY <1>1 DEF VlanKids
  <2>3. <<>> \in Seq(BOOLEAN) /\ Len(<<>>) = 0 /\ 0 \in 0 .. VlanMaxErrors /\ 0 <= VlanMaxNews
    OBVIOUS
  <2> QED
    BY <1>1, <1>3, <2>1, <2>2, <2>3 DEF VlanTypes
<1>5. ASSUME NEW p \in VlanPorts
      PROVE  VlanOk(p, dev[p], kid[p], vlan[p], link[p], news[p], frame[p], again, lost)
  <2>1. news[p] = <<>> /\ kid[p] = Vlan!NoKid /\ p \notin again /\ p \notin lost
    BY <1>1
  <2>2. VlanNews(dev[p].up, link[p], news[p])
    <3>1. Len(<<>>) = 0 /\ 1 .. 0 - 1 = {}
      OBVIOUS
    <3> QED
      BY <1>2, <2>1, <3>1 DEF VlanNews
  <2> QED
    BY <1>2, <1>4, <2>1, <2>2 DEF VlanOk, VlanTypes, VlanKnows
<1> QED
  BY <1>4, <1>5 DEF VlanInv

\* What a step of the machine of p does, when the messages that are left are m.
VlanMove(p, m) ==
    /\ order' \in [DOMAIN VlanServerList -> Vlan!Servers] /\ errors' \in 0 .. VlanMaxErrors
    /\ lost' \in {lost, lost \cup {p}}
    /\ \E d, k, v, f :
          /\ dev' = [dev EXCEPT ![p] = d] /\ kid' = [kid EXCEPT ![p] = k]
          /\ vlan' = [vlan EXCEPT ![p] = v] /\ frame' = [frame EXCEPT ![p] = f]
          /\ VlanOk(p, d, k, v, link[p], m, f, again, lost')

\* A query of the machine.
LEMMA VlanQuery ==
    ASSUME VlanTypes, NEW p \in VlanPorts, NEW CONSTANT d, NEW CONSTANT m, NEW CONSTANT f,
           VlanOk(p, d, kid[p], vlan[p], link[p], m, f, again, lost),
           d.state = "radclient", Vlan!Query(p, d), UNCHANGED <<order, vlan>>,
           frame' = [frame EXCEPT ![p] = f]
    PROVE  VlanMove(p, m)
<1> USE VlanConstants DEF VlanTypes
<1>1. vlan' = [vlan EXCEPT ![p] = vlan[p]]
  OBVIOUS
<1>2. CASE Vlan!Fail /\ Vlan!Put(p, d) /\ UNCHANGED <<kid, lost>>
  <2>1. errors' \in 0 .. VlanMaxErrors /\ dev' = [dev EXCEPT ![p] = d]
        /\ kid' = [kid EXCEPT ![p] = kid[p]] /\ lost' = lost
    BY <1>2 DEF Vlan!Fail, Vlan!Put
  <2> QED
    BY <1>1, <2>1 DEF VlanMove
<1>3. CASE /\ Vlan!NoError
           /\ Vlan!Put(p, [d EXCEPT !.state = "auth"])
           /\ kid' = [kid EXCEPT ![p] = [runs |-> TRUE, server |-> Head(order), who |-> d.peer]]
           /\ lost' = IF kid[p] # Vlan!NoKid THEN lost \cup {p} ELSE lost
  <2> DEFINE e == [d EXCEPT !.state = "auth"]
             k == [runs |-> TRUE, server |-> Head(order), who |-> d.peer]
  <2>1. errors' \in 0 .. VlanMaxErrors /\ dev' = [dev EXCEPT ![p] = e]
          /\ kid' = [kid EXCEPT ![p] = k]
        /\ order' = order
    BY <1>3 DEF Vlan!NoError, Vlan!Put
  <2>2. e \in VlanDevs /\ e.state = "auth" /\ e.up = d.up /\ e.peer = d.peer
          /\ e.chosen = d.chosen
    BY DEF VlanOk, VlanDevs, Vlan!States
  <2>3. k \in VlanKids /\ k.who = d.peer /\ d.peer \in VlanHosts
    <3>1. Head(order) \in Vlan!Servers /\ d.peer \in VlanHosts
      BY VlanOrder DEF VlanOk
    <3> QED
      BY <3>1 DEF VlanKids
  <2>4. lost' \in {lost, lost \cup {p}} /\ (p \in lost' => p \in lost \/ kid[p] # Vlan!NoKid)
    BY <1>3
  <2> HIDE DEF e, k
  <2>5. p \in lost' => p \in again
    BY <2>4 DEF VlanOk
  <2>6. VlanOk(p, e, k, vlan[p], link[p], m, f, again, lost')
    BY <2>2, <2>3, <2>5 DEF VlanOk, VlanKnows
  <2> QED
    BY <1>1, <2>1, <2>4, <2>6 DEF VlanMove
<1> QED
  BY <1>2, <1>3 DEF Vlan!Query

LEMMA VlanHandlers ==
    ASSUME VlanTypes, NEW p \in VlanPorts, NEW CONSTANT d, NEW CONSTANT m,
           VlanOk(p, d, kid[p], vlan[p], link[p], m, frame[p], again, lost),
           d.state = "justup" => d.up, Vlan!Fsm(p, d)
    PROVE  VlanMove(p, m)
<1> USE VlanConstants
<1>t. /\ order \in [DOMAIN VlanServerList -> Vlan!Servers] /\ errors \in 0 .. VlanMaxErrors
      /\ kid = [kid EXCEPT ![p] = kid[p]] /\ vlan = [vlan EXCEPT ![p] = vlan[p]]
      /\ frame = [frame EXCEPT ![p] = frame[p]]
  BY DEF VlanTypes
<1>d. /\ d \in VlanDevs /\ kid[p] \in VlanKids /\ vlan[p] \in Vlan!Vlans
      /\ frame[p] \in VlanHosts \cup {Vlan!Nobody, Vlan!Switch}
  BY DEF VlanOk
<1>s. ASSUME NEW s \in Vlan!States, NEW c \in Vlan!Vlans,
             NEW h \in VlanHosts \cup {Vlan!Nobody}
      PROVE  LET e == [d EXCEPT !.state = s, !.chosen = c, !.peer = h]
             IN  /\ e \in VlanDevs /\ e.state = s /\ e.chosen = c /\ e.peer = h /\ e.up = d.up
  BY <1>d DEF VlanDevs
<1>e. /\ Vlan!Fail => errors' \in 0 .. VlanMaxErrors
      /\ Vlan!NoError => errors' \in 0 .. VlanMaxErrors
  BY <1>t DEF Vlan!Fail, Vlan!NoError
<1>1. CASE Vlan!Down(p, d)
  <2>1. /\ dev' = [dev EXCEPT ![p] = d] /\ Vlan!NoError
        /\ UNCHANGED <<kid, order, vlan, frame, lost>>
    BY <1>1 DEF Vlan!Down, Vlan!Put
  <2> QED
    BY <1>t, <1>e, <2>1 DEF VlanMove
<1>2. CASE Vlan!JustUp(p, d)
  <2> DEFINE e == [d EXCEPT !.state = "sniff", !.chosen = VlanAuthVlan]
  <2>1. /\ dev' = [dev EXCEPT ![p] = e] /\ frame' = [frame EXCEPT ![p] = Vlan!Nobody]
        /\ d.state = "justup" /\ UNCHANGED <<kid, order, lost>> /\ errors' \in 0 .. VlanMaxErrors
    BY <1>2, <1>e DEF Vlan!JustUp, Vlan!Put
  <2>2. e \in VlanDevs /\ e.state = "sniff" /\ e.up = d.up /\ d.up
    BY <1>d, <2>1 DEF VlanDevs, Vlan!States
  <2>3. PICK v \in {vlan[p], VlanAuthVlan} : vlan' = [vlan EXCEPT ![p] = v]
    BY <1>2, <1>t DEF Vlan!JustUp, Vlan!SetVlan
  <2>4. p \in lost' => p \in again
    BY <2>1 DEF VlanOk
  <2>5. kid[p] # Vlan!NoKid => p \in again
    BY <2>1 DEF VlanOk
  <2> HIDE DEF e
  <2>6. VlanOk(p, e, kid[p], v, link[p], m, Vlan!Nobody, again, lost')
    BY <1>d, <2>2, <2>3, <2>4, <2>5 DEF VlanOk, VlanKnows
  <2> QED
    BY <1>t, <2>1, <2>3, <2>6 DEF VlanMove
<1>3. CASE Vlan!JustUpFails(p, d)
  <2> DEFINE e == [d EXCEPT !.chosen = VlanAuthVlan]
  <2>1. /\ dev' = [dev EXCEPT ![p] = e] /\ vlan' = [vlan EXCEPT ![p] = VlanAuthVlan]
        /\ d.state = "justup" /\ UNCHANGED <<kid, order, frame, lost>>
        /\ errors' \in 0 .. VlanMaxErrors
    BY <1>3, <1>e DEF Vlan!JustUpFails, Vlan!Put, Vlan!SetVlan
  <2>2. e \in VlanDevs /\ e.state = "justup" /\ e.up = d.up
    BY <1>d, <2>1 DEF VlanDevs, Vlan!States
  <2> HIDE DEF e
  <2>3. VlanOk(p, e, kid[p], VlanAuthVlan, link[p], m, frame[p], again, lost')
    BY <2>1, <2>2 DEF VlanOk, VlanKnows
  <2> QED
    BY <1>t, <2>1, <2>3 DEF VlanMove
<1>4. CASE Vlan!Sniff(p, d)
  <2>1. /\ frame' = [frame EXCEPT ![p] = Vlan!Nobody] /\ d.state = "sniff"
        /\ UNCHANGED <<order, vlan>>
    BY <1>4 DEF Vlan!Sniff
  <2>2. CASE frame[p] \in {Vlan!Nobody, Vlan!Switch}
    <3>1. /\ dev' = [dev EXCEPT ![p] = d] /\ Vlan!NoError /\ UNCHANGED <<kid, lost>>
      BY <1>4, <2>2 DEF Vlan!Sniff, Vlan!Put
    <3>2. VlanOk(p, d, kid[p], vlan[p], link[p], m, Vlan!Nobody, again, lost')
      BY <2>1, <3>1 DEF VlanOk, VlanKnows
    <3> QED
      BY <1>t, <1>e, <2>1, <3>1, <3>2 DEF VlanMove
  <2>3. CASE frame[p] \notin {Vlan!Nobody, Vlan!Switch}
    <3>1. PICK e : e = [d EXCEPT !.state = "radclient", !.peer = frame[p]]
      OBVIOUS
    <3>2. Vlan!Query(p, e)
      BY <1>4, <2>3, <3>1 DEF Vlan!Sniff
    <3>3. e \in VlanDevs /\ e.state = "radclient" /\ e.peer = frame[p] /\ e.up = d.up
          /\ frame[p] \in VlanHosts
      BY <1>d, <2>3, <3>1 DEF VlanDevs, Vlan!States
    <3>4. VlanOk(p, e, kid[p], vlan[p], link[p], m, Vlan!Nobody, again, lost)
      BY <2>1, <2>3, <3>3 DEF VlanOk, VlanKnows
    <3> QED
      BY <2>1, <3>2, <3>3, <3>4, VlanQuery
  <2> QED
    BY <2>2, <2>3
<1>5. CASE Vlan!Radclient(p, d)
  <2>1. d.state = "radclient" /\ Vlan!Query(p, d) /\ UNCHANGED <<order, vlan, frame>>
    BY <1>5 DEF Vlan!Radclient
  <2>2. PICK f : f = frame[p]
    OBVIOUS
  <2>3. VlanOk(p, d, kid[p], vlan[p], link[p], m, f, again, lost)
        /\ frame' = [frame EXCEPT ![p] = f]
    BY <1>t, <2>1, <2>2
  <2> QED
    BY <2>1, <2>3, VlanQuery
<1>6. CASE Vlan!Auth(p, d)
  <2>1. /\ d.state = "auth" /\ Vlan!NoError /\ UNCHANGED <<vlan, frame, lost>>
    BY <1>6 DEF Vlan!Auth
  <2>2. CASE kid[p].runs
    <3>1. dev' = [dev EXCEPT ![p] = d] /\ UNCHANGED <<kid, order>>
      BY <1>6, <2>2 DEF Vlan!Auth, Vlan!Put
    <3> QED
      BY <1>t, <1>e, <2>1, <3>1 DEF VlanMove
  <2>3. CASE ~kid[p].runs /\ kid[p].server \in VlanDead
    <3> DEFINE e == [d EXCEPT !.state = "radclient"]
    <3>1. /\ dev' = [dev EXCEPT ![p] = e] /\ kid' = [kid EXCEPT ![p] = Vlan!NoKid]
          /\ order' = Vlan!Failed(kid[p].server)
      BY <1>6, <2>3 DEF Vlan!Auth, Vlan!Put
    <3>2. e \in VlanDevs /\ e.state = "radclient" /\ e.up = d.up /\ e.peer = d.peer
      BY <1>d, <2>1 DEF VlanDevs, Vlan!States
    <3>3. kid[p].who \in VlanHosts /\ kid[p].server \in Vlan!Servers
      BY <1>d, <2>1 DEF VlanOk, VlanKids, Vlan!NoKid
    <3>4. order' \in [DOMAIN VlanServerList -> Vlan!Servers]
      BY <1>t, <3>1, <3>3, VlanFailed
    <3> HIDE DEF e
    <3>5. VlanOk(p, e, Vlan!NoKid, vlan[p], link[p], m, frame[p], again, lost')
      BY <1>d, <2>1, <3>2 DEF VlanOk, VlanKnows, VlanKids
    <3> QED
      BY <1>t, <1>e, <2>1, <3>1, <3>4, <3>5 DEF VlanMove
  <2>4. CASE ~kid[p].runs /\ kid[p].server \notin VlanDead
    <3> DEFINE e == [d EXCEPT !.state = "config", !.chosen = VlanVerdict[kid[p].who]]
    <3>1. /\ dev' = [dev EXCEPT ![p] = e] /\ kid' = [kid EXCEPT ![p] = Vlan!NoKid]
          /\ order' = order
      BY <1>6, <2>4 DEF Vlan!Auth, Vlan!Put
    <3>2. kid[p].who \in VlanHosts /\ VlanVerdict[kid[p].who] \in Vlan!Vlans
      BY <1>d, <2>1 DEF VlanOk
    <3>3. e \in VlanDevs /\ e.state = "config" /\ e.up = d.up
            /\ e.chosen = VlanVerdict[kid[p].who]
      BY <1>d, <2>1, <3>2 DEF VlanDevs, Vlan!States
    <3> HIDE DEF e
    <3>4. VlanOk(p, e, Vlan!NoKid, vlan[p], link[p], m, frame[p], again, lost')
      BY <1>d, <2>1, <3>2, <3>3 DEF VlanOk, VlanKnows, VlanKids
    <3> QED
      BY <1>t, <1>e, <2>1, <3>1, <3>4 DEF VlanMove
  <2> QED
    BY <2>2, <2>3, <2>4
<1>7. CASE Vlan!AuthFails(p, d)
  <2> DEFINE e == [d EXCEPT !.state = "godown"]
  <2>1. /\ dev' = [dev EXCEPT ![p] = e] /\ d.state = "auth"
        /\ UNCHANGED <<kid, order, vlan, frame, lost>> /\ errors' \in 0 .. VlanMaxErrors
    BY <1>7, <1>e DEF Vlan!AuthFails, Vlan!Put
  <2>2. e \in VlanDevs /\ e.state = "godown" /\ e.up = d.up
    BY <1>d, <2>1 DEF VlanDevs, Vlan!States
  <2> HIDE DEF e
  <2>3. VlanOk(p, e, kid[p], vlan[p], link[p], m, frame[p], again, lost')
    BY <2>1, <2>2 DEF VlanOk, VlanKnows
  <2> QED
    BY <1>t, <2>1, <2>3 DEF VlanMove
<1>8. CASE Vlan!Config(p, d)
  <2>1. d.state = "config" /\ UNCHANGED <<kid, order, frame, lost>>
        /\ errors' \in 0 .. VlanMaxErrors
    BY <1>8, <1>e DEF Vlan!Config
  <2>2. CASE UNCHANGED vlan /\ Vlan!Put(p, d)
    BY <1>t, <2>1, <2>2 DEF VlanMove, Vlan!Put
  <2>3. CASE Vlan!SetVlan(p, d.chosen) /\ Vlan!Put(p, [d EXCEPT !.state = "configured"])
    <3> DEFINE e == [d EXCEPT !.state = "configured"]
    <3>1. dev' = [dev EXCEPT ![p] = e] /\ vlan' = [vlan EXCEPT ![p] = d.chosen]
      BY <2>3 DEF Vlan!Put, Vlan!SetVlan
    <3>2. e \in VlanDevs /\ e.state = "configured" /\ e.up = d.up /\ d.chosen \in Vlan!Vlans
      BY <1>d, <2>1 DEF VlanDevs, Vlan!States
    <3> HIDE DEF e
    <3>3. VlanOk(p, e, kid[p], d.chosen, link[p], m, frame[p], again, lost')
      BY <2>1, <3>2 DEF VlanOk, VlanKnows
    <3> QED
      BY <1>t, <2>1, <3>1, <3>3 DEF VlanMove
  <2> QED
    BY <1>8, <2>2, <2>3 DEF Vlan!Config
<1>9. CASE Vlan!GoDown(p, d)
  <2> DEFINE off == [d EXCEPT !.peer = Vlan!Nobody, !.chosen = VlanAuthVlan]
  <2>1. d.state = "godown" /\ UNCHANGED <<order, lost>> /\ errors' \in 0 .. VlanMaxErrors
        /\ frame' = [frame EXCEPT ![p] = Vlan!Nobody]
    BY <1>9, <1>e DEF Vlan!GoDown
  <2>2. off \in VlanDevs /\ off.state = "godown" /\ off.up = d.up
    BY <1>d, <2>1 DEF VlanDevs
  <2> HIDE DEF off
  <2>3. CASE UNCHANGED <<vlan, kid>> /\ dev' = [dev EXCEPT ![p] = off]
    <3>1. VlanOk(p, off, kid[p], vlan[p], link[p], m, Vlan!Nobody, again, lost')
      BY <2>1, <2>2 DEF VlanOk, VlanKnows
    <3> QED
      BY <1>t, <2>1, <2>3, <3>1 DEF VlanMove
  <2>4. CASE /\ vlan' = [vlan EXCEPT ![p] = VlanAuthVlan] /\ kid[p].runs /\ UNCHANGED kid
             /\ dev' = [dev EXCEPT ![p] = [off EXCEPT !.state = "wait"]]
    <3> DEFINE e == [off EXCEPT !.state = "wait"]
    <3>1. e \in VlanDevs /\ e.state = "wait" /\ e.up = d.up
      BY <2>2 DEF VlanDevs, Vlan!States
    <3>2. dev' = [dev EXCEPT ![p] = e]
      BY <2>4
    <3> HIDE DEF e
    <3>3. VlanOk(p, e, kid[p], VlanAuthVlan, link[p], m, Vlan!Nobody, again, lost')
      BY <2>1, <3>1 DEF VlanOk, VlanKnows
    <3> QED
      BY <1>t, <2>1, <2>4, <3>2, <3>3 DEF VlanMove
  <2>5. CASE /\ vlan' = [vlan EXCEPT ![p] = VlanAuthVlan] /\ kid' = [kid EXCEPT ![p] = Vlan!NoKid]
             /\ dev' = [dev EXCEPT ![p] = [off EXCEPT !.state = "down"]]
    <3> DEFINE e == [off EXCEPT !.state = "down"]
    <3>1. e \in VlanDevs /\ e.state = "down" /\ e.up = d.up /\ Vlan!NoKid \in VlanKids
      BY <2>2 DEF VlanDevs, Vlan!States, VlanKids
    <3>2. dev' = [dev EXCEPT ![p] = e]
      BY <2>5
    <3> HIDE DEF e
    <3>3. VlanOk(p, e, Vlan!NoKid, VlanAuthVlan, link[p], m, Vlan!Nobody, again, lost')
      BY <2>1, <3>1 DEF VlanOk, VlanKnows
    <3> QED
      BY <1>t, <2>1, <2>5, <3>2, <3>3 DEF VlanMove
  <2> QED
    BY <1>9, <2>3, <2>4, <2>5 DEF Vlan!GoDown, Vlan!Put, Vlan!SetVlan, Vlan!Reap, off
<1>10. CASE Vlan!Wait(p, d)
  <2>1. d.state = "wait" /\ UNCHANGED <<order, vlan, frame, lost>>
          /\ errors' \in 0 .. VlanMaxErrors
    BY <1>10, <1>e DEF Vlan!Wait
  <2>2. CASE kid[p].runs
    <3>1. dev' = [dev EXCEPT ![p] = d] /\ UNCHANGED kid
      BY <1>10, <2>2 DEF Vlan!Wait, Vlan!Put
    <3> QED
      BY <1>t, <2>1, <3>1 DEF VlanMove
  <2>3. CASE ~kid[p].runs
    <3> DEFINE e == [d EXCEPT !.state = "down"]
    <3>1. dev' = [dev EXCEPT ![p] = e] /\ kid' = [kid EXCEPT ![p] = Vlan!NoKid]
      BY <1>10, <2>3 DEF Vlan!Wait, Vlan!Put, Vlan!Reap
    <3>2. e \in VlanDevs /\ e.state = "down" /\ e.up = d.up /\ Vlan!NoKid \in VlanKids
      BY <1>d, <2>1 DEF VlanDevs, Vlan!States, VlanKids
    <3> HIDE DEF e
    <3>3. VlanOk(p, e, Vlan!NoKid, vlan[p], link[p], m, frame[p], again, lost')
      BY <2>1, <3>2 DEF VlanOk, VlanKnows
    <3> QED
      BY <1>t, <2>1, <3>1, <3>3 DEF VlanMove
  <2> QED
    BY <2>2, <2>3
<1> QED
  BY <1>1, <1>2, <1>3, <1>4, <1>5, <1>6, <1>7, <1>8, <1>9, <1>10 DEF Vlan!Fsm

\* What the machine finds: "First of all, process up/down changes".
LEMMA VlanCurrent ==
    ASSUME VlanTypes, NEW p \in VlanPorts, NEW CONSTANT m,
           VlanOk(p, dev[p], kid[p], vlan[p], link[p], m, frame[p], again, lost),
           NEW CONSTANT d, d = Vlan!Current(dev[p])
    PROVE  /\ VlanOk(p, d, kid[p], vlan[p], link[p], m, frame[p], again, lost)
           /\ d.state = "justup" => d.up
<1>1. dev[p] \in VlanDevs
  BY DEF VlanOk
<1>2. CASE ~dev[p].up /\ dev[p].state # "down"
  <2>1. d = [dev[p] EXCEPT !.state = "godown"]
    BY <1>2 DEF Vlan!Current
  <2>2. d \in VlanDevs /\ d.state = "godown" /\ d.up = dev[p].up /\ d.peer = dev[p].peer
    BY <1>1, <2>1 DEF VlanDevs, Vlan!States
  <2> QED
    BY <2>2 DEF VlanOk, VlanKnows
<1>3. CASE dev[p].up /\ dev[p].state = "down"
  <2>1. d = [dev[p] EXCEPT !.state = "justup"]
    BY <1>3 DEF Vlan!Current
  <2>2. d \in VlanDevs /\ d.state = "justup" /\ d.up = dev[p].up /\ d.peer = dev[p].peer
    BY <1>1, <2>1 DEF VlanDevs, Vlan!States
  <2> QED
    BY <1>3, <2>2 DEF VlanOk, VlanKnows
<1>4. CASE ~(~dev[p].up /\ dev[p].state # "down") /\ ~(dev[p].up /\ dev[p].state = "down")
  <2>1. d = dev[p]
    BY <1>4 DEF Vlan!Current
  <2> QED
    BY <1>4, <2>1 DEF VlanOk
<1> QED
  BY <1>2, <1>3, <1>4

\* When it has read a message, the port is up or down as that says: a port that
\* was up has no use for what it knows, one that was down knows nothing.
LEMMA VlanRead ==
    ASSUME VlanTypes, NEW p \in VlanPorts, news[p] # <<>>,
           VlanOk(p, dev[p], kid[p], vlan[p], link[p], news[p], frame[p], again, lost),
           NEW CONSTANT m, m = Tail(news[p]),
           NEW CONSTANT d, d = Vlan!Current([dev[p] EXCEPT !.up = news[p][1]])
    PROVE  /\ VlanOk(p, d, kid[p], vlan[p], link[p], m, frame[p], again, lost)
           /\ d.state = "justup" => d.up
<1> DEFINE s == news[p]
           e == [dev[p] EXCEPT !.up = s[1]]
<1>1. /\ s \in Seq(BOOLEAN) /\ Len(s) \in Nat \ {0} /\ s[1] \in BOOLEAN
      /\ m \in Seq(BOOLEAN) /\ Len(m) = Len(s) - 1 /\ \A i \in 1 .. Len(m) : m[i] = s[i + 1]
      /\ m = <<>> <=> Len(s) = 1
  <2>1. s \in Seq(BOOLEAN) /\ s # <<>>
    BY DEF VlanTypes
  <2>2. m = Tail(s)
    OBVIOUS
  <2> HIDE DEF s
  <2>3. /\ Len(s) \in Nat \ {0} /\ s[1] \in BOOLEAN
        /\ Tail(s) \in Seq(BOOLEAN) /\ Len(Tail(s)) = Len(s) - 1
        /\ \A i \in 1 .. Len(Tail(s)) : Tail(s)[i] = s[i + 1]
        /\ Tail(s) = <<>> <=> Len(s) = 1
    BY <2>1, SequenceTail, Zenon
  <2> QED
    BY <2>1, <2>2, <2>3, Zenon
<1>2. dev[p] \in VlanDevs
  BY DEF VlanOk
<1>3. e \in VlanDevs /\ e.up = s[1] /\ e.state = dev[p].state /\ e.peer = dev[p].peer
  BY <1>1, <1>2 DEF VlanDevs
<1>4. s[1] <=> ~dev[p].up
  BY DEF VlanOk, VlanNews
<1>5. VlanNews(s[1], link[p], m)
  <2>1. /\ s[Len(s)] <=> link[p] # Vlan!Nobody
        /\ \A i \in 1 .. Len(s) - 1 : s[i + 1] <=> ~s[i]
    BY DEF VlanOk, VlanNews
  <2> HIDE DEF s
  <2>2. m = <<>> => (s[1] <=> link[p] # Vlan!Nobody)
    BY <1>1, <2>1
  <2>3. ASSUME m # <<>> PROVE (m[1] <=> ~s[1]) /\ (m[Len(m)] <=> link[p] # Vlan!Nobody)
    <3>1. Len(m) \in 1 .. Len(m) /\ 1 \in 1 .. Len(m) /\ 1 \in 1 .. Len(s) - 1
            /\ Len(m) + 1 = Len(s)
      BY <1>1, <2>3
    <3>2. m[1] = s[1 + 1] /\ m[Len(m)] = s[Len(s)] /\ (s[1 + 1] <=> ~s[1])
      BY <1>1, <2>1, <3>1
    <3> QED
      BY <2>1, <3>2
  <2>4. ASSUME NEW i \in 1 .. Len(m) - 1 PROVE m[i + 1] <=> ~m[i]
    <3>1. i \in 1 .. Len(m) /\ i + 1 \in 1 .. Len(m) /\ i + 1 \in 1 .. Len(s) - 1
      BY <1>1, <2>4
    <3>2. m[i] = s[i + 1] /\ m[i + 1] = s[(i + 1) + 1] /\ (s[(i + 1) + 1] <=> ~s[i + 1])
      BY <1>1, <2>1, <3>1
    <3> QED
      BY <3>2
  <2> QED
    BY <2>2, <2>3, <2>4 DEF VlanNews
<1>6. d = Vlan!Current(e)
  OBVIOUS
<1>7. link[p] # Vlan!Nobody /\ m = <<>> => s[1]
  BY <1>5 DEF VlanNews
<1> HIDE DEF e, s
<1>8. CASE ~e.up /\ e.state # "down"
  <2>1. d = [e EXCEPT !.state = "godown"]
    BY <1>6, <1>8 DEF Vlan!Current
  <2>2. d \in VlanDevs /\ d.state = "godown" /\ d.up = e.up
    BY <1>3, <2>1 DEF VlanDevs, Vlan!States
  <2>3. VlanNews(d.up, link[p], m)
    BY <1>3, <1>5, <2>2
  <2> QED
    BY <2>2, <2>3 DEF VlanOk, VlanKnows
<1>9. CASE e.up /\ e.state = "down"
  <2>1. d = [e EXCEPT !.state = "justup"]
    BY <1>6, <1>9 DEF Vlan!Current
  <2>2. d \in VlanDevs /\ d.state = "justup" /\ d.up = e.up
    BY <1>3, <2>1 DEF VlanDevs, Vlan!States
  <2>3. VlanNews(d.up, link[p], m)
    BY <1>3, <1>5, <2>2
  <2> QED
    BY <1>3, <1>9, <2>2, <2>3 DEF VlanOk, VlanKnows
<1>10. CASE ~(~e.up /\ e.state # "down") /\ ~(e.up /\ e.state = "down")
  <2>1. d = e
    BY <1>6, <1>10 DEF Vlan!Current
  <2>2. VlanNews(d.up, link[p], m)
    BY <1>3, <1>5, <2>1
  <2>3. dev[p].state \notin {"sniff", "radclient", "auth", "config", "configured"}
    BY <1>3, <1>4, <1>10 DEF VlanOk
  <2> QED
    BY <1>3, <1>10, <2>1, <2>2, <2>3 DEF VlanOk, VlanKnows
<1> QED
  BY <1>8, <1>9, <1>10

\* Nothing of the other ports changes.
LEMMA VlanMoveKeeps ==
    ASSUME VlanInv, NEW p \in VlanPorts, NEW CONSTANT m \in Seq(BOOLEAN), Len(m) <= VlanMaxNews,
           VlanMove(p, m), UNCHANGED <<link, again>>, news' = [news EXCEPT ![p] = m]
    PROVE  VlanInv'
<1>t. VlanTypes
  BY DEF VlanInv
<1>1. PICK d, k, v, f :
          /\ dev' = [dev EXCEPT ![p] = d] /\ kid' = [kid EXCEPT ![p] = k]
          /\ vlan' = [vlan EXCEPT ![p] = v] /\ frame' = [frame EXCEPT ![p] = f]
          /\ VlanOk(p, d, k, v, link[p], m, f, again, lost')
  BY DEF VlanMove
<1>2. /\ d \in VlanDevs /\ k \in VlanKids /\ v \in Vlan!Vlans
      /\ f \in VlanHosts \cup {Vlan!Nobody, Vlan!Switch}
  BY <1>1 DEF VlanOk
<1>3. /\ lost' \subseteq VlanPorts /\ lost' \in {lost, lost \cup {p}}
      /\ order' \in [DOMAIN VlanServerList -> Vlan!Servers] /\ errors' \in 0 .. VlanMaxErrors
  BY <1>t DEF VlanMove, VlanTypes
<1>4. VlanTypes'
  BY <1>t, <1>1, <1>2, <1>3 DEF VlanTypes
<1>5. ASSUME NEW q \in VlanPorts
      PROVE  VlanOk(q, dev[q], kid[q], vlan[q], link[q], news[q], frame[q], again, lost)'
  <2>1. CASE q = p
    <3>1. dev'[q] = d /\ kid'[q] = k /\ vlan'[q] = v /\ frame'[q] = f /\ news'[q] = m
          /\ link'[q] = link[p] /\ again' = again
      BY <1>t, <1>1, <2>1 DEF VlanTypes
    <3> QED
      BY <1>1, <2>1, <3>1 DEF VlanOk
  <2>2. CASE q # p
    <3>1. dev'[q] = dev[q] /\ kid'[q] = kid[q] /\ vlan'[q] = vlan[q] /\ frame'[q] = frame[q]
          /\ news'[q] = news[q] /\ link'[q] = link[q] /\ again' = again
          /\ (q \in lost' => q \in lost)
      BY <1>t, <1>1, <1>3, <2>2 DEF VlanTypes
    <3>2. VlanOk(q, dev[q], kid[q], vlan[q], link[q], news[q], frame[q], again, lost)
      BY DEF VlanInv
    <3> QED
      BY <3>1, <3>2 DEF VlanOk
  <2> QED
    BY <2>1, <2>2
<1> QED
  BY <1>4, <1>5 DEF VlanInv

LEMMA VlanRun == ASSUME VlanInv, NEW p \in VlanPorts, Vlan!Run(p) PROVE VlanInv'
<1>t. /\ VlanTypes /\ VlanOk(p, dev[p], kid[p], vlan[p], link[p], news[p], frame[p], again, lost)
      /\ news[p] \in Seq(BOOLEAN) /\ Len(news[p]) <= VlanMaxNews /\ UNCHANGED <<link, again>>
  BY DEF VlanInv, VlanTypes, Vlan!Run
<1>1. CASE /\ Vlan!Message(p)
           /\ LET read == Len(news[p]) - Len(news'[p])
              IN  Vlan!Fsm(p, Vlan!Current([dev[p] EXCEPT !.up = news[p][read]]))
  <2>1. news[p] # <<>> /\ news' = [news EXCEPT ![p] = Tail(news[p])]
    BY <1>1 DEF Vlan!Message
  <2>2. PICK m : m = Tail(news[p])
    OBVIOUS
  <2>3. news' = [news EXCEPT ![p] = m] /\ news'[p] = m
    BY <1>t, <2>1, <2>2 DEF VlanTypes
  <2>4. m \in Seq(BOOLEAN) /\ Len(m) = Len(news[p]) - 1 /\ Len(news[p]) \in Nat
    BY <1>t, <2>1, <2>2, SequenceTail
  <2>5. Len(m) <= VlanMaxNews /\ Len(news[p]) - Len(news'[p]) = 1
    BY <1>t, <2>3, <2>4, VlanConstants
  <2>6. PICK d : d = Vlan!Current([dev[p] EXCEPT !.up = news[p][1]])
    OBVIOUS
  <2>7. Vlan!Fsm(p, d)
    BY <1>1, <2>5, <2>6
  <2>8. /\ VlanOk(p, d, kid[p], vlan[p], link[p], m, frame[p], again, lost)
        /\ d.state = "justup" => d.up
    BY <1>t, <2>1, <2>2, <2>6, VlanRead
  <2> QED
    BY <1>t, <2>3, <2>4, <2>5, <2>7, <2>8, VlanHandlers, VlanMoveKeeps
<1>2. CASE Vlan!Fsm(p, Vlan!Current(dev[p])) /\ UNCHANGED news
  <2>1. PICK m : m = news[p]
    OBVIOUS
  <2>2. PICK d : d = Vlan!Current(dev[p])
    OBVIOUS
  <2>3. /\ VlanOk(p, d, kid[p], vlan[p], link[p], m, frame[p], again, lost)
        /\ d.state = "justup" => d.up
    BY <1>t, <2>1, <2>2, VlanCurrent
  <2>4. news' = [news EXCEPT ![p] = m] /\ m \in Seq(BOOLEAN) /\ Len(m) <= VlanMaxNews
    BY <1>t, <1>2, <2>1 DEF VlanTypes
  <2> QED
    BY <1>t, <1>2, <2>2, <2>3, <2>4, VlanHandlers, VlanMoveKeeps
<1> QED
  BY <1>1, <1>2 DEF Vlan!Run

LEMMA SequenceAppend ==
    ASSUME NEW S, NEW s \in Seq(S), NEW e \in S, NEW t, t = Append(s, e)
    PROVE  /\ Len(s) \in Nat /\ t \in Seq(S) /\ Len(t) = Len(s) + 1 /\ t[Len(s) + 1] = e
           /\ t # <<>> /\ \A i \in 1 .. Len(s) : t[i] = s[i]
<1>1. /\ Append(s, e) \in Seq(S) /\ Append(s, e) # <<>>
      /\ Len(Append(s, e)) = Len(s) + 1
      /\ \A i \in 1 .. Len(s) : Append(s, e)[i] = s[i]
      /\ Append(s, e)[Len(s) + 1] = e
  BY AppendProperties
<1>2. Len(s) \in Nat
  OBVIOUS
<1> QED
  BY <1>1, <1>2, Zenon

\* A message is sent for each change of the link.
LEMMA VlanLinkChange ==
    ASSUME VlanInv, NEW p \in VlanPorts, NEW h \in VlanHosts \cup {Vlan!Nobody},
           Vlan!LinkChange(p, h)
    PROVE  VlanInv'
<1>t. VlanTypes /\ VlanOk(p, dev[p], kid[p], vlan[p], link[p], news[p], frame[p], again, lost)
  BY DEF VlanInv
<1>1. /\ Len(news[p]) < VlanMaxNews /\ (link[p] = Vlan!Nobody) # (h = Vlan!Nobody)
      /\ link' = [link EXCEPT ![p] = h]
      /\ UNCHANGED <<dev, kid, order, vlan, frame, errors, again, lost>>
  BY DEF Vlan!LinkChange
<1>2. PICK b \in BOOLEAN : b = (h # Vlan!Nobody)
  OBVIOUS
<1>3. PICK t : t = Append(news[p], b)
  OBVIOUS
<1>4. news' = [news EXCEPT ![p] = t]
  BY <1>2, <1>3 DEF Vlan!LinkChange
<1>5. news[p] \in Seq(BOOLEAN)
  BY <1>t DEF VlanTypes
<1>6. t \in Seq(BOOLEAN) /\ Len(t) = Len(news[p]) + 1 /\ Len(news[p]) \in Nat
  <2>1. PICK S : S = BOOLEAN
    OBVIOUS
  <2>2. news[p] \in Seq(S) /\ b \in S
    BY <1>5, <2>1
  <2>3. t \in Seq(S) /\ Len(t) = Len(news[p]) + 1 /\ Len(news[p]) \in Nat
    BY <1>3, <2>2, SequenceAppend
  <2> QED
    BY <2>1, <2>3
<1>7. Len(t) <= VlanMaxNews
  BY <1>1, <1>6, VlanConstants
<1>8. VlanNews(dev[p].up, h, t) /\ t # <<>>
  <2>1. dev[p].up \in BOOLEAN /\ VlanNews(dev[p].up, link[p], news[p])
    BY <1>t DEF VlanOk, VlanDevs
  <2>2. PICK up \in BOOLEAN : up = dev[p].up
    BY <2>1
  <2>3. PICK m, l : m = news[p] /\ l = link[p]
    OBVIOUS
  <2>4. m \in Seq(BOOLEAN) /\ VlanNews(up, l, m) /\ t = Append(m, b)
    BY <1>3, <1>5, <2>1, <2>2, <2>3
  <2>5. (b <=> h # Vlan!Nobody) /\ (l = Vlan!Nobody <=> h # Vlan!Nobody)
    BY <1>1, <1>2, <2>3
  <2>6. t \in Seq(BOOLEAN)
    BY <1>6
  <2>7. VlanNews(up, h, t) /\ t # <<>>
    <3> USE <2>4, <2>5
    <3> DEFINE n == Len(m)
    <3>1. /\ n \in Nat /\ Len(t) = n + 1 /\ t[n + 1] = b
          /\ \A i \in 1 .. n : t[i] = m[i]
      <4>1. PICK S : S = BOOLEAN
        OBVIOUS
      <4>2. m \in Seq(S) /\ b \in S
        BY <4>1
      <4> QED
        BY <4>2, SequenceAppend
    <3>2. (n = 0 <=> m = <<>>) /\ t # <<>>
      BY <3>1, SequenceAppend
    <3>3. CASE n = 0
      <4>1. t[1] = b /\ Len(t) = 1 /\ 1 .. Len(t) - 1 = {}
        BY <3>1, <3>3
      <4>2. b <=> ~up
        BY <3>2, <3>3 DEF VlanNews
      <4> QED
        BY <3>2, <4>1, <4>2 DEF VlanNews
    <3>4. CASE n # 0
      <4>1. 1 \in 1 .. n /\ n \in 1 .. n /\ Len(t) = n + 1
        BY <3>1, <3>4
      <4>2. t[1] <=> ~up
        <5>1. t[1] = m[1] /\ (m[1] <=> ~up)
          BY <3>1, <3>2, <3>4, <4>1 DEF VlanNews
        <5> QED
          BY <5>1
      <4>3. t[Len(t)] <=> h # Vlan!Nobody
        <5>1. t[Len(t)] = b
          BY <3>1
        <5> QED
          BY <5>1
      <4>4. ASSUME NEW i \in 1 .. Len(t) - 1 PROVE t[i + 1] <=> ~t[i]
        <5>1. CASE i = n
          <6>1. t[i + 1] = b /\ t[i] = m[n]
            BY <3>1, <4>1, <5>1
          <6>2. m[n] <=> l # Vlan!Nobody
            BY <3>2, <3>4 DEF VlanNews
          <6> QED
            BY <6>1, <6>2
        <5>2. CASE i # n
          <6>1. i \in 1 .. n - 1 /\ i \in 1 .. n /\ i + 1 \in 1 .. n
            BY <3>1, <4>1, <4>4, <5>2
          <6>2. t[i + 1] = m[i + 1] /\ t[i] = m[i]
            BY <3>1, <6>1
          <6>3. m[i + 1] <=> ~m[i]
            BY <6>1 DEF VlanNews
          <6> QED
            BY <6>2, <6>3
        <5> QED
          BY <5>1, <5>2
      <4> QED
        BY <3>2, <4>2, <4>3, <4>4 DEF VlanNews
    <3> QED
      BY <3>3, <3>4
  <2> QED
    BY <2>2, <2>7
<1>9. VlanTypes'
  BY <1>t, <1>1, <1>4, <1>6, <1>7 DEF VlanTypes
<1>10. ASSUME NEW q \in VlanPorts
       PROVE  VlanOk(q, dev[q], kid[q], vlan[q], link[q], news[q], frame[q], again, lost)'
  <2>0. VlanOk(q, dev[q], kid[q], vlan[q], link[q], news[q], frame[q], again, lost)
    BY DEF VlanInv
  <2>1. CASE q = p
    <3>1. link'[q] = h /\ news'[q] = t
      BY <1>t, <1>1, <1>4, <2>1 DEF VlanTypes
    <3> QED
      BY <1>1, <1>8, <2>0, <2>1, <3>1 DEF VlanOk
  <2>2. CASE q # p
    <3>1. link'[q] = link[q] /\ news'[q] = news[q]
      BY <1>t, <1>1, <1>4, <2>2 DEF VlanTypes
    <3> QED
      BY <1>1, <2>0, <3>1 DEF VlanOk
  <2> QED
    BY <2>1, <2>2
<1> QED
  BY <1>9, <1>10 DEF VlanInv

LEMMA VlanReceive == ASSUME VlanInv, NEW p \in VlanPorts, Vlan!Receive(p) PROVE VlanInv'
<1>t. VlanTypes /\ VlanOk(p, dev[p], kid[p], vlan[p], link[p], news[p], frame[p], again, lost)
  BY DEF VlanInv
<1>1. /\ dev[p].state = "sniff"
      /\ UNCHANGED <<dev, kid, order, vlan, link, news, errors, again, lost>>
  BY DEF Vlan!Receive
<1>2. PICK h \in {link[p], Vlan!Switch} : frame' = [frame EXCEPT ![p] = h]
  BY DEF Vlan!Receive
<1>3. h \in VlanHosts \cup {Vlan!Nobody, Vlan!Switch}
  BY <1>t, <1>2 DEF VlanTypes
<1>4. VlanTypes'
  BY <1>t, <1>1, <1>2, <1>3 DEF VlanTypes
<1>5. ASSUME NEW q \in VlanPorts
      PROVE  VlanOk(q, dev[q], kid[q], vlan[q], link[q], news[q], frame[q], again, lost)'
  <2>0. VlanOk(q, dev[q], kid[q], vlan[q], link[q], news[q], frame[q], again, lost)
    BY DEF VlanInv
  <2>1. CASE q = p
    <3>1. frame'[q] = h
      BY <1>t, <1>2, <2>1 DEF VlanTypes
    <3> QED
      BY <1>1, <1>2, <1>3, <2>0, <2>1, <3>1 DEF VlanOk, VlanKnows
  <2>2. CASE q # p
    <3>1. frame'[q] = frame[q]
      BY <1>t, <1>2, <2>2 DEF VlanTypes
    <3> QED
      BY <1>1, <2>0, <3>1 DEF VlanOk
  <2> QED
    BY <2>1, <2>2
<1> QED
  BY <1>4, <1>5 DEF VlanInv

LEMMA VlanChildExits == ASSUME VlanInv, NEW p \in VlanPorts, Vlan!ChildExits(p) PROVE VlanInv'
<1>t. VlanTypes /\ kid[p] \in VlanKids
  BY DEF VlanInv, VlanTypes
<1>1. /\ kid[p].runs /\ kid' = [kid EXCEPT ![p] = [kid[p] EXCEPT !.runs = FALSE]]
      /\ UNCHANGED <<dev, order, vlan, link, news, frame, errors, again, lost>>
  BY DEF Vlan!ChildExits
<1>2. PICK k : k = [kid[p] EXCEPT !.runs = FALSE]
  OBVIOUS
<1>3. k \in VlanKids /\ k.who = kid[p].who /\ kid[p] # Vlan!NoKid
  <2>1. kid[p] # Vlan!NoKid
    <3>1. ~Vlan!NoKid.runs
      BY DEF Vlan!NoKid
    <3> QED
      BY <1>1, <3>1
  <2>2. kid[p] \in [runs : BOOLEAN, server : Vlan!Servers, who : VlanHosts]
    BY <1>t, <2>1 DEF VlanKids
  <2> QED
    BY <1>2, <2>1, <2>2 DEF VlanKids
<1>4. VlanTypes'
  BY <1>t, <1>1, <1>2, <1>3 DEF VlanTypes
<1>5. ASSUME NEW q \in VlanPorts
      PROVE  VlanOk(q, dev[q], kid[q], vlan[q], link[q], news[q], frame[q], again, lost)'
  <2>0. VlanOk(q, dev[q], kid[q], vlan[q], link[q], news[q], frame[q], again, lost)
    BY DEF VlanInv
  <2>1. CASE q = p
    <3>1. kid'[q] = k
      BY <1>t, <1>1, <1>2, <2>1 DEF VlanTypes
    <3> QED
      BY <1>1, <1>3, <2>0, <2>1, <3>1 DEF VlanOk, VlanKnows
  <2>2. CASE q # p
    <3>1. kid'[q] = kid[q]
      BY <1>t, <1>1, <2>2 DEF VlanTypes
    <3> QED
      BY <1>1, <2>0, <3>1 DEF VlanOk
  <2> QED
    BY <2>1, <2>2
<1> QED
  BY <1>4, <1>5 DEF VlanInv

\* SIGUSR2: a port that has a child is told.
LEMMA VlanReauth == ASSUME VlanInv, Vlan!Reauth PROVE VlanInv'
<1>t. VlanTypes
  BY DEF VlanInv
<1>1. /\ dev' = [p \in VlanPorts |-> [dev[p] EXCEPT !.state = "justup"]]
      /\ again' = again \cup {p \in VlanPorts : kid[p] # Vlan!NoKid}
      /\ UNCHANGED <<kid, order, vlan, link, news, frame, errors, lost>>
  BY DEF Vlan!Reauth
<1>2. ASSUME NEW p \in VlanPorts
      PROVE  dev'[p] \in VlanDevs /\ dev'[p].state = "justup" /\ dev'[p].up = dev[p].up
  <2>1. dev[p] \in VlanDevs /\ dev'[p] = [dev[p] EXCEPT !.state = "justup"]
    BY <1>t, <1>1 DEF VlanTypes
  <2> QED
    BY <2>1 DEF VlanDevs, Vlan!States
<1>3. VlanTypes'
  <2>1. dev' \in [VlanPorts -> VlanDevs]
    BY <1>1, <1>2
  <2> QED
    BY <1>t, <1>1, <2>1 DEF VlanTypes
<1>4. ASSUME NEW p \in VlanPorts
      PROVE  VlanOk(p, dev[p], kid[p], vlan[p], link[p], news[p], frame[p], again, lost)'
  <2>1. VlanOk(p, dev[p], kid[p], vlan[p], link[p], news[p], frame[p], again, lost)
    BY DEF VlanInv
  <2>2. kid[p] # Vlan!NoKid => p \in again'
    BY <1>1
  <2> QED
    BY <1>1, <1>2, <2>1, <2>2 DEF VlanOk, VlanKnows
<1> QED
  BY <1>3, <1>4 DEF VlanInv

LEMMA VlanNext == VlanInv /\ [Next]_vars => VlanInv'
<1> SUFFICES ASSUME VlanInv, Vlan!Next \/ UNCHANGED vlanVars PROVE VlanInv'
  BY DEF Next, vars
<1>1. CASE UNCHANGED vlanVars
  <2>1. UNCHANGED <<dev, kid, order, vlan, link, news, frame, errors, again, lost>>
    BY <1>1 DEF vlanVars
  <2> QED
    BY <2>1 DEF VlanInv, VlanTypes, VlanOk
<1>2. CASE Vlan!Next
  BY <1>2, VlanReauth, VlanRun, VlanReceive, VlanChildExits, VlanLinkChange DEF Vlan!Next
<1> QED
  BY <1>1, <1>2

LEMMA VlanTypeOK == VlanInv => Vlan!TypeOK
<1> SUFFICES ASSUME VlanInv PROVE Vlan!TypeOK
  OBVIOUS
<1> QED
  BY DEF VlanInv, VlanTypes, VlanDevs, VlanKids, Vlan!TypeOK

\* A configured port is in the VLAN of the station that is connected now, a port
\* that is DOWN is in the authentication VLAN, and no child of radclient is
\* forgotten unless SIGUSR2 came during its query: for every set of ports,
\* stations and servers, and every answer that the servers give.
THEOREM VlansAreRight ==
    Spec => [](Vlan!OwnVlan /\ Vlan!DownIsAuth /\ Vlan!ChildrenReaped)
<1>1. VlanInv => Vlan!OwnVlan /\ Vlan!DownIsAuth /\ Vlan!ChildrenReaped
  <2> SUFFICES ASSUME VlanInv
               PROVE  Vlan!OwnVlan /\ Vlan!DownIsAuth /\ Vlan!ChildrenReaped
    OBVIOUS
  <2>1. \A p \in VlanPorts :
           VlanOk(p, dev[p], kid[p], vlan[p], link[p], news[p], frame[p], again, lost)
    BY DEF VlanInv
  <2>2. Vlan!OwnVlan
    BY <2>1 DEF Vlan!OwnVlan, VlanOk, VlanKnows
  <2>3. Vlan!DownIsAuth
    BY <2>1 DEF Vlan!DownIsAuth, VlanOk
  <2>4. Vlan!ChildrenReaped
    <3>1. lost \subseteq VlanPorts
      BY DEF VlanInv, VlanTypes
    <3> QED
      BY <2>1, <3>1 DEF Vlan!ChildrenReaped, VlanOk
  <2> QED
    BY <2>2, <2>3, <2>4
<1> QED
  BY <1>1, VlanInit, VlanNext, PTL DEF Spec

-----------------------------------------------------------------------------
(* The watchdog                                                            *)

\* Until a machine is over the threshold, a counter counts no more than the
\* successive samples that justify it.
DogCounts ==
    dog.pc # "reset" =>
        \A m \in Dog!Machines : stuckCnt[m] < DogRstThr /\ stuckCnt[m] <= seen[m]

DogInv == Dog!TypeOK /\ DogCounts /\ Dog!ResetJustified

LEMMA DogConstants ==
    /\ DogPortNum \in Nat /\ DogFsms \in Nat \ {0}
    /\ DogRstThr \in Nat \ {0} /\ DogMaxTools \in Nat
BY PartsConstants DEF Dog!ConstantsOK

LEMMA DogInit == Init => DogInv
<1> SUFFICES ASSUME Dog!Init PROVE DogInv
  BY DEF Init
<1> USE DogConstants DEF Dog!Init
<1>1. stuckCnt \in [Dog!Machines -> 0 .. DogRstThr] /\ seen \in [Dog!Machines -> 0 .. DogRstThr]
      /\ \A m \in Dog!Machines : stuckCnt[m] = 0 /\ seen[m] = 0
  BY DEF Dog!Zero
<1>2. dog \in [pc : {"select", "fsm", "act", "reset"}, port_it : Dog!Ports, from : Dog!Ports,
               busy : SUBSET Dog!Fsm] /\ dog.pc = "select"
  BY DEF Dog!NoSample, Dog!Ports
<1>3. 0 \in Dog!Ports
  BY DEF Dog!Ports
<1>4. Dog!TypeOK
  BY <1>1, <1>2, <1>3 DEF Dog!TypeOK
<1> QED
  BY <1>1, <1>2, <1>4 DEF DogInv, DogCounts, Dog!ResetJustified

\* What a look at a port does to the counters of its machines.
LEMMA DogAct ==
    ASSUME DogInv, Dog!ReadAct
    PROVE  DogInv'
<1> USE DogConstants
<1> DEFINE p == dog.port_it
           old == [f \in Dog!Fsm |-> stuckCnt[<<p, f>>]]
           right == dog.from = p /\ sel = p
<1>1. PICK quiet \in SUBSET {f \in Dog!Fsm : Dog!Quiet(f)} :
        LET count == Dog!Count(old, dog.busy \cap quiet)
            over == {f \in Dog!Fsm : count[f] >= DogRstThr}
            passed == {f \in Dog!Fsm : \A g \in over : f <= g}
        IN  /\ stuckCnt' = [m \in Dog!Machines |->
                               IF m[1] = p /\ m[2] \in passed THEN count[m[2]]
                               ELSE stuckCnt[m]]
            /\ dog' = [Dog!NoSample EXCEPT
                          !.pc = IF over # {} THEN "reset" ELSE "select",
                          !.port_it = IF over # {} THEN p
                                      ELSE IF p >= Dog!LastPort THEN 0 ELSE p + 1]
            /\ seen' = [m \in Dog!Machines |->
                           IF m[1] # p THEN seen[m]
                           ELSE IF right /\ ~frozen[m] THEN 0
                           ELSE IF seen[m] < DogRstThr THEN seen[m] + 1 ELSE DogRstThr]
  BY DEF Dog!ReadAct
<1> DEFINE count == Dog!Count(old, dog.busy \cap quiet)
           over == {f \in Dog!Fsm : count[f] >= DogRstThr}
           passed == {f \in Dog!Fsm : \A g \in over : f <= g}
<1>2. /\ dog.pc = "act" /\ UNCHANGED <<frozen, sel, lister, tools>>
      /\ p \in Dog!Ports /\ dog.busy \subseteq Dog!Fsm
      /\ stuckCnt \in [Dog!Machines -> 0 .. DogRstThr]
           /\ seen \in [Dog!Machines -> 0 .. DogRstThr]
      /\ \A m \in Dog!Machines : stuckCnt[m] < DogRstThr /\ stuckCnt[m] <= seen[m]
  BY DEF Dog!ReadAct, DogInv, DogCounts, Dog!TypeOK
<1>3. \A f \in Dog!Fsm : <<p, f>> \in Dog!Machines
  BY <1>2 DEF Dog!Machines
<1>4. ASSUME NEW f \in Dog!Fsm
      PROVE  /\ count[f] \in 0 .. DogRstThr
             /\ count[f] <= seen'[<<p, f>>]
  <2> DEFINE m == <<p, f>>
  <2>1. count[f] = IF f \in dog.busy \cap quiet THEN stuckCnt[m] + 1 ELSE 0
    BY <1>3 DEF Dog!Count
  <2>2. m \in Dog!Machines /\ m[1] = p /\ m[2] = f
    BY <1>3
  <2>3. seen'[m] = IF right /\ ~frozen[m] THEN 0
                   ELSE IF seen[m] < DogRstThr THEN seen[m] + 1 ELSE DogRstThr
    BY <1>1, <2>2
  <2>4. stuckCnt[m] \in 0 .. DogRstThr /\ seen[m] \in 0 .. DogRstThr
        /\ stuckCnt[m] < DogRstThr /\ stuckCnt[m] <= seen[m]
    BY <1>2, <2>2
  <2>5. CASE f \in dog.busy \cap quiet
    <3>1. ~(right /\ ~frozen[m])
      BY <2>5 DEF Dog!Quiet
    <3> HIDE DEF m, right, p, count
    <3> QED
      BY <2>1, <2>3, <2>4, <2>5, <3>1 DEF m, p
  <2>6. CASE f \notin dog.busy \cap quiet
    <3> HIDE DEF m, right, p, count
    <3> QED
      BY <2>1, <2>3, <2>4, <2>6 DEF m, p
  <2> QED
    BY <2>5, <2>6
<1>5. /\ stuckCnt' = [m \in Dog!Machines |->
                        IF m[1] = p /\ m[2] \in passed THEN count[m[2]] ELSE stuckCnt[m]]
      /\ seen' \in [Dog!Machines -> 0 .. DogRstThr]
      /\ \A m \in Dog!Machines : m[1] # p => seen'[m] = seen[m]
      /\ dog' = [pc |-> IF over # {} THEN "reset" ELSE "select",
                 port_it |-> IF over # {} THEN p ELSE IF p >= Dog!LastPort THEN 0 ELSE p + 1,
                 from |-> 0, busy |-> {}]
  <2>1. \A m \in Dog!Machines : seen[m] \in 0 .. DogRstThr
    BY <1>2
  <2>2. seen' \in [Dog!Machines -> 0 .. DogRstThr] /\ \A m \in Dog!Machines : m[1] # p =>
          seen'[m] = seen[m]
    BY <1>1, <2>1
  <2> QED
    BY <1>1, <2>2 DEF Dog!NoSample
<1>6. stuckCnt' \in [Dog!Machines -> 0 .. DogRstThr]
  <2>1. ASSUME NEW m \in Dog!Machines
        PROVE  (IF m[1] = p /\ m[2] \in passed
                 THEN count[m[2]] ELSE stuckCnt[m]) \in 0 .. DogRstThr
    BY <1>2, <1>4
  <2> HIDE DEF count, passed, p
  <2> QED
    BY <1>5, <2>1
<1>7. dog' \in [pc : {"select", "fsm", "act", "reset"}, port_it : Dog!Ports, from : Dog!Ports,
                busy : SUBSET Dog!Fsm]
  <2>1. (IF over # {} THEN p ELSE IF p >= Dog!LastPort THEN 0 ELSE p + 1) \in Dog!Ports
        /\ 0 \in Dog!Ports
    BY <1>2 DEF Dog!Ports, Dog!LastPort
  <2> HIDE DEF over, p
  <2> QED
    BY <1>5, <2>1
<1>8. Dog!TypeOK'
  BY <1>2, <1>5, <1>6, <1>7 DEF DogInv, Dog!TypeOK
<1>9. dog'.pc = (IF over # {} THEN "reset" ELSE "select") /\ (over # {} => dog'.port_it = p)
  BY <1>5
<1>10. DogCounts'
  <2> SUFFICES ASSUME over = {}, NEW m \in Dog!Machines
               PROVE  stuckCnt'[m] < DogRstThr /\ stuckCnt'[m] <= seen'[m]
    BY <1>9 DEF DogCounts
  <2>1. CASE m[1] = p
    <3>1. m[2] \in Dog!Fsm /\ m = <<p, m[2]>>
      BY <2>1 DEF Dog!Machines
    <3>2. m[2] \in passed /\ ~(count[m[2]] >= DogRstThr)
      BY <3>1
    <3>3. stuckCnt'[m] = count[m[2]]
      BY <1>5, <2>1, <3>2
    <3>4. count[m[2]] \in 0 .. DogRstThr /\ count[m[2]] <= seen'[m]
      BY <1>4, <3>1
    <3> HIDE DEF count
    <3> QED
      BY <3>2, <3>3, <3>4
  <2>2. CASE m[1] # p
    BY <1>2, <1>5, <2>2
  <2> QED
    BY <2>1, <2>2
<1>11. Dog!ResetJustified'
  <2> SUFFICES ASSUME over # {}
               PROVE  \E m \in Dog!Machines : m[1] = p /\ seen'[m] >= DogRstThr
    BY <1>9 DEF Dog!ResetJustified
  <2>1. PICK f \in Dog!Fsm : count[f] >= DogRstThr
    OBVIOUS
  <2>2. count[f] \in 0 .. DogRstThr /\ count[f] <= seen'[<<p, f>>] /\ <<p, f>> \in Dog!Machines
    BY <1>3, <1>4
  <2>3. seen'[<<p, f>>] \in 0 .. DogRstThr
    BY <1>5, <2>2
  <2>4. seen'[<<p, f>>] >= DogRstThr
    BY <2>1, <2>2, <2>3
  <2> QED
    BY <2>2, <2>4
<1> QED
  BY <1>8, <1>10, <1>11 DEF DogInv

LEMMA DogNext == DogInv /\ [Next]_vars => DogInv'
<1> SUFFICES ASSUME DogInv, Dog!Next \/ UNCHANGED dogVars PROVE DogInv'
  BY DEF Next, vars
<1> USE DogConstants
<1>1. ASSUME NEW m \in Dog!Machines, Dog!Freeze(m) \/ Dog!Thaw(m) PROVE DogInv'
  <2>1. frozen' \in [Dog!Machines -> BOOLEAN] /\ UNCHANGED <<sel, stuckCnt, dog, lister, tools,
          seen>>
    BY <1>1 DEF Dog!Freeze, Dog!Thaw, DogInv, Dog!TypeOK
  <2> QED
    BY <2>1 DEF DogInv, DogCounts, Dog!TypeOK, Dog!ResetJustified
<1>2. CASE Dog!Select \/ Dog!ReadFsm
  <2>1. /\ UNCHANGED <<frozen, stuckCnt, lister, tools, seen>> /\ sel' \in Dog!Ports
        /\ dog.pc # "reset" /\ dog'.pc # "reset"
        /\ dog' \in [pc : {"select", "fsm", "act", "reset"}, port_it : Dog!Ports,
                     from : Dog!Ports, busy : SUBSET Dog!Fsm]
    <3>1. CASE Dog!Select
      BY <3>1 DEF Dog!Select, DogInv, Dog!TypeOK
    <3>2. CASE Dog!ReadFsm
      <4>1. PICK free \in SUBSET Dog!Fsm :
              dog' = [dog EXCEPT !.pc = "act", !.from = sel,
                                 !.busy = free \cup {f \in Dog!Fsm : frozen[<<sel, f>>]}]
        BY <3>2 DEF Dog!ReadFsm
      <4>2. free \cup {f \in Dog!Fsm : frozen[<<sel, f>>]} \in SUBSET Dog!Fsm
        OBVIOUS
      <4> QED
        BY <3>2, <4>1, <4>2 DEF Dog!ReadFsm, DogInv, Dog!TypeOK
    <3> QED
      BY <1>2, <3>1, <3>2
  <2> QED
    BY <2>1 DEF DogInv, DogCounts, Dog!TypeOK, Dog!ResetJustified
<1>3. CASE Dog!ReadAct
  BY <1>3, DogAct
<1>4. CASE Dog!Reset
  <2>1. /\ frozen' \in [Dog!Machines -> BOOLEAN] /\ sel' = 0 /\ stuckCnt' = Dog!Zero
        /\ dog' = [pc |-> "select", port_it |-> 0, from |-> 0, busy |-> {}]
        /\ UNCHANGED <<lister, tools, seen>>
    BY <1>4 DEF Dog!Reset, Dog!Rst, Dog!NoSample
  <2>2. stuckCnt' \in [Dog!Machines -> 0 .. DogRstThr]
        /\ \A m \in Dog!Machines : stuckCnt'[m] = 0 /\ seen[m] \in Nat
    BY <2>1 DEF Dog!Zero, DogInv, Dog!TypeOK
  <2>3. 0 \in Dog!Ports
    BY DEF Dog!Ports
  <2>4. Dog!TypeOK' /\ dog'.pc = "select"
    BY <2>1, <2>2, <2>3 DEF DogInv, Dog!TypeOK
  <2> QED
    BY <2>1, <2>2, <2>4 DEF DogInv, DogCounts, Dog!ResetJustified
<1>5. CASE Dog!StartList \/ Dog!ListPort \/ Dog!ForceReset
  <2>1. /\ UNCHANGED <<stuckCnt, dog, seen>> /\ frozen' \in [Dog!Machines -> BOOLEAN]
        /\ sel' \in Dog!Ports /\ tools' \in 0 .. DogMaxTools
        /\ lister' \in Dog!Ports \cup {Dog!NoList}
    <3>1. CASE Dog!StartList
      BY <3>1 DEF Dog!StartList, DogInv, Dog!TypeOK, Dog!Ports
    <3>2. CASE Dog!ListPort
      BY <3>2 DEF Dog!ListPort, DogInv, Dog!TypeOK, Dog!Ports, Dog!NoList
    <3>3. CASE Dog!ForceReset
      BY <3>3 DEF Dog!ForceReset, Dog!Rst, DogInv, Dog!TypeOK, Dog!Ports
    <3> QED
      BY <1>5, <3>1, <3>2, <3>3
  <2> QED
    BY <2>1 DEF DogInv, DogCounts, Dog!TypeOK, Dog!ResetJustified
<1>6. CASE UNCHANGED dogVars
  <2>1. UNCHANGED <<frozen, sel, stuckCnt, dog, lister, tools, seen>>
    BY <1>6 DEF dogVars
  <2> QED
    BY <2>1 DEF DogInv, DogCounts, Dog!TypeOK, Dog!ResetJustified
<1> QED
  BY <1>1, <1>2, <1>3, <1>4, <1>5, <1>6 DEF Dog!Next, Dog!Watch

\* endless_watchdog(), update_stuck(): the core is reset only for a machine that was
\* found stuck in RST_THR successive looks at its port, for any number of ports and
\* machines and any threshold.
THEOREM ResetsAreJustified == Spec => []Dog!ResetJustified
<1>1. DogInv => Dog!ResetJustified
  BY DEF DogInv
<1> QED
  BY <1>1, DogInit, DogNext, PTL DEF Spec

-----------------------------------------------------------------------------
(* The status of the timing                                                *)

\* The first query finds nothing copied yet, and whatever was counted before.
SnmpUnfilled == timing.first /\ timing.pc = "ptp"

\* A servo that misses no second has counted an update since the copy was made, as
\* soon as a whole second has passed.
SnmpUpdated ==
    ~SnmpUnfilled =>
        /\ ptpCopy.age >= 2 => servo.updates
        /\ beat /\ ptpCopy.age >= 1 => servo.updates

\* A copy without an update is not newer than the last check.
SnmpCompared ==
    ~timing.first /\ ~ptpCopy.updates /\ timing.pc # "stamp" => ptpCopy.age >= timing.age

\* Only errors from before the first query are there, and they are not compared.
SnmpErrors ==
    /\ servo.errors => SnmpUnfilled
    /\ ptpCopy.errors => timing.first
    /\ timing.status # "error"

\* The first query makes both copies, and is then sure to find the status.
SnmpFirst ==
    timing.first =>
        /\ timing.pc \in {"ptp", "spll", "check"} /\ timing.age = Snmp!Oldest
        /\ timing.pc = "ptp" => ptpCopy.age = Snmp!Oldest
        /\ timing.pc # "ptp" => ptpCopy.age <= IF timing.late THEN 1 ELSE 0
        /\ timing.pc # "check" => spllCopy.age = Snmp!Oldest
        /\ timing.pc = "check" => spllCopy.age <= IF timing.late THEN 1 ELSE 0

SnmpInv ==
    /\ Snmp!TypeOK /\ SnmpFirst
    /\ ~sick => SnmpUpdated /\ SnmpCompared /\ SnmpErrors

LEMMA SnmpConstants == SnmpTimeout \in Nat /\ SnmpTimeout > 1
BY PartsConstants DEF Snmp!ConstantsOK

LEMMA SnmpInit == Init => SnmpInv
<1> SUFFICES ASSUME Snmp!Init PROVE SnmpInv
  BY DEF Init
<1>1. /\ servo \in [updates : BOOLEAN, errors : BOOLEAN] /\ slave \in BOOLEAN /\ beat = FALSE
      /\ ptpCopy = [age |-> Snmp!Oldest, updates |-> FALSE, errors |-> FALSE]
      /\ spllCopy = [age |-> Snmp!Oldest, slave |-> FALSE]
      /\ timing = [pc |-> "ptp", age |-> Snmp!Oldest, status |-> "na", first |-> TRUE,
                    late |-> FALSE]
      /\ sick = FALSE /\ others = FALSE
  BY DEF Snmp!Init
<1>2. Snmp!Oldest \in Snmp!Ages
  BY SnmpConstants DEF Snmp!Oldest, Snmp!Ages
<1>3. Snmp!TypeOK
  BY <1>1, <1>2 DEF Snmp!TypeOK
<1> QED
  BY <1>1, <1>3 DEF SnmpInv, SnmpFirst, SnmpUpdated, SnmpCompared, SnmpErrors, SnmpUnfilled

LEMMA SnmpOlder ==
    \A a \in Snmp!Ages : Snmp!Older(a) = (IF a < Snmp!Oldest THEN a + 1 ELSE a)
                         /\ Snmp!Older(a) \in Snmp!Ages
BY SnmpConstants DEF Snmp!Older, Snmp!Ages, Snmp!Oldest

LEMMA SnmpTick == ASSUME SnmpInv, Snmp!Tick PROVE SnmpInv'
<1> USE SnmpConstants
<1>t. Snmp!TypeOK
  BY DEF SnmpInv
<1>1. /\ beat' = FALSE /\ sick' = (sick \/ ~beat) /\ UNCHANGED <<servo, slave, others>>
      /\ ptpCopy' = [age |-> Snmp!Older(ptpCopy.age), updates |-> ptpCopy.updates,
                     errors |-> ptpCopy.errors]
      /\ spllCopy' = [age |-> Snmp!Older(spllCopy.age), slave |-> spllCopy.slave]
      /\ timing' = [pc |-> timing.pc, age |-> Snmp!Older(timing.age), status |-> timing.status,
                    first |-> timing.first, late |-> (timing.pc # "idle")]
      /\ timing.pc = "idle" \/ ~timing.late
  BY <1>t DEF Snmp!Tick, Snmp!TypeOK
<1>2. /\ ptpCopy.age \in Snmp!Ages /\ spllCopy.age \in Snmp!Ages /\ timing.age \in Snmp!Ages
      /\ ptpCopy.updates \in BOOLEAN /\ ptpCopy.errors \in BOOLEAN /\ servo.updates \in BOOLEAN
      /\ spllCopy.slave \in BOOLEAN /\ timing.first \in BOOLEAN /\ timing.late \in BOOLEAN
      /\ timing.pc \in {"idle", "ptp", "spll", "check", "stamp"}
      /\ timing.status \in {"na", "ok", "error", "firstRead"}
      /\ sick \in BOOLEAN /\ beat \in BOOLEAN /\ slave \in BOOLEAN /\ others \in BOOLEAN
      /\ servo \in [updates : BOOLEAN, errors : BOOLEAN]
  BY <1>t DEF Snmp!TypeOK
<1>3. Snmp!TypeOK'
  <2>1. (timing.pc # "idle") \in BOOLEAN /\ (sick \/ ~beat) \in BOOLEAN
    OBVIOUS
  <2> QED
    <3>1. sick' \in BOOLEAN /\ beat' \in BOOLEAN /\ slave' \in BOOLEAN /\ others' \in BOOLEAN
      BY <1>1, <1>2, <2>1
    <3>2. /\ ptpCopy' \in [age : Snmp!Ages, updates : BOOLEAN, errors : BOOLEAN]
          /\ spllCopy' \in [age : Snmp!Ages, slave : BOOLEAN]
      BY <1>1, <1>2, SnmpOlder
    <3>3. timing' \in [pc : {"idle", "ptp", "spll", "check", "stamp"}, age : Snmp!Ages,
                      status : {"na", "ok", "error", "firstRead"}, first : BOOLEAN,
                      late : BOOLEAN]
      BY <1>1, <1>2, <2>1, SnmpOlder
    <3>4. servo' \in [updates : BOOLEAN, errors : BOOLEAN]
      BY <1>1, <1>2
    <3> QED
      BY <3>1, <3>2, <3>3, <3>4 DEF Snmp!TypeOK
<1>4. /\ ptpCopy'.age = IF ptpCopy.age < Snmp!Oldest THEN ptpCopy.age + 1 ELSE ptpCopy.age
      /\ spllCopy'.age = IF spllCopy.age < Snmp!Oldest THEN spllCopy.age + 1 ELSE spllCopy.age
      /\ timing'.age = IF timing.age < Snmp!Oldest THEN timing.age + 1 ELSE timing.age
      /\ timing'.pc = timing.pc /\ timing'.first = timing.first /\ timing'.status = timing.status
      /\ timing'.late = (timing.pc # "idle")
      /\ ptpCopy'.updates = ptpCopy.updates /\ ptpCopy'.errors = ptpCopy.errors
  BY <1>1, <1>2, SnmpOlder
<1>5. SnmpFirst'
  <2> SUFFICES ASSUME timing.first
               PROVE  SnmpFirst'
    BY <1>4 DEF SnmpFirst
  <2>1. ~timing.late /\ timing.pc # "idle" /\ SnmpFirst
    BY <1>1, <1>2 DEF SnmpInv, SnmpFirst
  <2>2. timing'.late
    BY <1>4, <2>1
  <2> QED
    BY <1>2, <1>4, <2>1, <2>2 DEF SnmpFirst, Snmp!Ages, Snmp!Oldest
<1>6. ASSUME ~sick' PROVE SnmpUpdated' /\ SnmpCompared' /\ SnmpErrors'
  <2>1. ~sick /\ beat
    BY <1>1, <1>6
  <2>2. SnmpUpdated /\ SnmpCompared /\ SnmpErrors
    BY <2>1 DEF SnmpInv
  <2>3. SnmpUpdated'
    <3> SUFFICES ASSUME ~SnmpUnfilled, ptpCopy'.age >= 2 PROVE servo.updates
      BY <1>1, <1>4 DEF SnmpUpdated, SnmpUnfilled
    <3> QED
      BY <1>2, <1>4, <2>1, <2>2 DEF SnmpUpdated, Snmp!Ages, Snmp!Oldest
  <2>4. SnmpCompared'
    BY <1>2, <1>4, <2>2 DEF SnmpCompared, Snmp!Ages, Snmp!Oldest
  <2>5. SnmpErrors'
    BY <1>1, <1>4, <2>2 DEF SnmpErrors, SnmpUnfilled
  <2> QED
    BY <2>3, <2>4, <2>5
<1> QED
  BY <1>3, <1>5, <1>6 DEF SnmpInv

\* A fill of the copy of the servo's counters, by whichever query.
LEMMA SnmpFill ==
    ASSUME SnmpInv, Snmp!FillPtp
    PROVE  /\ ptpCopy' \in [age : Snmp!Ages, updates : BOOLEAN, errors : BOOLEAN]
           /\ servo' \in [updates : BOOLEAN, errors : BOOLEAN]
           /\ \/ ptpCopy.age < SnmpTimeout /\ ptpCopy' = ptpCopy /\ servo' = servo
              \/ /\ ptpCopy.age >= SnmpTimeout /\ ptpCopy'.age = 0
                 /\ ptpCopy'.updates = (ptpCopy.updates \/ servo.updates)
                 /\ ptpCopy'.errors = (ptpCopy.errors \/ servo.errors)
                 /\ ~servo'.updates /\ ~servo'.errors
<1> USE SnmpConstants
<1>1. /\ ptpCopy \in [age : Snmp!Ages, updates : BOOLEAN, errors : BOOLEAN]
      /\ servo \in [updates : BOOLEAN, errors : BOOLEAN]
  BY DEF SnmpInv, Snmp!TypeOK
<1>2. CASE ptpCopy.age < SnmpTimeout
  BY <1>1, <1>2 DEF Snmp!FillPtp
<1>3. CASE ~(ptpCopy.age < SnmpTimeout)
  <2>1. ptpCopy' = [age |-> 0, updates |-> ptpCopy.updates \/ servo.updates,
                    errors |-> ptpCopy.errors \/ servo.errors]
        /\ servo' = [updates |-> FALSE, errors |-> FALSE]
    BY <1>3 DEF Snmp!FillPtp, Snmp!None
  <2>2. (ptpCopy.updates \/ servo.updates) \in BOOLEAN
          /\ (ptpCopy.errors \/ servo.errors) \in BOOLEAN
    OBVIOUS
  <2>3. 0 \in Snmp!Ages /\ ptpCopy.age \in Int
    BY <1>1 DEF Snmp!Ages, Snmp!Oldest
  <2> QED
    BY <1>3, <2>1, <2>2, <2>3
<1> QED
  BY <1>2, <1>3

LEMMA SnmpQueryPtp == ASSUME SnmpInv, Snmp!QueryPtp \/ Snmp!FillPtpFirst PROVE SnmpInv'
<1> USE SnmpConstants
<1>t. Snmp!TypeOK
  BY DEF SnmpInv
<1>1. Snmp!FillPtp /\ UNCHANGED <<slave, beat, spllCopy, sick>> /\ others' \in BOOLEAN
  BY <1>t DEF Snmp!QueryPtp, Snmp!FillPtpFirst, Snmp!TypeOK
<1>2. /\ timing.pc \in {"idle", "ptp"}
      /\ timing'.pc = (IF timing.pc = "ptp" THEN "spll" ELSE "idle")
      /\ timing'.age = timing.age /\ timing'.first = timing.first /\ timing'.late = timing.late
      /\ timing'.status = timing.status
      /\ timing' \in [pc : {"idle", "ptp", "spll", "check", "stamp"}, age : Snmp!Ages,
                      status : {"na", "ok", "error", "firstRead"}, first : BOOLEAN,
                      late : BOOLEAN]
  BY <1>t DEF Snmp!QueryPtp, Snmp!FillPtpFirst, Snmp!TypeOK
<1>3. Snmp!TypeOK'
  BY <1>t, <1>1, <1>2, SnmpFill DEF Snmp!TypeOK
<1>4. ptpCopy.age \in 0 .. SnmpTimeout + 1 /\ timing.age \in 0 .. SnmpTimeout + 1
  BY <1>t DEF Snmp!TypeOK, Snmp!Ages, Snmp!Oldest
<1>5. SnmpFirst'
  <2> SUFFICES ASSUME timing.first PROVE SnmpFirst'
    BY <1>2 DEF SnmpFirst
  <2>1. timing.pc = "ptp" /\ SnmpFirst
    BY <1>2 DEF SnmpInv, SnmpFirst
  <2>2. ptpCopy'.age = 0
    BY <1>1, <2>1, SnmpFill DEF SnmpFirst, Snmp!Oldest
  <2> QED
    BY <1>1, <1>2, <2>1, <2>2 DEF SnmpFirst
<1>6. ASSUME ~sick PROVE SnmpUpdated' /\ SnmpCompared' /\ SnmpErrors'
  <2>1. SnmpUpdated /\ SnmpCompared /\ SnmpErrors
    BY <1>6 DEF SnmpInv
  <2>2. CASE ptpCopy.age < SnmpTimeout /\ ptpCopy' = ptpCopy /\ servo' = servo
    <3>1. ~SnmpUnfilled
      BY <1>4, <2>2 DEF SnmpUnfilled, SnmpInv, SnmpFirst, Snmp!Oldest
    <3>2. ~SnmpUnfilled'
      BY <1>2 DEF SnmpUnfilled
    <3> QED
      BY <1>1, <1>2, <2>1, <2>2, <3>1, <3>2 DEF SnmpUpdated, SnmpCompared, SnmpErrors
  <2>3. CASE /\ ptpCopy.age >= SnmpTimeout /\ ptpCopy'.age = 0
             /\ ptpCopy'.updates = (ptpCopy.updates \/ servo.updates)
             /\ ptpCopy'.errors = (ptpCopy.errors \/ servo.errors)
             /\ ~servo'.updates /\ ~servo'.errors
    <3>1. SnmpUpdated'
      BY <1>1, <2>3 DEF SnmpUpdated
    <3>2. SnmpCompared'
      <4> SUFFICES ASSUME ~timing.first PROVE ptpCopy'.updates
        BY <1>2 DEF SnmpCompared
      <4>1. servo.updates
        BY <1>4, <2>1, <2>3 DEF SnmpUpdated, SnmpUnfilled
      <4> QED
        BY <2>3, <4>1
    <3>3. SnmpErrors'
      BY <1>1, <1>2, <2>1, <2>3 DEF SnmpErrors, SnmpUnfilled
    <3> QED
      BY <3>1, <3>2, <3>3
  <2> QED
    BY <1>1, <2>2, <2>3, SnmpFill
<1> QED
  BY <1>1, <1>3, <1>5, <1>6 DEF SnmpInv

LEMMA SnmpQuerySpll == ASSUME SnmpInv, Snmp!QuerySpll \/ Snmp!ThenSpll PROVE SnmpInv'
<1> USE SnmpConstants
<1>t. Snmp!TypeOK
  BY DEF SnmpInv
<1>1. /\ UNCHANGED <<servo, slave, beat, ptpCopy, sick>> /\ others' \in BOOLEAN
      /\ Snmp!FillSpll
  BY <1>t DEF Snmp!QuerySpll, Snmp!ThenSpll, Snmp!TypeOK
<1>2. /\ timing.pc \in {"idle", "spll"}
      /\ timing'.pc = (IF timing.pc = "spll" THEN "check" ELSE "idle")
      /\ timing'.age = timing.age /\ timing'.first = timing.first /\ timing'.late = timing.late
      /\ timing'.status = timing.status
      /\ timing' \in [pc : {"idle", "ptp", "spll", "check", "stamp"}, age : Snmp!Ages,
                      status : {"na", "ok", "error", "firstRead"}, first : BOOLEAN,
                      late : BOOLEAN]
  BY <1>t DEF Snmp!QuerySpll, Snmp!ThenSpll, Snmp!TypeOK
<1>3. /\ spllCopy' \in [age : Snmp!Ages, slave : BOOLEAN]
      /\ spllCopy.age = Snmp!Oldest => spllCopy'.age = 0
  BY <1>1, <1>t DEF Snmp!FillSpll, Snmp!TypeOK, Snmp!Ages, Snmp!Oldest
<1>4. Snmp!TypeOK'
  BY <1>t, <1>1, <1>2, <1>3 DEF Snmp!TypeOK
<1>5. SnmpFirst'
  BY <1>1, <1>2, <1>3 DEF SnmpInv, SnmpFirst
<1>6. ASSUME ~sick PROVE SnmpUpdated' /\ SnmpCompared' /\ SnmpErrors'
  BY <1>1, <1>2, <1>6 DEF SnmpInv, SnmpUpdated, SnmpCompared, SnmpErrors, SnmpUnfilled
<1> QED
  BY <1>1, <1>4, <1>5, <1>6 DEF SnmpInv

LEMMA SnmpCheck == ASSUME SnmpInv, Snmp!Check PROVE SnmpInv'
<1> USE SnmpConstants
<1>t. Snmp!TypeOK
  BY DEF SnmpInv
<1>1. timing.pc = "check" /\ UNCHANGED <<servo, slave, beat, spllCopy, sick, others>>
  BY DEF Snmp!Check
<1>2. ptpCopy.age \in 0 .. SnmpTimeout + 1 /\ spllCopy.age \in 0 .. SnmpTimeout + 1
      /\ timing.age \in 0 .. SnmpTimeout + 1
  BY <1>t DEF Snmp!TypeOK, Snmp!Ages, Snmp!Oldest
<1>3. CASE Snmp!Checked
  <2>1. /\ timing' = [timing EXCEPT !.pc = "stamp", !.status = Snmp!Status, !.first = FALSE]
        /\ ptpCopy' = [ptpCopy EXCEPT !.updates = FALSE, !.errors = FALSE]
    BY <1>3 DEF Snmp!Check
  <2>2. Snmp!Status \in {"na", "ok", "error", "firstRead"}
    BY DEF Snmp!Status
  <2>3. /\ timing'.pc = "stamp" /\ ~timing'.first /\ timing'.status = Snmp!Status
        /\ ptpCopy'.age = ptpCopy.age /\ ~ptpCopy'.errors
        /\ timing' \in [pc : {"idle", "ptp", "spll", "check", "stamp"}, age : Snmp!Ages,
                        status : {"na", "ok", "error", "firstRead"}, first : BOOLEAN,
                        late : BOOLEAN]
        /\ ptpCopy' \in [age : Snmp!Ages, updates : BOOLEAN, errors : BOOLEAN]
    BY <1>t, <2>1, <2>2 DEF Snmp!TypeOK
  <2>4. Snmp!TypeOK'
    BY <1>t, <1>1, <2>3 DEF Snmp!TypeOK
  <2>5. SnmpFirst'
    BY <2>3 DEF SnmpFirst
  <2>6. ASSUME ~sick PROVE SnmpUpdated' /\ SnmpCompared' /\ SnmpErrors'
    <3>1. SnmpUpdated /\ SnmpCompared /\ SnmpErrors /\ ~SnmpUnfilled
      BY <1>1, <2>6 DEF SnmpInv, SnmpUnfilled
    <3>2. Snmp!Status # "error"
      BY <1>1, <1>2, <1>3, <3>1
         DEF Snmp!Status, Snmp!Checked, Snmp!Newer, SnmpCompared, SnmpErrors
    <3> QED
      BY <1>1, <2>3, <3>1, <3>2 DEF SnmpUpdated, SnmpCompared, SnmpErrors
  <2> QED
    BY <1>1, <2>4, <2>5, <2>6 DEF SnmpInv
<1>4. CASE ~Snmp!Checked
  <2>1. ~timing.first
    BY <1>1, <1>2, <1>4 DEF SnmpInv, SnmpFirst, Snmp!Checked, Snmp!Newer, Snmp!Oldest, Snmp!TypeOK
  <2>2. /\ ptpCopy' = ptpCopy /\ timing'.pc \in {"stamp", "idle"} /\ ~timing'.first
        /\ timing'.status = timing.status /\ timing'.age = timing.age
        /\ timing' \in [pc : {"idle", "ptp", "spll", "check", "stamp"}, age : Snmp!Ages,
                        status : {"na", "ok", "error", "firstRead"}, first : BOOLEAN,
                        late : BOOLEAN]
    BY <1>t, <1>4, <2>1 DEF Snmp!Check, Snmp!TypeOK
  <2>3. Snmp!TypeOK'
    BY <1>t, <1>1, <2>2 DEF Snmp!TypeOK
  <2>4. SnmpFirst'
    BY <2>2 DEF SnmpFirst
  <2>5. ASSUME ~sick PROVE SnmpUpdated' /\ SnmpCompared' /\ SnmpErrors'
    BY <1>1, <2>1, <2>2, <2>5 DEF SnmpInv, SnmpUpdated, SnmpCompared, SnmpErrors, SnmpUnfilled
  <2> QED
    BY <1>1, <2>3, <2>4, <2>5 DEF SnmpInv
<1> QED
  BY <1>3, <1>4

LEMMA SnmpNext == SnmpInv /\ [Next]_vars => SnmpInv'
<1> SUFFICES ASSUME SnmpInv, Snmp!Next \/ UNCHANGED snmpVars PROVE SnmpInv'
  BY DEF Next, vars
<1> USE SnmpConstants
<1>t. Snmp!TypeOK
  BY DEF SnmpInv
<1>1. CASE Snmp!Update \/ Snmp!Err \/ Snmp!ModeChange
  <2>1. /\ UNCHANGED <<ptpCopy, spllCopy, timing, others>>
        /\ servo' \in [updates : BOOLEAN, errors : BOOLEAN] /\ slave' \in BOOLEAN
        /\ beat' \in BOOLEAN /\ sick' \in BOOLEAN
        /\ ~sick' => ~sick /\ servo'.errors = servo.errors
                     /\ (servo'.updates \/ (servo' = servo /\ beat' = beat))
    BY <1>1, <1>t DEF Snmp!Update, Snmp!Err, Snmp!ModeChange, Snmp!TypeOK
  <2>2. Snmp!TypeOK' /\ SnmpFirst'
    BY <1>t, <2>1 DEF SnmpInv, SnmpFirst, Snmp!TypeOK
  <2>3. ASSUME ~sick' PROVE SnmpUpdated' /\ SnmpCompared' /\ SnmpErrors'
    BY <2>1, <2>3 DEF SnmpInv, SnmpUpdated, SnmpCompared, SnmpErrors, SnmpUnfilled
  <2> QED
    BY <2>2, <2>3 DEF SnmpInv
<1>2. CASE Snmp!Tick
  BY <1>2, SnmpTick
<1>3. CASE Snmp!QueryPtp \/ Snmp!FillPtpFirst
  BY <1>3, SnmpQueryPtp
<1>4. CASE Snmp!QuerySpll \/ Snmp!ThenSpll
  BY <1>4, SnmpQuerySpll
<1>5. CASE Snmp!Check
  BY <1>5, SnmpCheck
<1>6. CASE Snmp!QueryTiming \/ Snmp!StampUpdate
  <2>1. /\ UNCHANGED <<servo, slave, beat, ptpCopy, spllCopy, sick, others>>
        /\ timing'.first = timing.first /\ timing'.status = timing.status
        /\ timing.pc \in {"idle", "stamp"} /\ timing'.pc \in {"ptp", "idle"}
        /\ timing.pc = "stamp" => timing'.age = 0
        /\ timing.pc = "idle" => timing'.age = timing.age
        /\ timing' \in [pc : {"idle", "ptp", "spll", "check", "stamp"}, age : Snmp!Ages,
                        status : {"na", "ok", "error", "firstRead"}, first : BOOLEAN,
                        late : BOOLEAN]
    <3>1. CASE Snmp!QueryTiming
      BY <3>1, <1>t DEF Snmp!QueryTiming, Snmp!TypeOK
    <3>2. CASE Snmp!StampUpdate
      <4>1. 0 \in Snmp!Ages
        BY DEF Snmp!Ages, Snmp!Oldest
      <4>2. timing' = [pc |-> "idle", age |-> 0, status |-> timing.status,
                       first |-> timing.first, late |-> FALSE]
        BY <3>2, <1>t DEF Snmp!StampUpdate, Snmp!TypeOK
      <4>3. timing.status \in {"na", "ok", "error", "firstRead"} /\ timing.first \in BOOLEAN
        BY <1>t DEF Snmp!TypeOK
      <4>4. timing.pc = "stamp" /\ UNCHANGED <<servo, slave, beat, ptpCopy, spllCopy, sick,
              others>>
        BY <3>2 DEF Snmp!StampUpdate
      <4> QED
        BY <4>1, <4>2, <4>3, <4>4
    <3> QED
      BY <1>6, <3>1, <3>2
  <2>2. Snmp!TypeOK'
    BY <1>t, <2>1 DEF Snmp!TypeOK
  <2>3. ~timing.first /\ SnmpFirst'
    BY <2>1 DEF SnmpInv, SnmpFirst
  <2>4. ptpCopy.age \in Nat
    BY <1>t DEF Snmp!TypeOK, Snmp!Ages, Snmp!Oldest
  <2>5. ASSUME ~sick PROVE SnmpUpdated' /\ SnmpCompared' /\ SnmpErrors'
    BY <2>1, <2>3, <2>4, <2>5 DEF SnmpInv, SnmpUpdated, SnmpCompared, SnmpErrors, SnmpUnfilled
  <2> QED
    BY <2>1, <2>2, <2>3, <2>5 DEF SnmpInv
<1>7. CASE UNCHANGED snmpVars
  <2>1. UNCHANGED <<servo, slave, beat, ptpCopy, spllCopy, timing, sick, others>>
    BY <1>7 DEF snmpVars
  <2> QED
    BY <2>1 DEF SnmpInv, SnmpFirst, Snmp!TypeOK, SnmpUpdated, SnmpCompared, SnmpErrors,
         SnmpUnfilled
<1> QED
  BY <1>1, <1>2, <1>3, <1>4, <1>5, <1>6, <1>7 DEF Snmp!Next, Snmp!Agent

\* get_wrsPTPStatus(): a servo that is updated every second and counts no error is
\* never reported as faulty, for any time for which the copies are kept.
THEOREM StatusIsTrue == Spec => []Snmp!NoFalseError
<1>1. SnmpInv => Snmp!NoFalseError
  BY DEF SnmpInv, SnmpErrors, Snmp!NoFalseError
<1> QED
  BY <1>1, SnmpInit, SnmpNext, PTL DEF Spec

-----------------------------------------------------------------------------
(* The lights of the ports                                                 *)

\* The lights that stand for a value.
LedsLit(value) ==
    IF value = Leds!Slave THEN {"mode1"}
    ELSE IF value = Leds!Other THEN {"mode2"}
    ELSE IF value = Leds!Master THEN {"mode1", "mode2"}
    ELSE {}

\* The cache is right about everything but the blinking of a port that
\* calibrates: the TX setup, which switches the lights off behind it, runs when
\* they have not been on.
LedsPort(p) ==
    /\ shown[p].link \notin {Leds!Calib, Leds!Unset}
          => gpio[p] \cap Leds!Modes = LedsLit(shown[p].link)
    /\ "synced" \in gpio[p] <=> shown[p].sync
    /\ state[p] \in {"boot", "calib", "ready"} =>
          /\ ~shown[p].sync /\ ~want[p].sync
          /\ shown[p].link \in {Leds!Unset, Leds!Calib, Leds!Off}
    /\ state[p] = "boot" => want[p].link = Leds!Unset /\ shown[p].link = Leds!Unset
    /\ state[p] = "calib" => want[p].link = Leds!Calib
    /\ state[p] = "ready" => want[p].link = Leds!Off

LedsInv == Leds!TypeOK /\ \A p \in LedPorts : LedsPort(p)

LEMMA LedsConstants == LedPatience \in Nat
BY PartsConstants DEF Leds!ConstantsOK

LEMMA LedsPattern ==
    ASSUME NEW bits \in SUBSET Leds!Pins, NEW value \in Leds!Links
    PROVE  /\ Leds!Pattern(bits, value) \in SUBSET Leds!Pins
           /\ "synced" \in Leds!Pattern(bits, value) <=> "synced" \in bits
           /\ value \notin {Leds!Calib, Leds!Unset}
                => /\ Leds!Pattern(bits, value) \cap Leds!Modes = LedsLit(value)
                   /\ Leds!Pattern({}, value) = LedsLit(value)
<1> USE DEF Leds!Pattern, Leds!Links, Leds!Pins, Leds!Set, Leds!Modes, Leds!Off, Leds!Slave,
        Leds!Other, Leds!Master, Leds!Calib, Leds!Unset, LedsLit
<1>1. CASE value = Leds!Slave
  BY <1>1
<1>2. CASE value = Leds!Other
  BY <1>2
<1>3. CASE value = Leds!Master
  BY <1>3
<1>4. CASE value = Leds!Calib
  BY <1>4
<1>5. CASE value = Leds!Off
  BY <1>5
<1>6. CASE value = Leds!Unset
  BY <1>6
<1> QED
  BY <1>1, <1>2, <1>3, <1>4, <1>5, <1>6

LEMMA LedsInit == Init => LedsInv
<1> SUFFICES ASSUME Leds!Init PROVE LedsInv
  BY DEF Init
<1>1. /\ want = [p \in LedPorts |-> [link |-> Leds!Unset, sync |-> FALSE]] /\ shown = want
      /\ gpio = [p \in LedPorts |-> {}] /\ blink = FALSE
      /\ state = [p \in LedPorts |-> "boot"] /\ lpdc \subseteq LedPorts
      /\ info = [p \in LedPorts |-> [mode |-> Leds!Other, synchronized |-> FALSE, updated |-> 0]]
  BY DEF Leds!Init, Leds!NoInfo
<1>2. 0 \in -LedPatience .. 1 /\ Leds!Unset \in Leds!Links
  BY LedsConstants DEF Leds!Links
<1>3. Leds!TypeOK
  BY <1>1, <1>2 DEF Leds!TypeOK
<1>4. ASSUME NEW p \in LedPorts PROVE LedsPort(p)
  BY <1>1 DEF LedsPort, Leds!Off, Leds!Calib
<1> QED
  BY <1>3, <1>4 DEF LedsInv

LEMMA LedsTypes ==
    ASSUME LedsInv, NEW p \in LedPorts
    PROVE  /\ want[p] \in [link : Leds!Links, sync : BOOLEAN]
           /\ shown[p] \in [link : Leds!Links, sync : BOOLEAN]
           /\ gpio[p] \in SUBSET Leds!Pins
           /\ state[p] \in {"boot", "calib", "ready", "disabled", "down", "rx", "up"}
           /\ info[p] \in [mode : {Leds!Slave, Leds!Other, Leds!Master}, synchronized : BOOLEAN,
                           updated : -LedPatience .. 1]
           /\ LedsPort(p)
BY DEF LedsInv, Leds!TypeOK

LEMMA LedsLinkUpdate == ASSUME LedsInv, Leds!LinkUpdate, UNCHANGED lpdc PROVE LedsInv'
<1>1. /\ gpio' = [p \in LedPorts |-> IF Leds!Outdated(p) THEN Leds!Pattern(gpio[p], want[p].link)
                                     ELSE gpio[p]]
      /\ shown' = [p \in LedPorts |-> [shown[p] EXCEPT !.link = want[p].link]]
      /\ blink' = ~blink /\ UNCHANGED <<want, state, info, lpdc>>
  BY DEF Leds!LinkUpdate
<1>2. ASSUME NEW p \in LedPorts
      PROVE  /\ gpio'[p] \in SUBSET Leds!Pins
             /\ shown'[p] \in [link : Leds!Links, sync : BOOLEAN]
             /\ LedsPort(p)'
  <2>1. /\ shown'[p] \in [link : Leds!Links, sync : BOOLEAN]
        /\ shown'[p].link = want[p].link /\ shown'[p].sync = shown[p].sync
        /\ want[p].link \in Leds!Links /\ gpio[p] \in SUBSET Leds!Pins
    BY <1>1, LedsTypes
  <2>2. CASE Leds!Outdated(p)
    <3>1. gpio'[p] = Leds!Pattern(gpio[p], want[p].link)
      BY <1>1, <2>2
    <3> DEFINE g == gpio[p]
               v == want[p].link
    <3>2. g \in SUBSET Leds!Pins /\ v \in Leds!Links /\ gpio'[p] = Leds!Pattern(g, v)
      BY <2>1, <3>1
    <3> HIDE DEF g, v
    <3>3. /\ gpio'[p] \in SUBSET Leds!Pins
          /\ "synced" \in gpio'[p] <=> "synced" \in g
          /\ v \notin {Leds!Calib, Leds!Unset} => gpio'[p] \cap Leds!Modes = LedsLit(v)
      BY <3>2, LedsPattern
    <3> USE DEF g, v
    <3> QED
      BY <1>1, <2>1, <3>3, LedsTypes DEF LedsPort
  <2>3. CASE ~Leds!Outdated(p)
    <3>1. gpio'[p] = gpio[p] /\ want[p].link = shown[p].link
      BY <1>1, <2>3 DEF Leds!Outdated
    <3> QED
      BY <1>1, <2>1, <3>1, LedsTypes DEF LedsPort
  <2> QED
    BY <2>2, <2>3
<1>3. blink' \in BOOLEAN
  BY <1>1
<1>4. gpio' \in [LedPorts -> SUBSET Leds!Pins]
      /\ shown' \in [LedPorts -> [link : Leds!Links, sync : BOOLEAN]]
  BY <1>1, <1>2
<1> QED
  BY <1>1, <1>2, <1>3, <1>4 DEF LedsInv, Leds!TypeOK

LEMMA LedsSyncUpdate == ASSUME LedsInv, Leds!SyncUpdate, UNCHANGED lpdc PROVE LedsInv'
<1>1. /\ gpio' = [p \in LedPorts |-> IF want[p].sync = shown[p].sync THEN gpio[p]
                                     ELSE Leds!Set(gpio[p], want[p].sync, {"synced"})]
      /\ shown' = [p \in LedPorts |-> [shown[p] EXCEPT !.sync = want[p].sync]]
      /\ UNCHANGED <<want, blink, state, info, lpdc>>
  BY DEF Leds!SyncUpdate
<1>2. ASSUME NEW p \in LedPorts
      PROVE  /\ gpio'[p] \in SUBSET Leds!Pins
             /\ shown'[p] \in [link : Leds!Links, sync : BOOLEAN]
             /\ LedsPort(p)'
  <2>1. /\ shown'[p] \in [link : Leds!Links, sync : BOOLEAN]
        /\ shown'[p].sync = want[p].sync /\ shown'[p].link = shown[p].link
        /\ want[p].sync \in BOOLEAN /\ gpio[p] \in SUBSET Leds!Pins
        /\ shown[p].sync \in BOOLEAN
    BY <1>1, LedsTypes
  <2>2. /\ gpio'[p] \in SUBSET Leds!Pins /\ gpio'[p] \cap Leds!Modes = gpio[p] \cap Leds!Modes
        /\ "synced" \in gpio'[p] <=> want[p].sync
    <3>1. CASE want[p].sync = shown[p].sync
      BY <1>1, <2>1, <3>1, LedsTypes DEF LedsPort
    <3>2. CASE want[p].sync # shown[p].sync
      BY <1>1, <2>1, <3>2 DEF Leds!Set, Leds!Pins, Leds!Modes
    <3> QED
      BY <3>1, <3>2
  <2> QED
    BY <1>1, <2>1, <2>2, LedsTypes DEF LedsPort
<1>3. gpio' \in [LedPorts -> SUBSET Leds!Pins]
      /\ shown' \in [LedPorts -> [link : Leds!Links, sync : BOOLEAN]]
  BY <1>1, <1>2
<1> QED
  BY <1>1, <1>2, <1>3 DEF LedsInv, Leds!TypeOK

\* A handler of one port: it is enough to look at that port.
LEMMA LedsOnePort ==
    ASSUME LedsInv, NEW p \in LedPorts, UNCHANGED <<shown, blink, lpdc>>,
           NEW w \in [link : Leds!Links, sync : BOOLEAN],
           NEW g \in SUBSET Leds!Pins,
           NEW s \in {"boot", "calib", "ready", "disabled", "down", "rx", "up"},
           NEW i \in [mode : {Leds!Slave, Leds!Other, Leds!Master}, synchronized : BOOLEAN,
                      updated : -LedPatience .. 1],
           want' = [want EXCEPT ![p] = w], gpio' = [gpio EXCEPT ![p] = g],
           state' = [state EXCEPT ![p] = s], info' = [info EXCEPT ![p] = i],
           LedsPort(p)'
    PROVE  LedsInv'
<1>1. Leds!TypeOK'
  BY DEF LedsInv, Leds!TypeOK
<1>2. ASSUME NEW q \in LedPorts, q # p PROVE LedsPort(q)'
  <2>1. want'[q] = want[q] /\ gpio'[q] = gpio[q] /\ state'[q] = state[q] /\ shown' = shown
    BY <1>2 DEF LedsInv, Leds!TypeOK
  <2> QED
    BY <2>1, LedsTypes DEF LedsPort
<1> QED
  BY <1>1, <1>2 DEF LedsInv

LEMMA LedsMachine ==
    ASSUME LedsInv, NEW p \in LedPorts, Leds!Machine(p), UNCHANGED lpdc
    PROVE  LedsInv'
<1> USE LedsConstants
<1> DEFINE Wants == [link : Leds!Links, sync : BOOLEAN]
           Infos == [mode : {Leds!Slave, Leds!Other, Leds!Master}, synchronized : BOOLEAN,
                     updated : -LedPatience .. 1]
           none == [mode |-> Leds!Other, synchronized |-> FALSE, updated |-> 0]
           off == [link |-> Leds!Off, sync |-> FALSE]
<1>n. none \in Infos /\ off \in Wants /\ Leds!NoInfo = none
  BY DEF Leds!NoInfo, Leds!Links
<1>f. /\ want \in [LedPorts -> Wants] /\ gpio \in [LedPorts -> SUBSET Leds!Pins]
      /\ state \in [LedPorts -> {"boot", "calib", "ready", "disabled", "down", "rx", "up"}]
      /\ info \in [LedPorts -> Infos]
  BY DEF LedsInv, Leds!TypeOK
<1>p. /\ want[p] \in Wants /\ gpio[p] \in SUBSET Leds!Pins /\ info[p] \in Infos
      /\ shown[p] \in Wants /\ LedsPort(p)
  BY LedsTypes
<1> HIDE DEF Wants, Infos, none, off
<1>1. CASE Leds!TxStart(p)
  <2> DEFINE w == [link |-> IF p \in lpdc THEN Leds!Calib ELSE Leds!Off, sync |-> FALSE]
             s == IF p \in lpdc THEN "calib" ELSE "ready"
  <2>1. /\ want' = [want EXCEPT ![p] = w] /\ gpio' = [gpio EXCEPT ![p] = {"tx_disable"}]
        /\ state' = [state EXCEPT ![p] = s] /\ info' = [info EXCEPT ![p] = none]
        /\ state[p] = "boot" /\ UNCHANGED <<shown, blink>>
    BY <1>1, <1>n DEF Leds!TxStart, Leds!Go
  <2>2. w \in Wants /\ {"tx_disable"} \in SUBSET Leds!Pins /\ s \in {"calib", "ready"}
    BY DEF Leds!Pins, Leds!Links, Wants
  <2>3. LedsPort(p)'
    <3>1. /\ want'[p] = w /\ gpio'[p] = {"tx_disable"} /\ state'[p] = s /\ shown' = shown
          /\ s = "calib" => w.link = Leds!Calib
          /\ s = "ready" => w.link = Leds!Off
          /\ ~w.sync
      BY <1>f, <2>1
    <3> HIDE DEF w, s
    <3> QED
      BY <1>p, <2>1, <2>2, <3>1 DEF LedsPort, Leds!Off, Leds!Unset, Leds!Calib
  <2> HIDE DEF w, s
  <2> QED
    BY <1>n, <2>1, <2>2, <2>3, LedsOnePort DEF Wants, Infos
<1>2. ASSUME NEW v \in {Leds!Off, Leds!Calib}, Leds!WantLink(p, v), UNCHANGED <<shown, gpio,
               blink, info>>,
             NEW t \in {"ready", "down", "up", "rx"}, state' = [state EXCEPT ![p] = t],
             state[p] \notin {"boot", "ready"}, t = "ready" => state[p] = "calib" /\ v = Leds!Off
      PROVE  LedsInv'
  <2> DEFINE w == [link |-> v, sync |-> want[p].sync]
  <2>1. w \in Wants /\ [want[p] EXCEPT !.link = v] = w
    BY <1>p DEF Wants, Leds!Links
  <2>2. want' = [want EXCEPT ![p] = w]
    BY <1>2, <2>1 DEF Leds!WantLink
  <2>3. gpio' = [gpio EXCEPT ![p] = gpio[p]] /\ info' = [info EXCEPT ![p] = info[p]]
    BY <1>2, <1>f
  <2>4. LedsPort(p)'
    <3>1. /\ want'[p] = w /\ gpio'[p] = gpio[p] /\ state'[p] = t /\ shown'[p] = shown[p]
          /\ w.link = v /\ w.sync = want[p].sync
      BY <1>f, <1>2, <2>2
    <3> HIDE DEF w
    <3> QED
      BY <1>p, <1>2, <3>1 DEF LedsPort, Leds!Off, Leds!Unset, Leds!Calib
  <2> HIDE DEF w
  <2> QED
    BY <1>2, <1>p, <2>1, <2>2, <2>3, <2>4, LedsOnePort DEF Wants, Infos
<1>3. ASSUME Leds!Reset(p), NEW g \in {{}, gpio[p]}, gpio' = [gpio EXCEPT ![p] = g],
             UNCHANGED <<shown, blink>>, g = {} => state[p] = "ready" \/ gpio[p] = {},
             state[p] \notin {"boot", "calib"},
             NEW t \in {"disabled", "down"}, state' = [state EXCEPT ![p] = t]
      PROVE  LedsInv'
  <2>1. want' = [want EXCEPT ![p] = off] /\ info' = [info EXCEPT ![p] = none]
    BY <1>3, <1>n DEF Leds!Reset, off
  <2>2. g \in SUBSET Leds!Pins
    BY <1>3, <1>p
  <2>3. LedsPort(p)'
    <3>1. /\ want'[p] = off /\ gpio'[p] = g /\ state'[p] = t /\ shown'[p] = shown[p]
          /\ off.link = Leds!Off /\ ~off.sync
      BY <1>f, <1>3, <2>1 DEF off
    <3>2. CASE state[p] = "ready"
      BY <1>p, <1>3, <3>1, <3>2
         DEF LedsPort, Leds!Off, Leds!Unset, Leds!Calib, LedsLit, Leds!Slave, Leds!Other,
            Leds!Master
    <3>3. CASE g = gpio[p]
      BY <1>p, <1>3, <3>1, <3>3 DEF LedsPort
    <3> QED
      BY <1>3, <3>2, <3>3
  <2> QED
    BY <1>3, <1>n, <2>1, <2>2, <2>3, LedsOnePort DEF Wants, Infos
<1>4. CASE Leds!Validate(p)
  <2>1. state[p] = "calib" /\ state' = [state EXCEPT ![p] = "ready"] /\ Leds!WantLink(p, Leds!Off)
        /\ UNCHANGED <<shown, gpio, blink, info>>
    BY <1>4 DEF Leds!Validate, Leds!Go
  <2> QED
    BY <1>2, <2>1
<1>5. CASE Leds!TxDone(p)
  <2>1. state[p] = "ready" /\ state' = [state EXCEPT ![p] = "disabled"] /\ Leds!Reset(p)
        /\ gpio' = [gpio EXCEPT ![p] = {}] /\ UNCHANGED <<shown, blink>>
    BY <1>5 DEF Leds!TxDone, Leds!Go
  <2> QED
    BY <1>3, <2>1
<1>6. CASE Leds!LinkDown(p) \/ Leds!Disable(p)
  <2>1. PICK t \in {"disabled", "down"} : state' = [state EXCEPT ![p] = t]
    BY <1>6 DEF Leds!LinkDown, Leds!Disable, Leds!Go
  <2>2. /\ state[p] \notin {"boot", "calib", "ready"} /\ Leds!Reset(p)
        /\ UNCHANGED <<shown, gpio, blink>>
    BY <1>6 DEF Leds!LinkDown, Leds!Disable, Leds!Go
  <2>3. gpio' = [gpio EXCEPT ![p] = gpio[p]]
    BY <1>f, <2>2
  <2> QED
    BY <1>3, <2>1, <2>2, <2>3
<1>7. CASE Leds!RxStart(p)
  <2>1. state[p] = "down" /\ state' = [state EXCEPT ![p] = "rx"] /\ Leds!WantLink(p, Leds!Calib)
        /\ UNCHANGED <<shown, gpio, blink, info>>
    BY <1>7 DEF Leds!RxStart, Leds!Go
  <2> QED
    BY <1>2, <2>1
<1>8. CASE Leds!RxInit(p)
  <2>1. state[p] = "rx" /\ state' = [state EXCEPT ![p] = "down"] /\ Leds!WantLink(p, Leds!Off)
        /\ UNCHANGED <<shown, gpio, blink, info>>
    BY <1>8 DEF Leds!RxInit, Leds!Go
  <2> QED
    BY <1>2, <2>1
<1>9. CASE Leds!LinkUp(p)
  <2>1. state[p] \in {"rx", "down"} /\ state' = [state EXCEPT ![p] = "up"]
          /\ Leds!WantLink(p, Leds!Off)
        /\ UNCHANGED <<shown, gpio, blink, info>>
    BY <1>9 DEF Leds!LinkUp, Leds!Go
  <2> QED
    BY <1>2, <2>1
<1>10. CASE Leds!Run(p)
  <2> DEFINE w == [link |-> info[p].mode, sync |-> Leds!Recent(p)]
             i == [info[p] EXCEPT !.updated = IF Leds!Recent(p) THEN @ - 1 ELSE @]
  <2>1. /\ want' = [want EXCEPT ![p] = w] /\ info' = [info EXCEPT ![p] = i]
        /\ state[p] = "up" /\ UNCHANGED <<shown, gpio, blink, state>>
    BY <1>10 DEF Leds!Run
  <2>2. w \in Wants /\ w.sync = Leds!Recent(p)
    <3>1. info[p].mode \in Leds!Links /\ Leds!Recent(p) \in BOOLEAN
      BY <1>p DEF Infos, Leds!Links, Leds!Recent
    <3> QED
      BY <3>1 DEF Wants
  <2>3. i \in Infos
    <3>1. info[p].updated \in -LedPatience .. 1
      BY <1>p DEF Infos
    <3>2. CASE Leds!Recent(p)
      <4>1. info[p].updated - 1 \in -LedPatience .. 1
        BY <3>1, <3>2 DEF Leds!Recent
      <4>2. i = [info[p] EXCEPT !.updated = info[p].updated - 1]
        BY <3>2
      <4> HIDE DEF i
      <4> QED
        BY <1>p, <4>1, <4>2 DEF Infos
    <3>3. CASE ~Leds!Recent(p)
      <4>1. i = [info[p] EXCEPT !.updated = info[p].updated]
        BY <3>3
      <4> HIDE DEF i
      <4> QED
        BY <1>p, <4>1 DEF Infos
    <3> QED
      BY <3>2, <3>3
  <2>4. gpio' = [gpio EXCEPT ![p] = gpio[p]] /\ state' = [state EXCEPT ![p] = state[p]]
        /\ state[p] \in {"boot", "calib", "ready", "disabled", "down", "rx", "up"}
    BY <1>f, <2>1
  <2>5. LedsPort(p)'
    <3>1. want'[p] = w /\ gpio'[p] = gpio[p] /\ state'[p] = "up" /\ shown'[p] = shown[p]
      BY <1>f, <2>1
    <3> HIDE DEF w
    <3> QED
      BY <1>p, <3>1 DEF LedsPort
  <2> HIDE DEF w, i
  <2> QED
    BY <1>p, <2>1, <2>2, <2>3, <2>4, <2>5, LedsOnePort DEF Wants, Infos
<1> QED
  BY <1>1, <1>4, <1>5, <1>6, <1>7, <1>8, <1>9, <1>10 DEF Leds!Machine

LEMMA LedsWorld ==
    ASSUME LedsInv, NEW p \in LedPorts, Leds!World(p), UNCHANGED lpdc
    PROVE  LedsInv'
<1> USE LedsConstants
<1>f. /\ want = [want EXCEPT ![p] = want[p]] /\ gpio = [gpio EXCEPT ![p] = gpio[p]]
      /\ state = [state EXCEPT ![p] = state[p]] /\ info = [info EXCEPT ![p] = info[p]]
      /\ gpio \in [LedPorts -> SUBSET Leds!Pins]
  BY DEF LedsInv, Leds!TypeOK
<1>1. ASSUME NEW mode \in {Leds!Slave, Leds!Other, Leds!Master}, NEW s \in BOOLEAN,
             Leds!UpdateInfo(p, mode, s)
      PROVE  LedsInv'
  <2> DEFINE i == [mode |-> mode, synchronized |-> s, updated |-> 1]
  <2>1. info' = [info EXCEPT ![p] = i] /\ UNCHANGED <<want, shown, gpio, blink, state>>
    BY <1>1 DEF Leds!UpdateInfo
  <2>2. i \in [mode : {Leds!Slave, Leds!Other, Leds!Master}, synchronized : BOOLEAN,
               updated : -LedPatience .. 1]
    BY <1>1
  <2>3. LedsPort(p)'
    BY <2>1, LedsTypes DEF LedsPort
  <2> HIDE DEF i
  <2>4. /\ want' = [want EXCEPT ![p] = want[p]] /\ gpio' = [gpio EXCEPT ![p] = gpio[p]]
        /\ state' = [state EXCEPT ![p] = state[p]]
    BY <1>f, <2>1
  <2> QED
    BY <2>1, <2>2, <2>3, <2>4, LedsTypes, LedsOnePort
<1>2. ASSUME NEW on \in BOOLEAN, Leds!SetTxDisable(p, on) PROVE LedsInv'
  <2> DEFINE g == Leds!Set(gpio[p], on, {"tx_disable"})
  <2>1. gpio' = [gpio EXCEPT ![p] = g] /\ UNCHANGED <<want, shown, blink, state, info>>
    BY <1>2 DEF Leds!SetTxDisable
  <2>2. g \in SUBSET Leds!Pins /\ g \cap Leds!Modes = gpio[p] \cap Leds!Modes
        /\ ("synced" \in g <=> "synced" \in gpio[p])
    BY LedsTypes DEF Leds!Set, Leds!Pins, Leds!Modes
  <2> HIDE DEF g
  <2>3. LedsPort(p)'
    <3>1. gpio'[p] = g
      BY <1>f, <2>1
    <3> QED
      BY <2>1, <2>2, <3>1, LedsTypes DEF LedsPort
  <2>4. /\ want' = [want EXCEPT ![p] = want[p]] /\ info' = [info EXCEPT ![p] = info[p]]
        /\ state' = [state EXCEPT ![p] = state[p]]
    BY <1>f, <2>1
  <2> QED
    BY <2>1, <2>2, <2>3, <2>4, LedsTypes, LedsOnePort
<1> QED
  BY <1>1, <1>2 DEF Leds!World

LEMMA LedsNext == LedsInv /\ [Next]_vars => LedsInv'
<1> SUFFICES ASSUME LedsInv, Leds!Next \/ UNCHANGED ledVars PROVE LedsInv'
  BY DEF Next, vars
<1>1. CASE UNCHANGED ledVars
  <2>1. UNCHANGED <<want, shown, gpio, blink, state, lpdc, info>>
    BY <1>1 DEF ledVars
  <2> QED
    BY <2>1 DEF LedsInv, LedsPort, Leds!TypeOK
<1>2. CASE Leds!Next
  BY <1>2, LedsLinkUpdate, LedsSyncUpdate, LedsMachine, LedsWorld DEF Leds!Next
<1> QED
  BY <1>1, <1>2

\* The lights show what the daemon has cached of them and will not write again,
\* although the TX setup switches them off behind the cache.
THEOREM LightsAreRight == Spec => []Leds!LedsShown
<1>1. LedsInv => Leds!LedsShown
  <2> SUFFICES ASSUME LedsInv, NEW p \in LedPorts
               PROVE  /\ ~Leds!Outdated(p) /\ shown[p].link # Leds!Unset
                            => gpio[p] \cap Leds!Modes = Leds!Pattern({}, shown[p].link)
                      /\ want[p].sync =
                           shown[p].sync => (("synced" \in gpio[p]) <=> shown[p].sync)
    BY DEF Leds!LedsShown
  <2>1. ASSUME ~Leds!Outdated(p), shown[p].link # Leds!Unset
        PROVE  gpio[p] \cap Leds!Modes = Leds!Pattern({}, shown[p].link)
    <3>1. shown[p].link \in Leds!Links \ {Leds!Calib, Leds!Unset}
      BY <2>1, LedsTypes DEF Leds!Outdated
    <3>2. Leds!Pattern({}, shown[p].link) = LedsLit(shown[p].link)
      BY <3>1, LedsPattern
    <3> QED
      BY <3>1, <3>2, LedsTypes DEF LedsPort
  <2> QED
    BY <2>1, LedsTypes DEF LedsPort
<1> QED
  BY <1>1, LedsInit, LedsNext, PTL DEF Spec

-----------------------------------------------------------------------------
(* The learning thread of the RTU daemon *)

\* While the interrupt is off and the FIFO is empty, the thread is about to
\* switch it on, after a request or at its start.
IrqOffIsHandled == (irqOff /\ ufifo = 0) => Irq!At("enable") \/ learner.irq_disabled

\* Only a thread that has not begun takes the interrupt to be off, and a
\* thread that is going to read finds a request.
IrqPlaces ==
    /\ learner.irq_disabled => Irq!At("begin")
    /\ Irq!At("pop") => ufifo > 0

IrqInv == Irq!TypeOK /\ IrqOffIsHandled /\ IrqPlaces

LEMMA IrqInit == ASSUME Irq!ConstantsOK PROVE Irq!Init => IrqInv
<1> SUFFICES ASSUME Irq!Init PROVE IrqInv
  OBVIOUS
<1>1. ufifo = 0 /\ irqOff = FALSE
  BY DEF Irq!Init
<1>2. learner = [pc |-> "begin", irq_disabled |-> TRUE]
  BY DEF Irq!Init, Irq!Fresh
<1>3. Irq!TypeOK
  <2>1. learner \in [pc : {"begin", "look", "wait", "condition", "asleep", "pop", "enable"},
                     irq_disabled : BOOLEAN]
    BY <1>2, Zenon
  <2>2. ufifo \in 0 .. IrqSize
    BY <1>1 DEF Irq!ConstantsOK
  <2>3. QED
    BY <1>1, <2>1, <2>2 DEF Irq!TypeOK
<1>4. learner.pc = "begin"
  BY <1>2
<1>5. IrqOffIsHandled
  BY <1>1 DEF IrqOffIsHandled
<1>6. IrqPlaces
  BY <1>4 DEF IrqPlaces, Irq!At
<1>7. QED
  BY <1>3, <1>5, <1>6 DEF IrqInv

LEMMA IrqNext == ASSUME Irq!ConstantsOK, IrqInv, [Irq!Next]_(Irq!vars) PROVE IrqInv'
<1> USE DEF Irq!ConstantsOK, IrqInv, Irq!TypeOK, IrqOffIsHandled, IrqPlaces, Irq!At, Irq!Go
<1>1. CASE Irq!Request
  BY <1>1 DEF Irq!Request
<1>2. CASE Irq!Interrupt
  BY <1>2 DEF Irq!Interrupt
<1>3. CASE Irq!EnableFirst
  BY <1>3 DEF Irq!EnableFirst
<1>4. CASE Irq!Look
  BY <1>4 DEF Irq!Look
<1>5. CASE Irq!Wait
  BY <1>5 DEF Irq!Wait
<1>6. CASE Irq!Condition
  BY <1>6 DEF Irq!Condition
<1>7. CASE Irq!Pop
  BY <1>7 DEF Irq!Pop
<1>8. CASE Irq!Enable
  BY <1>8 DEF Irq!Enable
<1>9. CASE Irq!Signal
  BY <1>9 DEF Irq!Signal
<1>10. CASE Irq!Restart
  BY <1>10 DEF Irq!Restart, Irq!Fresh
<1>11. CASE UNCHANGED Irq!vars
  BY <1>11 DEF Irq!vars
<1>12. QED
  BY <1>1, <1>2, <1>3, <1>4, <1>5, <1>6, <1>7, <1>8, <1>9, <1>10, <1>11 DEF Irq!Next, Irq!Learn

LEMMA IrqNoSpin == ASSUME IrqInv PROVE Irq!NoSpin
BY DEF IrqInv, Irq!TypeOK, IrqOffIsHandled, IrqPlaces, Irq!NoSpin, Irq!At

\* IRQWAIT answers EAGAIN only when there is a request to be read, for a FIFO
\* of any size and whenever the daemon died before (wr_rtu_ioctl(), and
\* irq_disabled in rtu_read_learning_queue()).
THEOREM SpinIsJustified == Spec => []Irq!NoSpin
<1>1. Init => IrqInv
  BY PartsConstants, IrqInit DEF Init
<1>2. IrqInv /\ [Next]_vars => IrqInv'
  BY PartsConstants, IrqNext DEF Next, vars, irqVars, Irq!vars
<1>3. IrqInv => Irq!NoSpin
  BY IrqNoSpin
<1> QED
  BY <1>1, <1>2, <1>3, PTL DEF Spec

-----------------------------------------------------------------------------
(* The row of a station                                                    *)

\* Word m of the dividend and the power that it is multiplied with.
HashWord(m) == IF m = 1 THEN Hash!Xor(message[m], Hash!Ones) ELSE message[m]
HashPlace(m) == (HashLength - m + 1) * HashDegree

\* The polynomial, and the first n words of the dividend.
HashPoly == poly \cup {HashDegree}
HashFirst(n) == UNION {Hash!Shift(HashWord(m), HashPlace(m)) : m \in 1 .. n}

\* What a quotient leaves of the first n words.
HashRest(n, q) == Hash!Xor(HashFirst(n), Hash!Product(q, HashPoly))

\* The register holds what is left of the words up to the one that is hashed,
\* shifted by what remains of the dividend and of the loop, and the extra bits.
HashLeft(q) ==
    \A k \in Nat : k \in HashRest(done + 1, q)
                     <=> k + HashExtra - bit - HashPlace(done + 2) \in remainder

\* The quotient so far, above the powers that are still to come.
HashQuotients(lowest) == SUBSET (lowest .. HashLength * HashDegree - 1)

HashInv ==
    /\ Hash!TypeOK
    /\ done < HashLength =>
          /\ \A j \in remainder : /\ j + bit <= HashDegree - 1 + Hash!Rounds
                                  /\ j >= HashExtra \/ j + bit >= Hash!Rounds
          /\ \E low \in HashPlace(done + 2) .. HashPlace(done + 2) + bit :
               /\ low = HashPlace(done + 2) + HashDegree \/ low = HashPlace(done + 2) + bit
               /\ low <= HashPlace(done + 2) + HashDegree
               /\ \E q \in HashQuotients(low) : HashLeft(q)
    /\ done = HashLength =>
          /\ bit = 0 /\ remainder \subseteq Hash!Ones
          /\ \E q \in HashQuotients(0) : HashRest(HashLength, q) = remainder

LEMMA HashConstants ==
    /\ HashDegree \in Nat \ {0} /\ HashExtra \in Nat \ {0} /\ HashLength \in Nat \ {0}
    /\ HashRowBits \in Nat \ {0} /\ HashRowBits =< HashDegree
BY PartsConstants DEF Hash!ConstantsOK

LEMMA HashShift ==
    ASSUME NEW a \in SUBSET Int, NEW n \in Int
    PROVE  \A x : x \in Hash!Shift(a, n) <=> x \in Int /\ x - n \in a
<1>1. ASSUME NEW x, x \in Hash!Shift(a, n) PROVE x \in Int /\ x - n \in a
  <2>1. PICK i \in a : x = i + n
    BY <1>1 DEF Hash!Shift
  <2>2. i \in Int /\ x - n = i
    BY <2>1
  <2> QED
    BY <2>1, <2>2
<1>2. ASSUME NEW x \in Int, x - n \in a PROVE x \in Hash!Shift(a, n)
  <2>1. x = (x - n) + n
    OBVIOUS
  <2> QED
    BY <1>2, <2>1 DEF Hash!Shift
<1> QED
  BY <1>1, <1>2

\* Where the words are.
LEMMA HashPlaces ==
    /\ \A m \in 1 .. HashLength + 1 : HashPlace(m) \in Nat
    /\ \A m \in 1 .. HashLength : HashPlace(m) = HashPlace(m + 1) + HashDegree
    /\ \A n \in 1 .. HashLength : \A m \in 1 .. n : HashPlace(m) >= HashPlace(n)
    /\ HashPlace(1) = HashLength * HashDegree
    /\ HashPlace(HashLength + 1) = 0
<1> USE HashConstants DEF HashPlace
<1>1. ASSUME NEW m \in 1 .. HashLength + 1 PROVE HashPlace(m) \in Nat
  <2>1. HashLength - m + 1 \in Nat
    OBVIOUS
  <2> QED
    BY <2>1, Z3
<1>2. ASSUME NEW m \in 1 .. HashLength PROVE HashPlace(m) = HashPlace(m + 1) + HashDegree
  BY Z3
<1>3. ASSUME NEW n \in 1 .. HashLength, NEW m \in 1 .. n PROVE HashPlace(m) >= HashPlace(n)
  <2>1. n - m \in Nat /\ (HashLength - m + 1) = (HashLength - n + 1) + (n - m)
    OBVIOUS
  <2>2. (n - m) * HashDegree >= 0
    BY <2>1, Z3
  <2>3. HashPlace(m) = HashPlace(n) + (n - m) * HashDegree
    BY <2>1, Z3
  <2>4. HashPlace(n) \in Int /\ (n - m) * HashDegree \in Int
    BY <2>1, Z3
  <2> HIDE DEF HashPlace
  <2> QED
    BY <2>2, <2>3, <2>4
<1>4. HashPlace(1) = HashLength * HashDegree
  <2>1. HashLength - 1 + 1 = HashLength
    OBVIOUS
  <2> QED
    BY <2>1
<1>5. HashPlace(HashLength + 1) = 0
  <2>1. HashLength - (HashLength + 1) + 1 = 0
    OBVIOUS
  <2> QED
    BY <2>1, Z3
<1> QED
  BY <1>1, <1>2, <1>3, <1>4, <1>5

LEMMA HashWords ==
    ASSUME Hash!TypeOK, NEW m \in 1 .. HashLength
    PROVE  HashWord(m) \in SUBSET (0 .. HashDegree - 1)
BY HashConstants DEF Hash!TypeOK, Hash!Words, HashWord, Hash!Xor, Hash!Ones

LEMMA HashFirstNone ==
    ASSUME Hash!TypeOK
    PROVE  HashFirst(0) = {}
BY DEF HashFirst

\* The next word begins where the ones before end.
LEMMA HashFirstNext ==
    ASSUME Hash!TypeOK, NEW n \in 0 .. HashLength - 1
    PROVE  /\ HashFirst(n + 1) \in SUBSET Nat
           /\ \A k \in Nat : k \in HashFirst(n + 1)
                                <=> k \in HashFirst(n) \/ k - HashPlace(n + 1) \in HashWord(n + 1)
           /\ \A k \in HashFirst(n) : k >= HashPlace(n + 1) + HashDegree
<1> USE HashConstants
<1>1. \A m \in 1 .. HashLength : HashWord(m) \in SUBSET Int /\ HashPlace(m) \in Nat
  <2> TAKE m \in 1 .. HashLength
  <2>1. m \in 1 .. HashLength + 1
    OBVIOUS
  <2> QED
    BY <2>1, HashWords, HashPlaces
<1>2. \A m \in 1 .. HashLength : \A k : k \in Hash!Shift(HashWord(m), HashPlace(m))
                                           <=> k \in Int /\ k - HashPlace(m) \in HashWord(m)
  BY <1>1, HashShift
<1>3. \A m \in 1 .. HashLength : \A k \in Hash!Shift(HashWord(m), HashPlace(m)) :
          k \in Nat /\ k >= HashPlace(m)
  BY <1>1, <1>2, HashWords
<1>4. ASSUME NEW k PROVE k \in HashFirst(n + 1)
          <=> k \in HashFirst(n) \/ k \in Hash!Shift(HashWord(n + 1), HashPlace(n + 1))
  <2>1. 1 .. n + 1 = (1 .. n) \cup {n + 1}
    OBVIOUS
  <2>2. k \in HashFirst(n + 1)
           <=> \E m \in 1 .. n + 1 : k \in Hash!Shift(HashWord(m), HashPlace(m))
    BY Zenon DEF HashFirst
  <2>3. k \in HashFirst(n) <=> \E m \in 1 .. n : k \in Hash!Shift(HashWord(m), HashPlace(m))
    BY Zenon DEF HashFirst
  <2> QED
    BY <2>1, <2>2, <2>3
<1>5. n + 1 \in 1 .. HashLength
  OBVIOUS
<1>6. \A k \in HashFirst(n + 1) : k \in Nat
  <2> TAKE k \in HashFirst(n + 1)
  <2>1. PICK m \in 1 .. n + 1 : k \in Hash!Shift(HashWord(m), HashPlace(m))
    BY Zenon DEF HashFirst
  <2> QED
    BY <1>3, <2>1
<1>7. \A k \in HashFirst(n) : k >= HashPlace(n + 1) + HashDegree
  <2> TAKE k \in HashFirst(n)
  <2>1. PICK m \in 1 .. n : k \in Hash!Shift(HashWord(m), HashPlace(m))
    BY Zenon DEF HashFirst
  <2>2. n \in 1 .. HashLength /\ m \in 1 .. HashLength /\ n + 1 \in 1 .. HashLength + 1
    BY <2>1
  <2>3. k \in Nat /\ k >= HashPlace(m)
    BY <1>3, <2>1, <2>2
  <2>4. HashPlace(m) >= HashPlace(n) /\ HashPlace(n) = HashPlace(n + 1) + HashDegree
    BY <2>1, <2>2, HashPlaces
  <2>5. HashPlace(m) \in Nat /\ HashPlace(n) \in Nat /\ HashPlace(n + 1) \in Nat
    BY <1>1, <2>2, HashPlaces
  <2> QED
    BY <2>3, <2>4, <2>5
<1>8. ASSUME NEW k \in Nat
      PROVE  k \in Hash!Shift(HashWord(n + 1), HashPlace(n + 1))
                <=> k - HashPlace(n + 1) \in HashWord(n + 1)
  BY <1>2, <1>5
<1> QED
  BY <1>4, <1>6, <1>7, <1>8

\* Products, by the powers of the one factor.
LEMMA HashProductNone == Hash!Product({}, HashPoly) = {}
<1>1. \A k : Cardinality({i \in {} : k - i \in HashPoly}) = 0
  BY FS_EmptySet
<1>2. \A k : Hash!Cardinality({i \in {} : k - i \in HashPoly})
                = Cardinality({i \in {} : k - i \in HashPoly})
  BY Zenon DEF Hash!Cardinality, Cardinality
<1>3. 0 % 2 = 0
  OBVIOUS
<1> QED
  BY <1>1, <1>2, <1>3 DEF Hash!Product

LEMMA HashXor ==
    ASSUME NEW a, NEW b
    PROVE  \A k : k \in Hash!Xor(a, b) <=> ~(k \in a <=> k \in b)
BY DEF Hash!Xor

LEMMA HashProductNext ==
    ASSUME Hash!TypeOK, NEW q \in HashQuotients(0), NEW i \in 0 .. HashLength * HashDegree - 1,
           i \notin q
    PROVE  \A k \in Nat : k \in Hash!Product(q \cup {i}, HashPoly)
                            <=> ~(k \in Hash!Product(q, HashPoly) <=> k - i \in HashPoly)
<1> USE HashConstants
<1> DEFINE M == HashLength * HashDegree
<1>1. M \in Nat /\ (HashLength + 1) * HashDegree = M + HashDegree
  BY Z3
<1>2. q \in SUBSET Int /\ IsFiniteSet(q)
  <2>1. q \subseteq 0 .. M - 1
    BY DEF HashQuotients
  <2> HIDE DEF M
  <2>2. IsFiniteSet(0 .. M - 1) /\ 0 .. M - 1 \subseteq Int
    BY <1>1, FS_Interval
  <2> QED
    BY <2>1, <2>2, FS_Subset
<1>3. i \in 0 .. M - 1
  OBVIOUS
<1>4. HashPoly \subseteq 0 .. HashDegree
  BY DEF HashPoly, Hash!TypeOK, Hash!Words
<1> HIDE DEF M
<1> TAKE k \in Nat
<1> DEFINE S == {j \in q : k - j \in HashPoly}
           T == {j \in q \cup {i} : k - j \in HashPoly}
           c == Cardinality(S)
<1>5. IsFiniteSet(S) /\ c \in Nat
  <2>1. S \subseteq q
    OBVIOUS
  <2>2. IsFiniteSet(S)
    BY <1>2, <2>1, FS_Subset
  <2> QED
    BY <2>2, FS_CardinalityType
<1>6. /\ k \in Hash!Product(q \cup {i}, HashPoly)
            <=> k \in 0 .. M + HashDegree /\ Cardinality(T) % 2 = 1
      /\ k \in Hash!Product(q, HashPoly) <=> k \in 0 .. M + HashDegree /\ c % 2 = 1
  <2>1. Hash!Cardinality(T) = Cardinality(T) /\ Hash!Cardinality(S) = Cardinality(S)
    BY Zenon DEF Hash!Cardinality, Cardinality
  <2>2. k \in Hash!Product(q \cup {i}, HashPoly)
            <=> k \in 0 .. (HashLength + 1) * HashDegree /\ Hash!Cardinality(T) % 2 = 1
    BY Zenon DEF Hash!Product
  <2>3. k \in Hash!Product(q, HashPoly)
            <=> k \in 0 .. (HashLength + 1) * HashDegree /\ Hash!Cardinality(S) % 2 = 1
    BY Zenon DEF Hash!Product
  <2> HIDE DEF S, T
  <2> QED
    BY <1>1, <2>1, <2>2, <2>3 DEF c
<1>7. c % 2 \in 0 .. 1 /\ (c + 1) % 2 = (IF c % 2 = 1 THEN 0 ELSE (c % 2) + 1)
  <2> HIDE DEF c
  <2>1. c % 2 \in 0 .. 2 - 1 /\ (c + 1) % 2 = (IF c % 2 = 2 - 1 THEN 0 ELSE (c % 2) + 1)
    <3>1. c \in Int /\ 2 \in Nat \ {0}
      BY <1>5
    <3> QED
      BY <3>1, Division, NextRemainder
  <2> QED
    BY <2>1
<1>8. CASE k - i \in HashPoly
  <2>1. T = S \cup {i} /\ i \notin S
    BY <1>8
  <2>2. Cardinality(T) = c + 1
    BY <1>5, <2>1, FS_AddElement
  <2>3. k \in 0 .. M + HashDegree
    BY <1>1, <1>3, <1>4, <1>8
  <2> HIDE DEF S, T, c
  <2> QED
    BY <1>6, <1>7, <1>8, <2>2, <2>3
<1>9. CASE k - i \notin HashPoly
  <2>1. T = S
    BY <1>9
  <2> HIDE DEF S, T
  <2> QED
    BY <1>6, <1>9, <2>1 DEF c
<1> QED
  BY <1>8, <1>9

\* Only the words and the polynomial matter.
LEMMA HashRestSame ==
    ASSUME poly' = poly, message' = message, done' = done, NEW CONSTANT q
    PROVE  HashRest(done + 1, q)' = HashRest(done + 1, q)
<1>1. HashFirst(done + 1)' = HashFirst(done + 1)
  BY DEF HashFirst, HashWord
<1>2. Hash!Product(q, HashPoly)' = Hash!Product(q, HashPoly)
  BY DEF HashPoly
<1> QED
  BY <1>1, <1>2 DEF HashRest

\* A round without and with a subtraction.
LEMMA HashRound ==
    ASSUME HashInv, Hash!Round
    PROVE  HashInv'
<1> USE HashConstants
<1> DEFINE E == HashPlace(done + 2)
           r == IF Hash!Top \in remainder THEN Hash!Xor(remainder, Hash!hash_poly) ELSE remainder
<1>1. /\ bit > 0 /\ remainder' = Hash!Shift(r, 1) /\ bit' = bit - 1
      /\ poly' = poly /\ message' = message /\ done' = done
  BY DEF Hash!Round
<1>2. /\ poly \in Hash!Words /\ remainder \subseteq 0 .. HashDegree + HashExtra - 1
      /\ bit \in 1 .. HashDegree + HashExtra /\ done \in 0 .. HashLength
      /\ message \in [1 .. HashLength -> Hash!Words]
  BY <1>1 DEF HashInv, Hash!TypeOK, Hash!Top, Hash!Rounds
<1>3. done \in 0 .. HashLength - 1 /\ done # HashLength
  BY <1>1, <1>2 DEF HashInv
<1>4. \A j \in remainder : /\ j + bit <= HashDegree - 1 + HashDegree + HashExtra
                           /\ j >= HashExtra \/ j + bit >= HashDegree + HashExtra
  BY <1>2, <1>3 DEF HashInv, Hash!Rounds
<1>5. E \in Nat /\ E <= HashLength * HashDegree - HashDegree
  <2>1. done + 2 \in 1 .. HashLength + 1 /\ done + 1 \in 1 .. HashLength
        /\ 1 \in 1 .. done + 1 /\ 1 \in 1 .. HashLength + 1 /\ (done + 1) + 1 = done + 2
    BY <1>3
  <2>2. HashPlace(done + 2) \in Nat /\ HashPlace(done + 1) = HashPlace(done + 2) + HashDegree
        /\ HashPlace(1) >= HashPlace(done + 1)
    BY <2>1, HashPlaces
  <2>3. HashPlace(1) \in Nat /\ HashPlace(1) = HashLength * HashDegree
    BY <2>1, HashPlaces
  <2> QED
    BY <2>2, <2>3
<1>6. PICK low \in E .. E + bit :
           /\ low = E + HashDegree \/ low = E + bit
           /\ low <= E + HashDegree
           /\ \E q \in HashQuotients(low) : HashLeft(q)
  BY <1>2, <1>3 DEF HashInv
<1>7. PICK q \in HashQuotients(low) : HashLeft(q)
  BY <1>6
<1> HIDE DEF E
<1>8. \A k \in Nat : k \in HashRest(done + 1, q) <=> k + HashExtra - bit - E \in remainder
  BY <1>7 DEF HashLeft, E
<1>9. HashPoly \subseteq 0 .. HashDegree /\ HashDegree \in HashPoly
      /\ \A x \in HashPoly : x = HashDegree \/ x < HashDegree
  BY <1>2 DEF HashPoly, Hash!Words
<1>10. \A x : x \in Hash!hash_poly <=> x \in Int /\ x - (HashExtra - 1) \in HashPoly
  <2>1. HashPoly \in SUBSET Int /\ HashExtra - 1 \in Int
    BY <1>9
  <2> QED
    BY <2>1, HashShift DEF Hash!hash_poly, HashPoly
<1>11. /\ r \subseteq 0 .. HashDegree + HashExtra - 2
       /\ \A x \in r : /\ x + bit <= HashDegree - 1 + HashDegree + HashExtra
                       /\ x >= HashExtra - 1 \/ x + bit >= HashDegree + HashExtra
  <2>1. CASE Hash!Top \in remainder
    <3>1. \A x : x \in r <=> ~(x \in remainder <=> x \in Hash!hash_poly)
      BY <2>1, HashXor
    <3>2. bit <= HashDegree /\ HashDegree + HashExtra - 1 \in remainder
      BY <1>2, <1>4, <2>1 DEF Hash!Top
    <3>3. HashDegree + HashExtra - 1 \in Hash!hash_poly
      BY <1>9, <1>10
    <3>4. HashDegree + HashExtra - 1 \notin r
      BY <3>1, <3>2, <3>3
    <3>5. ASSUME NEW x \in r
          PROVE  /\ x \in 0 .. HashDegree + HashExtra - 2
                 /\ x + bit <= HashDegree - 1 + HashDegree + HashExtra
                 /\ x >= HashExtra - 1 \/ x + bit >= HashDegree + HashExtra
      <4> HIDE DEF r
      <4>1. CASE x \in remainder
        BY <1>2, <1>4, <3>4, <3>5, <4>1
      <4>2. CASE x \in Hash!hash_poly
        <5>1. x \in Int /\ x - (HashExtra - 1) \in 0 .. HashDegree
          BY <1>9, <1>10, <4>2
        <5> QED
          BY <1>2, <3>2, <3>4, <5>1
      <4> QED
        BY <3>1, <3>5, <4>1, <4>2
    <3> HIDE DEF r
    <3> QED
      BY <3>5
  <2>2. CASE Hash!Top \notin remainder
    <3>1. r = remainder /\ HashDegree + HashExtra - 1 \notin remainder
      BY <2>2 DEF Hash!Top
    <3> HIDE DEF r
    <3> QED
      BY <1>2, <1>4, <3>1
  <2> QED
    BY <2>1, <2>2
<1>12. \A x : x \in remainder' <=> x \in Int /\ x - 1 \in r
  <2> HIDE DEF r
  <2>1. r \in SUBSET Int
    BY <1>11
  <2> QED
    BY <1>1, <2>1, HashShift
<1>13. Hash!TypeOK'
  <2> HIDE DEF r
  <2>1. remainder' \subseteq 0 .. HashDegree + HashExtra - 1
    BY <1>11, <1>12
  <2> QED
    BY <1>1, <1>2, <2>1 DEF Hash!TypeOK, Hash!Top, Hash!Rounds, Hash!Words
<1>14. \A j \in remainder' : /\ j + bit' <= HashDegree - 1 + Hash!Rounds
                             /\ j >= HashExtra \/ j + bit' >= Hash!Rounds
  <2> HIDE DEF r
  <2> TAKE j \in remainder'
  <2>1. j \in Int /\ j - 1 \in r
    BY <1>12
  <2>2. j - 1 + bit <= HashDegree - 1 + HashDegree + HashExtra
        /\ (j - 1 >= HashExtra - 1 \/ j - 1 + bit >= HashDegree + HashExtra)
    BY <1>11, <2>1
  <2> QED
    BY <1>1, <1>2, <2>1, <2>2 DEF Hash!Rounds
<1>15. \E low2 \in E .. E + bit' :
           /\ low2 = E + HashDegree \/ low2 = E + bit'
           /\ low2 <= E + HashDegree
           /\ \E q2 \in HashQuotients(low2) : HashLeft(q2)'
  <2>1. CASE Hash!Top \notin remainder
    <3> DEFINE low2 == IF low = E + bit THEN E + bit - 1 ELSE low
    <3>1. /\ low2 \in E .. E + bit' /\ (low2 = E + HashDegree \/ low2 = E + bit')
          /\ low2 <= E + HashDegree /\ low2 <= low
      BY <1>1, <1>2, <1>5, <1>6
    <3> HIDE DEF low2
    <3>2. q \in HashQuotients(low2)
      <4>1. HashLength * HashDegree \in Int
        BY Z3
      <4>2. \A x \in q : x \in Int /\ x >= low /\ x <= HashLength * HashDegree - 1
        BY <1>7, <1>6, <1>2, <1>5, <4>1 DEF HashQuotients
      <4>3. low \in Int /\ low2 \in Int
        BY <1>2, <1>5, <1>6, <1>1, <3>1
      <4>4. \A x \in q : x \in low2 .. HashLength * HashDegree - 1
        BY <3>1, <4>1, <4>2, <4>3
      <4> QED
        BY <4>4 DEF HashQuotients
    <3>3. r = remainder
      BY <2>1
    <3>4. HashLeft(q)'
      <4>1. HashRest(done + 1, q)' = HashRest(done + 1, q) /\ HashPlace(done + 2)' = E
        BY <1>1, HashRestSame DEF HashPlace, E
      <4> SUFFICES ASSUME NEW k \in Nat
                   PROVE  k \in HashRest(done + 1, q)
                             <=> k + HashExtra - bit' - E \in remainder'
        BY <4>1 DEF HashLeft
      <4>2. k + HashExtra - bit' - E \in Int
            /\ (k + HashExtra - bit' - E) - 1 = k + HashExtra - bit - E
        BY <1>1, <1>2, <1>5
      <4> HIDE DEF r
      <4> QED
        BY <1>8, <1>12, <3>3, <4>2
    <3> QED
      BY <3>1, <3>2, <3>4
  <2>2. CASE Hash!Top \in remainder
    <3>1. bit <= HashDegree
      BY <1>2, <1>4, <2>2 DEF Hash!Top
    <3>i. PICK i \in Int : i = E + bit - 1
      BY <1>2, <1>5
    <3>2. i \in E .. E + bit' /\ i = E + bit' /\ i <= E + HashDegree /\ low = E + bit
          /\ i \in 0 .. HashLength * HashDegree - 1 /\ i \in Nat
      <4>1. HashLength * HashDegree \in Int
        BY Z3
      <4> QED
        BY <1>1, <1>2, <1>5, <1>6, <3>1, <3>i, <4>1
    <3>3. q \in HashQuotients(0) /\ i \notin q /\ q \cup {i} \in HashQuotients(i)
      <4>1. HashLength * HashDegree \in Int
        BY Z3
      <4>2. \A x \in q : x \in Int /\ x >= E + bit /\ x <= HashLength * HashDegree - 1
        BY <1>7, <3>2, <1>2, <1>5, <4>1 DEF HashQuotients
      <4>3. i < E + bit
        BY <1>2, <1>5, <3>i
      <4>4. E + bit \in Int /\ i >= 0
        BY <1>2, <1>5, <3>2
      <4>5. \A x \in q : x \in 0 .. HashLength * HashDegree - 1 /\ x # i
                         /\ x \in i .. HashLength * HashDegree - 1
        BY <3>2, <4>1, <4>2, <4>3, <4>4
      <4>6. i \in i .. HashLength * HashDegree - 1
        BY <3>2, <4>1
      <4> QED
        BY <4>5, <4>6 DEF HashQuotients
    <3>4. \A k \in Nat : k \in Hash!Product(q \cup {i}, HashPoly)
                            <=> ~(k \in Hash!Product(q, HashPoly) <=> k - i \in HashPoly)
      <4>1. Hash!TypeOK
        BY DEF HashInv
      <4> QED
        BY <3>2, <3>3, <4>1, HashProductNext
    <3>5. HashLeft(q \cup {i})'
      <4>1. HashRest(done + 1, q \cup {i})' = HashRest(done + 1, q \cup {i})
            /\ HashPlace(done + 2)' = E
        BY <1>1, HashRestSame DEF HashPlace, E
      <4> SUFFICES ASSUME NEW k \in Nat
                   PROVE  k \in HashRest(done + 1, q \cup {i})
                             <=> k + HashExtra - bit' - E \in remainder'
        BY <4>1 DEF HashLeft
      <4>2. k \in HashRest(done + 1, q \cup {i})
               <=> ~(k \in HashRest(done + 1, q) <=> k - i \in HashPoly)
        <5> DEFINE D == HashFirst(done + 1)
                   P1 == Hash!Product(q, HashPoly)
                   P2 == Hash!Product(q \cup {i}, HashPoly)
        <5>1. k \in Hash!Xor(D, P2) <=> ~(k \in D <=> k \in P2)
          BY HashXor
        <5>2. k \in Hash!Xor(D, P1) <=> ~(k \in D <=> k \in P1)
          BY HashXor
        <5>3. k \in P2 <=> ~(k \in P1 <=> k - i \in HashPoly)
          BY <3>4
        <5> HIDE DEF D, P1, P2
        <5>4. k \in Hash!Xor(D, P2) <=> ~(k \in Hash!Xor(D, P1) <=> k - i \in HashPoly)
          BY <5>1, <5>2, <5>3
        <5> QED
          BY <5>4 DEF HashRest, D, P1, P2
      <4> DEFINE y == k + HashExtra - bit - E
      <4>3. k + HashExtra - bit' - E \in Int /\ (k + HashExtra - bit' - E) - 1 = y /\ y \in Int
            /\ y - (HashExtra - 1) = k - i
        BY <1>1, <1>2, <1>5, <3>i
      <4>4. y \in r <=> ~(y \in remainder <=> y \in Hash!hash_poly)
        BY <2>2, HashXor
      <4>5. y \in Hash!hash_poly <=> k - i \in HashPoly
        BY <1>10, <4>3
      <4>6. k \in HashRest(done + 1, q) <=> y \in remainder
        BY <1>8
      <4>7. k + HashExtra - bit' - E \in remainder' <=> y \in r
        <5> HIDE DEF r, y
        <5> QED
          BY <1>12, <4>3
      <4> HIDE DEF r, y
      <4> QED
        BY <4>2, <4>4, <4>5, <4>6, <4>7
    <3> QED
      BY <3>2, <3>3, <3>5
  <2> QED
    BY <2>1, <2>2
<1> HIDE DEF r
<1>16. HashPlace(done + 2)' = E
  BY <1>1 DEF HashPlace, E
<1> QED
  BY <1>1, <1>3, <1>13, <1>14, <1>15, <1>16 DEF HashInv

LEMMA HashRestType ==
    ASSUME Hash!TypeOK, NEW n \in 1 .. HashLength, NEW q
    PROVE  HashRest(n, q) \in SUBSET Nat
<1>1. n - 1 \in 0 .. HashLength - 1 /\ (n - 1) + 1 = n
  BY HashConstants
<1>2. HashFirst(n) \in SUBSET Nat
  <2> DEFINE m == n - 1
  <2>1. HashFirst(m + 1) \in SUBSET Nat
    BY <1>1, HashFirstNext
  <2> HIDE DEF m
  <2> QED
    BY <1>1, <2>1 DEF m
<1>3. Hash!Product(q, HashPoly) \in SUBSET Nat
  <2>1. (HashLength + 1) * HashDegree \in Nat
    BY HashConstants, Z3
  <2>2. 0 .. (HashLength + 1) * HashDegree \subseteq Nat
    BY <2>1
  <2>3. Hash!Product(q, HashPoly) \subseteq 0 .. (HashLength + 1) * HashDegree
    BY Zenon DEF Hash!Product
  <2> QED
    BY <2>2, <2>3
<1> QED
  BY <1>2, <1>3 DEF HashRest, Hash!Xor

LEMMA HashInit == Init => HashInv
<1> SUFFICES ASSUME Hash!Init PROVE HashInv
  BY DEF Init
<1> USE HashConstants
<1> DEFINE E == HashPlace(2)
<1>1. /\ poly \in Hash!Words /\ message \in [1 .. HashLength -> Hash!Words] /\ done = 0
      /\ remainder = HashWord(1) /\ bit = HashDegree + HashExtra
  BY DEF Hash!Init, HashWord, Hash!Rounds
<1>2. remainder \subseteq 0 .. HashDegree - 1
  <2>1. message[1] \in Hash!Words
    BY <1>1
  <2> QED
    BY <1>1, <2>1 DEF HashWord, Hash!Xor, Hash!Ones, Hash!Words
<1>3. Hash!TypeOK
  <2>1. 0 .. HashDegree - 1 \subseteq 0 .. Hash!Top /\ bit \in 0 .. Hash!Rounds
    BY <1>1 DEF Hash!Top, Hash!Rounds
  <2> QED
    BY <1>1, <1>2, <2>1 DEF Hash!TypeOK
<1>4. E \in Nat /\ HashPlace(1) = E + HashDegree /\ HashPlace(1) = HashLength * HashDegree
  <2>1. 1 \in 1 .. HashLength /\ 2 \in 1 .. HashLength + 1 /\ 1 + 1 = 2
    OBVIOUS
  <2> QED
    BY <2>1, HashPlaces
<1> HIDE DEF E
<1>5. \A k \in Nat : k \in HashFirst(1) <=> k - HashPlace(1) \in HashWord(1)
  <2>1. 0 \in 0 .. HashLength - 1 /\ 0 + 1 = 1
    OBVIOUS
  <2>2. \A k \in Nat : k \in HashFirst(0 + 1)
                          <=> k \in HashFirst(0) \/ k - HashPlace(0 + 1) \in HashWord(0 + 1)
    BY <1>3, <2>1, HashFirstNext
  <2> QED
    BY <1>3, <2>1, <2>2, HashFirstNone
<1>6. HashLeft({})
  <2> SUFFICES ASSUME NEW k \in Nat
               PROVE  k \in HashRest(1, {})
                        <=> k + HashExtra - (HashDegree + HashExtra) - E \in remainder
    BY <1>1 DEF HashLeft, E
  <2>1. k \in HashRest(1, {}) <=> k \in HashFirst(1)
    BY HashProductNone DEF HashRest, Hash!Xor
  <2>2. k + HashExtra - (HashDegree + HashExtra) - E = k - HashPlace(1)
    BY <1>4
  <2> QED
    BY <1>1, <1>5, <2>1, <2>2
<1>7. {} \in HashQuotients(E + HashDegree)
  BY DEF HashQuotients
<1>8. E + HashDegree \in E .. E + bit
  BY <1>1, <1>4
<1>9. \A j \in remainder : /\ j + bit <= HashDegree - 1 + Hash!Rounds
                           /\ j + bit >= Hash!Rounds
  BY <1>1, <1>2 DEF Hash!Rounds
<1>10. 0 + 2 = 2
  OBVIOUS
<1> QED
  BY <1>1, <1>3, <1>4, <1>6, <1>7, <1>8, <1>9, <1>10 DEF HashInv, E

LEMMA HashNextWord ==
    ASSUME HashInv, Hash!NextWord
    PROVE  HashInv'
<1> USE HashConstants
<1> DEFINE E == HashPlace(done + 2)
<1>1. /\ bit = 0 /\ done < HashLength /\ done' = done + 1
      /\ poly' = poly /\ message' = message
  BY DEF Hash!NextWord
<1>2. /\ poly \in Hash!Words /\ remainder \subseteq 0 .. HashDegree + HashExtra - 1
      /\ message \in [1 .. HashLength -> Hash!Words] /\ Hash!TypeOK
      /\ done \in 0 .. HashLength - 1
  BY <1>1 DEF HashInv, Hash!TypeOK, Hash!Top
<1>3. \A j \in remainder : j >= HashExtra
  BY <1>1, <1>2 DEF HashInv, Hash!Rounds
<1>4. E \in Nat
  <2>1. done + 2 \in 1 .. HashLength + 1
    BY <1>2
  <2> QED
    BY <2>1, HashPlaces
<1>5. PICK q \in HashQuotients(E) : HashLeft(q)
  <2>1. PICK low \in E .. E + bit :
           /\ low = E + HashDegree \/ low = E + bit
           /\ low <= E + HashDegree
           /\ \E q \in HashQuotients(low) : HashLeft(q)
    BY <1>1 DEF HashInv
  <2>2. low = E
    BY <1>1, <1>4, <2>1
  <2> QED
    BY <2>1, <2>2
<1> HIDE DEF E
<1>6. \A k \in Nat : k \in HashRest(done + 1, q) <=> k + HashExtra - E \in remainder
  <2>1. \A k \in Nat : k + HashExtra - 0 - E = k + HashExtra - E
    BY <1>4
  <2> QED
    BY <1>1, <1>5, <2>1 DEF HashLeft, E
<1>7. \A x : x \in Hash!Result <=> x \in Nat /\ x + HashExtra \in remainder
  <2>1. ASSUME NEW x, x \in Hash!Result PROVE x \in Nat /\ x + HashExtra \in remainder
    <3>1. PICK j \in remainder : x = j - HashExtra /\ j >= HashExtra
      BY <2>1 DEF Hash!Result
    <3>2. j \in Int /\ x + HashExtra = j /\ x \in Nat
      BY <1>2, <3>1
    <3> QED
      BY <3>1, <3>2
  <2>2. ASSUME NEW x \in Nat, x + HashExtra \in remainder PROVE x \in Hash!Result
    <3>1. x = (x + HashExtra) - HashExtra /\ x + HashExtra >= HashExtra
            /\ x \in 0 .. HashDegree - 1
      BY <1>2, <2>2
    <3> QED
      BY <2>2, <3>1 DEF Hash!Result, Hash!Ones
  <2> QED
    BY <2>1, <2>2
<1>8. Hash!Result \subseteq 0 .. HashDegree - 1
  BY DEF Hash!Result, Hash!Ones
<1>9. CASE done + 1 < HashLength
  <2> DEFINE F == HashPlace(done + 3)
             w == message[done + 2]
  <2>1. remainder' = Hash!Xor(w, Hash!Result) /\ bit' = HashDegree + HashExtra
    <3>1. done' + 1 = done + 2 /\ done' < HashLength
      BY <1>1, <1>2, <1>9
    <3>2. remainder' = Hash!Xor(message[done' + 1], Hash!Result) /\ bit' = Hash!Rounds
      BY <3>1 DEF Hash!NextWord
    <3> QED
      BY <3>1, <3>2 DEF Hash!Rounds
  <2>2. /\ done + 2 \in 1 .. HashLength /\ done + 1 \in 0 .. HashLength - 1
        /\ (done + 1) + 1 = done + 2 /\ (done + 2) + 1 = done + 3
             /\ done + 3 \in 1 .. HashLength + 1
        /\ (done + 1) + 2 = done + 3
    BY <1>2, <1>9
  <2>3. E = F + HashDegree /\ F \in Nat
    BY <2>2, HashPlaces DEF E
  <2>4. w = HashWord(done + 2) /\ w \in SUBSET (0 .. HashDegree - 1)
    <3>1. done + 2 # 1
      BY <1>2
    <3>2. w = HashWord(done + 2)
      BY <3>1 DEF HashWord
    <3> HIDE DEF w
    <3> QED
      BY <1>2, <2>2, <3>2, HashWords
  <2>5. /\ \A k \in Nat : k \in HashFirst(done + 2) <=> k \in HashFirst(done + 1) \/ k - E \in w
        /\ \A k \in HashFirst(done + 1) : k >= E + HashDegree
    <3> DEFINE n == done + 1
    <3>1. /\ \A k \in Nat : k \in HashFirst(n + 1)
                                <=> k \in HashFirst(n) \/ k - HashPlace(n + 1) \in HashWord(n + 1)
          /\ \A k \in HashFirst(n) : k >= HashPlace(n + 1) + HashDegree
      BY <1>2, <2>2, HashFirstNext
    <3> HIDE DEF w
    <3> QED
      BY <2>2, <2>4, <3>1 DEF E
  <2> HIDE DEF F, w
  <2>6. remainder' \subseteq 0 .. HashDegree - 1
    BY <1>8, <2>1, <2>4 DEF Hash!Xor
  <2>7. HashLeft(q)'
    <3>1. HashRest(done + 1, q)' = HashRest(done + 2, q) /\ HashPlace(done + 2)' = F
      <4>1. HashFirst(done + 1)' = HashFirst(done + 2)
        BY <1>1, <2>2 DEF HashFirst, HashWord
      <4>2. Hash!Product(q, HashPoly)' = Hash!Product(q, HashPoly)
        BY <1>1 DEF HashPoly
      <4>3. HashPlace(done + 2)' = F
        BY <1>1, <2>2 DEF HashPlace, F
      <4> QED
        BY <4>1, <4>2, <4>3 DEF HashRest
    <3> SUFFICES ASSUME NEW k \in Nat
                 PROVE  k \in HashRest(done + 2, q)
                           <=> k + HashExtra - (HashDegree + HashExtra) - F \in remainder'
      BY <2>1, <3>1 DEF HashLeft
    <3> DEFINE x == k - E
    <3>2. k + HashExtra - (HashDegree + HashExtra) - F = x /\ x \in Int
          /\ x + HashExtra = k + HashExtra - E
      BY <1>4, <2>3
    <3>3. x \in remainder' <=> ~(x \in w <=> x \in Hash!Result)
      BY <2>1, HashXor
    <3>4. x \in Hash!Result <=> k \in HashRest(done + 1, q)
      <4>1. k \in HashRest(done + 1, q) <=> x + HashExtra \in remainder
        BY <1>6, <3>2
      <4>2. x + HashExtra \in remainder => x \in Nat
        BY <1>2, <1>3, <3>2
      <4> HIDE DEF x
      <4> QED
        BY <1>7, <4>1, <4>2
    <3>5. k \in HashFirst(done + 2) <=> ~(k \in HashFirst(done + 1) <=> x \in w)
      <4>1. k \in HashFirst(done + 1) => x \notin w
        <5> SUFFICES ASSUME k \in HashFirst(done + 1), x \in w PROVE FALSE
          OBVIOUS
        <5>1. k >= E + HashDegree /\ x <= HashDegree - 1
          BY <2>4, <2>5
        <5> QED
          BY <1>4, <5>1
      <4> QED
        BY <2>5, <4>1
    <3> HIDE DEF x
    <3>6. k \in HashRest(done + 2, q) <=> ~(k \in HashRest(done + 1, q) <=> x \in w)
      <4> DEFINE P == Hash!Product(q, HashPoly)
                 D1 == HashFirst(done + 1)
                 D2 == HashFirst(done + 2)
      <4>1. /\ k \in Hash!Xor(D1, P) <=> ~(k \in D1 <=> k \in P)
            /\ k \in Hash!Xor(D2, P) <=> ~(k \in D2 <=> k \in P)
        BY HashXor
      <4> HIDE DEF P, D1, D2
      <4>2. k \in Hash!Xor(D2, P) <=> ~(k \in Hash!Xor(D1, P) <=> x \in w)
        BY <3>5, <4>1 DEF D1, D2
      <4> QED
        BY <4>2 DEF HashRest, P, D1, D2
    <3> QED
      BY <3>2, <3>3, <3>4, <3>6
  <2>8. HashPlace(done + 2)' = F
    BY <1>1, <2>2 DEF HashPlace, F
  <2>9. E \in F .. F + bit' /\ E = F + HashDegree /\ E <= F + HashDegree
    BY <2>1, <2>3
  <2>10. Hash!TypeOK'
    <3>1. 0 .. HashDegree - 1 \subseteq 0 .. Hash!Top /\ bit' \in 0 .. Hash!Rounds
      BY <2>1 DEF Hash!Top, Hash!Rounds
    <3>2. done' \in 0 .. HashLength
      BY <1>1, <1>2
    <3> QED
      BY <1>1, <1>2, <2>6, <3>1, <3>2 DEF Hash!TypeOK
  <2>11. \A j \in remainder' : /\ j + bit' <= HashDegree - 1 + Hash!Rounds
                               /\ j + bit' >= Hash!Rounds
    BY <2>1, <2>6 DEF Hash!Rounds
  <2>12. done' # HashLength
    BY <1>1, <1>2, <1>9
  <2> QED
    BY <2>7, <2>8, <2>9, <2>10, <2>11, <2>12 DEF HashInv
<1>10. CASE done + 1 = HashLength
  <2>1. remainder' = Hash!Result /\ bit' = 0 /\ done' = HashLength
    BY <1>1, <1>10 DEF Hash!NextWord
  <2>2. E = 0
    <3>1. done + 2 = HashLength + 1
      BY <1>2, <1>10
    <3> QED
      BY <3>1, HashPlaces DEF E
  <2>3. HashRest(HashLength, q)' = HashRest(HashLength, q)
    <3>1. HashFirst(HashLength)' = HashFirst(HashLength)
      BY <1>1 DEF HashFirst, HashWord
    <3>2. Hash!Product(q, HashPoly)' = Hash!Product(q, HashPoly)
      BY <1>1 DEF HashPoly
    <3> QED
      BY <3>1, <3>2 DEF HashRest
  <2>4. HashRest(HashLength, q) = Hash!Result
    <3>1. HashRest(HashLength, q) \in SUBSET Nat
      <4>1. HashLength \in 1 .. HashLength
        OBVIOUS
      <4> QED
        BY <1>2, <4>1, HashRestType
    <3>2. \A k \in Nat : k \in HashRest(HashLength, q) <=> k + HashExtra \in remainder
      <4>1. \A k \in Nat : k + HashExtra - E = k + HashExtra
        BY <2>2
      <4> QED
        BY <1>6, <1>10, <4>1
    <3> QED
      BY <1>7, <3>1, <3>2
  <2>5. q \in HashQuotients(0)
    BY <1>5, <2>2
  <2>6. Hash!TypeOK'
    <3>1. 0 .. HashDegree - 1 \subseteq 0 .. Hash!Top /\ 0 \in 0 .. Hash!Rounds
          /\ HashLength \in 0 .. HashLength
      BY DEF Hash!Top, Hash!Rounds
    <3> QED
      BY <1>1, <1>2, <1>8, <2>1, <3>1 DEF Hash!TypeOK
  <2>7. ~(done' < HashLength)
    BY <2>1
  <2> QED
    BY <1>8, <2>1, <2>3, <2>4, <2>5, <2>6, <2>7 DEF HashInv, Hash!Ones
<1> QED
  BY <1>2, <1>9, <1>10

LEMMA HashNext == HashInv /\ [Next]_vars => HashInv'
<1> SUFFICES ASSUME HashInv, Hash!Next \/ UNCHANGED hashVars PROVE HashInv'
  BY DEF Next, vars
<1>1. CASE UNCHANGED hashVars
  <2>1. poly' = poly /\ message' = message /\ done' = done /\ remainder' = remainder /\ bit' = bit
    BY <1>1 DEF hashVars
  <2>2. \A q : HashLeft(q)' <=> HashLeft(q)
    <3> SUFFICES ASSUME NEW CONSTANT q PROVE HashLeft(q)' <=> HashLeft(q)
      OBVIOUS
    <3>1. HashRest(done + 1, q)' = HashRest(done + 1, q)
      BY <2>1, HashRestSame
    <3> QED
      BY <2>1, <3>1 DEF HashLeft, HashPlace
  <2>3. \A q : HashRest(HashLength, q)' = HashRest(HashLength, q)
    <3> SUFFICES ASSUME NEW CONSTANT q PROVE HashRest(HashLength, q)' = HashRest(HashLength, q)
      OBVIOUS
    <3>1. HashFirst(HashLength)' = HashFirst(HashLength)
      BY <2>1 DEF HashFirst, HashWord
    <3>2. Hash!Product(q, HashPoly)' = Hash!Product(q, HashPoly)
      BY <2>1 DEF HashPoly
    <3> QED
      BY <3>1, <3>2 DEF HashRest
  <2>4. Hash!TypeOK' /\ HashPlace(done + 2)' = HashPlace(done + 2)
    BY <2>1 DEF HashInv, Hash!TypeOK, HashPlace
  <2> QED
    BY <2>1, <2>2, <2>3, <2>4 DEF HashInv
<1>2. CASE Hash!Next
  BY <1>2, HashRound, HashNextWord DEF Hash!Next
<1> QED
  BY <1>1, <1>2

\* "C code to produce exactly the same CRC as VHDL": what rtu_hash() computes in
\* its register of odd shape is the remainder of the division by the polynomial,
\* for every polynomial, every width and every message.
THEOREM HashIsRight == Spec => []HashIsRemainder
<1>1. HashInv => HashIsRemainder
  <2> SUFFICES ASSUME HashInv, done = HashLength
               PROVE  \E q \in SUBSET (0 .. HashLength * HashDegree - 1) :
                         LET rest ==
                           Hash!Xor(Hash!Dividend, Hash!Product(q, poly \cup {HashDegree}))
                         IN  rest \subseteq Hash!Ones /\ Hash!Row(rest) = Hash!Row(remainder)
    BY DEF HashIsRemainder, Hash!HashIsRemainder
  <2>1. PICK q \in SUBSET (0 .. HashLength * HashDegree - 1) : HashRest(HashLength, q) = remainder
    BY DEF HashInv, HashQuotients
  <2>2. Hash!Dividend = HashFirst(HashLength)
    BY DEF Hash!Dividend, HashFirst, HashWord, HashPlace
  <2>3. Hash!Xor(Hash!Dividend, Hash!Product(q, poly \cup {HashDegree})) = remainder
    BY <2>1, <2>2 DEF HashRest, HashPoly
  <2>4. remainder \subseteq Hash!Ones
    BY DEF HashInv
  <2> QED
    BY <2>3, <2>4
<1> QED
  BY <1>1, HashInit, HashNext, PTL DEF Spec
=============================================================================
