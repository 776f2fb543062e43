----------------------------- MODULE RadiusVlan -----------------------------
(***************************************************************************)
(* The RADIUS client for VLANs, userspace/tools/radiusvlan.c: one state    *)
(* machine per access port.  When a port comes up it is put into the       *)
(* authentication VLAN, the first frame of a station is awaited, and a     *)
(* radclient process asks a server for the VLAN of that station.           *)
(*                                                                         *)
(* A step of the main loop reads one netlink message, if there is one, and *)
(* runs the machines; here a step runs the machine of one port, with the   *)
(* message for that port if that is what was read.                         *)
(***************************************************************************)
EXTENDS Integers, Sequences, FiniteSets

CONSTANTS
    Ports,       \* the access ports
    Hosts,       \* stations
    ServerList,  \* RVLAN_RADIUS_SERVERS, a sequence without repetition
    Dead,        \* the servers that never answer
    Verdict,     \* [Hosts -> VLANs], chosen_vlan for an answer about a station
    AuthVlan,    \* rvlan_auth_vlan
    MaxNews,     \* bound: netlink messages waiting for one port
    MaxErrors    \* bound: system calls and commands that fail

Servers == {ServerList[i] : i \in DOMAIN ServerList}
Vlans == {Verdict[h] : h \in Hosts} \cup {AuthVlan}

Nobody == "nobody"
Switch == "switch"     \* the sender of a frame of the switch itself

ConstantsOK ==
    /\ Nobody \notin Hosts /\ Switch \notin Hosts
    /\ ServerList \in Seq(Servers) /\ ServerList # <<>>
    /\ \A i, j \in DOMAIN ServerList : ServerList[i] = ServerList[j] => i = j
    /\ Dead \subseteq Servers
    /\ Verdict \in [Hosts -> Vlans]
    /\ MaxNews \in Nat /\ MaxErrors \in Nat

VARIABLES
    dev,      \* [Ports -> [state, up, peer, chosen]], struct rvlan_dev
    kid,      \* [Ports -> the radclient process of dev->pid, or NoKid]
    order,    \* the servers by last_failure, then by their place in the list
    vlan,     \* [Ports -> Vlans], what wrs_vlans has set
    link,     \* [Ports -> the station at the other end of the link, or Nobody]
    news,     \* [Ports -> sequence of BOOLEAN], IFF_RUNNING in unread messages
    frame,    \* [Ports -> the sender of the frame in the sniffing socket, or Nobody]
    errors,   \* bound: failures so far
    again,    \* ports told to start again, by SIGUSR2, while a query was running
    lost      \* ports that had a child that is never reaped

vars == <<dev, kid, order, vlan, link, news, frame, errors, again, lost>>

NoKid == [runs |-> FALSE, server |-> "none", who |-> Nobody]

-----------------------------------------------------------------------------
\* calloc() leaves RVLAN_GODOWN; rvlan_initial_check() knows the ports that
\* are up.
Init ==
    /\ link \in [Ports -> Hosts \cup {Nobody}]
    /\ dev = [p \in Ports |->
                 [state |-> IF link[p] # Nobody THEN "justup" ELSE "godown",
                  up |-> link[p] # Nobody, peer |-> Nobody, chosen |-> AuthVlan]]
    /\ kid = [p \in Ports |-> NoKid]
    /\ order = ServerList
    /\ vlan \in [Ports -> Vlans]
    /\ news = [p \in Ports |-> <<>>]
    /\ frame = [p \in Ports |-> Nobody]
    /\ errors = 0 /\ again = {} /\ lost = {}

Fail == errors < MaxErrors /\ errors' = errors + 1
NoError == errors' = errors

Put(p, d) == dev' = [dev EXCEPT ![p] = d]

\* rvlan_change_vlan()
SetVlan(p, v) == vlan' = [vlan EXCEPT ![p] = v]

\* rvlan_fsm(), "First of all, process up/down changes".
Current(d) ==
    IF ~d.up /\ d.state # "down" THEN [d EXCEPT !.state = "godown"]
    ELSE IF d.up /\ d.state = "down" THEN [d EXCEPT !.state = "justup"]
    ELSE d

\* The handlers.  d is the port as the handler finds it.

Down(p, d) ==
    /\ d.state \in {"down", "configured"}
    /\ Put(p, d) /\ NoError
    /\ UNCHANGED <<kid, order, vlan, frame, lost>>

\* The error of the VLAN command is ignored, those of the socket are not.
JustUp(p, d) ==
    /\ d.state = "justup"
    /\ \/ Fail /\ UNCHANGED vlan
       \/ NoError /\ SetVlan(p, AuthVlan)
    /\ Put(p, [d EXCEPT !.state = "sniff", !.chosen = AuthVlan])
    /\ frame' = [frame EXCEPT ![p] = Nobody]
    /\ UNCHANGED <<kid, order, lost>>

JustUpFails(p, d) ==
    /\ d.state = "justup"
    /\ Fail
    /\ SetVlan(p, AuthVlan)
    /\ Put(p, [d EXCEPT !.chosen = AuthVlan])
    /\ UNCHANGED <<kid, order, frame, lost>>

\* Case RVLAN_RADCLIENT.  A child that is there already is forgotten.
Query(p, d) ==
    \/ /\ Fail
       /\ Put(p, d)
       /\ UNCHANGED <<kid, lost>>
    \/ /\ NoError
       /\ Put(p, [d EXCEPT !.state = "auth"])
       /\ kid' = [kid EXCEPT ![p] = [runs |-> TRUE, server |-> Head(order), who |-> d.peer]]
       /\ lost' = IF kid[p] # NoKid THEN lost \cup {p} ELSE lost

Sniff(p, d) ==
    /\ d.state = "sniff"
    /\ frame' = [frame EXCEPT ![p] = Nobody]
    /\ IF frame[p] \in {Nobody, Switch}
       THEN Put(p, d) /\ NoError /\ UNCHANGED <<kid, lost>>
       ELSE Query(p, [d EXCEPT !.state = "radclient", !.peer = frame[p]])
    /\ UNCHANGED <<order, vlan>>

Radclient(p, d) ==
    /\ d.state = "radclient"
    /\ Query(p, d)
    /\ UNCHANGED <<order, vlan, frame>>

\* Fault: the failure is not recorded.
Failed_Forgotten(s) == order

\* rvlan_server_failed(): rvlan_server_get() takes the one that failed longest
\* ago.
Failed(s) ==
    LET last == Len(order)
        place == CHOOSE i \in 1 .. last : order[i] = s
    IN  [i \in 1 .. last |-> IF i = last THEN s
                            ELSE IF i < place THEN order[i] ELSE order[i + 1]]

\* The answer is complete when the child has closed its output.
Auth(p, d) ==
    /\ d.state = "auth"
    /\ IF kid[p].runs
       THEN Put(p, d) /\ UNCHANGED <<kid, order>>
       ELSE /\ kid' = [kid EXCEPT ![p] = NoKid]
            /\ IF kid[p].server \in Dead
               THEN /\ order' = Failed(kid[p].server)
                    /\ Put(p, [d EXCEPT !.state = "radclient"])
               ELSE /\ order' = order
                    /\ Put(p, [d EXCEPT !.state = "config", !.chosen = Verdict[kid[p].who]])
    /\ NoError
    /\ UNCHANGED <<vlan, frame, lost>>

\* The read fails: the child gets SIGTERM and is reaped on the way down.
AuthFails(p, d) ==
    /\ d.state = "auth"
    /\ Fail
    /\ Put(p, [d EXCEPT !.state = "godown"])
    /\ UNCHANGED <<kid, order, vlan, frame, lost>>

Config(p, d) ==
    /\ d.state = "config"
    /\ \/ Fail /\ UNCHANGED vlan /\ Put(p, d)
       \/ NoError /\ SetVlan(p, d.chosen) /\ Put(p, [d EXCEPT !.state = "configured"])
    /\ UNCHANGED <<kid, order, frame, lost>>

\* Cases RVLAN_GODOWN and, where it falls through, RVLAN_WAIT.
Reap(p) == kid' = [kid EXCEPT ![p] = NoKid]

\* Fault: the port is down whether or not its VLAN could be changed.
GoDown_IgnoresError(p, d) ==
    LET off == [d EXCEPT !.peer = Nobody, !.chosen = AuthVlan]
    IN  /\ d.state = "godown"
        /\ \/ Fail /\ UNCHANGED vlan
           \/ NoError /\ SetVlan(p, AuthVlan)
        /\ IF kid[p].runs
           THEN Put(p, [off EXCEPT !.state = "wait"]) /\ UNCHANGED kid
           ELSE Put(p, [off EXCEPT !.state = "down"]) /\ Reap(p)
        /\ frame' = [frame EXCEPT ![p] = Nobody]
        /\ UNCHANGED <<order, lost>>

GoDown(p, d) ==
    LET off == [d EXCEPT !.peer = Nobody, !.chosen = AuthVlan]
    IN  /\ d.state = "godown"
        /\ \/ Fail /\ Put(p, off) /\ UNCHANGED <<vlan, kid>>
           \/ /\ NoError
              /\ SetVlan(p, AuthVlan)
              /\ IF kid[p].runs
                 THEN Put(p, [off EXCEPT !.state = "wait"]) /\ UNCHANGED kid
                 ELSE Put(p, [off EXCEPT !.state = "down"]) /\ Reap(p)
        /\ frame' = [frame EXCEPT ![p] = Nobody]
        /\ UNCHANGED <<order, lost>>

\* Fault: the killed child is not waited for.
Wait_Never(p, d) ==
    /\ d.state = "wait"
    /\ Put(p, [d EXCEPT !.state = "down"])
    /\ NoError
    /\ UNCHANGED <<order, vlan, frame, lost, kid>>

Wait(p, d) ==
    /\ d.state = "wait"
    /\ IF kid[p].runs
       THEN Put(p, d) /\ UNCHANGED kid
       ELSE Put(p, [d EXCEPT !.state = "down"]) /\ Reap(p)
    /\ NoError
    /\ UNCHANGED <<order, vlan, frame, lost>>

Fsm(p, d) ==
    \/ Down(p, d) \/ JustUp(p, d) \/ JustUpFails(p, d)
    \/ Sniff(p, d) \/ Radclient(p, d)
    \/ Auth(p, d) \/ AuthFails(p, d) \/ Config(p, d)
    \/ GoDown(p, d) \/ Wait(p, d)

\* Fault: the socket is emptied before the machine runs.
Message_All(p) == news[p] # <<>> /\ news' = [news EXCEPT ![p] = <<>>]

\* rvlan_process_netlink(): one message, then the machine runs.
Message(p) == news[p] # <<>> /\ news' = [news EXCEPT ![p] = Tail(@)]

Run(p) ==
    \/ /\ Message(p)
       /\ LET read == Len(news[p]) - Len(news'[p])
          IN  Fsm(p, Current([dev[p] EXCEPT !.up = news[p][read]]))
       /\ UNCHANGED <<link, again>>
    \/ /\ Fsm(p, Current(dev[p]))
       /\ UNCHANGED <<news, link, again>>

\* rvlan_reauth(), SIGUSR2
Reauth ==
    /\ dev' = [p \in Ports |-> [dev[p] EXCEPT !.state = "justup"]]
    /\ again' = again \cup {p \in Ports : kid[p] # NoKid}
    /\ UNCHANGED <<kid, order, vlan, link, news, frame, errors, lost>>

-----------------------------------------------------------------------------
(* The ports, the stations and the children                                *)

LinkChange(p, h) ==
    /\ Len(news[p]) < MaxNews
    /\ (link[p] = Nobody) # (h = Nobody)
    /\ link' = [link EXCEPT ![p] = h]
    /\ news' = [news EXCEPT ![p] = Append(@, h # Nobody)]
    /\ UNCHANGED <<dev, kid, order, vlan, frame, errors, again, lost>>

\* A frame of the station, or of the switch, reaches the sniffing socket.
Receive(p) ==
    /\ dev[p].state = "sniff" /\ frame[p] = Nobody
    /\ link[p] # Nobody
    /\ \E h \in {link[p], Switch} : frame' = [frame EXCEPT ![p] = h]
    /\ UNCHANGED <<dev, kid, order, vlan, link, news, errors, again, lost>>

ChildExits(p) ==
    /\ kid[p].runs
    /\ kid' = [kid EXCEPT ![p].runs = FALSE]
    /\ UNCHANGED <<dev, order, vlan, link, news, frame, errors, again, lost>>

Next ==
    \/ Reauth
    \/ \E p \in Ports :
        \/ Run(p)
        \/ Receive(p) \/ ChildExits(p)
        \/ \E h \in Hosts \cup {Nobody} : LinkChange(p, h)

Spec == Init /\ [][Next]_vars

\* A frame of the station arrives now and then.
StationFrame(p) == Receive(p) /\ frame'[p] # Switch

\* The main loop runs, reads its messages, children end, stations send.
Fairness ==
    \A p \in Ports :
        /\ WF_vars(Run(p)) /\ WF_vars(Run(p) /\ news' # news)
        /\ WF_vars(ChildExits(p))
        /\ SF_vars(StationFrame(p))

FairSpec == Spec /\ Fairness

-----------------------------------------------------------------------------
States == {"godown", "down", "justup", "sniff", "radclient", "auth", "config",
           "configured", "wait"}

TypeOK ==
    /\ dev \in [Ports -> [state : States, up : BOOLEAN, peer : Hosts \cup {Nobody},
                          chosen : Vlans]]
    /\ kid \in [Ports -> [runs : BOOLEAN, server : Servers, who : Hosts] \cup {NoKid}]
    /\ order \in [DOMAIN ServerList -> Servers]
    /\ vlan \in [Ports -> Vlans]
    /\ link \in [Ports -> Hosts \cup {Nobody}]
    /\ \A p \in Ports : news[p] \in Seq(BOOLEAN) /\ Len(news[p]) <= MaxNews
    /\ frame \in [Ports -> Hosts \cup {Nobody, Switch}]
    /\ errors \in 0 .. MaxErrors
    /\ again \subseteq Ports /\ lost \subseteq Ports

\* A configured port is in the VLAN of the station that is connected now: no
\* answer about a station that was there before is applied, however links,
\* queries and signals follow each other.
OwnVlan ==
    \A p \in Ports :
        (dev[p].state = "configured" /\ news[p] = <<>> /\ link[p] # Nobody)
            => vlan[p] = Verdict[link[p]]

\* A port in state DOWN is back in the authentication VLAN, although the
\* command that changes the VLAN may fail.
DownIsAuth == \A p \in Ports : dev[p].state = "down" => vlan[p] = AuthVlan

\* "but if we kill our child we must reap it": no child is forgotten, unless
\* SIGUSR2 came during its query.
ChildrenReaped == lost \subseteq again

\* A port whose link stays up is configured in the end, when one of the
\* servers answers and signals have stopped.
Configured ==
    \A p \in Ports :
        (<>[](link[p] # Nobody) /\ <>[][~Reauth]_vars)
            => <>(dev[p].state = "configured")
=============================================================================
