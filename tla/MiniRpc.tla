------------------------------ MODULE MiniRpc ------------------------------
(***************************************************************************)
(* Remote calls between the daemons and their tools over a local socket:   *)
(* mini-rpc/minipc-core.c, minipc-server.c and minipc-client.c.            *)
(*                                                                         *)
(* Sockets are streams (SOCK_STREAM): a recv() with room for the largest   *)
(* packet takes all the packets that wait, and what follows the first one  *)
(* is never looked at.  The packets that wait are taken to fit into one    *)
(* buffer; a client that is interrupted while it waits is left out.        *)
(***************************************************************************)
EXTENDS Integers, Sequences, SequencesExt, FiniteSets

CONSTANTS
    Conns,        \* connections that can exist at a time
    MaxClients,   \* MINIPC_MAX_CLIENTS
    MaxCalls      \* [Conns -> Nat], bound: calls on a connection

ConstantsOK ==
    /\ IsFiniteSet(Conns)
    /\ MaxClients \in Nat \ {0} /\ MaxCalls \in [Conns -> Nat]

VARIABLES
    conn,      \* [Conns -> a connection, see Closed]
    backlog,   \* connections that wait for accept()
    slots,     \* [Pos -> Fds \cup {NoFd}], link->fd[]
    fdset,     \* link->fdset without the listening socket
    srv        \* minipc_server_action(): [pc, set, listen, pos]

vars == <<conn, backlog, slots, fdset, srv>>

Pos == 1 .. MaxClients
Fds == 1 .. Cardinality(Conns)
NoFd == 0

\* client: the caller, server: the other end.  calls counts the calls made,
\* late those that timed out, got is the call that the last answer was for.
\* reqs and reps are the packets under way, by the number of their call.
Closed ==
    [client |-> "closed", server |-> "none", fd |-> NoFd,
     calls |-> 0, late |-> 0, got |-> 0, reqs |-> <<>>, reps |-> <<>>]

IdleServer == [pc |-> "idle", set |-> {}, listen |-> FALSE, pos |-> 1]

Init ==
    /\ conn = [c \in Conns |-> Closed]
    /\ backlog = <<>>
    /\ slots = [i \in Pos |-> NoFd] /\ fdset = {}
    /\ srv = IdleServer

-----------------------------------------------------------------------------
(* The client                                                              *)

\* __minipc_link_create()
Connect(c) ==
    /\ conn[c] = Closed
    /\ conn' = [conn EXCEPT ![c].client = "idle", ![c].server = "backlog"]
    /\ backlog' = Append(backlog, c)
    /\ UNCHANGED <<slots, fdset, srv>>

\* minipc_call() sends ...
Call(c) ==
    LET n == conn[c].calls + 1
    IN  /\ conn[c].client = "idle" /\ conn[c].server # "closed"
        /\ n <= MaxCalls[c]
        /\ conn' = [conn EXCEPT ![c].client = "waiting", ![c].calls = n,
                                ![c].reqs = Append(@, n)]
        /\ UNCHANGED <<backlog, slots, fdset, srv>>

\* ... without MSG_NOSIGNAL: on a connection that the server has closed the
\* caller is killed by SIGPIPE.
CallDies(c) ==
    /\ conn[c].client = "idle" /\ conn[c].server = "closed"
    /\ conn' = [conn EXCEPT ![c] = Closed]
    /\ UNCHANGED <<backlog, slots, fdset, srv>>

\* poll() and recv(): an answer, whichever call it is for.
Answer(c) ==
    /\ conn[c].client = "waiting" /\ conn[c].reps # <<>>
    /\ conn' = [conn EXCEPT ![c].client = "idle", ![c].got = Head(conn[c].reps),
                            ![c].reps = <<>>]
    /\ UNCHANGED <<backlog, slots, fdset, srv>>

\* The server has closed: a short answer, EPROTO.
AnswerEof(c) ==
    /\ conn[c].client = "waiting" /\ conn[c].reps = <<>> /\ conn[c].server = "closed"
    /\ conn' = [conn EXCEPT ![c].client = "idle"]
    /\ UNCHANGED <<backlog, slots, fdset, srv>>

\* ETIMEDOUT.  The request stays where it is.
TimeOut(c) ==
    /\ conn[c].client = "waiting" /\ conn[c].reps = <<>> /\ conn[c].server # "closed"
    /\ conn' = [conn EXCEPT ![c].client = "idle", ![c].late = @ + 1]
    /\ UNCHANGED <<backlog, slots, fdset, srv>>

\* minipc_close(), or the end of the process.
Disconnect(c) ==
    /\ conn[c].client # "closed"
    /\ conn' = [conn EXCEPT ![c] = IF conn[c].server = "closed" THEN Closed
                                   ELSE [@ EXCEPT !.client = "closed", !.reps = <<>>]]
    /\ UNCHANGED <<backlog, slots, fdset, srv>>

-----------------------------------------------------------------------------
(* The server, minipc_server_action()                                      *)

Owner(fd) == CHOOSE c \in Conns : conn[c].fd = fd
Readable(fd) == conn[Owner(fd)].reqs # <<>> \/ conn[Owner(fd)].client = "closed"

Select ==
    LET ready == {fd \in fdset : Readable(fd)}
    IN  /\ srv.pc = "idle"
        /\ ready # {} \/ backlog # <<>>
        /\ srv' = [pc |-> "clients", set |-> ready, listen |-> backlog # <<>>, pos |-> 1]
        /\ UNCHANGED <<conn, backlog, slots, fdset>>

\* Fault: the loop ends at the first free place.
Ready_StopsAtGap ==
    {i \in Pos : /\ i >= srv.pos /\ slots[i] \in srv.set
                 /\ \A j \in 1 .. i : slots[j] # NoFd}

\* Fault: FD_ISSET() is left out.
Ready_NotAsked == {i \in Pos : i >= srv.pos /\ slots[i] # NoFd}

\* "First, look for all clients": the places that the loop has still to handle.
Ready == {i \in Pos : i >= srv.pos /\ slots[i] \in srv.set}

\* The connection after close(fd).
Shut(k) ==
    IF k.client = "closed" THEN Closed
    ELSE [k EXCEPT !.server = "closed", !.fd = NoFd, !.reqs = <<>>]

\* Fault: the place is not given back.
CloseClient_KeepsPlace(i, c) ==
    /\ conn' = [conn EXCEPT ![c] = Shut(@)]
    /\ fdset' = fdset \ {slots[i]}
    /\ UNCHANGED slots

\* mpc_handle_client(), close_client
CloseClient(i, c) ==
    /\ conn' = [conn EXCEPT ![c] = Shut(@)]
    /\ fdset' = fdset \ {slots[i]}
    /\ slots' = [slots EXCEPT ![i] = NoFd]

\* Fault: the request stays in the socket, as with MSG_PEEK.
Serve_Peeks(c) == conn' = [conn EXCEPT ![c].reps = Append(@, Head(conn[c].reqs))]

\* The function is called, its result or its error is sent.
Serve(c) ==
    conn' = [conn EXCEPT ![c].reqs = <<>>, ![c].reps = Append(@, Head(conn[c].reqs))]

\* mpc_handle_client().  A request of a client that is gone is served, too:
\* the answer cannot be sent and the connection is closed.
HandleClient ==
    /\ srv.pc = "clients" /\ Ready # {}
    /\ LET i == CHOOSE j \in Ready : \A k \in Ready : j <= k
           c == Owner(slots[i])
           next == [srv EXCEPT !.pos = i + 1]
       IN  \/ /\ conn[c].client = "closed"
              /\ CloseClient(i, c)
              /\ srv' = next
           \/ /\ conn[c].client # "closed" /\ conn[c].reqs # <<>>
              /\ Serve(c)
              /\ srv' = next
              /\ UNCHANGED <<slots, fdset>>
           \/ /\ conn[c].client # "closed" /\ conn[c].reqs = <<>>
              /\ srv' = [srv EXCEPT !.pc = "blocked"]
              /\ UNCHANGED <<conn, slots, fdset>>
    /\ UNCHANGED backlog

\* mpc_handle_connection(): accept() returns the lowest number that is free,
\* and a client for which there is no place is closed at once.
Accept ==
    LET c == Head(backlog)
        free == {fd \in Fds : \A d \in Conns : conn[d].fd # fd}
        fd == CHOOSE f \in free : \A g \in free : f <= g
        places == {i \in Pos : slots[i] = NoFd}
        i == CHOOSE j \in places : \A k \in places : j <= k
    IN  /\ backlog' = Tail(backlog)
        /\ IF places = {}
           THEN /\ conn' = [conn EXCEPT ![c] = Shut(@)]
                /\ UNCHANGED <<slots, fdset>>
           ELSE /\ conn' = [conn EXCEPT ![c].server = "open", ![c].fd = fd]
                /\ slots' = [slots EXCEPT ![i] = fd]
                /\ fdset' = fdset \cup {fd}

\* "Finally, look for a new client".
HandleConnection ==
    /\ srv.pc = "clients" /\ Ready = {}
    /\ IF srv.listen THEN Accept ELSE UNCHANGED <<conn, backlog, slots, fdset>>
    /\ srv' = IdleServer

\* The server ends and is started again.
Restart ==
    /\ conn' = [c \in Conns |-> Shut(conn[c])]
    /\ conn # conn'
    /\ backlog' = <<>> /\ slots' = [i \in Pos |-> NoFd] /\ fdset' = {}
    /\ srv' = IdleServer

ServerAction == Select \/ HandleClient \/ HandleConnection

Next ==
    \/ \E c \in Conns :
        \/ Connect(c) \/ Call(c) \/ CallDies(c)
        \/ Answer(c) \/ AnswerEof(c) \/ TimeOut(c) \/ Disconnect(c)
    \/ ServerAction \/ Restart

Spec == Init /\ [][Next]_vars

\* The server comes back to its main loop again and again.
Fairness == WF_vars(ServerAction)

FairSpec == Spec /\ Fairness

-----------------------------------------------------------------------------
TypeOK ==
    /\ \A c \in Conns :
        /\ conn[c].client \in {"closed", "idle", "waiting"}
        /\ conn[c].server \in {"none", "backlog", "open", "closed"}
        /\ conn[c].fd \in Fds \cup {NoFd}
        /\ {conn[c].calls, conn[c].late, conn[c].got} \subseteq 0 .. MaxCalls[c]
        /\ ToSet(conn[c].reqs) \cup ToSet(conn[c].reps) \subseteq 1 .. MaxCalls[c]
    /\ ToSet(backlog) \subseteq Conns
    /\ slots \in [Pos -> Fds \cup {NoFd}] /\ fdset \subseteq Fds
    /\ srv.pc \in {"idle", "clients", "blocked"} /\ srv.set \subseteq Fds
    /\ srv.listen \in BOOLEAN /\ srv.pos \in 1 .. MaxClients + 1

\* Only the type of an answer is compared with the call.  It is the answer to
\* this call if none has timed out on the connection; after time-outs it may
\* belong to an earlier call, by no more calls than have timed out, and never
\* to one that was answered before.
AnswerIsFor ==
    \A c \in Conns :
        (conn[c].client = "waiting" /\ conn[c].reps # <<>>) =>
            LET n == Head(conn[c].reps)
            IN  /\ n > conn[c].got
                /\ n >= conn[c].calls - conn[c].late

\* A main loop that calls minipc_server_action() never hangs in recv(): what
\* select() reported of a descriptor is still true of whoever has it when its
\* turn comes.
NeverBlocks == srv.pc # "blocked"

\* The places are those of the connections that were accepted and not closed:
\* none is lost, none is used twice, and select() looks at all of them.
PlacesOfClients ==
    LET open == {c \in Conns : conn[c].fd # NoFd}
        used == {i \in Pos : slots[i] # NoFd}
    IN  /\ {slots[i] : i \in used} = {conn[c].fd : c \in open}
        /\ Cardinality(used) = Cardinality(open)
        /\ fdset = {conn[c].fd : c \in open}

\* A client that calls is answered, or finds its connection closed, unless it
\* stops waiting.
AnsweredOn(c) ==
    (conn[c].client = "waiting")
        ~> (conn[c].reps # <<>> \/ conn[c].server = "closed" \/ conn[c].client # "waiting")
=============================================================================
