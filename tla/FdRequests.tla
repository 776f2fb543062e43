----------------------------- MODULE FdRequests -----------------------------
(***************************************************************************)
(* The operations of userspace/wrsw_rtud/rtu_fd.c step by step: each       *)
(* changes the table, puts what the gateware must be told on hw_req_list,  *)
(* and then serves and frees the whole list.  rtu_fd_create_entry() and    *)
(* rtu_fd_flush() take fd_mutex; rtu_fd_clear_entries_for_port() and       *)
(* rtu_fd_remove_entry(), which other threads call, do not.                *)
(*                                                                         *)
(* Every key has a row of its own, so that a bucket is known by its key.   *)
(* RtuFd has full rows, ages and VLANs, and takes an operation as one step.*)
(***************************************************************************)
EXTENDS Naturals, FiniteSets

CONSTANTS
    Threads,    \* learning, ageing, wripc
    Serialized, \* the operations without fd_mutex happen not to overlap others
    Keys,       \* filtering entries
    Masks,      \* port masks
    Nodes       \* the heap, from which requests are allocated

Locked == {"create", "flush"}      \* they take fd_mutex

None == "none"       \* no entry
Nil == "NULL"
Nobody == "nobody"

\* The table has so many places; a thread needs a request for each key at most.
ConstantsOK ==
    /\ Serialized \in BOOLEAN
    /\ None \notin Masks /\ Nil \notin Nodes /\ Nobody \notin Threads
    /\ IsFiniteSet(Threads) /\ IsFiniteSet(Keys) /\ IsFiniteSet(Nodes)
    /\ Cardinality(Nodes) >= Cardinality(Threads) * Cardinality(Keys)

VARIABLES
    tab,         \* [Keys -> Masks \cup {None}], rtu_htab in shared memory
    hwTab,       \* the gateware's table
    mutex,       \* who has fd_mutex
    hw_req_list, \* the first request, or Nil
    req,         \* [Nodes -> [type, key, next]], struct hw_req
    inUse,       \* the nodes that are allocated
    thr,         \* [Threads -> [pc, op, todo, new, ptr, n]]
    torn         \* the keys in which a crash has left the tables different

vars == <<tab, hwTab, mutex, hw_req_list, req, inUse, thr, torn>>

\* op: "write" or "remove", what is requested; todo: keys to request it for;
\* new: the request being queued; ptr: the request looked at; n: n_buckets.
Idle == [pc |-> "idle", op |-> "none", todo |-> {}, new |-> Nil, ptr |-> Nil, n |-> 0]

Init ==
    /\ tab = [k \in Keys |-> None] /\ hwTab = tab
    /\ mutex = Nobody
    /\ hw_req_list = Nil
    /\ req = [x \in Nodes |-> [type |-> "none", key |-> "none", next |-> Nil]]
    /\ inUse = {}
    /\ thr = [t \in Threads |-> Idle]
    /\ torn = {}

-----------------------------------------------------------------------------
(* The beginning of an operation: the table, and what is to be requested   *)

Enter(t, op) ==
    /\ thr[t].pc = "idle"
    /\ IF op \in Locked \/ Serialized THEN mutex = Nobody /\ mutex' = t ELSE UNCHANGED mutex

Request(t, type, keys) ==
    thr' = [thr EXCEPT ![t] = [Idle EXCEPT !.pc = "request", !.op = type, !.todo = keys]]

\* rtu_fd_create_entry(): an entry that is there already is left as it is.
CreateEntry(t, k, mask) ==
    /\ Enter(t, "create")
    /\ tab' = [tab EXCEPT ![k] = mask]
    /\ Request(t, "write", IF tab[k] = mask THEN {} ELSE {k})
    /\ UNCHANGED <<hwTab, hw_req_list, req, inUse, torn>>

Present == {k \in Keys : tab[k] # None}

\* rtu_fd_flush(): those of the present entries that are too old.
Flush(t) ==
    /\ Enter(t, "flush")
    /\ \E old \in SUBSET Present : Request(t, "remove", old)
    /\ UNCHANGED <<tab, hwTab, hw_req_list, req, inUse, torn>>

\* rtu_fd_clear_entries_for_port()
ClearEntriesForPort(t, mask) ==
    /\ Enter(t, "clear")
    /\ Request(t, "remove", {k \in Keys : tab[k] = mask})
    /\ UNCHANGED <<tab, hwTab, hw_req_list, req, inUse, torn>>

\* rtu_fd_remove_entry()
RemoveEntry(t, k) ==
    /\ Enter(t, "remove")
    /\ Request(t, "remove", Present \cap {k})
    /\ UNCHANGED <<tab, hwTab, hw_req_list, req, inUse, torn>>

-----------------------------------------------------------------------------
(* hw_request()                                                            *)

\* tail()
LastOf(head) ==
    LET last[x \in Nodes] == IF req[x].next = Nil THEN x ELSE last[req[x].next]
    IN  last[head]

\* malloc(), and the place where the request is to be hung.
HwRequest(t) ==
    /\ thr[t].pc = "request" /\ thr[t].todo # {}
    /\ LET x == CHOOSE x \in Nodes \ inUse : TRUE
           k == CHOOSE k \in thr[t].todo : TRUE
       IN  /\ req' = [req EXCEPT ![x] = [type |-> thr[t].op, key |-> k, next |-> Nil]]
           /\ inUse' = inUse \cup {x}
           /\ thr' = [thr EXCEPT ![t].pc = "link", ![t].todo = @ \ {k}, ![t].new = x,
                                 ![t].ptr = IF hw_req_list = Nil THEN Nil
                                            ELSE LastOf(hw_req_list)]
    /\ UNCHANGED <<tab, hwTab, mutex, hw_req_list, torn>>

Link(t) ==
    /\ thr[t].pc = "link"
    /\ IF thr[t].ptr = Nil
       THEN hw_req_list' = thr[t].new /\ UNCHANGED req
       ELSE req' = [req EXCEPT ![thr[t].ptr].next = thr[t].new] /\ UNCHANGED hw_req_list
    /\ thr' = [thr EXCEPT ![t].pc = "request", ![t].ptr = Nil]
    /\ UNCHANGED <<tab, hwTab, mutex, inUse, torn>>

-----------------------------------------------------------------------------
(* rtu_fd_commit()                                                         *)

Commit(t) ==
    /\ thr[t].pc = "request" /\ thr[t].todo = {}
    /\ thr' = [thr EXCEPT ![t].pc = IF hw_req_list = Nil THEN "leave" ELSE "serve",
                          ![t].ptr = hw_req_list]
    /\ UNCHANGED <<tab, hwTab, mutex, hw_req_list, req, inUse, torn>>

\* The list is freed from its head once its end is reached.
Advance(t) ==
    LET x == req[thr[t].ptr].next
    IN  thr' = [thr EXCEPT ![t].pc = IF x = Nil THEN "free" ELSE "serve",
                           ![t].ptr = IF x = Nil THEN hw_req_list ELSE x]

Serving(t, type) == thr[t].pc = "serve" /\ req[thr[t].ptr].type = type

\* rtu_write_htab_entry(): the entry as it is now.
ServeWrite(t) ==
    /\ Serving(t, "write")
    /\ LET k == req[thr[t].ptr].key IN hwTab' = [hwTab EXCEPT ![k] = tab[k]]
    /\ Advance(t)
    /\ UNCHANGED <<tab, mutex, hw_req_list, req, inUse, torn>>

Buckets(k) == IF tab[k] = None THEN 0 ELSE 1

\* Fault: the buckets are counted when the entry is gone.
ServeRemove_CountsLate(t) ==
    /\ Serving(t, "remove")
    /\ LET k == req[thr[t].ptr].key
       IN  /\ tab' = [tab EXCEPT ![k] = None]
           /\ thr' = [thr EXCEPT ![t].pc = "rewrite", ![t].n = 0]
    /\ UNCHANGED <<hwTab, mutex, hw_req_list, req, inUse, torn>>

\* delete_htab_entry(): first the table,
ServeRemove(t) ==
    /\ Serving(t, "remove")
    /\ LET k == req[thr[t].ptr].key
       IN  /\ tab' = [tab EXCEPT ![k] = None]
           /\ thr' = [thr EXCEPT ![t].pc = "rewrite", ![t].n = Buckets(k)]
    /\ UNCHANGED <<hwTab, mutex, hw_req_list, req, inUse, torn>>

\* then as many buckets of the gateware's row as were in use.
Rewrite(t) ==
    /\ thr[t].pc = "rewrite"
    /\ LET k == req[thr[t].ptr].key
       IN  hwTab' = IF thr[t].n = 0 THEN hwTab ELSE [hwTab EXCEPT ![k] = tab[k]]
    /\ Advance(t)
    /\ UNCHANGED <<tab, mutex, hw_req_list, req, inUse, torn>>

\* clean_list()
Free(t) ==
    /\ thr[t].pc = "free"
    /\ inUse' = inUse \ {thr[t].ptr}
    /\ LET x == req[thr[t].ptr].next
       IN  thr' = [thr EXCEPT ![t].pc = IF x = Nil THEN "clear" ELSE "free", ![t].ptr = x]
    /\ UNCHANGED <<tab, hwTab, mutex, hw_req_list, req, torn>>

\* Fault: the list keeps its head.
ClearList_Keeps(t) ==
    /\ thr[t].pc = "clear"
    /\ thr' = [thr EXCEPT ![t].pc = "leave"]
    /\ UNCHANGED <<tab, hwTab, mutex, hw_req_list, req, inUse, torn>>

ClearList(t) ==
    /\ thr[t].pc = "clear"
    /\ hw_req_list' = Nil
    /\ thr' = [thr EXCEPT ![t].pc = "leave"]
    /\ UNCHANGED <<tab, hwTab, mutex, req, inUse, torn>>

Leave(t) ==
    /\ thr[t].pc = "leave"
    /\ mutex' = IF mutex = t THEN Nobody ELSE mutex
    /\ thr' = [thr EXCEPT ![t] = Idle]
    /\ UNCHANGED <<tab, hwTab, hw_req_list, req, inUse, torn>>

-----------------------------------------------------------------------------
\* The daemon dies and is started again: the tables remain, the list does not.
Crash ==
    /\ \E t \in Threads : thr[t].pc # "idle"
    /\ torn' = torn \cup {k \in Keys : tab[k] # hwTab[k]}
    /\ mutex' = Nobody
    /\ hw_req_list' = Nil
    /\ inUse' = {}
    /\ thr' = [t \in Threads |-> Idle]
    /\ UNCHANGED <<tab, hwTab, req>>

Step(t) ==
    \/ \E k \in Keys, mask \in Masks : CreateEntry(t, k, mask)
    \/ Flush(t)
    \/ \E mask \in Masks : ClearEntriesForPort(t, mask)
    \/ \E k \in Keys : RemoveEntry(t, k)
    \/ HwRequest(t) \/ Link(t) \/ Commit(t)
    \/ ServeWrite(t) \/ ServeRemove(t) \/ Rewrite(t) \/ Free(t) \/ ClearList(t)
    \/ Leave(t)

Next ==
    \/ Crash
    \/ \E t \in Threads : Step(t)

Spec == Init /\ [][Next]_vars

-----------------------------------------------------------------------------
TypeOK ==
    /\ tab \in [Keys -> Masks \cup {None}] /\ hwTab \in [Keys -> Masks \cup {None}]
    /\ mutex \in Threads \cup {Nobody}
    /\ hw_req_list \in Nodes \cup {Nil}
    /\ req \in [Nodes -> [type : {"none", "write", "remove"}, key : Keys \cup {"none"},
                          next : Nodes \cup {Nil}]]
    /\ inUse \subseteq Nodes
    /\ thr \in [Threads ->
           [pc : {"idle", "request", "link", "serve", "rewrite", "free", "clear", "leave"},
            op : {"none", "write", "remove"}, todo : SUBSET Keys,
            new : Nodes \cup {Nil}, ptr : Nodes \cup {Nil}, n : 0 .. 1]]
    /\ torn \subseteq Keys

\* "this list no longer needed": nobody looks at a request that was freed, be
\* it on the way to the end of the list or while serving it.
RequestsAlive ==
    \A t \in Threads :
        /\ thr[t].ptr # Nil => thr[t].ptr \in inUse
        /\ thr[t].pc = "request" /\ hw_req_list # Nil => hw_req_list \in inUse

\* The table is a "mirror of ZBT SRAM memory MAC address table": when no
\* operation is under way the gateware has what the table has, except for the
\* entries that a daemon died over.
MirrorsTable ==
    (\A t \in Threads : thr[t].pc = "idle")
        => \A k \in Keys : tab[k] = hwTab[k] \/ k \in torn
=============================================================================
