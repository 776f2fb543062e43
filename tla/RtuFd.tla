-------------------------------- MODULE RtuFd --------------------------------
(***************************************************************************)
(* The filtering database of the RTU daemon, userspace/wrsw_rtud: the hash *)
(* table of rtu_fd.c, the copy of it in the gateware, and the three        *)
(* threads of rtud.c that work on it: learning (requests of the gateware   *)
(* for unknown stations), ageing (ports that went down, entries not used   *)
(* for the aging time) and wripc (requests of the tools).                  *)
(*                                                                         *)
(* An operation that rtu_fd.c runs under fd_mutex, and one that it runs    *)
(* without, is one step; what the threads read before and use after such   *)
(* a step is kept in variables.  Times are ages: an entry's age is the     *)
(* time since its last_access_t and stops counting once it exceeds the     *)
(* aging time.                                                             *)
(***************************************************************************)
EXTENDS Integers, Sequences, FiniteSets

CONSTANTS
    Macs,          \* stations
    Vids,          \* VLANs; vid 0 is the VLAN of untagged frames
    Fids,          \* filtering database identifiers; clean_vd() gives fid 0 to vid 0
    NPorts,        \* hal_nports_local; port NPorts is the CPU
    NBuckets,      \* RTU_BUCKETS, 4 in the code
    Rows,          \* rows of the table, HTAB_ENTRIES in the code
    Hash,          \* [Macs \X Fids -> Rows], rtu_hash()
    StaticEntries, \* sequence of [mac, mask]: rtu_create_static_entries()
    Stations,      \* the sources of frames
    RpcMacs,       \* bound: stations the tools name in their requests
    RpcMasks,      \* bound: port masks the tools name in their requests
    AgingTime,     \* aging_time, in ticks of one second
    MaxQueue       \* bound: unrecognised requests waiting in the gateware

ASSUME RtuConstants ==
    /\ Hash \in [Macs \X Fids -> Rows]
    /\ NBuckets \in Nat \ {0}
    /\ AgingTime \in Nat \ {0}
    /\ NPorts \in Nat \ {0}
    /\ MaxQueue \in Nat
    /\ 0 \in Vids /\ 0 \in Fids
    /\ Stations \subseteq Macs /\ RpcMacs \subseteq Macs
    /\ RpcMasks \subseteq SUBSET (0 .. NPorts)
    /\ StaticEntries \in Seq([mac : Macs, mask : SUBSET (0 .. NPorts)])

Ports == 0 .. NPorts - 1
Cpu == NPorts
Masks == SUBSET (Ports \cup {Cpu})
Buckets == 0 .. NBuckets - 1
Keys == Macs \X Fids
Static == FALSE       \* RTU_ENTRY_TYPE_STATIC
Dynamic == TRUE       \* RTU_ENTRY_TYPE_DYNAMIC
MaxAge == AgingTime + 1
NoKey == <<>>

\* struct rtu_filtering_entry: key is the pair (mac, fid), mask is
\* port_mask_dst, addr the bucket part of addr.
Entries == [valid : BOOLEAN, key : Keys \cup {NoKey}, mask : Masks,
            dynamic : BOOLEAN, age : 0 .. MaxAge, addr : Buckets]

\* What memset() leaves.  last_access_t = 0 is older than any aging time.
Empty == [valid |-> FALSE, key |-> NoKey, mask |-> {}, dynamic |-> Static,
          age |-> MaxAge, addr |-> 0]

\* The words of an entry that rtu_write_htab_entry() sends to the gateware.
HwEntries == [valid : BOOLEAN, key : Keys \cup {NoKey}, mask : Masks]
HwImage(e) == [valid |-> e.valid, key |-> e.key, mask |-> e.mask]

VARIABLES
    tab,        \* [Rows -> [Buckets -> Entries]], rtu_htab in shared memory
    hw,         \* [Rows -> [Buckets -> HwEntries]], the gateware's table
    vlan,       \* [Vids -> [drop, fid]], vlan_tab
    used,       \* aging RAM of the gateware: <<row, bucket>> hit since the last read
    queue,      \* UFIFO: unrecognised requests [mac, vid, port]
    link,       \* [Ports -> BOOLEAN], state of the ports according to the HAL
    ports,      \* [Ports -> BOOLEAN], hal_ports_local_copy
    wasUp,      \* [Ports -> BOOLEAN], port_was_up
    ageing,     \* where the ageing thread is: "read", "ports" or "flush"
    visit,      \* the port rtu_update_ports_state() looks at next
    learning    \* the request the learning thread has read, or NoRequest

vars == <<tab, hw, vlan, used, queue, link, ports, wasUp, ageing, visit, learning>>

NoRequest == [mac |-> "none"]
Requests == [mac : Macs, vid : Vids, port : Ports]

-----------------------------------------------------------------------------
(* The table: rtu_fd.c                                                     *)

\* A database is the table and the gateware's copy of it.
Db == [tab |-> tab, hw |-> hw]

Places == Rows \X Buckets
Holds(t, k) == {p \in Places : t[p[1]][p[2]].valid /\ t[p[1]][p[2]].key = k}

\* htab_search(): the first bucket in the order of the scan.
First(t, k) ==
    CHOOSE p \in Holds(t, k) :
        \A q \in Holds(t, k) : p[1] = q[1] => p[2] <= q[2]

\* htab_count_buckets()
Count(row) == Cardinality({b \in Buckets : row[b].valid})

\* rtu_fd_create_entry(): how says what to do with an existing entry.
WriteEntry(db, r, b, at, e) ==
    [tab |-> [db.tab EXCEPT ![r][b] = e],
     hw  |-> [db.hw EXCEPT ![r][at] = HwImage(e)]]

\* Fault: the static entry of a station is overridden by what is learned.
UpdateEntry_Unprotected(db, k, mask, dynamic, how) ==
    LET p == First(db.tab, k)
        old == db.tab[p[1]][p[2]]
    IN  WriteEntry(db, p[1], p[2], old.addr,
            [old EXCEPT !.mask = mask, !.dynamic = dynamic, !.age = 0])

\* Fault: a station that has moved keeps the age of its entry.
UpdateEntry_KeepsAge(db, k, mask, dynamic, how) ==
    LET p == First(db.tab, k)
        old == db.tab[p[1]][p[2]]
        new == [old EXCEPT !.mask = mask, !.dynamic = dynamic]
        protected == how = "override_dynamic" /\ old.dynamic = Static /\ dynamic = Dynamic
    IN  IF protected \/ (old.mask = mask /\ old.dynamic = dynamic)
        THEN db
        ELSE WriteEntry(db, p[1], p[2], old.addr, new)

UpdateEntry(db, k, mask, dynamic, how) ==
    LET p == First(db.tab, k)
        old == db.tab[p[1]][p[2]]
        new == [old EXCEPT !.mask = mask, !.dynamic = dynamic, !.age = 0]
        protected == how = "override_dynamic" /\ old.dynamic = Static /\ dynamic = Dynamic
    IN  IF protected \/ (old.mask = mask /\ old.dynamic = dynamic)
        THEN db
        ELSE WriteEntry(db, p[1], p[2], old.addr, new)

InsertEntry(db, k, mask, dynamic) ==
    LET r == Hash[k]
        n == Count(db.tab[r])
    IN  IF n = NBuckets     \* -ENOMEM
        THEN db
        ELSE WriteEntry(db, r, n, n,
                 [valid |-> TRUE, key |-> k, mask |-> mask, dynamic |-> dynamic,
                  age |-> 0, addr |-> n])

\* Fault: the table is not searched first.
CreateEntry_NoSearch(db, vl, mac, vid, mask, dynamic, how) ==
    IF vl[vid].drop THEN db ELSE InsertEntry(db, <<mac, vl[vid].fid>>, mask, dynamic)

CreateEntry(db, vl, mac, vid, mask, dynamic, how) ==
    LET k == <<mac, vl[vid].fid>>
    IN  IF vl[vid].drop THEN db
        ELSE IF Holds(db.tab, k) # {} THEN UpdateEntry(db, k, mask, dynamic, how)
        ELSE InsertEntry(db, k, mask, dynamic)

\* Faults: the buckets behind the deleted one are not moved; the last bucket
\* of the row is not written to the gateware.
DeleteBucket_NoMove(tr, b) ==
    [row |-> [tr.row EXCEPT ![b] = Empty], hw |-> [tr.hw EXCEPT ![b] = HwImage(Empty)]]

DeleteBucket_ShortWrite(tr, b) ==
    [row |-> [tr.row EXCEPT ![b] = Empty],
     hw |-> [i \in Buckets |-> IF i < Count(tr.row) - 1 /\ i = b THEN HwImage(Empty) ELSE tr.hw[i]]]

\* delete_htab_entry(): clear bucket b, move the buckets behind it one place
\* down, and write the row to the gateware.
DeleteBucket(tr, b) ==
    LET n == Count(tr.row)
        row == [i \in Buckets |->
                   IF b <= i /\ i < n - 1 THEN tr.row[i + 1]
                   ELSE IF i = b THEN Empty ELSE tr.row[i]]
    IN  [row |-> row,
         hw |-> [i \in Buckets |-> IF i < n THEN HwImage(row[i]) ELSE tr.hw[i]]]

\* The scans go through the buckets from the last to the first and queue a
\* HW_REMOVE_REQ at ent->addr for each match; rtu_hw_commit() then serves the
\* queue in that order.
ScanOrder_SkipsFirst == [i \in 1 .. NBuckets - 1 |-> NBuckets - i]   \* fault: --j > 0
ScanOrder == [i \in 1 .. NBuckets |-> NBuckets - i]

RemoveMatches(row, hwrow, S) ==
    LET scan[n \in 0 .. Len(ScanOrder)] ==
            IF n = 0 THEN [row |-> row, hw |-> hwrow]
            ELSE LET b == ScanOrder[n]
                 IN  IF b \in S THEN DeleteBucket(scan[n - 1], row[b].addr) ELSE scan[n - 1]
    IN  scan[Len(ScanOrder)]

\* A scan of the table with S as the places of the entries that match.
RemoveAll(db, S) ==
    LET new == [r \in Rows |->
                   RemoveMatches(db.tab[r], db.hw[r], {b \in Buckets : <<r, b>> \in S})]
    IN  [tab |-> [r \in Rows |-> new[r].row], hw |-> [r \in Rows |-> new[r].hw]]

\* The places of the valid entries of a type.
OfType(t, dynamic) ==
    {p \in Places : t[p[1]][p[2]].valid /\ t[p[1]][p[2]].dynamic = dynamic}

\* rtu_fd_remove_entry()
RemoveEntry(db, mac, mask, dynamic) ==
    RemoveAll(db, {p \in OfType(db.tab, dynamic) :
                       /\ db.tab[p[1]][p[2]].key[1] = mac
                       /\ db.tab[p[1]][p[2]].mask = mask})

\* rtu_fd_clear_entries_for_port(): entries of several ports stay.
ClearEntriesForPort(db, port, dynamic) ==
    RemoveAll(db, {p \in OfType(db.tab, dynamic) : db.tab[p[1]][p[2]].mask = {port}})

\* rtu_fd_age_update(): the entries at the places the gateware has marked,
\* static ones excepted.
AgeUpdate(t) ==
    [r \in Rows |-> [b \in Buckets |->
        IF <<r, b>> \in used /\ t[r][b].dynamic = Dynamic
        THEN [t[r][b] EXCEPT !.age = 0] ELSE t[r][b]]]

\* rtu_fd_age_out()
Old(e) == e.valid /\ e.dynamic = Dynamic /\ e.age > AgingTime
AgeOut(db) == RemoveAll(db, {p \in Places : Old(db.tab[p[1]][p[2]])})

-----------------------------------------------------------------------------
(* The daemon: rtud.c and rtud_exports.c                                   *)

SetDb(db) == tab' = db.tab /\ hw' = db.hw

\* rtu_create_static_entries()
CreateStatic(db, vl) ==
    LET made[n \in 0 .. Len(StaticEntries)] ==
            IF n = 0 THEN db
            ELSE LET s == StaticEntries[n]
                 IN  CreateEntry(made[n - 1], vl, s.mac, 0, s.mask, Static, "override")
    IN  made[Len(StaticEntries)]

EmptyDb == [tab |-> [r \in Rows |-> [b \in Buckets |-> Empty]],
            hw  |-> [r \in Rows |-> [b \in Buckets |-> HwImage(Empty)]]]

\* clean_vd(): only vid 0 is not dropped.
CleanVlans == [v \in Vids |-> [drop |-> v # 0, fid |-> 0]]

\* rtu_daemon_init() on a switch that has just booted.
Init ==
    /\ vlan = CleanVlans
    /\ LET db == CreateStatic(EmptyDb, CleanVlans)
       IN  tab = db.tab /\ hw = db.hw
    /\ used = {}
    /\ queue = <<>>
    /\ link \in [Ports -> BOOLEAN]
    /\ ports = link
    /\ wasUp = link
    /\ ageing = "read"
    /\ visit = 0
    /\ learning = NoRequest

\* The daemon is started again: it finds its tables in shared memory, clears
\* the aging RAM and writes the static entries over what is there.
Restart ==
    /\ SetDb(CreateStatic(Db, vlan))
    /\ used' = {}
    /\ ports' = link
    /\ wasUp' = link
    /\ ageing' = "read"
    /\ visit' = 0
    /\ learning' = NoRequest
    /\ UNCHANGED <<vlan, queue, link>>

\* The HAL reports a change of a port.
LinkChange(p) ==
    /\ link' = [link EXCEPT ![p] = ~@]
    /\ UNCHANGED <<tab, hw, vlan, used, queue, ports, wasUp, ageing, visit, learning>>

\* A frame of station m enters at port p.  The gateware looks its source up:
\* a hit on that port marks the bucket in the aging RAM, anything else is a
\* request to learn, dropped when the FIFO is full.
HwHit(k, p) ==
    {Hash[k]} \X {b \in Buckets :
        LET row == hw[Hash[k]]
        IN  /\ row[b].valid /\ row[b].key = k /\ p \in row[b].mask
            /\ \A c \in 0 .. b - 1 : ~(row[c].valid /\ row[c].key = k)}

Frame(m, v, p) ==
    LET hit == HwHit(<<m, vlan[v].fid>>, p)
    IN  /\ link[p]
        /\ ~vlan[v].drop
        /\ IF hit # {} THEN used' = used \cup hit /\ UNCHANGED queue
           ELSE /\ Len(queue) < MaxQueue
                /\ queue' = Append(queue, [mac |-> m, vid |-> v, port |-> p])
                /\ UNCHANGED used
        /\ UNCHANGED <<tab, hw, vlan, link, ports, wasUp, ageing, visit, learning>>

\* A second passes.
Tick ==
    /\ tab' = [r \in Rows |-> [b \in Buckets |->
                  [tab[r][b] EXCEPT !.age = IF @ < MaxAge THEN @ + 1 ELSE @]]]
    /\ UNCHANGED <<hw, vlan, used, queue, link, ports, wasUp, ageing, visit, learning>>

\* rtu_daemon_learning_process(): read a request and look its port up in the
\* local copy of the port states; a request of a port that is down is dropped.
TakeRequest ==
    /\ learning = NoRequest
    /\ queue # <<>>
    /\ queue' = Tail(queue)
    /\ learning' = IF ports[Head(queue).port] THEN Head(queue) ELSE NoRequest
    /\ UNCHANGED <<tab, hw, vlan, used, link, ports, wasUp, ageing, visit>>

\* ... then rtu_fd_create_entry(), under fd_mutex.
Learn ==
    /\ learning # NoRequest
    /\ SetDb(CreateEntry(Db, vlan, learning.mac, learning.vid, {learning.port},
                         Dynamic, "override_dynamic"))
    /\ learning' = NoRequest
    /\ UNCHANGED <<vlan, used, queue, link, ports, wasUp, ageing, visit>>

\* rtu_update_ports_state(): read_ports() ...
ReadPorts ==
    /\ ageing = "read"
    /\ ports' = link
    /\ visit' = 0
    /\ ageing' = "ports"
    /\ UNCHANGED <<tab, hw, vlan, used, queue, link, wasUp, learning>>

\* Fault: the loop over the ports goes one too far.
VisitPort_OneTooFar ==
    /\ ageing = "ports"
    /\ visit <= NPorts
    /\ visit' = visit + 1
    /\ UNCHANGED <<tab, hw, vlan, used, queue, link, ports, wasUp, ageing, learning>>

\* ... then each port in turn: one that went down loses its dynamic entries.
VisitPort ==
    /\ ageing = "ports"
    /\ SetDb(IF wasUp[visit] /\ ~ports[visit]
             THEN ClearEntriesForPort(Db, visit, Dynamic) ELSE Db)
    /\ wasUp' = [wasUp EXCEPT ![visit] = ports[visit]]
    /\ IF visit + 1 < NPorts THEN visit' = visit + 1 /\ UNCHANGED ageing
       ELSE visit' = 0 /\ ageing' = "flush"
    /\ UNCHANGED <<vlan, used, queue, link, ports, learning>>

\* rtu_fd_flush(), under fd_mutex, then sleep(1).
Flush ==
    /\ ageing = "flush"
    /\ SetDb(AgeOut([tab |-> AgeUpdate(tab), hw |-> hw]))
    /\ used' = {}
    /\ ageing' = "read"
    /\ UNCHANGED <<vlan, queue, link, ports, wasUp, visit, learning>>

\* rtudexp_add_entry(), rtudexp_remove_entry(), rtudexp_clear_entries() and
\* rtudexp_vlan_entry() on behalf of the tools.
RpcAdd(m, v, mask, dynamic) ==
    /\ mask # {}
    /\ SetDb(CreateEntry(Db, vlan, m, v, mask, dynamic, "override"))
    /\ UNCHANGED <<vlan, used, queue, link, ports, wasUp, ageing, visit, learning>>

RpcRemove(m, mask, dynamic) ==
    /\ mask # {}
    /\ SetDb(RemoveEntry(Db, m, mask, dynamic))
    /\ UNCHANGED <<vlan, used, queue, link, ports, wasUp, ageing, visit, learning>>

RpcClear(p, dynamic) ==
    /\ SetDb(ClearEntriesForPort(Db, p, dynamic))
    /\ UNCHANGED <<vlan, used, queue, link, ports, wasUp, ageing, visit, learning>>

RpcVlan(v, f, drop) ==
    /\ vlan' = [vlan EXCEPT ![v] = [drop |-> drop, fid |-> f]]
    /\ UNCHANGED <<tab, hw, used, queue, link, ports, wasUp, ageing, visit, learning>>

-----------------------------------------------------------------------------
Rpc ==
    \/ \E m \in RpcMacs, v \in Vids, mask \in RpcMasks, d \in BOOLEAN :
          RpcAdd(m, v, mask, d) \/ RpcRemove(m, mask, d)
    \/ \E p \in Ports \cup {Cpu}, d \in BOOLEAN : RpcClear(p, d)
    \/ \E v \in Vids, f \in Fids, drop \in BOOLEAN : RpcVlan(v, f, drop)

LearningThread == TakeRequest \/ Learn
AgeingThread == ReadPorts \/ VisitPort \/ Flush

Next ==
    \/ LearningThread
    \/ AgeingThread
    \/ Rpc
    \/ Restart
    \/ Tick
    \/ \E p \in Ports : LinkChange(p)
    \/ \E m \in Stations, v \in Vids, p \in Ports : Frame(m, v, p)

Spec == Init /\ [][Next]_vars

\* The threads run and time passes; nothing is asked of stations and tools.
FairSpec ==
    /\ Spec
    /\ WF_vars(LearningThread)
    /\ WF_vars(AgeingThread)
    /\ WF_vars(Tick)

-----------------------------------------------------------------------------
(* Properties                                                              *)

\* Every variable stays in its range; in particular rtu_update_ports_state()
\* never looks at a port beyond the last one, whichever calls came between.
TypeOK ==
    /\ tab \in [Rows -> [Buckets -> Entries]]
    /\ hw \in [Rows -> [Buckets -> HwEntries]]
    /\ vlan \in [Vids -> [drop : BOOLEAN, fid : Fids]]
    /\ used \subseteq Places
    /\ queue \in Seq(Requests) /\ Len(queue) <= MaxQueue
    /\ link \in [Ports -> BOOLEAN]
    /\ ports \in [Ports -> BOOLEAN]
    /\ wasUp \in [Ports -> BOOLEAN]
    /\ ageing \in {"read", "ports", "flush"}
    /\ visit \in Ports
    /\ learning \in Requests \cup {NoRequest}

\* The valid buckets of a row are its first ones.  htab_count_buckets() is the
\* index of the next insertion, so a gap would let it overwrite an entry, and
\* the gateware would not look behind the gap.
BucketsContiguous ==
    \A r \in Rows, b \in Buckets : tab[r][b].valid => \A c \in 0 .. b : tab[r][c].valid

\* The gateware forwards by the table the daemon believes it does.
HwMatchesTable ==
    \A r \in Rows, b \in Buckets : hw[r][b] = HwImage(tab[r][b])

\* A key has one entry.
KeysUnique == \A k \in Keys : Cardinality(Holds(tab, k)) <= 1

\* Keys with a dynamic entry.
Learned == {k \in Keys : \E p \in Holds(tab, k) : tab[p[1]][p[2]].dynamic}

\* A step on behalf of station m.
SpeaksOf(m) ==
    \/ \E v \in Vids, p \in Ports : Frame(m, v, p)
    \/ \E v \in Vids, mask \in RpcMasks, d \in BOOLEAN : RpcAdd(m, v, mask, d)

StaticOf(t) == {k \in Keys : \E p \in Holds(t, k) : t[p[1]][p[2]].dynamic = Static}

\* Neither traffic nor time takes a static entry away or makes it dynamic
\* (rtu_shmem.h: "entries may be static (permanent) or dynamic (learned)").
StaticPermanent ==
    [][LearningThread \/ AgeingThread \/ Restart => StaticOf(tab) \subseteq StaticOf(tab')]_vars

\* Learning never touches a static entry, wherever deletions have left it.
LearningKeepsStatic ==
    [][Learn => \A r \in Rows, b \in Buckets :
          tab[r][b].valid /\ tab[r][b].dynamic = Static => tab'[r][b] = tab[r][b]]_vars

\* A dynamic entry older than the aging time does not survive a flush.
FlushRemovesOld ==
    [][Flush => \A r \in Rows, b \in Buckets : ~Old(tab'[r][b])]_vars

\* A station that falls silent is forgotten: once it sends nothing, the tools
\* do not name it and the daemon is not restarted, its dynamic entries go.
SilentStationForgotten ==
    \A m \in Stations :
        <>[][~Restart /\ ~SpeaksOf(m)]_vars => <>[](\A k \in Keys : k[1] = m => k \notin Learned)

\* What the table says of a key, and the promise it implements.
EntryOf(k) ==
    LET p == First(tab, k)
        e == tab[p[1]][p[2]]
    IN  IF Holds(tab, k) = {} THEN NoKey
        ELSE [mask |-> e.mask, dynamic |-> e.dynamic, age |-> e.age]

MacOf(k) == k[1]

Promise == INSTANCE FilterDb WITH
    Masks <- RpcMasks, Ports <- Ports \cup {Cpu}, Mac <- MacOf, NoEntry <- NoKey,
    Configured <- {StaticEntries[i] : i \in DOMAIN StaticEntries},
    entries <- [k \in Keys |-> EntryOf(k)]

FilterDbSpec == Promise!Spec
=============================================================================
