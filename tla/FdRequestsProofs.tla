-------------------------- MODULE FdRequestsProofs --------------------------
(***************************************************************************)
(* As long as the operations of rtu_fd.c do not overlap, the requests are  *)
(* alive while somebody looks at them, and the gateware's table follows    *)
(* the one in memory.                                                      *)
(*                                                                         *)
(* The requests hang in memory: that they are a list, which ends, is part  *)
(* of the invariant, and with it the keys that are still to be written for *)
(* and how far rtu_fd_commit() or clean_list() has come.                   *)
(***************************************************************************)
EXTENDS FdRequests, Iteration, FiniteSetTheorems, TLAPS

-----------------------------------------------------------------------------
(* The end of a list                                                       *)

\* g is a way of m steps along nx from x to e.
Way(N, nx, m, g, x, e) ==
    /\ g \in [0 .. m -> N] /\ g[0] = x /\ g[m] = e
    /\ \A i \in 1 .. m : nx[g[i - 1]] = g[i]

LeadsTo(N, nx, x, e) == \E m \in Nat : \E g : Way(N, nx, m, g, x, e)

\* f walks to the end of every list.
Walks(N, nil, nx, f) == f = [x \in N |-> IF nx[x] = nil THEN x ELSE f[nx[x]]]

\* What leads to e is what leads to e from the next one.
LEMMA LeadsOn ==
    ASSUME NEW N, NEW nx, NEW x \in N, NEW e \in N, x # e, nx[x] \in N
    PROVE  LeadsTo(N, nx, x, e) <=> LeadsTo(N, nx, nx[x], e)
<1> DEFINE y == nx[x]
<1>1. ASSUME LeadsTo(N, nx, x, e) PROVE LeadsTo(N, nx, y, e)
  <2>1. PICK m \in Nat : \E g : Way(N, nx, m, g, x, e)
    BY <1>1 DEF LeadsTo
  <2>2. PICK g : Way(N, nx, m, g, x, e)
    BY <2>1
  <2>3. m # 0
    BY <2>2 DEF Way
  <2> DEFINE h == [i \in 0 .. m - 1 |-> g[i + 1]]
  <2>4. h \in [0 .. m - 1 -> N] /\ h[m - 1] = e /\ m - 1 \in Nat
    BY <2>2, <2>3 DEF Way
  <2>5. h[0] = y
    <3>1. 1 \in 1 .. m /\ nx[g[1 - 1]] = g[1] /\ h[0] = g[0 + 1]
      BY <2>2, <2>3 DEF Way
    <3> QED
      BY <2>2, <3>1 DEF Way
  <2>6. ASSUME NEW i \in 1 .. m - 1 PROVE nx[h[i - 1]] = h[i]
    <3>1. i + 1 \in 1 .. m /\ (i + 1) - 1 = i /\ (i - 1) + 1 = i
          /\ i - 1 \in 0 .. m - 1 /\ i \in 0 .. m - 1
      BY <2>3
    <3>2. nx[g[(i + 1) - 1]] = g[i + 1]
      BY <2>2, <3>1 DEF Way
    <3> QED
      BY <3>1, <3>2
  <2> HIDE DEF h
  <2>7. Way(N, nx, m - 1, h, y, e)
    BY <2>4, <2>5, <2>6 DEF Way
  <2> QED
    BY <2>4, <2>7 DEF LeadsTo
<1>2. ASSUME LeadsTo(N, nx, y, e) PROVE LeadsTo(N, nx, x, e)
  <2>1. PICK m \in Nat : \E g : Way(N, nx, m, g, y, e)
    BY <1>2 DEF LeadsTo
  <2>2. PICK g : Way(N, nx, m, g, y, e)
    BY <2>1
  <2> DEFINE h == [i \in 0 .. m + 1 |-> IF i = 0 THEN x ELSE g[i - 1]]
  <2>3. h \in [0 .. m + 1 -> N] /\ h[0] = x /\ h[m + 1] = e /\ m + 1 \in Nat
    BY <2>2 DEF Way
  <2>4. ASSUME NEW i \in 1 .. m + 1 PROVE nx[h[i - 1]] = h[i]
    <3>1. h[i] = g[i - 1] /\ i - 1 \in 0 .. m
      OBVIOUS
    <3>2. CASE i = 1
      BY <2>2, <3>1, <3>2 DEF Way
    <3>3. CASE i # 1
      <4>1. i - 1 \in 1 .. m /\ h[i - 1] = g[(i - 1) - 1]
        BY <3>3
      <4> QED
        BY <2>2, <3>1, <4>1 DEF Way
    <3> QED
      BY <3>2, <3>3
  <2> HIDE DEF h
  <2>5. Way(N, nx, m + 1, h, x, e)
    BY <2>3, <2>4 DEF Way
  <2> QED
    BY <2>3, <2>5 DEF LeadsTo
<1> QED
  BY <1>1, <1>2

\* There is a function that walks to the end of every list, whatever it is on a
\* ring, which has no end.
LEMMA EndExists ==
    ASSUME NEW N, NEW nil, nil \notin N, NEW nx \in [N -> N \cup {nil}]
    PROVE  \E f : Walks(N, nil, nx, f)
<1> DEFINE Ends(x) == {e \in N : nx[e] = nil /\ LeadsTo(N, nx, x, e)}
           f == [x \in N |-> CHOOSE e \in Ends(x) : TRUE]
<1>1. ASSUME NEW x \in N, nx[x] = nil PROVE f[x] = x
  <2>1. Ends(x) = {x}
    <3> DEFINE g == [i \in 0 .. 0 |-> x]
    <3>1. Way(N, nx, 0, g, x, x)
      BY DEF Way
    <3> HIDE DEF g
    <3>2. LeadsTo(N, nx, x, x)
      BY <3>1 DEF LeadsTo
    <3>3. ASSUME NEW e \in Ends(x) PROVE e = x
      <4>1. PICK m \in Nat : \E h : Way(N, nx, m, h, x, e)
        BY <3>3 DEF LeadsTo
      <4>2. PICK h : Way(N, nx, m, h, x, e)
        BY <4>1
      <4>3. m = 0
        <5> SUFFICES ASSUME m # 0 PROVE FALSE
          OBVIOUS
        <5>1. 1 \in 1 .. m /\ 1 \in 0 .. m /\ nx[h[1 - 1]] = h[1]
          BY <4>2 DEF Way
        <5> QED
          BY <1>1, <4>2, <5>1 DEF Way
      <4> QED
        BY <4>2, <4>3 DEF Way
    <3> QED
      BY <1>1, <3>2, <3>3
  <2> HIDE DEF Ends
  <2> QED
    BY <2>1
<1>2. ASSUME NEW x \in N, nx[x] # nil PROVE f[x] = f[nx[x]]
  <2>1. nx[x] \in N
    BY <1>2
  <2>2. Ends(x) = Ends(nx[x])
    <3> SUFFICES ASSUME NEW e \in N, nx[e] = nil
                 PROVE  LeadsTo(N, nx, x, e) <=> LeadsTo(N, nx, nx[x], e)
      OBVIOUS
    <3> QED
      BY <1>2, <2>1, LeadsOn
  <2> HIDE DEF Ends
  <2> QED
    BY <2>1, <2>2
<1>3. f = [x \in N |-> IF nx[x] = nil THEN x ELSE f[nx[x]]]
  <2>1. \A x \in N : f[x] = IF nx[x] = nil THEN x ELSE f[nx[x]]
    BY <1>1, <1>2
  <2>2. f = [x \in N |-> f[x]]
    OBVIOUS
  <2> HIDE DEF f
  <2> QED
    BY <2>1, <2>2
<1> HIDE DEF f
<1> QED
  BY <1>3 DEF Walks

-----------------------------------------------------------------------------
(* The list                                                                *)

\* L[1], ..., L[n] is a list of requests.
Linked(n, L) ==
    /\ L \in [1 .. n -> Nodes]
    /\ \A i, j \in 1 .. n : L[i] = L[j] => i = j
    /\ \A i \in 1 .. n : req[L[i]].next = IF i = n THEN Nil ELSE L[i + 1]

\* tail() finds the last request of a list.
LEMMA TailOfList ==
    ASSUME ConstantsOK, TypeOK, NEW n \in Nat \ {0}, NEW L, Linked(n, L)
    PROVE  LastOf(L[1]) = L[n]
<1> DEFINE last == CHOOSE f : f = [x \in Nodes |-> IF req[x].next = Nil THEN x ELSE f[req[x].next]]
<1>1. Nil \notin Nodes /\ req \in [Nodes -> [type : {"none", "write", "remove"}, key : Keys \cup {"none"},
                                            next : Nodes \cup {Nil}]]
  BY DEF ConstantsOK, TypeOK
<1>2. \E f : f = [x \in Nodes |-> IF req[x].next = Nil THEN x ELSE f[req[x].next]]
  <2>1. PICK nx : nx = [x \in Nodes |-> req[x].next]
    OBVIOUS
  <2>2. nx \in [Nodes -> Nodes \cup {Nil}]
    BY <1>1, <2>1
  <2>3. PICK f : Walks(Nodes, Nil, nx, f)
    BY <1>1, <2>2, EndExists
  <2>4. f = [x \in Nodes |-> IF req[x].next = Nil THEN x ELSE f[req[x].next]]
    BY <2>1, <2>3 DEF Walks
  <2> QED
    BY <2>4
<1>3. last = [x \in Nodes |-> IF req[x].next = Nil THEN x ELSE last[req[x].next]]
  BY <1>2
<1>4. LastOf(L[1]) = last[L[1]]
  BY DEF LastOf
<1> HIDE DEF last
<1>5. \A x \in Nodes : last[x] = IF req[x].next = Nil THEN x ELSE last[req[x].next]
  BY <1>3
<1> DEFINE S == {m \in Nat : m < n => last[L[n - m]] = L[n]}
<1>6. 0 \in S
  BY <1>1, <1>5 DEF Linked
<1>7. ASSUME NEW m \in Nat, m \in S PROVE m + 1 \in S
  <2> SUFFICES ASSUME m + 1 < n PROVE last[L[n - (m + 1)]] = L[n]
    OBVIOUS
  <2> DEFINE i == n - (m + 1)
  <2>1. i \in 1 .. n /\ i # n /\ i + 1 = n - m /\ m < n /\ i + 1 \in 1 .. n
    OBVIOUS
  <2> HIDE DEF i
  <2>2. req[L[i]].next = L[i + 1] /\ L[i] \in Nodes /\ L[i + 1] \in Nodes
    BY <2>1 DEF Linked
  <2>3. last[L[i]] = last[L[i + 1]]
    BY <1>1, <1>5, <2>2
  <2>4. last[L[n - m]] = L[n]
    BY <1>7, <2>1
  <2> QED
    BY <2>1, <2>3, <2>4 DEF i
<1> HIDE DEF S
<1>8. n - 1 \in S
  BY <1>6, <1>7, NumberInduction
<1> QED
  BY <1>4, <1>8 DEF S

-----------------------------------------------------------------------------
(* The invariant                                                           *)

\* The requests from the i-th on.
Listed(i, n, L) == {L[j] : j \in i .. n}

Keyed(xs) == {req[x].key : x \in xs}

\* The keys that xs and more make the gateware's entries be written for.  What
\* is to be removed is the same in both tables until its turn comes.
Unwritten(t, more, xs) == IF thr[t].op = "write" THEN more \cup Keyed(xs) ELSE {}

\* The tables differ in S at most, or where a daemon died.
AgreeBut(S) == \A k \in Keys : tab[k] = hwTab[k] \/ k \in torn \/ k \in S

First(n, L) == IF n = 0 THEN Nil ELSE L[1]

\* hw_request() is about to take the next key.
Requesting(t, n, L) ==
    /\ thr[t].pc = "request" /\ thr[t].ptr = Nil
    /\ hw_req_list = First(n, L) /\ inUse = Listed(1, n, L)
    /\ n + Cardinality(thr[t].todo) <= Cardinality(Keys)
    /\ AgreeBut(Unwritten(t, thr[t].todo, inUse))

\* It has the new request, and knows the last one.
Linking(t, n, L) ==
    /\ thr[t].pc = "link" /\ thr[t].ptr = IF n = 0 THEN Nil ELSE L[n]
    /\ thr[t].new \in Nodes \ Listed(1, n, L)
    /\ req[thr[t].new].type = thr[t].op /\ req[thr[t].new].next = Nil
    /\ req[thr[t].new].key \in Keys
    /\ hw_req_list = First(n, L) /\ inUse = Listed(1, n, L) \cup {thr[t].new}
    /\ n + 1 + Cardinality(thr[t].todo) <= Cardinality(Keys)
    /\ AgreeBut(Unwritten(t, thr[t].todo, inUse))

\* rtu_fd_commit() is at the p-th request,
AtRequest(t, n, p, L) ==
    /\ thr[t].ptr = L[p]
    /\ hw_req_list = L[1] /\ inUse = Listed(1, n, L)

InService(t, n, p, L) ==
    /\ thr[t].pc = "serve"
    /\ AtRequest(t, n, p, L)
    /\ AgreeBut(Unwritten(t, {}, Listed(p, n, L)))

\* of which it has removed the entry, but not yet from the gateware.
Rewriting(t, n, p, L) ==
    /\ thr[t].pc = "rewrite" /\ thr[t].op = "remove"
    /\ AtRequest(t, n, p, L)
    /\ AgreeBut(IF thr[t].n = 0 THEN {} ELSE {req[L[p]].key})

\* clean_list() frees the p-th.
Freeing(t, n, p, L) ==
    /\ thr[t].pc = "free" /\ thr[t].ptr = L[p]
    /\ inUse = Listed(p, n, L)
    /\ AgreeBut({})

Clearing(t) ==
    /\ thr[t].pc = "clear" /\ thr[t].ptr = Nil
    /\ inUse = {}
    /\ AgreeBut({})

Leaving(t) ==
    /\ thr[t].pc = "leave" /\ thr[t].ptr = Nil
    /\ hw_req_list = Nil /\ inUse = {}
    /\ AgreeBut({})

\* All requests of the list are of the operation.
Requested(t, n, L) ==
    /\ Linked(n, L)
    /\ \A i \in 1 .. n : req[L[i]].type = thr[t].op /\ req[L[i]].key \in Keys

Stage(t, n, L) ==
    \/ Requesting(t, n, L) \/ Linking(t, n, L)
    \/ \E p \in 1 .. n : InService(t, n, p, L) \/ Rewriting(t, n, p, L) \/ Freeing(t, n, p, L)
    \/ Clearing(t) \/ Leaving(t)

\* t is in an operation, of which L is the list.
Operating(t) ==
    /\ thr[t].op \in {"write", "remove"}
    /\ \E n \in 0 .. Cardinality(Keys) : \E L \in [1 .. n -> Nodes] :
           Requested(t, n, L) /\ Stage(t, n, L)

Quiet == hw_req_list = Nil /\ inUse = {} /\ AgreeBut({})

\* Whoever has fd_mutex is alone, and has the list.
IInv ==
    /\ TypeOK
    /\ \A t \in Threads : t # mutex => thr[t] = Idle
    /\ IF mutex = Nobody THEN Quiet ELSE Operating(mutex)

-----------------------------------------------------------------------------
(* The steps                                                               *)

Thread ==
    [pc : {"idle", "request", "link", "serve", "rewrite", "free", "clear", "leave"},
     op : {"none", "write", "remove"}, todo : SUBSET Keys,
     new : Nodes \cup {Nil}, ptr : Nodes \cup {Nil}, n : 0 .. 1]

Hung == [type : {"none", "write", "remove"}, key : Keys \cup {"none"}, next : Nodes \cup {Nil}]

\* Whoever is in an operation has fd_mutex.
LEMMA Holder ==
    ASSUME ConstantsOK, IInv, NEW t \in Threads, thr[t].pc # "idle"
    PROVE  mutex = t /\ mutex # Nobody /\ Operating(t)
BY DEF ConstantsOK, IInv, Idle

\* A thread that has it goes on.
LEMMA GoesOn ==
    ASSUME ConstantsOK, IInv, NEW t \in Threads, mutex' = t, TypeOK',
           \A s \in Threads \ {t} : thr'[s] = Idle,
           thr'[t].op \in {"write", "remove"},
           NEW n \in 0 .. Cardinality(Keys), NEW L \in [1 .. n -> Nodes],
           Requested(t, n, L)', Stage(t, n, L)'
    PROVE  IInv'
<1>1. Operating(t)'
  BY DEF Operating
<1> QED
  BY <1>1 DEF IInv, ConstantsOK

LEMMA KeysFinite ==
    ASSUME ConstantsOK
    PROVE  /\ Cardinality(Keys) \in Nat
           /\ \A S \in SUBSET Keys : /\ IsFiniteSet(S) /\ Cardinality(S) \in Nat
                                     /\ Cardinality(S) <= Cardinality(Keys)
BY FS_CardinalityType, FS_Subset DEF ConstantsOK

\* The beginning of an operation.
LEMMA Begin ==
    ASSUME ConstantsOK, IInv, NEW t \in Threads, mutex = Nobody, mutex' = t,
           NEW type \in {"write", "remove"}, NEW keys \in SUBSET Keys,
           Request(t, type, keys), tab' \in [Keys -> Masks \cup {None}],
           \A k \in Keys : tab'[k] # tab[k] => type = "write" /\ k \in keys,
           UNCHANGED <<hwTab, hw_req_list, req, inUse, torn>>
    PROVE  IInv'
<1> DEFINE L == [i \in 1 .. 0 |-> Nil]
<1>1. TypeOK /\ thr \in [Threads -> Thread] /\ Quiet /\ \A s \in Threads : thr[s] = Idle
  BY DEF IInv, TypeOK, Thread, ConstantsOK
<1>2. thr'[t] = [Idle EXCEPT !.pc = "request", !.op = type, !.todo = keys]
      /\ thr' = [thr EXCEPT ![t] = thr'[t]]
  BY <1>1 DEF Request
<1>3. /\ thr'[t].pc = "request" /\ thr'[t].op = type /\ thr'[t].todo = keys
      /\ thr'[t].ptr = Nil /\ thr'[t] \in Thread
  <2>1. thr'[t] = [pc |-> "request", op |-> type, todo |-> keys, new |-> Nil, ptr |-> Nil, n |-> 0]
    BY <1>2 DEF Idle
  <2>2. 0 \in 0 .. 1
    OBVIOUS
  <2> QED
    BY <2>1, <2>2 DEF Thread
<1>4. thr' \in [Threads -> Thread] /\ \A s \in Threads \ {t} : thr'[s] = Idle
  BY <1>1, <1>2, <1>3
<1>5. TypeOK'
  BY <1>1, <1>4 DEF TypeOK, Thread
<1>6. Cardinality(Keys) \in Nat /\ Cardinality(keys) \in Nat /\ Cardinality(keys) <= Cardinality(Keys)
  BY KeysFinite
<1>7. 0 \in 0 .. Cardinality(Keys) /\ L \in [1 .. 0 -> Nodes] /\ Listed(1, 0, L) = {}
  BY <1>6 DEF Listed
<1> HIDE DEF L
<1>8. Requested(t, 0, L)'
  BY <1>7 DEF Requested, Linked
<1>9. AgreeBut(Unwritten(t, keys, {}))'
  BY <1>1, <1>3 DEF Quiet, AgreeBut, Unwritten
<1>10. Requesting(t, 0, L)'
  <2>1. hw_req_list' = First(0, L) /\ inUse' = Listed(1, 0, L)
    BY <1>1, <1>7 DEF Quiet, First
  <2>2. inUse' = {}
    BY <1>7, <2>1
  <2> QED
    BY <1>3, <1>6, <1>9, <2>1, <2>2 DEF Requesting
<1> QED
  BY <1>3, <1>4, <1>5, <1>7, <1>8, <1>10, GoesOn DEF Stage

LEMMA BeginSteps ==
    ASSUME ConstantsOK, Serialized, IInv, NEW t \in Threads,
           \/ \E k \in Keys, mask \in Masks : CreateEntry(t, k, mask)
           \/ Flush(t)
           \/ \E mask \in Masks : ClearEntriesForPort(t, mask)
           \/ \E k \in Keys : RemoveEntry(t, k)
    PROVE  IInv'
<1>1. tab \in [Keys -> Masks \cup {None}]
  BY DEF IInv, TypeOK
<1>2. ASSUME NEW k \in Keys, NEW mask \in Masks, CreateEntry(t, k, mask) PROVE IInv'
  <2> DEFINE keys == IF tab[k] = mask THEN {} ELSE {k}
  <2>1. /\ mutex = Nobody /\ mutex' = t /\ Request(t, "write", keys)
        /\ keys \in SUBSET Keys
        /\ tab' = [tab EXCEPT ![k] = mask]
        /\ UNCHANGED <<hwTab, hw_req_list, req, inUse, torn>>
    BY <1>2 DEF CreateEntry, Enter
  <2>2. tab' \in [Keys -> Masks \cup {None}] /\ \A j \in Keys : tab'[j] # tab[j] => j \in keys
    BY <1>1, <2>1
  <2> HIDE DEF keys
  <2> QED
    BY <2>1, <2>2, Begin
<1>3. ASSUME Flush(t) PROVE IInv'
  <2>1. PICK old \in SUBSET Present : Request(t, "remove", old)
    BY <1>3 DEF Flush
  <2>2. /\ mutex = Nobody /\ mutex' = t /\ old \in SUBSET Keys
        /\ UNCHANGED <<tab, hwTab, hw_req_list, req, inUse, torn>>
    BY <1>3 DEF Flush, Enter, Present
  <2> QED
    BY <1>1, <2>1, <2>2, Begin
<1>4. ASSUME NEW mask \in Masks, ClearEntriesForPort(t, mask) PROVE IInv'
  <2> DEFINE keys == {k \in Keys : tab[k] = mask}
  <2>1. /\ mutex = Nobody /\ mutex' = t /\ Request(t, "remove", keys)
        /\ keys \in SUBSET Keys
        /\ UNCHANGED <<tab, hwTab, hw_req_list, req, inUse, torn>>
    BY <1>4 DEF ClearEntriesForPort, Enter
  <2> HIDE DEF keys
  <2> QED
    BY <1>1, <2>1, Begin
<1>5. ASSUME NEW k \in Keys, RemoveEntry(t, k) PROVE IInv'
  <2> DEFINE keys == Present \cap {k}
  <2>1. /\ mutex = Nobody /\ mutex' = t /\ Request(t, "remove", keys)
        /\ keys \in SUBSET Keys
        /\ UNCHANGED <<tab, hwTab, hw_req_list, req, inUse, torn>>
    BY <1>5 DEF RemoveEntry, Enter, Present
  <2> HIDE DEF keys
  <2> QED
    BY <1>1, <2>1, Begin
<1> QED
  BY <1>2, <1>3, <1>4, <1>5

\* There is memory for as many requests as there are keys.
LEMMA SomeFree ==
    ASSUME ConstantsOK, NEW t \in Threads, NEW n \in Nat, NEW L \in [1 .. n -> Nodes],
           n < Cardinality(Keys)
    PROVE  Nodes \ Listed(1, n, L) # {}
<1> SUFFICES ASSUME Nodes \subseteq Listed(1, n, L) PROVE FALSE
  OBVIOUS
<1>1. L \in Surjection(1 .. n, Nodes)
  BY DEF Surjection, Listed
<1>2. Cardinality(Nodes) <= n
  <2>1. IsFiniteSet(1 .. n) /\ Cardinality(1 .. n) <= n
    BY FS_Interval
  <2>2. Cardinality(Nodes) <= Cardinality(1 .. n)
    BY <1>1, <2>1, FS_Surjection
  <2>3. Cardinality(1 .. n) \in Nat /\ Cardinality(Nodes) \in Nat
    BY <2>1, FS_CardinalityType DEF ConstantsOK
  <2> QED
    BY <2>1, <2>2, <2>3
<1>3. /\ Cardinality(Threads) \in Nat /\ Cardinality(Keys) \in Nat /\ Cardinality(Nodes) \in Nat
      /\ Cardinality(Nodes) >= Cardinality(Threads) * Cardinality(Keys)
  BY FS_CardinalityType DEF ConstantsOK
<1>4. Cardinality(Threads) # 0
  BY FS_EmptySet DEF ConstantsOK
<1>5. Cardinality(Threads) * Cardinality(Keys) >= Cardinality(Keys)
  BY <1>3, <1>4, Z3
<1> QED
  BY <1>2, <1>3, <1>5

\* The thread is where its program counter says.
LEMMA AtStage ==
    ASSUME ConstantsOK, IInv, NEW t \in Threads, thr[t].pc # "idle"
    PROVE  /\ mutex = t /\ TypeOK /\ thr[t].op \in {"write", "remove"}
           /\ thr \in [Threads -> Thread] /\ \A s \in Threads \ {t} : thr[s] = Idle
           /\ \E n \in 0 .. Cardinality(Keys) : \E L \in [1 .. n -> Nodes] :
                  /\ Requested(t, n, L)
                  /\ thr[t].pc = "request" => Requesting(t, n, L)
                  /\ thr[t].pc = "link" => Linking(t, n, L)
                  /\ thr[t].pc = "serve" => \E p \in 1 .. n : InService(t, n, p, L)
                  /\ thr[t].pc = "rewrite" => \E p \in 1 .. n : Rewriting(t, n, p, L)
                  /\ thr[t].pc = "free" => \E p \in 1 .. n : Freeing(t, n, p, L)
                  /\ thr[t].pc = "clear" => Clearing(t)
                  /\ thr[t].pc = "leave" => Leaving(t)
<1>1. mutex = t /\ Operating(t) /\ TypeOK /\ \A s \in Threads \ {t} : thr[s] = Idle
  BY Holder DEF IInv
<1>2. PICK n \in 0 .. Cardinality(Keys) : \E L \in [1 .. n -> Nodes] :
           Requested(t, n, L) /\ Stage(t, n, L)
  BY <1>1 DEF Operating
<1>3. PICK L \in [1 .. n -> Nodes] : Requested(t, n, L) /\ Stage(t, n, L)
  BY <1>2
<1>4. /\ thr[t].pc = "request" => Requesting(t, n, L)
      /\ thr[t].pc = "link" => Linking(t, n, L)
      /\ thr[t].pc = "serve" => \E p \in 1 .. n : InService(t, n, p, L)
      /\ thr[t].pc = "rewrite" => \E p \in 1 .. n : Rewriting(t, n, p, L)
      /\ thr[t].pc = "free" => \E p \in 1 .. n : Freeing(t, n, p, L)
      /\ thr[t].pc = "clear" => Clearing(t)
      /\ thr[t].pc = "leave" => Leaving(t)
  BY <1>3 DEF Stage, Requesting, Linking, InService, Rewriting, Freeing, Clearing, Leaving
<1>5. thr \in [Threads -> Thread]
  BY <1>1 DEF TypeOK, Thread
<1>6. thr[t].op \in {"write", "remove"}
  BY <1>1 DEF Operating
<1> QED
  BY <1>1, <1>3, <1>4, <1>5, <1>6

\* The list is left as it is.
LEMMA SameList ==
    ASSUME NEW t \in Threads, NEW n, NEW L, Requested(t, n, L),
           req' = req, thr'[t].op = thr[t].op
    PROVE  Requested(t, n, L)'
BY DEF Requested, Linked

LEMMA HwRequestStep ==
    ASSUME ConstantsOK, IInv, NEW t \in Threads, HwRequest(t)
    PROVE  IInv'
<1>1. /\ mutex = t /\ TypeOK /\ thr[t].op \in {"write", "remove"}
      /\ thr \in [Threads -> Thread] /\ \A s \in Threads \ {t} : thr[s] = Idle
      /\ thr[t].pc = "request" /\ thr[t].todo # {}
  BY AtStage DEF HwRequest
<1>2. PICK n \in 0 .. Cardinality(Keys) : \E L \in [1 .. n -> Nodes] :
           Requested(t, n, L) /\ Requesting(t, n, L)
  BY <1>1, AtStage
<1>3. PICK L \in [1 .. n -> Nodes] : Requested(t, n, L) /\ Requesting(t, n, L)
  BY <1>2
<1>4. /\ inUse = Listed(1, n, L) /\ hw_req_list = First(n, L)
      /\ n + Cardinality(thr[t].todo) <= Cardinality(Keys)
      /\ AgreeBut(Unwritten(t, thr[t].todo, inUse))
  BY <1>3 DEF Requesting
<1>5. /\ thr[t].todo \subseteq Keys /\ Cardinality(thr[t].todo) \in Nat
      /\ Cardinality(Keys) \in Nat /\ IsFiniteSet(thr[t].todo)
      /\ Cardinality(thr[t].todo) # 0
  <2>1. thr[t].todo \subseteq Keys
    BY <1>1 DEF Thread
  <2> QED
    BY <1>1, <2>1, KeysFinite, FS_EmptySet
<1>6. (IF hw_req_list = Nil THEN Nil ELSE LastOf(hw_req_list)) = IF n = 0 THEN Nil ELSE L[n]
  <2>1. CASE n = 0
    BY <1>4, <2>1 DEF First
  <2>2. CASE n # 0
    <3>1. hw_req_list = L[1] /\ L[1] \in Nodes /\ Nil \notin Nodes
      BY <1>4, <2>2 DEF First, ConstantsOK
    <3>2. LastOf(L[1]) = L[n]
      BY <1>1, <1>3, <2>2, TailOfList DEF Requested
    <3> QED
      BY <2>2, <3>1, <3>2
  <2> QED
    BY <2>1, <2>2
<1>7. PICK x \in Nodes \ Listed(1, n, L), k \in thr[t].todo :
          /\ req' = [req EXCEPT ![x] = [type |-> thr[t].op, key |-> k, next |-> Nil]]
          /\ inUse' = inUse \cup {x}
          /\ thr' = [thr EXCEPT ![t] = [thr[t] EXCEPT !.pc = "link", !.todo = thr[t].todo \ {k}, !.new = x,
                                               !.ptr = IF n = 0 THEN Nil ELSE L[n]]]
  <2> DEFINE x == CHOOSE x \in Nodes \ inUse : TRUE
             k == CHOOSE k \in thr[t].todo : TRUE
             last == IF hw_req_list = Nil THEN Nil ELSE LastOf(hw_req_list)
  <2>1. /\ req' = [req EXCEPT ![x] = [type |-> thr[t].op, key |-> k, next |-> Nil]]
        /\ inUse' = inUse \cup {x}
        /\ thr' = [thr EXCEPT ![t].pc = "link", ![t].todo = @ \ {k}, ![t].new = x, ![t].ptr = last]
    BY DEF HwRequest
  <2>2. k \in thr[t].todo
    BY <1>1
  <2>3. x \in Nodes \ Listed(1, n, L)
    <3>1. Nodes \ Listed(1, n, L) # {}
      BY <1>4, <1>5, SomeFree
    <3> QED
      BY <1>4, <3>1
  <2> HIDE DEF x, k
  <2>4. last = IF n = 0 THEN Nil ELSE L[n]
    BY <1>6
  <2> HIDE DEF last
  <2>5. thr' = [thr EXCEPT ![t] = [thr[t] EXCEPT !.pc = "link", !.todo = thr[t].todo \ {k}, !.new = x, !.ptr = last]]
    BY <1>1, <2>1 DEF Thread
  <2> QED
    BY <2>1, <2>2, <2>3, <2>4, <2>5
<1>8. UNCHANGED <<tab, hwTab, mutex, hw_req_list, torn>>
  BY DEF HwRequest
<1>9. /\ \A s \in Threads \ {t} : thr'[s] = Idle
      /\ thr'[t].pc = "link" /\ thr'[t].op = thr[t].op /\ thr'[t].todo = thr[t].todo \ {k}
      /\ thr'[t].new = x /\ thr'[t].ptr = IF n = 0 THEN Nil ELSE L[n]
  BY <1>1, <1>7 DEF Thread
<1>10. thr' \in [Threads -> Thread]
  <2> DEFINE u == [thr[t] EXCEPT !.pc = "link", !.todo = thr[t].todo \ {k}, !.new = x,
                                 !.ptr = IF n = 0 THEN Nil ELSE L[n]]
  <2>1. (IF n = 0 THEN Nil ELSE L[n]) \in Nodes \cup {Nil}
    OBVIOUS
  <2>2. u \in Thread
    <3>1. thr[t] \in Thread /\ thr[t].todo \ {k} \in SUBSET Keys /\ x \in Nodes
      BY <1>1, <1>5
    <3> QED
      BY <2>1, <3>1 DEF Thread
  <2>3. thr' = [thr EXCEPT ![t] = u]
    BY <1>7
  <2> HIDE DEF u
  <2> QED
    BY <1>1, <2>2, <2>3
<1>11. req \in [Nodes -> Hung] /\ req' \in [Nodes -> Hung]
  <2>1. req \in [Nodes -> Hung]
    BY <1>1 DEF TypeOK, Hung
  <2>2. [type |-> thr[t].op, key |-> k, next |-> Nil] \in Hung
    BY <1>1, <1>5, <1>7 DEF Hung
  <2> QED
    BY <1>7, <2>1, <2>2
<1>12. TypeOK'
  BY <1>1, <1>7, <1>8, <1>10, <1>11 DEF TypeOK, Thread, Hung
<1>13. /\ \A y \in Nodes \ {x} : req'[y] = req[y]
       /\ req'[x].type = thr[t].op /\ req'[x].key = k /\ req'[x].next = Nil
  BY <1>7, <1>11
<1>14. \A i \in 1 .. n : L[i] \in Nodes \ {x}
  BY <1>7 DEF Listed
<1>15. Requested(t, n, L)'
  <2>1. \A i \in 1 .. n : req'[L[i]] = req[L[i]]
    BY <1>13, <1>14
  <2> QED
    BY <1>3, <1>9, <2>1 DEF Requested, Linked
<1>16. Cardinality(thr'[t].todo) = Cardinality(thr[t].todo) - 1
  <2>1. Cardinality(thr[t].todo \ {k}) = Cardinality(thr[t].todo) - 1
    BY <1>5, <1>7, FS_RemoveElement
  <2> QED
    BY <1>9, <2>1
<1>17. AgreeBut(Unwritten(t, thr[t].todo, inUse))'
  <2>1. Keyed(inUse) \cup {k} \subseteq Keyed(inUse)'
    <3>1. \A y \in inUse : req'[y] = req[y] /\ y \in inUse'
      BY <1>4, <1>7, <1>13, <1>14 DEF Listed
    <3>2. x \in inUse' /\ req'[x].key = k
      BY <1>7, <1>13
    <3> QED
      BY <3>1, <3>2 DEF Keyed
  <2>2. Unwritten(t, thr[t].todo, inUse) \subseteq Unwritten(t, thr[t].todo, inUse)'
    BY <1>9, <2>1 DEF Unwritten
  <2> QED
    BY <1>4, <1>8, <2>2 DEF AgreeBut
<1>18. Linking(t, n, L)'
  <2>1. n + 1 + Cardinality(thr'[t].todo) <= Cardinality(Keys)
    BY <1>4, <1>5, <1>16
  <2>2. hw_req_list' = First(n, L) /\ inUse' = Listed(1, n, L) \cup {x}
    BY <1>4, <1>7, <1>8
  <2>3. thr'[t].new \in Nodes \ Listed(1, n, L)
    BY <1>7, <1>9
  <2>4. req'[thr'[t].new].type = thr'[t].op /\ req'[thr'[t].new].next = Nil /\ req'[thr'[t].new].key \in Keys
    BY <1>5, <1>7, <1>9, <1>13
  <2>5. First(n, L)' = First(n, L) /\ Listed(1, n, L)' = Listed(1, n, L)
    BY DEF First, Listed
  <2> QED
    BY <1>9, <1>17, <2>1, <2>2, <2>3, <2>4, <2>5 DEF Linking
<1> QED
  BY <1>1, <1>8, <1>9, <1>12, <1>15, <1>18, GoesOn DEF Stage

\* Thread t goes on with u, and the types are right.
LEMMA Moves ==
    ASSUME TypeOK, NEW t \in Threads, \A s \in Threads \ {t} : thr[s] = Idle,
           NEW u \in Thread, thr' = [thr EXCEPT ![t] = u]
    PROVE  /\ thr' \in [Threads -> Thread] /\ thr'[t] = u
           /\ \A s \in Threads \ {t} : thr'[s] = Idle
BY DEF TypeOK, Thread

LEMMA LinkStep ==
    ASSUME ConstantsOK, IInv, NEW t \in Threads, Link(t)
    PROVE  IInv'
<1>1. /\ mutex = t /\ TypeOK /\ thr[t].op \in {"write", "remove"}
      /\ thr \in [Threads -> Thread] /\ \A s \in Threads \ {t} : thr[s] = Idle
      /\ thr[t].pc = "link"
  BY AtStage DEF Link
<1>2. PICK n \in 0 .. Cardinality(Keys) : \E L \in [1 .. n -> Nodes] :
           Requested(t, n, L) /\ Linking(t, n, L)
  BY <1>1, AtStage
<1>3. PICK L \in [1 .. n -> Nodes] : Requested(t, n, L) /\ Linking(t, n, L)
  BY <1>2
<1>4. PICK x \in Nodes : x = thr[t].new
  BY <1>3 DEF Linking
<1>5. /\ thr[t].ptr = IF n = 0 THEN Nil ELSE L[n]
      /\ x \notin Listed(1, n, L)
      /\ req[x].type = thr[t].op /\ req[x].next = Nil /\ req[x].key \in Keys
      /\ hw_req_list = First(n, L) /\ inUse = Listed(1, n, L) \cup {x}
      /\ n + 1 + Cardinality(thr[t].todo) <= Cardinality(Keys)
      /\ AgreeBut(Unwritten(t, thr[t].todo, inUse))
  BY <1>3, <1>4 DEF Linking
<1>6. n \in Nat /\ Cardinality(Keys) \in Nat /\ Cardinality(thr[t].todo) \in Nat /\ Nil \notin Nodes
  <2>1. thr[t].todo \subseteq Keys
    BY <1>1 DEF Thread
  <2> QED
    BY <2>1, KeysFinite DEF ConstantsOK
<1> DEFINE u == [thr[t] EXCEPT !.pc = "request", !.ptr = Nil]
           M == [i \in 1 .. n + 1 |-> IF i = n + 1 THEN x ELSE L[i]]
<1>7. thr' = [thr EXCEPT ![t] = u] /\ UNCHANGED <<tab, hwTab, mutex, inUse, torn>>
  BY <1>1 DEF Link, Thread
<1>8. /\ u \in Thread
      /\ u.pc = "request" /\ u.ptr = Nil /\ u.op = thr[t].op /\ u.todo = thr[t].todo
  <2>1. thr[t] \in Thread
    BY <1>1
  <2> QED
    BY <2>1 DEF Thread
<1> HIDE DEF u
<1>9. /\ thr' \in [Threads -> Thread] /\ thr'[t] = u
      /\ \A s \in Threads \ {t} : thr'[s] = Idle
  BY <1>1, <1>7, <1>8, Moves
<1>10. /\ n + 1 \in 0 .. Cardinality(Keys) /\ M \in [1 .. n + 1 -> Nodes]
       /\ M[n + 1] = x /\ \A i \in 1 .. n : M[i] = L[i]
       /\ \A i \in 1 .. n : L[i] \in Nodes /\ L[i] # x
  BY <1>5, <1>6 DEF Listed
<1> HIDE DEF M
<1>11. Listed(1, n + 1, M) = Listed(1, n, L) \cup {x}
  <2>1. \A i \in 1 .. n + 1 : i = n + 1 \/ i \in 1 .. n
    BY <1>6
  <2>2. n + 1 \in 1 .. n + 1 /\ \A i \in 1 .. n : i \in 1 .. n + 1
    BY <1>6
  <2> QED
    BY <1>10, <2>1, <2>2 DEF Listed
<1>12. /\ req' \in [Nodes -> Hung]
       /\ \A y \in Nodes : req'[y].type = req[y].type /\ req'[y].key = req[y].key
       /\ \A i \in 1 .. n : req'[L[i]].next = IF i = n THEN x ELSE L[i + 1]
       /\ req'[x].next = Nil
       /\ hw_req_list' = First(n + 1, M)
  <2>1. req \in [Nodes -> Hung]
    BY <1>1 DEF TypeOK, Hung
  <2>2. Linked(n, L)
    BY <1>3 DEF Requested
  <2>3. CASE n = 0
    <3>1. hw_req_list' = x /\ req' = req
      BY <1>4, <1>5, <2>3 DEF Link
    <3>2. First(n + 1, M) = x
      BY <1>10, <2>3 DEF First
    <3> QED
      BY <1>5, <2>1, <2>3, <3>1, <3>2
  <2>4. CASE n # 0
    <3>1. L[n] \in Nodes /\ L[n] # x /\ n \in 1 .. n
      BY <1>6, <1>10, <2>4
    <3>2. hw_req_list' = hw_req_list /\ req' = [req EXCEPT ![L[n]].next = x]
      BY <1>4, <1>5, <1>6, <2>4, <3>1 DEF Link
    <3>3. First(n + 1, M) = First(n, L)
      <4>1. 1 \in 1 .. n /\ n + 1 # 0
        BY <1>6, <2>4
      <4> QED
        BY <1>10, <2>4, <4>1 DEF First
    <3>4. [req[L[n]] EXCEPT !.next = x] \in Hung
      <4>1. req[L[n]] \in Hung
        BY <2>1, <3>1
      <4> QED
        BY <4>1 DEF Hung
    <3>5. req' = [req EXCEPT ![L[n]] = [req[L[n]] EXCEPT !.next = x]]
      BY <3>2
    <3>6. req' \in [Nodes -> Hung]
      BY <2>1, <3>1, <3>4, <3>5
    <3>7. \A y \in Nodes : req'[y].type = req[y].type /\ req'[y].key = req[y].key
      BY <2>1, <3>1, <3>5 DEF Hung
    <3>8. req'[L[n]].next = x /\ \A y \in Nodes \ {L[n]} : req'[y] = req[y]
      BY <2>1, <3>1, <3>5 DEF Hung
    <3>9. \A i \in 1 .. n : i # n => L[i] \in Nodes \ {L[n]}
      BY <1>10, <2>2, <3>1 DEF Linked
    <3>10. \A i \in 1 .. n : req'[L[i]].next = IF i = n THEN x ELSE L[i + 1]
      BY <2>2, <3>8, <3>9 DEF Linked
    <3>11. req'[x].next = Nil
      BY <1>5, <3>1, <3>8
    <3> QED
      BY <1>5, <3>2, <3>3, <3>6, <3>7, <3>10, <3>11
  <2> QED
    BY <2>3, <2>4
<1>13. TypeOK'
  <2>1. hw_req_list' \in Nodes \cup {Nil}
    <3>1. 1 \in 1 .. n + 1
      BY <1>6
    <3> QED
      BY <1>10, <1>12, <3>1 DEF First
  <2> QED
    BY <1>1, <1>7, <1>9, <1>12, <2>1 DEF TypeOK, Thread, Hung
<1>14. Requested(t, n + 1, M)'
  <2>1. Linked(n, L) /\ \A i \in 1 .. n : req[L[i]].type = thr[t].op /\ req[L[i]].key \in Keys
    BY <1>3 DEF Requested
  <2>2. \A i \in 1 .. n + 1 : i = n + 1 \/ (i \in 1 .. n /\ i # n + 1)
    BY <1>6
  <2>3. \A i, j \in 1 .. n + 1 : M[i] = M[j] => i = j
    BY <1>10, <2>1, <2>2 DEF Linked
  <2>4. \A i \in 1 .. n + 1 : req'[M[i]].next = IF i = n + 1 THEN Nil ELSE M[i + 1]
    <3> SUFFICES ASSUME NEW i \in 1 .. n + 1
                 PROVE  req'[M[i]].next = IF i = n + 1 THEN Nil ELSE M[i + 1]
      OBVIOUS
    <3>1. CASE i = n + 1
      BY <1>10, <1>12, <3>1
    <3>2. CASE i = n
      BY <1>6, <1>10, <1>12, <3>2
    <3>3. CASE i \in 1 .. n /\ i # n
      <4>1. i + 1 \in 1 .. n /\ i # n + 1
        BY <1>6, <3>3
      <4> QED
        BY <1>10, <1>12, <3>3, <4>1
    <3> QED
      BY <2>2, <3>1, <3>2, <3>3
  <2>5. \A i \in 1 .. n + 1 : req'[M[i]].type = thr'[t].op /\ req'[M[i]].key \in Keys
    BY <1>5, <1>8, <1>9, <1>10, <1>12, <2>1, <2>2
  <2> QED
    BY <1>10, <2>3, <2>4, <2>5 DEF Requested, Linked
<1>15. AgreeBut(Unwritten(t, thr[t].todo, inUse))'
  <2>1. inUse \subseteq Nodes
    BY <1>1 DEF TypeOK
  <2>2. Keyed(inUse)' = Keyed(inUse)
    BY <1>7, <1>12, <2>1 DEF Keyed
  <2>3. Unwritten(t, thr[t].todo, inUse)' = Unwritten(t, thr[t].todo, inUse)
    BY <1>8, <1>9, <2>2 DEF Unwritten
  <2> QED
    BY <1>5, <1>7, <2>3 DEF AgreeBut
<1>16. Requesting(t, n + 1, M)'
  <2>1. inUse' = Listed(1, n + 1, M)
    BY <1>5, <1>7, <1>11
  <2>2. First(n + 1, M)' = First(n + 1, M) /\ Listed(1, n + 1, M)' = Listed(1, n + 1, M)
    BY DEF First, Listed
  <2> QED
    BY <1>5, <1>8, <1>9, <1>12, <1>15, <2>1, <2>2 DEF Requesting
<1> QED
  BY <1>1, <1>7, <1>8, <1>9, <1>10, <1>13, <1>14, <1>16, GoesOn DEF Stage

LEMMA CommitStep ==
    ASSUME ConstantsOK, IInv, NEW t \in Threads, Commit(t)
    PROVE  IInv'
<1>1. /\ mutex = t /\ TypeOK /\ thr[t].op \in {"write", "remove"}
      /\ thr \in [Threads -> Thread] /\ \A s \in Threads \ {t} : thr[s] = Idle
      /\ thr[t].pc = "request" /\ thr[t].todo = {}
  BY AtStage DEF Commit
<1>2. PICK n \in 0 .. Cardinality(Keys) : \E L \in [1 .. n -> Nodes] :
           Requested(t, n, L) /\ Requesting(t, n, L)
  BY <1>1, AtStage
<1>3. PICK L \in [1 .. n -> Nodes] : Requested(t, n, L) /\ Requesting(t, n, L)
  BY <1>2
<1>4. /\ hw_req_list = First(n, L) /\ inUse = Listed(1, n, L)
      /\ AgreeBut(Unwritten(t, {}, inUse))
  BY <1>1, <1>3 DEF Requesting
<1>5. n \in Nat /\ Nil \notin Nodes
  BY KeysFinite DEF ConstantsOK
<1> DEFINE u == [thr[t] EXCEPT !.pc = IF hw_req_list = Nil THEN "leave" ELSE "serve",
                               !.ptr = hw_req_list]
<1>6. thr' = [thr EXCEPT ![t] = u] /\ UNCHANGED <<tab, hwTab, mutex, hw_req_list, req, inUse, torn>>
  BY <1>1 DEF Commit, Thread
<1>7. /\ u \in Thread
      /\ u.pc = IF hw_req_list = Nil THEN "leave" ELSE "serve"
      /\ u.ptr = hw_req_list /\ u.op = thr[t].op
  <2>1. thr[t] \in Thread /\ hw_req_list \in Nodes \cup {Nil}
    BY <1>1 DEF TypeOK
  <2> QED
    BY <2>1 DEF Thread
<1> HIDE DEF u
<1>8. /\ thr' \in [Threads -> Thread] /\ thr'[t] = u
      /\ \A s \in Threads \ {t} : thr'[s] = Idle
  BY <1>1, <1>6, <1>7, Moves
<1>9. TypeOK'
  BY <1>1, <1>6, <1>8 DEF TypeOK, Thread
<1>10. Requested(t, n, L)'
  BY <1>3, <1>6, <1>7, <1>8, SameList
<1>11. Unwritten(t, {}, inUse)' = Unwritten(t, {}, inUse)
  BY <1>6, <1>7, <1>8 DEF Unwritten, Keyed
<1>12. AgreeBut(Unwritten(t, {}, inUse))'
  BY <1>4, <1>6, <1>11 DEF AgreeBut
<1>13. CASE n = 0
  <2>1. hw_req_list = Nil /\ inUse = {}
    BY <1>4, <1>13 DEF First, Listed
  <2>2. Unwritten(t, {}, inUse) = {}
    BY <2>1 DEF Unwritten, Keyed
  <2>3. AgreeBut({})'
    BY <1>11, <1>12, <2>2 DEF AgreeBut
  <2>4. Leaving(t)'
    BY <1>6, <1>7, <1>8, <2>1, <2>3 DEF Leaving
  <2> QED
    BY <1>1, <1>6, <1>7, <1>8, <1>9, <1>10, <2>4, GoesOn DEF Stage
<1>14. CASE n # 0
  <2>1. 1 \in 1 .. n /\ hw_req_list = L[1] /\ L[1] # Nil
    BY <1>4, <1>5, <1>14 DEF First
  <2>2. AtRequest(t, n, 1, L)'
    BY <1>4, <1>6, <1>7, <1>8, <2>1 DEF AtRequest, Listed
  <2>3. AgreeBut(Unwritten(t, {}, Listed(1, n, L)))'
    BY <1>4, <1>6, <1>12 DEF Listed, Unwritten, Keyed
  <2>4. InService(t, n, 1, L)'
    BY <1>7, <1>8, <2>1, <2>2, <2>3 DEF InService
  <2>5. Stage(t, n, L)'
    BY <2>1, <2>4 DEF Stage
  <2> QED
    BY <1>1, <1>6, <1>7, <1>8, <1>9, <1>10, <2>5, GoesOn
<1> QED
  BY <1>13, <1>14

\* After a request comes the next one, or the list is freed.
LEMMA Advances ==
    ASSUME ConstantsOK, IInv, NEW t \in Threads, mutex = t, mutex' = t,
           NEW n \in 0 .. Cardinality(Keys), NEW L \in [1 .. n -> Nodes], NEW p \in 1 .. n,
           Requested(t, n, L), AtRequest(t, n, p, L), thr[t].op \in {"write", "remove"},
           Advance(t), tab' = tab, hwTab' \in [Keys -> Masks \cup {None}],
           UNCHANGED <<hw_req_list, req, inUse, torn>>,
           \A k \in Keys : \/ tab[k] = hwTab'[k] \/ k \in torn
                           \/ k \in Unwritten(t, {}, Listed(p + 1, n, L))
    PROVE  IInv'
<1>1. TypeOK /\ thr \in [Threads -> Thread] /\ \A s \in Threads \ {t} : thr[s] = Idle
  BY DEF IInv, TypeOK, Thread
<1>2. n \in Nat /\ p \in Nat /\ Nil \notin Nodes /\ 1 \in 1 .. n /\ L[1] \in Nodes
  BY KeysFinite DEF ConstantsOK
<1>3. /\ thr[t].ptr = L[p] /\ hw_req_list = L[1] /\ inUse = Listed(1, n, L)
  BY DEF AtRequest
<1> DEFINE x == req[L[p]].next
           u == [thr[t] EXCEPT !.pc = IF x = Nil THEN "free" ELSE "serve",
                               !.ptr = IF x = Nil THEN L[1] ELSE x]
<1>4. x = IF p = n THEN Nil ELSE L[p + 1]
  BY DEF Requested, Linked
<1>5. thr' = [thr EXCEPT ![t] = u]
  BY <1>1, <1>3 DEF Advance, Thread
<1> HIDE DEF x
<1>6. /\ u \in Thread /\ u.op = thr[t].op
      /\ u.pc = IF x = Nil THEN "free" ELSE "serve"
      /\ u.ptr = IF x = Nil THEN L[1] ELSE x
  <2>1. thr[t] \in Thread /\ x \in Nodes \cup {Nil}
    <3>1. p # n => p + 1 \in 1 .. n
      BY <1>2
    <3> QED
      BY <1>1, <1>4, <3>1
  <2> QED
    BY <1>2, <2>1 DEF Thread
<1> HIDE DEF u
<1>7. /\ thr' \in [Threads -> Thread] /\ thr'[t] = u
      /\ \A s \in Threads \ {t} : thr'[s] = Idle
  BY <1>1, <1>5, <1>6, Moves
<1>8. TypeOK'
  BY <1>1, <1>7 DEF TypeOK, Thread
<1>9. Requested(t, n, L)'
  BY <1>6, <1>7, SameList
<1>10. AgreeBut(Unwritten(t, {}, Listed(p + 1, n, L)))'
  BY <1>6, <1>7 DEF AgreeBut, Unwritten, Keyed, Listed
<1>11. Stage(t, n, L)'
  <2>1. CASE p = n
    <3>1. Listed(p + 1, n, L) = {}
      BY <1>2, <2>1 DEF Listed
    <3>2. AgreeBut({})'
      BY <1>10, <3>1 DEF AgreeBut, Unwritten, Keyed, Listed
    <3>3. Freeing(t, n, 1, L)'
      BY <1>3, <1>4, <1>6, <1>7, <2>1, <3>2 DEF Freeing, Listed
    <3> QED
      BY <1>2, <3>3 DEF Stage
  <2>2. CASE p # n
    <3>1. p + 1 \in 1 .. n /\ x = L[p + 1] /\ x # Nil
      BY <1>2, <1>4, <2>2
    <3>2. AtRequest(t, n, p + 1, L)'
      BY <1>3, <1>6, <1>7, <3>1 DEF AtRequest, Listed
    <3>3. InService(t, n, p + 1, L)'
      BY <1>6, <1>7, <1>10, <3>1, <3>2 DEF InService
    <3> QED
      BY <3>1, <3>3 DEF Stage
  <2> QED
    BY <2>1, <2>2
<1> QED
  BY <1>6, <1>7, <1>8, <1>9, <1>11, GoesOn

LEMMA ServeWriteStep ==
    ASSUME ConstantsOK, IInv, NEW t \in Threads, ServeWrite(t)
    PROVE  IInv'
<1>1. /\ mutex = t /\ TypeOK /\ thr[t].op \in {"write", "remove"}
      /\ thr[t].pc = "serve" /\ req[thr[t].ptr].type = "write"
  BY AtStage DEF ServeWrite, Serving
<1>2. PICK n \in 0 .. Cardinality(Keys) : \E L \in [1 .. n -> Nodes] : \E p \in 1 .. n :
           Requested(t, n, L) /\ InService(t, n, p, L)
  BY <1>1, AtStage
<1>3. PICK L \in [1 .. n -> Nodes], p \in 1 .. n :
           Requested(t, n, L) /\ InService(t, n, p, L)
  BY <1>2
<1>4. /\ AtRequest(t, n, p, L) /\ thr[t].ptr = L[p]
      /\ AgreeBut(Unwritten(t, {}, Listed(p, n, L)))
  BY <1>3 DEF InService, AtRequest
<1>5. thr[t].op = "write" /\ req[L[p]].key \in Keys
  BY <1>1, <1>3, <1>4 DEF Requested
<1>6. /\ Advance(t) /\ hwTab' = [hwTab EXCEPT ![req[L[p]].key] = tab[req[L[p]].key]]
      /\ UNCHANGED <<tab, mutex, hw_req_list, req, inUse, torn>>
  BY <1>4 DEF ServeWrite
<1>7. tab \in [Keys -> Masks \cup {None}] /\ hwTab \in [Keys -> Masks \cup {None}]
  BY <1>1 DEF TypeOK
<1>8. hwTab' \in [Keys -> Masks \cup {None}]
  BY <1>5, <1>6, <1>7
<1>9. \A k \in Keys : \/ tab[k] = hwTab'[k] \/ k \in torn
                      \/ k \in Unwritten(t, {}, Listed(p + 1, n, L))
  <2> SUFFICES ASSUME NEW k \in Keys, tab[k] # hwTab'[k], k \notin torn
               PROVE  k \in Unwritten(t, {}, Listed(p + 1, n, L))
    OBVIOUS
  <2>1. k # req[L[p]].key /\ hwTab'[k] = hwTab[k]
    BY <1>5, <1>6, <1>7
  <2>2. PICK i \in p .. n : k = req[L[i]].key
    BY <1>4, <1>5, <2>1 DEF AgreeBut, Unwritten, Keyed, Listed
  <2>3. i \in p + 1 .. n
    BY <2>1, <2>2
  <2> QED
    BY <1>5, <2>2, <2>3 DEF Unwritten, Keyed, Listed
<1> QED
  BY <1>1, <1>3, <1>4, <1>6, <1>8, <1>9, Advances

LEMMA ServeRemoveStep ==
    ASSUME ConstantsOK, IInv, NEW t \in Threads, ServeRemove(t)
    PROVE  IInv'
<1>1. /\ mutex = t /\ TypeOK /\ thr[t].op \in {"write", "remove"}
      /\ thr \in [Threads -> Thread] /\ \A s \in Threads \ {t} : thr[s] = Idle
      /\ thr[t].pc = "serve" /\ req[thr[t].ptr].type = "remove"
  BY AtStage DEF ServeRemove, Serving
<1>2. PICK n \in 0 .. Cardinality(Keys) : \E L \in [1 .. n -> Nodes] : \E p \in 1 .. n :
           Requested(t, n, L) /\ InService(t, n, p, L)
  BY <1>1, AtStage
<1>3. PICK L \in [1 .. n -> Nodes], p \in 1 .. n :
           Requested(t, n, L) /\ InService(t, n, p, L)
  BY <1>2
<1>4. /\ AtRequest(t, n, p, L) /\ thr[t].ptr = L[p]
      /\ AgreeBut(Unwritten(t, {}, Listed(p, n, L)))
  BY <1>3 DEF InService, AtRequest
<1>5. thr[t].op = "remove" /\ req[L[p]].key \in Keys
  BY <1>1, <1>3, <1>4 DEF Requested
<1>6. PICK k \in Keys : k = req[L[p]].key
  BY <1>5
<1> DEFINE u == [thr[t] EXCEPT !.pc = "rewrite", !.n = Buckets(k)]
<1>7. /\ tab' = [tab EXCEPT ![k] = None] /\ thr' = [thr EXCEPT ![t] = u]
      /\ UNCHANGED <<hwTab, mutex, hw_req_list, req, inUse, torn>>
  <2>1. thr' = [thr EXCEPT ![t].pc = "rewrite", ![t].n = Buckets(k)]
    BY <1>4, <1>6 DEF ServeRemove
  <2>2. thr' = [thr EXCEPT ![t] = u]
    BY <1>1, <2>1 DEF Thread
  <2> QED
    BY <1>4, <1>6, <2>2 DEF ServeRemove
<1>8. Buckets(k) \in 0 .. 1 /\ (Buckets(k) = 0 => tab[k] = None)
  BY DEF Buckets
<1>9. /\ u \in Thread /\ u.pc = "rewrite" /\ u.op = "remove" /\ u.ptr = L[p]
      /\ u.n = Buckets(k)
  <2>1. thr[t] \in Thread
    BY <1>1
  <2> QED
    BY <1>4, <1>5, <1>8, <2>1 DEF Thread
<1> HIDE DEF u
<1>10. /\ thr' \in [Threads -> Thread] /\ thr'[t] = u
       /\ \A s \in Threads \ {t} : thr'[s] = Idle
  BY <1>1, <1>7, <1>9, Moves
<1>11. tab \in [Keys -> Masks \cup {None}] /\ tab' \in [Keys -> Masks \cup {None}]
  BY <1>1, <1>7 DEF TypeOK
<1>12. TypeOK'
  BY <1>1, <1>7, <1>10, <1>11 DEF TypeOK, Thread
<1>13. Requested(t, n, L)'
  BY <1>3, <1>5, <1>7, <1>9, <1>10, SameList
<1>14. AgreeBut(IF thr[t].n = 0 THEN {} ELSE {req[L[p]].key})'
  <2>1. AgreeBut({})
    BY <1>4, <1>5 DEF Unwritten
  <2>2. CASE Buckets(k) = 0
    <3>1. tab' = tab
      BY <1>7, <1>8, <1>11, <2>2
    <3> QED
      BY <1>7, <1>9, <1>10, <2>1, <2>2, <3>1 DEF AgreeBut
  <2>3. CASE Buckets(k) # 0
    <3>1. \A j \in Keys \ {k} : tab'[j] = tab[j]
      BY <1>7, <1>11
    <3> QED
      BY <1>6, <1>7, <1>9, <1>10, <2>1, <2>3, <3>1 DEF AgreeBut
  <2> QED
    BY <2>2, <2>3
<1>15. Rewriting(t, n, p, L)'
  <2>1. AtRequest(t, n, p, L)'
    BY <1>4, <1>7, <1>9, <1>10 DEF AtRequest, Listed
  <2> QED
    BY <1>9, <1>10, <1>14, <2>1 DEF Rewriting
<1>16. Stage(t, n, L)'
  BY <1>15 DEF Stage
<1> QED
  BY <1>1, <1>7, <1>9, <1>10, <1>12, <1>13, <1>16, GoesOn

LEMMA RewriteStep ==
    ASSUME ConstantsOK, IInv, NEW t \in Threads, Rewrite(t)
    PROVE  IInv'
<1>1. /\ mutex = t /\ TypeOK /\ thr[t].op \in {"write", "remove"}
      /\ thr[t].pc = "rewrite"
  BY AtStage DEF Rewrite
<1>2. PICK n \in 0 .. Cardinality(Keys) : \E L \in [1 .. n -> Nodes] : \E p \in 1 .. n :
           Requested(t, n, L) /\ Rewriting(t, n, p, L)
  BY <1>1, AtStage
<1>3. PICK L \in [1 .. n -> Nodes], p \in 1 .. n :
           Requested(t, n, L) /\ Rewriting(t, n, p, L)
  BY <1>2
<1>4. /\ AtRequest(t, n, p, L) /\ thr[t].ptr = L[p] /\ thr[t].op = "remove"
      /\ AgreeBut(IF thr[t].n = 0 THEN {} ELSE {req[L[p]].key})
  BY <1>3 DEF Rewriting, AtRequest
<1>5. PICK k \in Keys : k = req[L[p]].key
  BY <1>3 DEF Requested
<1>6. /\ Advance(t) /\ hwTab' = IF thr[t].n = 0 THEN hwTab ELSE [hwTab EXCEPT ![k] = tab[k]]
      /\ UNCHANGED <<tab, mutex, hw_req_list, req, inUse, torn>>
  BY <1>4, <1>5 DEF Rewrite
<1>7. tab \in [Keys -> Masks \cup {None}] /\ hwTab \in [Keys -> Masks \cup {None}]
  BY <1>1 DEF TypeOK
<1>8. hwTab' \in [Keys -> Masks \cup {None}]
  BY <1>6, <1>7
<1>9. \A j \in Keys : tab[j] = hwTab'[j] \/ j \in torn
  BY <1>4, <1>5, <1>6, <1>7 DEF AgreeBut
<1> QED
  BY <1>1, <1>3, <1>4, <1>6, <1>8, <1>9, Advances

LEMMA FreeStep ==
    ASSUME ConstantsOK, IInv, NEW t \in Threads, Free(t)
    PROVE  IInv'
<1>1. /\ mutex = t /\ TypeOK /\ thr[t].op \in {"write", "remove"}
      /\ thr \in [Threads -> Thread] /\ \A s \in Threads \ {t} : thr[s] = Idle
      /\ thr[t].pc = "free"
  BY AtStage DEF Free
<1>2. PICK n \in 0 .. Cardinality(Keys) : \E L \in [1 .. n -> Nodes] : \E p \in 1 .. n :
           Requested(t, n, L) /\ Freeing(t, n, p, L)
  BY <1>1, AtStage
<1>3. PICK L \in [1 .. n -> Nodes], p \in 1 .. n :
           Requested(t, n, L) /\ Freeing(t, n, p, L)
  BY <1>2
<1>4. thr[t].ptr = L[p] /\ inUse = Listed(p, n, L) /\ AgreeBut({}) /\ n \in Nat /\ p \in Nat
      /\ Nil \notin Nodes
  BY <1>3, KeysFinite DEF Freeing, ConstantsOK
<1> DEFINE x == req[L[p]].next
           u == [thr[t] EXCEPT !.pc = IF x = Nil THEN "clear" ELSE "free", !.ptr = x]
<1>5. x = IF p = n THEN Nil ELSE L[p + 1]
  BY <1>3 DEF Requested, Linked
<1>6. /\ thr' = [thr EXCEPT ![t] = u] /\ inUse' = inUse \ {L[p]}
      /\ UNCHANGED <<tab, hwTab, mutex, hw_req_list, req, torn>>
  BY <1>1, <1>4 DEF Free, Thread
<1> HIDE DEF x
<1>7. p # n => p + 1 \in 1 .. n
  BY <1>4
<1>8. /\ u \in Thread /\ u.op = thr[t].op
      /\ u.pc = IF x = Nil THEN "clear" ELSE "free"
      /\ u.ptr = x
  <2>1. thr[t] \in Thread /\ x \in Nodes \cup {Nil}
    BY <1>1, <1>5, <1>7
  <2> QED
    BY <2>1 DEF Thread
<1> HIDE DEF u
<1>9. /\ thr' \in [Threads -> Thread] /\ thr'[t] = u
      /\ \A s \in Threads \ {t} : thr'[s] = Idle
  BY <1>1, <1>6, <1>8, Moves
<1>10. TypeOK'
  BY <1>1, <1>6, <1>9 DEF TypeOK, Thread
<1>11. Requested(t, n, L)'
  BY <1>3, <1>6, <1>8, <1>9, SameList
<1>12. inUse' = Listed(p + 1, n, L)
  <2>1. \A i \in 1 .. n : L[i] = L[p] => i = p
    BY <1>3 DEF Requested, Linked
  <2>2. \A i \in p .. n : i = p \/ i \in p + 1 .. n
    BY <1>4
  <2>3. \A i \in p + 1 .. n : i \in p .. n /\ i # p /\ i \in 1 .. n
    BY <1>4
  <2> QED
    BY <1>4, <1>6, <2>1, <2>2, <2>3 DEF Listed
<1>13. AgreeBut({})'
  BY <1>4, <1>6 DEF AgreeBut
<1>14. Stage(t, n, L)'
  <2>1. CASE p = n
    <3>1. inUse' = {}
      BY <1>4, <1>12, <2>1 DEF Listed
    <3>2. Clearing(t)'
      BY <1>5, <1>8, <1>9, <1>13, <2>1, <3>1 DEF Clearing
    <3> QED
      BY <3>2 DEF Stage
  <2>2. CASE p # n
    <3>1. p + 1 \in 1 .. n /\ x = L[p + 1] /\ x # Nil
      BY <1>4, <1>5, <1>7, <2>2
    <3>2. Freeing(t, n, p + 1, L)'
      BY <1>8, <1>9, <1>12, <1>13, <3>1 DEF Freeing, Listed
    <3> QED
      BY <3>1, <3>2 DEF Stage
  <2> QED
    BY <2>1, <2>2
<1> QED
  BY <1>1, <1>3, <1>6, <1>8, <1>9, <1>10, <1>11, <1>14, GoesOn

LEMMA ClearListStep ==
    ASSUME ConstantsOK, IInv, NEW t \in Threads, ClearList(t)
    PROVE  IInv'
<1>1. /\ mutex = t /\ TypeOK /\ thr[t].op \in {"write", "remove"}
      /\ thr \in [Threads -> Thread] /\ \A s \in Threads \ {t} : thr[s] = Idle
      /\ thr[t].pc = "clear"
  BY AtStage DEF ClearList
<1>2. PICK n \in 0 .. Cardinality(Keys) : \E L \in [1 .. n -> Nodes] :
           Requested(t, n, L) /\ Clearing(t)
  BY <1>1, AtStage
<1>3. PICK L \in [1 .. n -> Nodes] : Requested(t, n, L) /\ Clearing(t)
  BY <1>2
<1> DEFINE u == [thr[t] EXCEPT !.pc = "leave"]
<1>4. /\ thr' = [thr EXCEPT ![t] = u] /\ hw_req_list' = Nil
      /\ UNCHANGED <<tab, hwTab, mutex, req, inUse, torn>>
  BY <1>1 DEF ClearList, Thread
<1>5. u \in Thread /\ u.op = thr[t].op /\ u.pc = "leave" /\ u.ptr = thr[t].ptr
  <2>1. thr[t] \in Thread
    BY <1>1
  <2> QED
    BY <2>1 DEF Thread
<1> HIDE DEF u
<1>6. /\ thr' \in [Threads -> Thread] /\ thr'[t] = u
      /\ \A s \in Threads \ {t} : thr'[s] = Idle
  BY <1>1, <1>4, <1>5, Moves
<1>7. TypeOK'
  BY <1>1, <1>4, <1>6 DEF TypeOK, Thread
<1>8. Requested(t, n, L)'
  BY <1>3, <1>4, <1>5, <1>6, SameList
<1>9. Leaving(t)'
  BY <1>3, <1>4, <1>5, <1>6 DEF Clearing, Leaving, AgreeBut
<1> QED
  BY <1>1, <1>3, <1>4, <1>5, <1>6, <1>7, <1>8, <1>9, GoesOn DEF Stage

LEMMA LeaveStep ==
    ASSUME ConstantsOK, IInv, NEW t \in Threads, Leave(t)
    PROVE  IInv'
<1>1. /\ mutex = t /\ TypeOK
      /\ thr \in [Threads -> Thread] /\ \A s \in Threads \ {t} : thr[s] = Idle
      /\ Leaving(t)
  BY AtStage DEF Leave
<1>2. /\ mutex' = Nobody /\ thr' = [thr EXCEPT ![t] = Idle]
      /\ UNCHANGED <<tab, hwTab, hw_req_list, req, inUse, torn>>
  BY <1>1 DEF Leave
<1>3. Idle \in Thread
  BY DEF Idle, Thread
<1>4. thr' \in [Threads -> Thread] /\ \A s \in Threads : thr'[s] = Idle
  BY <1>1, <1>2, <1>3
<1>5. TypeOK'
  BY <1>1, <1>2, <1>4 DEF TypeOK, Thread
<1>6. Quiet'
  BY <1>1, <1>2 DEF Leaving, Quiet, AgreeBut
<1> QED
  BY <1>2, <1>4, <1>5, <1>6 DEF IInv

LEMMA CrashStep ==
    ASSUME ConstantsOK, IInv, Crash
    PROVE  IInv'
<1>1. TypeOK
  BY DEF IInv
<1>2. thr' \in [Threads -> Thread] /\ \A s \in Threads : thr'[s] = Idle
  BY DEF Crash, Idle, Thread
<1>3. TypeOK'
  BY <1>1, <1>2 DEF Crash, TypeOK, Thread
<1>4. Quiet'
  BY DEF Crash, Quiet, AgreeBut
<1> QED
  BY <1>2, <1>3, <1>4 DEF IInv, Crash

-----------------------------------------------------------------------------
(* The theorems                                                            *)

LEMMA InitIInv == ConstantsOK /\ Init => IInv
<1> SUFFICES ASSUME ConstantsOK, Init PROVE IInv
  OBVIOUS
<1>1. thr \in [Threads -> Thread] /\ \A s \in Threads : thr[s] = Idle
  BY DEF Init, Idle, Thread
<1>2. TypeOK
  BY <1>1 DEF Init, TypeOK, Thread
<1>3. Quiet
  BY DEF Init, Quiet, AgreeBut
<1> QED
  BY <1>1, <1>2, <1>3 DEF Init, IInv

LEMMA NextIInv == ConstantsOK /\ Serialized /\ IInv /\ [Next]_vars => IInv'
<1> SUFFICES ASSUME ConstantsOK, Serialized, IInv, [Next]_vars PROVE IInv'
  OBVIOUS
<1>1. CASE Crash
  BY <1>1, CrashStep
<1>2. ASSUME NEW t \in Threads, Step(t) PROVE IInv'
  BY <1>2, BeginSteps, HwRequestStep, LinkStep, CommitStep, ServeWriteStep, ServeRemoveStep,
     RewriteStep, FreeStep, ClearListStep, LeaveStep DEF Step
<1>3. CASE UNCHANGED vars
  <2>1. /\ tab' = tab /\ hwTab' = hwTab /\ mutex' = mutex /\ hw_req_list' = hw_req_list
        /\ req' = req /\ inUse' = inUse /\ thr' = thr /\ torn' = torn
    BY <1>3 DEF vars
  <2>2. TypeOK'
    BY <2>1 DEF IInv, TypeOK
  <2>3. CASE mutex = Nobody
    BY <2>1, <2>2, <2>3 DEF IInv, Quiet, AgreeBut
  <2>4. CASE mutex # Nobody
    <3>1. PICK t \in Threads : t = mutex
      BY <2>4 DEF IInv, TypeOK
    <3>2. PICK n \in 0 .. Cardinality(Keys) : \E L \in [1 .. n -> Nodes] :
               Requested(t, n, L) /\ Stage(t, n, L)
      BY <2>4, <3>1 DEF IInv, Operating
    <3>3. PICK L \in [1 .. n -> Nodes] : Requested(t, n, L) /\ Stage(t, n, L)
      BY <3>2
    <3>4. Requested(t, n, L)'
      BY <2>1, <3>3, SameList
    <3>5. Requesting(t, n, L)' = Requesting(t, n, L) /\ Linking(t, n, L)' = Linking(t, n, L)
      BY <2>1 DEF Requesting, Linking, First, Listed, AgreeBut, Unwritten, Keyed
    <3>6. ASSUME NEW p \in 1 .. n
          PROVE  /\ InService(t, n, p, L)' = InService(t, n, p, L)
                 /\ Rewriting(t, n, p, L)' = Rewriting(t, n, p, L)
                 /\ Freeing(t, n, p, L)' = Freeing(t, n, p, L)
      BY <2>1 DEF InService, Rewriting, Freeing, AtRequest, Listed, AgreeBut, Unwritten, Keyed
    <3>7. Clearing(t)' = Clearing(t) /\ Leaving(t)' = Leaving(t)
      BY <2>1 DEF Clearing, Leaving, AgreeBut
    <3>8. Stage(t, n, L)'
      BY <3>3, <3>5, <3>6, <3>7 DEF Stage
    <3>9. thr[t].op \in {"write", "remove"} /\ \A s \in Threads \ {t} : thr[s] = Idle
      BY <2>4, <3>1 DEF IInv, Operating
    <3> QED
      BY <2>1, <2>2, <3>1, <3>4, <3>8, <3>9, GoesOn
  <2> QED
    BY <2>3, <2>4
<1> QED
  BY <1>1, <1>2, <1>3 DEF Next

LEMMA KeepsAlive == ConstantsOK /\ IInv => RequestsAlive
<1> SUFFICES ASSUME ConstantsOK, IInv, NEW t \in Threads
             PROVE  /\ thr[t].ptr # Nil => thr[t].ptr \in inUse
                    /\ thr[t].pc = "request" /\ hw_req_list # Nil => hw_req_list \in inUse
  BY DEF RequestsAlive
<1>1. CASE thr[t].pc = "idle"
  <2>1. thr[t] = Idle
    <3>1. CASE mutex = t
      <4>1. Operating(t)
        BY <3>1 DEF IInv, ConstantsOK
      <4> QED
        BY <1>1, <4>1 DEF Operating, Stage, Requesting, Linking, InService, Rewriting, Freeing,
           Clearing, Leaving
    <3>2. CASE mutex # t
      BY <3>2 DEF IInv
    <3> QED
      BY <3>1, <3>2
  <2> QED
    BY <1>1, <2>1 DEF Idle
<1>2. CASE thr[t].pc # "idle"
  <2>1. PICK n \in 0 .. Cardinality(Keys) : \E L \in [1 .. n -> Nodes] : Stage(t, n, L)
    BY <1>2, Holder DEF Operating
  <2>2. PICK L \in [1 .. n -> Nodes] : Stage(t, n, L)
    BY <2>1
  <2>3. n \in Nat
    BY KeysFinite
  <2>4. CASE Requesting(t, n, L)
    BY <2>3, <2>4 DEF Requesting, First, Listed
  <2>5. CASE Linking(t, n, L)
    BY <2>3, <2>5 DEF Linking, Listed
  <2>6. CASE \E p \in 1 .. n : InService(t, n, p, L) \/ Rewriting(t, n, p, L)
    BY <2>6 DEF InService, Rewriting, AtRequest, Listed
  <2>7. CASE \E p \in 1 .. n : Freeing(t, n, p, L)
    BY <2>7 DEF Freeing, Listed
  <2>8. CASE Clearing(t) \/ Leaving(t)
    BY <2>8 DEF Clearing, Leaving
  <2> QED
    BY <2>2, <2>4, <2>5, <2>6, <2>7, <2>8 DEF Stage
<1> QED
  BY <1>1, <1>2

LEMMA KeepsMirror == ConstantsOK /\ IInv => MirrorsTable
<1> SUFFICES ASSUME ConstantsOK, IInv, \A t \in Threads : thr[t].pc = "idle"
             PROVE  \A k \in Keys : tab[k] = hwTab[k] \/ k \in torn
  BY DEF MirrorsTable
<1>1. mutex = Nobody
  <2> SUFFICES ASSUME mutex \in Threads PROVE FALSE
    BY DEF IInv, TypeOK
  <2>1. Operating(mutex)
    BY DEF IInv, ConstantsOK
  <2> QED
    BY <2>1 DEF Operating, Stage, Requesting, Linking, InService, Rewriting, Freeing,
       Clearing, Leaving
<1> QED
  BY <1>1 DEF IInv, Quiet, AgreeBut

\* "this list no longer needed": for any number of threads, entries and requests,
\* nobody looks at a request that clean_list() has freed, neither on the way to
\* the end of the list nor while serving it, as long as the operations that do
\* not take fd_mutex do not overlap others.
THEOREM ListIsAlive ==
    ASSUME ConstantsOK, Serialized
    PROVE  Spec => []RequestsAlive
<1>1. Init => IInv
  BY InitIInv
<1>2. IInv /\ [Next]_vars => IInv'
  BY NextIInv
<1>3. IInv => RequestsAlive
  BY KeepsAlive
<1> QED
  BY <1>1, <1>2, <1>3, PTL DEF Spec

\* Then, too, the gateware has what the table has whenever no operation is under
\* way, through any number of crashes, except for the entries that one left torn.
THEOREM TablesMirror ==
    ASSUME ConstantsOK, Serialized
    PROVE  Spec => []MirrorsTable
<1>1. Init => IInv
  BY InitIInv
<1>2. IInv /\ [Next]_vars => IInv'
  BY NextIInv
<1>3. IInv => MirrorsTable
  BY KeepsMirror
<1> QED
  BY <1>1, <1>2, <1>3, PTL DEF Spec
=============================================================================
