----------------------------- MODULE RtuFdProofs -----------------------------
(***************************************************************************)
(* The filtering database for every set of stations, every hash function,  *)
(* every number of buckets, ports and static entries.                      *)
(***************************************************************************)
EXTENDS RtuFd, Iteration, FiniteSetTheorems, TLAPS

Tables == [Rows -> [Buckets -> Entries]]
HwTables == [Rows -> [Buckets -> HwEntries]]
Dbs == [tab : Tables, hw : HwTables]
RowStates == [row : [Buckets -> Entries], hw : [Buckets -> HwEntries]]

\* The valid buckets of a row are its first ones.
Packed(row) == \A b \in Buckets : row[b].valid => \A c \in 0 .. b : row[c].valid
PackedTable(t) == \A r \in Rows : Packed(t[r])

-----------------------------------------------------------------------------
(* The operations on a row                                                 *)

LEMMA Basics ==
    /\ NBuckets \in Nat \ {0} /\ 0 \in Buckets /\ Buckets \subseteq Nat
    /\ Empty \in Entries
    /\ \A e \in Entries : HwImage(e) \in HwEntries
    /\ MaxAge \in Nat /\ 0 \in 0 .. MaxAge /\ AgingTime \in Nat
    /\ Masks = SUBSET (0 .. NPorts)
    /\ \A k \in Keys : Hash[k] \in Rows
<1>1. NBuckets \in Nat \ {0} /\ 0 \in Buckets /\ Buckets \subseteq Nat
  BY RtuConstants DEF Buckets
<1>2. AgingTime \in Nat /\ MaxAge \in 0 .. MaxAge /\ 0 \in 0 .. MaxAge /\ MaxAge \in Nat
  BY RtuConstants DEF MaxAge
<1>3. Empty \in Entries
  BY <1>1, <1>2 DEF Empty, Entries, Static, Masks
<1>4. \A e \in Entries : HwImage(e) \in HwEntries
  BY DEF HwImage, Entries, HwEntries
<1>5. Masks = SUBSET (0 .. NPorts)
  <2>1. Ports \cup {Cpu} = 0 .. NPorts
    BY RtuConstants DEF Ports, Cpu
  <2> QED
    BY <2>1 DEF Masks
<1>6. \A k \in Keys : Hash[k] \in Rows
  BY RtuConstants DEF Keys
<1> QED
  BY <1>1, <1>2, <1>3, <1>4, <1>5, <1>6

\* In a packed row htab_count_buckets() is where the invalid buckets begin.
LEMMA CountPacked ==
    ASSUME NEW row \in [Buckets -> Entries]
    PROVE  /\ Count(row) \in 0 .. NBuckets
           /\ Packed(row) => \A b \in Buckets : row[b].valid <=> b < Count(row)
<1> DEFINE V == {b \in Buckets : row[b].valid}
<1>1. IsFiniteSet(Buckets) /\ Cardinality(Buckets) = NBuckets
  <2>1. NBuckets - 1 \in Int /\ 0 \in Int /\ NBuckets - 1 + 1 = NBuckets
    BY Basics
  <2> QED
    BY <2>1, Basics, FS_Interval DEF Buckets
<1>2. IsFiniteSet(V) /\ Cardinality(V) \in Nat /\ Cardinality(V) <= NBuckets
  BY <1>1, FS_Subset, FS_CardinalityType
<1>3. Count(row) = Cardinality(V)
  BY DEF Count
<1>4. ASSUME Packed(row), NEW b \in Buckets PROVE row[b].valid <=> b < Count(row)
  <2> DEFINE U == {c \in 0 .. NBuckets : c = NBuckets \/ ~row[c].valid}
  <2>1. PICK n \in U : \A c \in U : n <= c
    <3>1. U \subseteq Nat /\ NBuckets \in U
      BY Basics
    <3> QED
      BY <3>1, LeastNumber
  <2>2. V = 0 .. n - 1
    <3>1. ASSUME NEW c \in V PROVE c < n
      <4>1. CASE n = NBuckets
        BY <4>1, Basics DEF Buckets
      <4>2. CASE n # NBuckets
        <5>1. n \in Buckets /\ ~row[n].valid /\ c \in Nat /\ row[c].valid
          BY <4>2, Basics DEF Buckets
        <5>2. n \in 0 .. c => row[n].valid
          BY <1>4, <3>1 DEF Packed
        <5> QED
          BY <5>1, <5>2
      <4> QED
        BY <4>1, <4>2
    <3>2. ASSUME NEW c \in 0 .. n - 1 PROVE c \in V
      <4>1. c \in Buckets /\ c \notin U
        BY <2>1, Basics DEF Buckets
      <4> QED
        BY <4>1, Basics DEF Buckets
    <3>3. V \subseteq Nat
      BY Basics
    <3> QED
      BY <3>1, <3>2, <3>3, Basics
  <2>3. Cardinality(V) = n
    <3>1. n - 1 \in Int /\ 0 \in Int /\ (n - 1 < 0 => n = 0) /\ n - 1 - 0 + 1 = n
      BY Basics
    <3> QED
      BY <2>2, <3>1, FS_Interval
  <2> QED
    BY <1>3, <2>2, <2>3, Basics
<1> QED
  BY <1>2, <1>3, <1>4, Basics

\* Deleting any bucket, the recorded address may be stale, keeps the row packed.
LEMMA DeletePacked ==
    ASSUME NEW tr \in RowStates, NEW b \in Buckets
    PROVE  /\ DeleteBucket(tr, b) \in RowStates
           /\ Packed(tr.row) => Packed(DeleteBucket(tr, b).row)
<1> DEFINE n == Count(tr.row)
           row == [i \in Buckets |->
                      IF b <= i /\ i < n - 1 THEN tr.row[i + 1]
                      ELSE IF i = b THEN Empty ELSE tr.row[i]]
           hwrow == [i \in Buckets |-> IF i < n THEN HwImage(row[i]) ELSE tr.hw[i]]
<1>1. DeleteBucket(tr, b) = [row |-> row, hw |-> hwrow]
  BY DEF DeleteBucket
<1>2. tr.row \in [Buckets -> Entries] /\ tr.hw \in [Buckets -> HwEntries]
  BY DEF RowStates
<1>3. n \in 0 .. NBuckets
  BY <1>2, CountPacked
<1>4. \A i \in Buckets : b <= i /\ i < n - 1 => i + 1 \in Buckets
  BY <1>3, Basics DEF Buckets
<1>5. row \in [Buckets -> Entries]
  BY <1>2, <1>4, Basics
<1>6. hwrow \in [Buckets -> HwEntries]
  <2> HIDE DEF row
  <2> QED
    BY <1>2, <1>5, Basics
<1>7. ASSUME Packed(tr.row) PROVE Packed(row)
  <2>1. \A i \in Buckets : tr.row[i].valid <=> i < n
    BY <1>2, <1>7, CountPacked
  <2>2. ~Empty.valid
    BY DEF Empty
  <2>3. ASSUME NEW i \in Buckets PROVE row[i].valid <=> i < n /\ ~(b = n - 1 /\ i = b)
    <3>1. CASE b <= i /\ i < n - 1
      <4>1. row[i] = tr.row[i + 1] /\ i + 1 \in Buckets
        BY <1>4, <3>1
      <4>2. i + 1 < n /\ i < n /\ i # n - 1
        BY <1>3, <3>1, Basics
      <4>3. row[i].valid
        BY <2>1, <4>1, <4>2
      <4> QED
        BY <4>2, <4>3
    <3>2. CASE ~(b <= i /\ i < n - 1) /\ i = b
      BY <1>3, <2>1, <2>2, <3>2, Basics
    <3>3. CASE ~(b <= i /\ i < n - 1) /\ i # b
      BY <1>3, <2>1, <3>3, Basics
    <3> QED
      BY <3>1, <3>2, <3>3
  <2> HIDE DEF row
  <2>4. ASSUME NEW i \in Buckets, row[i].valid, NEW c \in 0 .. i PROVE row[c].valid
    <3>1. c \in Buckets
      BY Basics DEF Buckets
    <3>2. i < n /\ ~(b = n - 1 /\ i = b)
      BY <2>3, <2>4
    <3>3. c < n /\ ~(b = n - 1 /\ c = b)
      BY <1>3, <3>2, Basics
    <3> QED
      BY <2>3, <3>1, <3>3
  <2> QED
    BY <2>4 DEF Packed
<1> HIDE DEF row, hwrow
<1> QED
  BY <1>1, <1>5, <1>6, <1>7 DEF RowStates

-----------------------------------------------------------------------------
(* The operations on the table                                             *)

\* The scan of a row: the loop of RemoveMatches and its result.
LEMMA ScanLoop ==
    ASSUME NEW row \in [Buckets -> Entries], NEW hwrow \in [Buckets -> HwEntries],
           NEW S \in SUBSET Buckets
    PROVE  \E f : /\ f[0] = [row |-> row, hw |-> hwrow]
                  /\ \A n \in 1 .. NBuckets :
                        f[n] = IF NBuckets - n \in S
                               THEN DeleteBucket(f[n - 1], row[NBuckets - n].addr)
                               ELSE f[n - 1]
                  /\ \A n \in 0 .. NBuckets : f[n] \in RowStates
                  /\ RemoveMatches(row, hwrow, S) = f[NBuckets]
<1> DEFINE base == [row |-> row, hw |-> hwrow]
           Round(n, tr) == IF NBuckets - n \in S
                           THEN DeleteBucket(tr, row[NBuckets - n].addr) ELSE tr
           F == [n \in 1 .. NBuckets |-> [tr \in RowStates |-> Round(n, tr)]]
<1>1. base \in RowStates
  BY DEF RowStates
<1>2. \A n \in 1 .. NBuckets, tr \in RowStates : Round(n, tr) \in RowStates
  <2> SUFFICES ASSUME NEW n \in 1 .. NBuckets, NEW tr \in RowStates
               PROVE  Round(n, tr) \in RowStates
    OBVIOUS
  <2>1. NBuckets - n \in Buckets
    BY Basics DEF Buckets
  <2>2. row[NBuckets - n].addr \in Buckets
    BY <2>1 DEF Entries
  <2> QED
    BY <2>2, DeletePacked
<1> HIDE DEF base
<1>3. PICK g \in [0 .. NBuckets -> RowStates] :
         g[0] = base /\ \A n \in 1 .. NBuckets : g[n] = F[n][g[n - 1]]
  <2>1. NBuckets \in Nat
    BY Basics
  <2>2. StaysIn(NBuckets, RowStates, F)
    BY <1>2 DEF StaysIn
  <2> HIDE DEF F
  <2>3. Loops(NBuckets, RowStates, F, base) # {}
    BY <1>1, <2>1, <2>2, LoopExists
  <2> QED
    BY <2>3 DEF Loops
<1>4. \A n \in 1 .. NBuckets : g[n] = Round(n, g[n - 1])
  <2> SUFFICES ASSUME NEW n \in 1 .. NBuckets PROVE g[n] = Round(n, g[n - 1])
    OBVIOUS
  <2>1. g[n - 1] \in RowStates
    BY Basics
  <2> HIDE DEF Round
  <2> QED
    BY <1>3, <2>1
<1>5. Len(ScanOrder) = NBuckets /\ \A n \in 1 .. NBuckets : ScanOrder[n] = NBuckets - n
  BY Basics DEF ScanOrder
<1> DEFINE scan[n \in 0 .. Len(ScanOrder)] ==
              IF n = 0 THEN [row |-> row, hw |-> hwrow]
              ELSE LET b == ScanOrder[n]
                   IN  IF b \in S THEN DeleteBucket(scan[n - 1], row[b].addr) ELSE scan[n - 1]
<1>6. g = [n \in 0 .. Len(ScanOrder) |->
              IF n = 0 THEN [row |-> row, hw |-> hwrow]
              ELSE LET b == ScanOrder[n]
                   IN  IF b \in S THEN DeleteBucket(g[n - 1], row[b].addr) ELSE g[n - 1]]
  <2>1. \A n \in 0 .. NBuckets : n # 0 => n \in 1 .. NBuckets
    BY Basics
  <2> QED
    BY <1>3, <1>4, <1>5, <2>1 DEF base
<1>7. scan = [n \in 0 .. Len(ScanOrder) |->
                 IF n = 0 THEN [row |-> row, hw |-> hwrow]
                 ELSE LET b == ScanOrder[n]
                      IN  IF b \in S THEN DeleteBucket(scan[n - 1], row[b].addr)
                          ELSE scan[n - 1]]
  BY <1>6, Zenon
<1>8. RemoveMatches(row, hwrow, S) = scan[Len(ScanOrder)]
  BY Zenon DEF RemoveMatches
<1> HIDE DEF scan
<1>9. scan[0] = base /\ \A n \in 1 .. NBuckets : scan[n] = Round(n, scan[n - 1])
  <2>1. 0 \in 0 .. NBuckets /\ \A n \in 1 .. NBuckets : n \in 0 .. NBuckets /\ n # 0
    BY Basics
  <2> QED
    BY <1>5, <1>7, <2>1 DEF base
<1>10. \A n \in 0 .. NBuckets : scan[n] \in RowStates
  <2>1. \A n \in 1 .. NBuckets : scan[n - 1] \in RowStates => scan[n] \in RowStates
    BY <1>2, <1>9
  <2> QED
    BY <1>1, <1>9, <2>1, LoopInvariant, Basics
<1> QED
  BY <1>5, <1>8, <1>9, <1>10 DEF base

LEMMA RemoveMatchesPacked ==
    ASSUME NEW row \in [Buckets -> Entries], NEW hwrow \in [Buckets -> HwEntries],
           NEW S \in SUBSET Buckets
    PROVE  /\ RemoveMatches(row, hwrow, S) \in RowStates
           /\ Packed(row) => Packed(RemoveMatches(row, hwrow, S).row)
<1>1. PICK f : /\ f[0] = [row |-> row, hw |-> hwrow]
               /\ \A n \in 1 .. NBuckets :
                     f[n] = IF NBuckets - n \in S
                            THEN DeleteBucket(f[n - 1], row[NBuckets - n].addr)
                            ELSE f[n - 1]
               /\ \A n \in 0 .. NBuckets : f[n] \in RowStates
               /\ RemoveMatches(row, hwrow, S) = f[NBuckets]
  BY ScanLoop
<1>2. NBuckets \in 0 .. NBuckets
  BY Basics
<1>3. ASSUME Packed(row) PROVE Packed(f[NBuckets].row)
  <2> DEFINE T == {tr \in RowStates : Packed(tr.row)}
  <2>1. f[0] \in T
    BY <1>1, <1>3 DEF RowStates
  <2>2. ASSUME NEW n \in 1 .. NBuckets, f[n - 1] \in T PROVE f[n] \in T
    <3>1. row[NBuckets - n].addr \in Buckets
      <4>1. NBuckets - n \in Buckets
        BY Basics DEF Buckets
      <4> QED
        BY <4>1 DEF Entries
    <3> QED
      BY <1>1, <2>2, <3>1, DeletePacked
  <2> HIDE DEF T
  <2>3. f[NBuckets] \in T
    BY <1>2, <2>1, <2>2, LoopInvariant, Basics
  <2> QED
    BY <2>3 DEF T
<1> QED
  BY <1>1, <1>2, <1>3

LEMMA RemoveAllPacked ==
    ASSUME NEW db \in Dbs, NEW S \in SUBSET Places
    PROVE  /\ RemoveAll(db, S) \in Dbs
           /\ PackedTable(db.tab) => PackedTable(RemoveAll(db, S).tab)
<1> DEFINE M(r) == {b \in Buckets : <<r, b>> \in S}
           new == [r \in Rows |-> RemoveMatches(db.tab[r], db.hw[r], M(r))]
<1>1. RemoveAll(db, S) = [tab |-> [r \in Rows |-> new[r].row], hw |-> [r \in Rows |-> new[r].hw]]
  BY DEF RemoveAll
<1>2. ASSUME NEW r \in Rows
      PROVE  /\ new[r] \in RowStates
             /\ Packed(db.tab[r]) => Packed(new[r].row)
  <2>1. /\ db.tab[r] \in [Buckets -> Entries] /\ db.hw[r] \in [Buckets -> HwEntries]
        /\ M(r) \in SUBSET Buckets
    BY DEF Dbs, Tables, HwTables
  <2> HIDE DEF M
  <2> QED
    BY <2>1, RemoveMatchesPacked
<1> HIDE DEF new
<1>3. \A r \in Rows : new[r].row \in [Buckets -> Entries] /\ new[r].hw \in [Buckets -> HwEntries]
  BY <1>2 DEF RowStates
<1>4. RemoveAll(db, S) \in Dbs
  BY <1>1, <1>3 DEF Dbs, Tables, HwTables
<1>5. PackedTable(db.tab) => PackedTable(RemoveAll(db, S).tab)
  BY <1>1, <1>2 DEF PackedTable
<1> QED
  BY <1>4, <1>5


-----------------------------------------------------------------------------
(* rtu_fd_create_entry()                                                   *)

Vlans == [Vids -> [drop : BOOLEAN, fid : Fids]]

NewEntry(k, mask, d, n) ==
    [valid |-> TRUE, key |-> k, mask |-> mask, dynamic |-> d, age |-> 0, addr |-> n]

Refreshed(e, mask, d) == [e EXCEPT !.mask = mask, !.dynamic = d, !.age = 0]

\* htab_search() finds what there is.
LEMMA FirstHolds ==
    ASSUME NEW t \in Tables, NEW k, Holds(t, k) # {}
    PROVE  First(t, k) \in Holds(t, k)
<1>1. PICK p \in Holds(t, k) : TRUE
  OBVIOUS
<1> DEFINE B == {b \in Buckets : <<p[1], b>> \in Holds(t, k)}
<1>2. p = <<p[1], p[2]>> /\ p[1] \in Rows /\ p[2] \in Buckets
  BY <1>1 DEF Holds, Places
<1>3. B \subseteq Nat /\ B # {}
  BY <1>1, <1>2, Basics
<1>4. PICK b \in B : \A c \in B : b <= c
  BY <1>3, LeastNumber
<1>5. ASSUME NEW q \in Holds(t, k), <<p[1], b>>[1] = q[1] PROVE <<p[1], b>>[2] <= q[2]
  <2>1. q = <<q[1], q[2]>> /\ q[2] \in Buckets
    BY DEF Holds, Places
  <2>2. q[2] \in B
    BY <1>5, <2>1
  <2> QED
    BY <1>4, <2>2
<1>6. \E x \in Holds(t, k) : \A q \in Holds(t, k) : x[1] = q[1] => x[2] <= q[2]
  <2>1. <<p[1], b>> \in Holds(t, k)
    BY <1>4
  <2> QED
    BY <1>5, <2>1
<1> QED
  BY <1>6 DEF First

LEMMA WriteRange ==
    ASSUME NEW db \in Dbs, NEW r \in Rows, NEW b \in Buckets, NEW at \in Buckets,
           NEW e \in Entries
    PROVE  /\ WriteEntry(db, r, b, at, e) \in Dbs
           /\ \A q \in Rows, c \in Buckets :
                 WriteEntry(db, r, b, at, e).tab[q][c] =
                     IF q = r /\ c = b THEN e ELSE db.tab[q][c]
           /\ \A q \in Rows, c \in Buckets :
                 WriteEntry(db, r, b, at, e).hw[q][c] =
                     IF q = r /\ c = at THEN HwImage(e) ELSE db.hw[q][c]
<1> DEFINE tb == [db.tab EXCEPT ![r][b] = e]
           h == [db.hw EXCEPT ![r][at] = HwImage(e)]
<1>1. db.tab \in [Rows -> [Buckets -> Entries]] /\ db.hw \in [Rows -> [Buckets -> HwEntries]]
  BY DEF Dbs, Tables, HwTables
<1>2. HwImage(e) \in HwEntries
  BY Basics
<1>3. tb \in [Rows -> [Buckets -> Entries]]
  BY <1>1
<1>4. h \in [Rows -> [Buckets -> HwEntries]]
  BY <1>1, <1>2
<1>5. WriteEntry(db, r, b, at, e) = [tab |-> tb, hw |-> h]
  BY DEF WriteEntry
<1>6. \A q \in Rows, c \in Buckets : tb[q][c] = IF q = r /\ c = b THEN e ELSE db.tab[q][c]
  BY <1>1
<1>7. \A q \in Rows, c \in Buckets :
         h[q][c] = IF q = r /\ c = at THEN HwImage(e) ELSE db.hw[q][c]
  BY <1>1
<1> HIDE DEF tb, h
<1> QED
  BY <1>3, <1>4, <1>5, <1>6, <1>7 DEF Dbs, Tables, HwTables

LEMMA RefreshedRange ==
    ASSUME NEW e \in Entries, NEW mask \in Masks, NEW d \in BOOLEAN
    PROVE  /\ Refreshed(e, mask, d) \in Entries
           /\ Refreshed(e, mask, d).valid = e.valid
           /\ Refreshed(e, mask, d).key = e.key
           /\ Refreshed(e, mask, d).addr = e.addr
           /\ Refreshed(e, mask, d).mask = mask
           /\ Refreshed(e, mask, d).dynamic = d
           /\ Refreshed(e, mask, d).age = 0
BY Basics DEF Refreshed, Entries

LEMMA NewEntryRange ==
    ASSUME NEW k \in Keys, NEW mask \in Masks, NEW d \in BOOLEAN, NEW n \in Buckets
    PROVE  NewEntry(k, mask, d, n) \in Entries
BY Basics DEF NewEntry, Entries

\* An entry is left as it is, refreshed, or inserted behind the others.
LEMMA CreateCases ==
    ASSUME NEW db \in Dbs, NEW vl \in Vlans, NEW m \in Macs, NEW v \in Vids,
           NEW mask \in Masks, NEW d \in BOOLEAN, NEW how
    PROVE  LET k == <<m, vl[v].fid>>
               new == CreateEntry(db, vl, m, v, mask, d, how)
           IN  \/ new = db
               \/ \E r \in Rows, b \in Buckets :
                     /\ db.tab[r][b].valid /\ db.tab[r][b].key = k
                     /\ how = "override_dynamic" /\ d = Dynamic => db.tab[r][b].dynamic
                     /\ new = WriteEntry(db, r, b, db.tab[r][b].addr,
                                         Refreshed(db.tab[r][b], mask, d))
               \/ LET n == Count(db.tab[Hash[k]])
                  IN  /\ Holds(db.tab, k) = {}
                      /\ n \in Buckets
                      /\ new = WriteEntry(db, Hash[k], n, n, NewEntry(k, mask, d, n))
<1> DEFINE k == <<m, vl[v].fid>>
           new == CreateEntry(db, vl, m, v, mask, d, how)
<1>1. db.tab \in [Rows -> [Buckets -> Entries]] /\ db.hw \in [Rows -> [Buckets -> HwEntries]]
  BY DEF Dbs, Tables, HwTables
<1>2. k \in Keys /\ Hash[k] \in Rows
  BY Basics DEF Vlans, Keys
<1> SUFFICES ASSUME new # db
             PROVE  \/ \E r \in Rows, b \in Buckets :
                          /\ db.tab[r][b].valid /\ db.tab[r][b].key = k
                          /\ how = "override_dynamic" /\ d = Dynamic => db.tab[r][b].dynamic
                          /\ new = WriteEntry(db, r, b, db.tab[r][b].addr,
                                              Refreshed(db.tab[r][b], mask, d))
                    \/ LET n == Count(db.tab[Hash[k]])
                       IN  /\ Holds(db.tab, k) = {}
                           /\ n \in Buckets
                           /\ new = WriteEntry(db, Hash[k], n, n, NewEntry(k, mask, d, n))
  OBVIOUS
<1>3. ~vl[v].drop
  BY DEF CreateEntry
<1>4. CASE Holds(db.tab, k) # {}
  <2> DEFINE p == First(db.tab, k)
             old == db.tab[p[1]][p[2]]
  <2>1. p \in Holds(db.tab, k)
    BY <1>1, <1>4, FirstHolds DEF Tables
  <2>2. p[1] \in Rows /\ p[2] \in Buckets /\ old.valid /\ old.key = k
    BY <2>1 DEF Holds, Places
  <2>3. new = UpdateEntry(db, k, mask, d, how)
    BY <1>3, <1>4 DEF CreateEntry
  <2>4. /\ ~(how = "override_dynamic" /\ old.dynamic = Static /\ d = Dynamic)
        /\ new = WriteEntry(db, p[1], p[2], old.addr, Refreshed(old, mask, d))
    BY <2>3, Zenon DEF UpdateEntry, Refreshed
  <2>5. old.dynamic \in BOOLEAN
    BY <1>1, <2>2 DEF Entries
  <2>6. how = "override_dynamic" /\ d = Dynamic => old.dynamic
    BY <2>4, <2>5 DEF Static
  <2> HIDE DEF p, k, new
  <2> QED
    BY <2>2, <2>4, <2>6
<1>5. CASE Holds(db.tab, k) = {}
  <2> DEFINE n == Count(db.tab[Hash[k]])
  <2>1. new = InsertEntry(db, k, mask, d)
    BY <1>3, <1>5 DEF CreateEntry
  <2>2. n # NBuckets /\ new = WriteEntry(db, Hash[k], n, n, NewEntry(k, mask, d, n))
    BY <2>1 DEF InsertEntry, NewEntry
  <2>3. n \in 0 .. NBuckets
    BY <1>1, <1>2, CountPacked
  <2>4. n \in Buckets
    BY <2>2, <2>3, Basics DEF Buckets
  <2> HIDE DEF n, k, new
  <2> QED
    BY <1>5, <2>2, <2>4 DEF n
<1> QED
  BY <1>4, <1>5

\* An insertion goes to the first invalid bucket and a refresh keeps an entry valid.
LEMMA CreatePacked ==
    ASSUME NEW db \in Dbs, NEW vl \in Vlans, NEW m \in Macs, NEW v \in Vids,
           NEW mask \in Masks, NEW d \in BOOLEAN, NEW how
    PROVE  /\ CreateEntry(db, vl, m, v, mask, d, how) \in Dbs
           /\ PackedTable(db.tab) => PackedTable(CreateEntry(db, vl, m, v, mask, d, how).tab)
<1> DEFINE k == <<m, vl[v].fid>>
           new == CreateEntry(db, vl, m, v, mask, d, how)
<1>1. db.tab \in [Rows -> [Buckets -> Entries]]
  BY DEF Dbs, Tables
<1>2. k \in Keys /\ Hash[k] \in Rows
  BY Basics DEF Vlans, Keys
<1>3. \/ new = db
      \/ \E r \in Rows, b \in Buckets :
            /\ db.tab[r][b].valid
            /\ new = WriteEntry(db, r, b, db.tab[r][b].addr, Refreshed(db.tab[r][b], mask, d))
      \/ LET n == Count(db.tab[Hash[k]])
         IN  /\ n \in Buckets
             /\ new = WriteEntry(db, Hash[k], n, n, NewEntry(k, mask, d, n))
  BY CreateCases
<1> HIDE DEF new
<1>4. CASE new = db
  BY <1>4 DEF new
<1>5. ASSUME NEW r \in Rows, NEW b \in Buckets, db.tab[r][b].valid,
             new = WriteEntry(db, r, b, db.tab[r][b].addr, Refreshed(db.tab[r][b], mask, d))
      PROVE  new \in Dbs /\ (PackedTable(db.tab) => PackedTable(new.tab))
  <2> DEFINE old == db.tab[r][b]
             e == Refreshed(old, mask, d)
             at == old.addr
  <2>1. old \in Entries /\ at \in Buckets
    BY <1>1 DEF Entries
  <2>2. e \in Entries /\ e.valid = old.valid
    BY <2>1, RefreshedRange
  <2> HIDE DEF e, at
  <2>6. new = WriteEntry(db, r, b, at, e)
    BY <1>5 DEF e, at
  <2>3. /\ new \in Dbs
        /\ \A q \in Rows, c \in Buckets :
              new.tab[q][c] = IF q = r /\ c = b THEN e ELSE db.tab[q][c]
    <3>1. e \in Entries /\ at \in Buckets
      BY <2>1, <2>2
    <3> HIDE DEF old
    <3> QED
      BY <2>6, <3>1, WriteRange
  <2>4. \A q \in Rows, c \in Buckets : new.tab[q][c].valid = db.tab[q][c].valid
    BY <2>2, <2>3
  <2>5. \A c \in Buckets : \A a \in 0 .. c : a \in Buckets
    BY Basics DEF Buckets
  <2> QED
    BY <2>3, <2>4, <2>5 DEF PackedTable, Packed
<1>6. ASSUME NEW n \in Buckets, n = Count(db.tab[Hash[k]]),
             new = WriteEntry(db, Hash[k], n, n, NewEntry(k, mask, d, n))
      PROVE  new \in Dbs /\ (PackedTable(db.tab) => PackedTable(new.tab))
  <2> DEFINE e == NewEntry(k, mask, d, n)
             r == Hash[k]
  <2>1. e \in Entries /\ e.valid
    BY <1>2, NewEntryRange DEF NewEntry
  <2> HIDE DEF e, k
  <2>2. /\ new \in Dbs
        /\ \A q \in Rows, c \in Buckets :
              new.tab[q][c] = IF q = r /\ c = n THEN e ELSE db.tab[q][c]
    BY <1>2, <1>6, <2>1, WriteRange DEF e
  <2>3. ASSUME PackedTable(db.tab), NEW q \in Rows PROVE Packed(new.tab[q])
    <3>1. CASE q # r
      <4>1. \A c \in Buckets : new.tab[q][c] = db.tab[q][c]
        BY <2>2, <3>1
      <4>2. \A c \in Buckets : \A a \in 0 .. c : a \in Buckets
        BY Basics DEF Buckets
      <4> QED
        BY <2>3, <4>1, <4>2 DEF PackedTable, Packed
    <3>2. CASE q = r
      <4>1. db.tab[r] \in [Buckets -> Entries] /\ Packed(db.tab[r])
        BY <1>1, <1>2, <2>3 DEF PackedTable
      <4>2. \A c \in Buckets : db.tab[r][c].valid <=> c < n
        BY <1>6, <4>1, CountPacked DEF k
      <4>3. \A c \in Buckets : new.tab[r][c].valid <=> c <= n
        <5> SUFFICES ASSUME NEW c \in Buckets PROVE new.tab[r][c].valid <=> c <= n
          OBVIOUS
        <5>1. c \in Nat /\ n \in Nat
          BY Basics
        <5>2. CASE c = n
          BY <1>2, <2>1, <2>2, <5>1, <5>2
        <5>3. CASE c # n
          BY <1>2, <2>2, <4>2, <5>1, <5>3
        <5> QED
          BY <5>2, <5>3
      <4>4. \A c \in Buckets : \A a \in 0 .. c : a \in Buckets /\ (c <= n => a <= n)
        BY Basics DEF Buckets
      <4> QED
        BY <3>2, <4>3, <4>4 DEF Packed
    <3> QED
      BY <3>1, <3>2
  <2> QED
    BY <2>2, <2>3 DEF PackedTable
<1>7. new \in Dbs /\ (PackedTable(db.tab) => PackedTable(new.tab))
  <2> HIDE DEF k
  <2> QED
    BY <1>3, <1>4, <1>5, <1>6
<1> QED
  BY <1>7 DEF new

\* Learning leaves the static entries alone.
LEMMA CreateKeepsStatic ==
    ASSUME NEW db \in Dbs, NEW vl \in Vlans, NEW m \in Macs, NEW v \in Vids,
           NEW mask \in Masks, PackedTable(db.tab),
           NEW r \in Rows, NEW b \in Buckets,
           db.tab[r][b].valid, db.tab[r][b].dynamic = Static
    PROVE  CreateEntry(db, vl, m, v, mask, Dynamic, "override_dynamic").tab[r][b] = db.tab[r][b]
<1> DEFINE k == <<m, vl[v].fid>>
           new == CreateEntry(db, vl, m, v, mask, Dynamic, "override_dynamic")
<1>1. db.tab \in [Rows -> [Buckets -> Entries]]
  BY DEF Dbs, Tables
<1>2. k \in Keys /\ Hash[k] \in Rows /\ Dynamic \in BOOLEAN /\ Static = FALSE
  BY Basics DEF Vlans, Keys, Dynamic, Static
<1>3. \/ new = db
      \/ \E q \in Rows, c \in Buckets :
            /\ db.tab[q][c].valid /\ db.tab[q][c].dynamic
            /\ new = WriteEntry(db, q, c, db.tab[q][c].addr,
                                Refreshed(db.tab[q][c], mask, Dynamic))
      \/ LET n == Count(db.tab[Hash[k]])
         IN  /\ n \in Buckets
             /\ new = WriteEntry(db, Hash[k], n, n, NewEntry(k, mask, Dynamic, n))
  <2> HIDE DEF new
  <2> QED
    BY <1>2, CreateCases DEF new
<1> HIDE DEF new
<1>4. ASSUME NEW q \in Rows, NEW c \in Buckets, db.tab[q][c].valid, db.tab[q][c].dynamic,
             new = WriteEntry(db, q, c, db.tab[q][c].addr,
                              Refreshed(db.tab[q][c], mask, Dynamic))
      PROVE  new.tab[r][b] = db.tab[r][b]
  <2> DEFINE e == Refreshed(db.tab[q][c], mask, Dynamic)
  <2>1. e \in Entries /\ db.tab[q][c].addr \in Buckets
    BY <1>1, <1>2, RefreshedRange DEF Entries
  <2>2. ~(q = r /\ c = b)
    BY <1>2, <1>4
  <2> HIDE DEF e
  <2> QED
    BY <1>4, <2>1, <2>2, WriteRange DEF e
<1>5. ASSUME NEW n \in Buckets, n = Count(db.tab[Hash[k]]),
             new = WriteEntry(db, Hash[k], n, n, NewEntry(k, mask, Dynamic, n))
      PROVE  new.tab[r][b] = db.tab[r][b]
  <2> DEFINE e == NewEntry(k, mask, Dynamic, n)
  <2>1. e \in Entries
    BY <1>2, NewEntryRange
  <2>5. new = WriteEntry(db, Hash[k], n, n, e)
    BY <1>5
  <2>2. db.tab[Hash[k]] \in [Buckets -> Entries] /\ Packed(db.tab[Hash[k]])
    BY <1>1, <1>2 DEF PackedTable
  <2>3. ~db.tab[Hash[k]][n].valid
    <3>1. ~(n < n)
      BY Basics
    <3> QED
      BY <1>5, <2>2, <3>1, CountPacked
  <2>4. ~(r = Hash[k] /\ b = n)
    BY <2>3
  <2> HIDE DEF e, k
  <2> QED
    BY <1>2, <2>1, <2>4, <2>5, WriteRange
<1> HIDE DEF k
<1> QED
  BY <1>3, <1>4, <1>5 DEF new

LEMMA ElementOfSeq ==
    ASSUME NEW T, NEW s \in Seq(T)
    PROVE  Len(s) \in Nat /\ \A n \in 1 .. Len(s) : s[n] \in T
OBVIOUS

\* The loop of rtu_create_static_entries() and its result.
LEMMA StaticLoop ==
    ASSUME NEW db \in Dbs, NEW vl \in Vlans
    PROVE  \E f : /\ f[0] = db
                  /\ \A n \in 1 .. Len(StaticEntries) :
                        /\ StaticEntries[n] \in [mac : Macs, mask : Masks]
                        /\ f[n] = CreateEntry(f[n - 1], vl, StaticEntries[n].mac, 0,
                                              StaticEntries[n].mask, Static, "override")
                  /\ \A n \in 0 .. Len(StaticEntries) : f[n] \in Dbs
                  /\ CreateStatic(db, vl) = f[Len(StaticEntries)]
<1> DEFINE N == Len(StaticEntries)
           Round(n, x) == CreateEntry(x, vl, StaticEntries[n].mac, 0,
                                      StaticEntries[n].mask, Static, "override")
           F == [n \in 1 .. N |-> [x \in Dbs |-> Round(n, x)]]
<1>1. N \in Nat /\ \A n \in 1 .. N : StaticEntries[n] \in [mac : Macs, mask : Masks]
  <2>1. StaticEntries \in Seq([mac : Macs, mask : Masks])
    BY RtuConstants, Basics
  <2> QED
    BY <2>1, ElementOfSeq
<1>2. \A n \in 1 .. N, x \in Dbs : Round(n, x) \in Dbs
  <2> SUFFICES ASSUME NEW n \in 1 .. N, NEW x \in Dbs PROVE Round(n, x) \in Dbs
    OBVIOUS
  <2>1. StaticEntries[n].mac \in Macs /\ StaticEntries[n].mask \in Masks
    BY <1>1
  <2>2. 0 \in Vids /\ Static \in BOOLEAN
    BY RtuConstants DEF Static
  <2> QED
    BY <2>1, <2>2, CreatePacked
<1>3. PICK g \in [0 .. N -> Dbs] : g[0] = db /\ \A n \in 1 .. N : g[n] = F[n][g[n - 1]]
  <2>1. StaysIn(N, Dbs, F)
    BY <1>2 DEF StaysIn
  <2> HIDE DEF F, N
  <2>2. Loops(N, Dbs, F, db) # {}
    BY <1>1, <2>1, LoopExists
  <2> QED
    BY <2>2 DEF Loops
<1> HIDE DEF N
<1>4. \A n \in 1 .. N : g[n] = Round(n, g[n - 1])
  <2> SUFFICES ASSUME NEW n \in 1 .. N PROVE g[n] = Round(n, g[n - 1])
    OBVIOUS
  <2>1. g[n - 1] \in Dbs
    BY <1>1
  <2> HIDE DEF Round
  <2> QED
    BY <1>3, <2>1
<1> DEFINE made[n \in 0 .. Len(StaticEntries)] ==
              IF n = 0 THEN db
              ELSE LET s == StaticEntries[n]
                   IN  CreateEntry(made[n - 1], vl, s.mac, 0, s.mask, Static, "override")
<1>5. g = [n \in 0 .. Len(StaticEntries) |->
              IF n = 0 THEN db
              ELSE LET s == StaticEntries[n]
                   IN  CreateEntry(g[n - 1], vl, s.mac, 0, s.mask, Static, "override")]
  <2>1. \A n \in 0 .. N : n # 0 => n \in 1 .. N
    BY <1>1
  <2> QED
    BY <1>3, <1>4, <2>1 DEF N
<1>6. made = [n \in 0 .. Len(StaticEntries) |->
                 IF n = 0 THEN db
                 ELSE LET s == StaticEntries[n]
                      IN  CreateEntry(made[n - 1], vl, s.mac, 0, s.mask, Static, "override")]
  BY <1>5, Zenon
<1>7. CreateStatic(db, vl) = made[Len(StaticEntries)]
  BY Zenon DEF CreateStatic
<1> HIDE DEF made
<1>8. made[0] = db /\ \A n \in 1 .. N : made[n] = Round(n, made[n - 1])
  <2>1. 0 \in 0 .. N /\ \A n \in 1 .. N : n \in 0 .. N /\ n # 0
    BY <1>1
  <2> QED
    BY <1>6, <2>1 DEF N
<1>9. \A n \in 0 .. N : made[n] \in Dbs
  <2>1. \A n \in 1 .. N : made[n - 1] \in Dbs => made[n] \in Dbs
    BY <1>2, <1>8
  <2> QED
    BY <1>1, <1>8, <2>1, LoopInvariant
<1> QED
  BY <1>1, <1>7, <1>8, <1>9 DEF N

LEMMA StaticPacked ==
    ASSUME NEW db \in Dbs, NEW vl \in Vlans
    PROVE  /\ CreateStatic(db, vl) \in Dbs
           /\ PackedTable(db.tab) => PackedTable(CreateStatic(db, vl).tab)
<1> DEFINE N == Len(StaticEntries)
<1>1. PICK f : /\ f[0] = db
               /\ \A n \in 1 .. N :
                     /\ StaticEntries[n] \in [mac : Macs, mask : Masks]
                     /\ f[n] = CreateEntry(f[n - 1], vl, StaticEntries[n].mac, 0,
                                           StaticEntries[n].mask, Static, "override")
               /\ \A n \in 0 .. N : f[n] \in Dbs
               /\ CreateStatic(db, vl) = f[N]
  BY StaticLoop
<1>2. N \in Nat
  BY RtuConstants
<1> HIDE DEF N
<1>3. ASSUME PackedTable(db.tab) PROVE PackedTable(f[N].tab)
  <2> DEFINE T == {x \in Dbs : PackedTable(x.tab)}
  <2>1. f[0] \in T
    BY <1>1, <1>3
  <2>2. ASSUME NEW n \in 1 .. N, f[n - 1] \in T PROVE f[n] \in T
    <3>1. /\ StaticEntries[n].mac \in Macs /\ StaticEntries[n].mask \in Masks
          /\ 0 \in Vids /\ Static \in BOOLEAN
      BY <1>1, RtuConstants DEF Static
    <3> QED
      BY <1>1, <2>2, <3>1, CreatePacked
  <2> HIDE DEF T
  <2>3. f[N] \in T
    BY <1>2, <2>1, <2>2, LoopInvariant
  <2> QED
    BY <2>3 DEF T
<1> QED
  BY <1>1, <1>2, <1>3

-----------------------------------------------------------------------------
(* Types and packed rows, whether stations share rows or not               *)

PackedInv == TypeOK /\ BucketsContiguous

LEMMA DbRange ==
    /\ TypeOK => Db \in Dbs /\ vlan \in Vlans
    /\ TypeOK /\ BucketsContiguous => PackedTable(Db.tab)
<1>1. TypeOK => Db \in Dbs /\ vlan \in Vlans
  BY DEF TypeOK, Db, Dbs, Tables, HwTables, Vlans
<1>2. TypeOK /\ BucketsContiguous => PackedTable(Db.tab)
  BY DEF TypeOK, Db, BucketsContiguous, PackedTable, Packed
<1> QED
  BY <1>1, <1>2

LEMMA RequestsRange ==
    /\ Static \in BOOLEAN /\ Dynamic \in BOOLEAN /\ Static = FALSE /\ Dynamic = TRUE
    /\ Ports \subseteq 0 .. NPorts /\ Cpu \in 0 .. NPorts
    /\ 0 \in Ports
    /\ \A p \in Ports : {p} \in Masks
    /\ RpcMasks \subseteq Masks /\ Stations \subseteq Macs /\ RpcMacs \subseteq Macs
BY RtuConstants, Basics DEF Static, Dynamic, Ports, Cpu

LEMMA AgeUpdateRange ==
    ASSUME NEW t \in Tables
    PROVE  /\ AgeUpdate(t) \in Tables
           /\ PackedTable(t) => PackedTable(AgeUpdate(t))
           /\ \A r \in Rows, b \in Buckets :
                 AgeUpdate(t)[r][b] = IF <<r, b>> \in used /\ t[r][b].dynamic = Dynamic
                                      THEN [t[r][b] EXCEPT !.age = 0] ELSE t[r][b]
<1>1. t \in [Rows -> [Buckets -> Entries]]
  BY DEF Tables
<1>2. \A e \in Entries : [e EXCEPT !.age = 0] \in Entries /\ [e EXCEPT !.age = 0].valid = e.valid
  BY Basics DEF Entries
<1>3. \A r \in Rows, b \in Buckets :
         AgeUpdate(t)[r][b] = IF <<r, b>> \in used /\ t[r][b].dynamic = Dynamic
                              THEN [t[r][b] EXCEPT !.age = 0] ELSE t[r][b]
  BY DEF AgeUpdate
<1>4. \A r \in Rows, b \in Buckets :
         AgeUpdate(t)[r][b] \in Entries /\ AgeUpdate(t)[r][b].valid = t[r][b].valid
  BY <1>1, <1>2, <1>3
<1>5. AgeUpdate(t) \in Tables
  <2>1. AgeUpdate(t) = [r \in Rows |-> [b \in Buckets |-> AgeUpdate(t)[r][b]]]
    BY DEF AgeUpdate
  <2> QED
    BY <1>4, <2>1 DEF Tables
<1>6. PackedTable(t) => PackedTable(AgeUpdate(t))
  <2>1. \A c \in Buckets : \A a \in 0 .. c : a \in Buckets
    BY Basics DEF Buckets
  <2> QED
    BY <1>4, <2>1 DEF PackedTable, Packed
<1> QED
  BY <1>3, <1>5, <1>6

\* An age never leaves its range.
LEMMA OlderRange ==
    ASSUME NEW e \in Entries
    PROVE  /\ [e EXCEPT !.age = IF @ < MaxAge THEN @ + 1 ELSE @] \in Entries
           /\ [e EXCEPT !.age = IF @ < MaxAge THEN @ + 1 ELSE @].valid = e.valid
<1>1. e.age \in 0 .. MaxAge
  BY DEF Entries
<1>2. (IF e.age < MaxAge THEN e.age + 1 ELSE e.age) \in 0 .. MaxAge
  BY <1>1, Basics
<1> QED
  BY <1>2 DEF Entries

\* A new database, in a step that sets no other variable of the table.
LEMMA SetDbPacked ==
    ASSUME NEW db \in Dbs, PackedTable(db.tab), SetDb(db)
    PROVE  /\ tab' \in [Rows -> [Buckets -> Entries]]
           /\ hw' \in [Rows -> [Buckets -> HwEntries]]
           /\ BucketsContiguous'
BY DEF SetDb, Dbs, Tables, HwTables, PackedTable, Packed, BucketsContiguous

LEMMA InitPacked == Init => PackedInv
<1> SUFFICES ASSUME Init PROVE PackedInv
  OBVIOUS
<1>1. EmptyDb \in Dbs /\ PackedTable(EmptyDb.tab)
  <2>1. HwImage(Empty) \in HwEntries /\ Empty \in Entries /\ ~Empty.valid
    BY Basics DEF Empty
  <2> QED
    BY <2>1 DEF EmptyDb, Dbs, Tables, HwTables, PackedTable, Packed
<1>2. CleanVlans \in Vlans
  BY RtuConstants DEF CleanVlans, Vlans
<1> DEFINE db == CreateStatic(EmptyDb, CleanVlans)
<1>3. db \in Dbs /\ PackedTable(db.tab)
  BY <1>1, <1>2, StaticPacked
<1>4. tab = db.tab /\ hw = db.hw /\ vlan = CleanVlans
  BY DEF Init
<1> HIDE DEF db
<1>5. /\ tab \in [Rows -> [Buckets -> Entries]] /\ hw \in [Rows -> [Buckets -> HwEntries]]
      /\ BucketsContiguous
  BY <1>3, <1>4 DEF Dbs, Tables, HwTables, PackedTable, Packed, BucketsContiguous
<1>6. TypeOK
  <2>1. MaxQueue \in Nat /\ 0 \in Ports
    BY RtuConstants, RequestsRange
  <2> QED
    BY <1>2, <1>4, <1>5, <2>1 DEF Init, TypeOK, Vlans
<1> QED
  BY <1>5, <1>6 DEF PackedInv

\* The steps that leave the table alone, of which only a frame and the two
\* readers need a closer look.
LEMMA OtherStepsPacked ==
    ASSUME PackedInv,
           \/ TakeRequest \/ ReadPorts
           \/ \E v \in Vids, f \in Fids, drop \in BOOLEAN : RpcVlan(v, f, drop)
           \/ \E p \in Ports : LinkChange(p)
           \/ \E m \in Stations, v \in Vids, p \in Ports : Frame(m, v, p)
    PROVE  PackedInv'
<1> USE DEF PackedInv
<1>1. UNCHANGED <<tab, hw>>
  BY DEF TakeRequest, ReadPorts, RpcVlan, LinkChange, Frame
<1>2. BucketsContiguous'
  BY <1>1 DEF BucketsContiguous
<1>3. CASE TakeRequest
  <2>1. Head(queue) \in Requests /\ Tail(queue) \in Seq(Requests) /\ Len(Tail(queue)) <= MaxQueue
    BY <1>3, RtuConstants DEF TakeRequest, TypeOK
  <2>2. learning' \in Requests \cup {NoRequest}
    BY <1>3, <2>1 DEF TakeRequest
  <2> QED
    BY <1>2, <1>3, <2>1, <2>2 DEF TakeRequest, TypeOK
<1>4. CASE ReadPorts
  BY <1>2, <1>4, RequestsRange DEF ReadPorts, TypeOK
<1>5. CASE \E v \in Vids, f \in Fids, drop \in BOOLEAN : RpcVlan(v, f, drop)
  BY <1>2, <1>5 DEF RpcVlan, TypeOK
<1>6. CASE \E p \in Ports : LinkChange(p)
  BY <1>2, <1>6 DEF LinkChange, TypeOK
<1>7. ASSUME NEW m \in Stations, NEW v \in Vids, NEW p \in Ports, Frame(m, v, p) PROVE PackedInv'
  <2> DEFINE k == <<m, vlan[v].fid>>
             hit == HwHit(k, p)
             req == [mac |-> m, vid |-> v, port |-> p]
  <2>1. k \in Keys /\ Hash[k] \in Rows
    BY Basics, RequestsRange DEF TypeOK, Keys
  <2>2. hit \subseteq Places
    BY <2>1 DEF HwHit, Places
  <2>3. req \in Requests
    BY RequestsRange DEF Requests
  <2>4. used' \subseteq Places
    BY <1>7, <2>2 DEF Frame, TypeOK
  <2>5. queue' \in Seq(Requests) /\ Len(queue') <= MaxQueue
    <3>1. CASE UNCHANGED queue
      BY <3>1 DEF TypeOK
    <3>2. CASE Len(queue) < MaxQueue /\ queue' = Append(queue, req)
      <4> HIDE DEF req
      <4> QED
        BY <2>3, <3>2, RtuConstants DEF TypeOK
    <3> QED
      BY <1>7, <3>1, <3>2 DEF Frame
  <2> QED
    BY <1>2, <1>7, <2>4, <2>5 DEF Frame, TypeOK
<1> QED
  BY <1>3, <1>4, <1>5, <1>6, <1>7

\* Every step on the table builds it with the operations above.
LEMMA NextPacked == PackedInv /\ [Next]_vars => PackedInv'
<1> SUFFICES ASSUME PackedInv, [Next]_vars PROVE PackedInv'
  OBVIOUS
<1> USE DEF PackedInv
<1>1. Db \in Dbs /\ PackedTable(Db.tab) /\ vlan \in Vlans
  BY DbRange
<1>2. CASE UNCHANGED vars
  BY <1>2 DEF vars, TypeOK, BucketsContiguous
<1>3. CASE Learn
  <2> DEFINE db == CreateEntry(Db, vlan, learning.mac, learning.vid, {learning.port},
                               Dynamic, "override_dynamic")
  <2>1. learning \in Requests
    BY <1>3 DEF Learn, TypeOK
  <2>2. db \in Dbs /\ PackedTable(db.tab)
    <3>1. learning.mac \in Macs /\ learning.vid \in Vids /\ {learning.port} \in Masks
      BY <2>1, RequestsRange DEF Requests
    <3> QED
      BY <1>1, <3>1, RequestsRange, CreatePacked
  <2>3. SetDb(db)
    BY <1>3 DEF Learn
  <2> HIDE DEF db
  <2>4. /\ tab' \in [Rows -> [Buckets -> Entries]] /\ hw' \in [Rows -> [Buckets -> HwEntries]]
        /\ BucketsContiguous'
    BY <2>2, <2>3, SetDbPacked
  <2> QED
    BY <1>3, <2>4 DEF Learn, TypeOK
<1>4. CASE VisitPort
  <2> DEFINE db == IF wasUp[visit] /\ ~ports[visit]
                   THEN ClearEntriesForPort(Db, visit, Dynamic) ELSE Db
  <2>1. db \in Dbs /\ PackedTable(db.tab)
    <3>1. ClearEntriesForPort(Db, visit, Dynamic) \in Dbs
          /\ PackedTable(ClearEntriesForPort(Db, visit, Dynamic).tab)
      BY <1>1, RemoveAllPacked DEF ClearEntriesForPort, OfType
    <3> QED
      BY <1>1, <3>1
  <2>2. SetDb(db)
    BY <1>4 DEF VisitPort
  <2> HIDE DEF db
  <2>3. /\ tab' \in [Rows -> [Buckets -> Entries]] /\ hw' \in [Rows -> [Buckets -> HwEntries]]
        /\ BucketsContiguous'
    BY <2>1, <2>2, SetDbPacked
  <2>4. visit' \in Ports /\ ageing' \in {"read", "ports", "flush"}
    BY <1>4, RtuConstants DEF VisitPort, TypeOK, Ports
  <2>5. wasUp' \in [Ports -> BOOLEAN]
    BY <1>4 DEF VisitPort, TypeOK
  <2> QED
    BY <1>4, <2>3, <2>4, <2>5 DEF VisitPort, TypeOK
<1>5. CASE Flush
  <2> DEFINE aged == [tab |-> AgeUpdate(tab), hw |-> hw]
             db == AgeOut(aged)
  <2>1. aged \in Dbs /\ PackedTable(aged.tab)
    BY <1>1, AgeUpdateRange DEF Dbs, Db
  <2>2. db \in Dbs /\ PackedTable(db.tab)
    <3> HIDE DEF aged
    <3> QED
      BY <2>1, RemoveAllPacked DEF AgeOut
  <2>3. SetDb(db)
    BY <1>5 DEF Flush
  <2> HIDE DEF db
  <2>4. /\ tab' \in [Rows -> [Buckets -> Entries]] /\ hw' \in [Rows -> [Buckets -> HwEntries]]
        /\ BucketsContiguous'
    BY <2>2, <2>3, SetDbPacked
  <2> QED
    BY <1>5, <2>4 DEF Flush, TypeOK
<1>6. ASSUME NEW m \in RpcMacs, NEW v \in Vids, NEW mask \in RpcMasks, NEW d \in BOOLEAN,
             RpcAdd(m, v, mask, d) \/ RpcRemove(m, mask, d)
      PROVE  PackedInv'
  <2>1. m \in Macs /\ mask \in Masks
    BY RequestsRange
  <2>2. \E db \in Dbs : PackedTable(db.tab) /\ SetDb(db)
    <3>1. CASE RpcAdd(m, v, mask, d)
      BY <1>1, <2>1, <3>1, CreatePacked DEF RpcAdd
    <3>2. CASE RpcRemove(m, mask, d)
      <4>1. RemoveEntry(Db, m, mask, d) \in Dbs /\ PackedTable(RemoveEntry(Db, m, mask, d).tab)
        BY <1>1, RemoveAllPacked DEF RemoveEntry, OfType
      <4> QED
        BY <3>2, <4>1 DEF RpcRemove
    <3> QED
      BY <1>6, <3>1, <3>2
  <2>3. /\ tab' \in [Rows -> [Buckets -> Entries]] /\ hw' \in [Rows -> [Buckets -> HwEntries]]
        /\ BucketsContiguous'
    BY <2>2, SetDbPacked
  <2> QED
    BY <1>6, <2>3 DEF RpcAdd, RpcRemove, TypeOK
<1>7. ASSUME NEW p \in Ports \cup {Cpu}, NEW d \in BOOLEAN, RpcClear(p, d) PROVE PackedInv'
  <2>1. ClearEntriesForPort(Db, p, d) \in Dbs /\ PackedTable(ClearEntriesForPort(Db, p, d).tab)
    BY <1>1, RemoveAllPacked DEF ClearEntriesForPort, OfType
  <2>2. /\ tab' \in [Rows -> [Buckets -> Entries]] /\ hw' \in [Rows -> [Buckets -> HwEntries]]
        /\ BucketsContiguous'
    BY <1>7, <2>1, SetDbPacked DEF RpcClear
  <2> QED
    BY <1>7, <2>2 DEF RpcClear, TypeOK
<1>8. CASE Restart
  <2>1. CreateStatic(Db, vlan) \in Dbs /\ PackedTable(CreateStatic(Db, vlan).tab)
    BY <1>1, StaticPacked
  <2>2. /\ tab' \in [Rows -> [Buckets -> Entries]] /\ hw' \in [Rows -> [Buckets -> HwEntries]]
        /\ BucketsContiguous'
    BY <1>8, <2>1, SetDbPacked DEF Restart
  <2> QED
    BY <1>8, <2>2, RequestsRange DEF Restart, TypeOK
<1>9. CASE Tick
  <2> DEFINE older(r, b) == [tab[r][b] EXCEPT !.age = IF @ < MaxAge THEN @ + 1 ELSE @]
  <2>1. \A r \in Rows, b \in Buckets : older(r, b) \in Entries /\ older(r, b).valid = tab[r][b].valid
    BY OlderRange DEF TypeOK
  <2>2. tab' = [r \in Rows |-> [b \in Buckets |-> older(r, b)]]
    BY <1>9 DEF Tick
  <2> HIDE DEF older
  <2>3. tab' \in [Rows -> [Buckets -> Entries]]
    BY <2>1, <2>2
  <2>4. BucketsContiguous'
    <3>1. \A c \in Buckets : \A a \in 0 .. c : a \in Buckets
      BY Basics DEF Buckets
    <3> QED
      BY <2>1, <2>2, <3>1 DEF BucketsContiguous
  <2> QED
    BY <1>9, <2>3, <2>4 DEF Tick, TypeOK
<1> HIDE DEF PackedInv
<1> QED
  BY <1>2, <1>3, <1>4, <1>5, <1>6, <1>7, <1>8, <1>9, OtherStepsPacked
  DEF Next, LearningThread, AgeingThread, Rpc

THEOREM TablePacked == Spec => []PackedInv
BY InitPacked, NextPacked, PTL DEF Spec

\* Every variable stays in its range: the ageing thread looks at no port beyond the
\* last one, and no request of the gateware or the tools leaves the table's types.
THEOREM TypeCorrect == Spec => []TypeOK
<1>1. PackedInv => TypeOK
  BY DEF PackedInv
<1> QED
  BY <1>1, TablePacked, PTL

\* However many stations share a row, and whatever bucket a removal really empties,
\* an insertion never overwrites an entry and none hides behind a gap.
THEOREM RowsStayPacked == Spec => []BucketsContiguous
<1>1. PackedInv => BucketsContiguous
  BY DEF PackedInv
<1> QED
  BY <1>1, TablePacked, PTL

\* Learning never touches a static entry, wherever deletions have left it.
THEOREM LearningSparesStatic == Spec => LearningKeepsStatic
<1> DEFINE Kept == \A r \in Rows, b \in Buckets :
              tab[r][b].valid /\ tab[r][b].dynamic = Static => tab'[r][b] = tab[r][b]
<1>1. ASSUME PackedInv, Learn PROVE Kept
  <2>1. Db \in Dbs /\ PackedTable(Db.tab) /\ vlan \in Vlans /\ Db.tab = tab
    BY <1>1, DbRange DEF PackedInv, Db
  <2>2. learning \in Requests
    BY <1>1 DEF PackedInv, Learn, TypeOK
  <2>3. learning.mac \in Macs /\ learning.vid \in Vids /\ {learning.port} \in Masks
    BY <2>2, RequestsRange DEF Requests
  <2>4. tab' = CreateEntry(Db, vlan, learning.mac, learning.vid, {learning.port},
                           Dynamic, "override_dynamic").tab
    BY <1>1 DEF Learn, SetDb
  <2> QED
    BY <2>1, <2>3, <2>4, CreateKeepsStatic
<1>2. PackedInv /\ [Next]_vars => [Learn => Kept]_vars
  BY <1>1
<1> QED
  BY <1>2, TablePacked, PTL DEF Spec, LearningKeepsStatic

-----------------------------------------------------------------------------
(* Stations with rows of their own                                         *)
(*                                                                         *)
(* A row with two entries is where a deletion leaves a stale address and a *)
(* duplicate of the last entry, so what follows is of keys with different  *)
(* hashes.  An entry is then in the first bucket of its row and its        *)
(* address names that bucket, so a removal empties what it found.          *)

NoCollision == \A j, k \in Keys : Hash[j] = Hash[k] => j = k

AloneIn(r, row) ==
    \A b \in Buckets :
        IF row[b].valid
        THEN b = 0 /\ row[b].addr = 0 /\ row[b].key \in Keys /\ Hash[row[b].key] = r
        ELSE row[b] = Empty

\* A database with at most one entry per row and the gateware's copy up to date.
Sound(db) ==
    /\ db \in Dbs
    /\ \A r \in Rows : AloneIn(r, db.tab[r])
    /\ \A r \in Rows, b \in Buckets : db.hw[r][b] = HwImage(db.tab[r][b])

\* The entry of a key, if any.
Slot(t, k) == t[Hash[k]][0]

LEMMA SoundTypes ==
    ASSUME NEW db, Sound(db)
    PROVE  /\ db \in Dbs /\ db.tab \in Tables /\ db.hw \in HwTables
           /\ \A r \in Rows : /\ db.tab[r] \in [Buckets -> Entries]
                              /\ db.hw[r] \in [Buckets -> HwEntries]
           /\ \A r \in Rows, b \in Buckets : db.tab[r][b] \in Entries
BY DEF Sound, Dbs, Tables, HwTables

LEMMA CountAlone ==
    ASSUME NEW r, NEW row \in [Buckets -> Entries], AloneIn(r, row)
    PROVE  Count(row) = IF row[0].valid THEN 1 ELSE 0
<1>1. \A b \in Buckets : \A c \in 0 .. b : b = 0 => c = 0
  BY Basics
<1>2. Packed(row)
  BY <1>1 DEF Packed, AloneIn
<1>3. Count(row) \in 0 .. NBuckets /\ \A b \in Buckets : row[b].valid <=> b < Count(row)
  BY <1>2, CountPacked
<1>4. row[0].valid <=> 0 < Count(row)
  BY <1>3, Basics
<1>5. Count(row) <= 1
  <2> SUFFICES ASSUME Count(row) > 1 PROVE FALSE
    BY <1>3, Basics
  <2>1. 1 \in Buckets
    BY <1>3, Basics DEF Buckets
  <2>2. row[1].valid /\ 1 # 0
    BY <1>3, <2>1
  <2> QED
    BY <2>1, <2>2 DEF AloneIn
<1> QED
  BY <1>3, <1>4, <1>5, Basics

LEMMA HoldsAlone ==
    ASSUME NoCollision, NEW t \in Tables, \A r \in Rows : AloneIn(r, t[r]), NEW k \in Keys
    PROVE  /\ Holds(t, k) = IF Slot(t, k).valid THEN {<<Hash[k], 0>>} ELSE {}
           /\ Slot(t, k).valid => Slot(t, k).key = k /\ First(t, k) = <<Hash[k], 0>>
<1>1. Hash[k] \in Rows /\ 0 \in Buckets
  BY Basics
<1>2. Slot(t, k).valid => Slot(t, k).key = k
  <2>1. Slot(t, k).valid => Slot(t, k).key \in Keys /\ Hash[Slot(t, k).key] = Hash[k]
    BY <1>1 DEF AloneIn, Slot
  <2> QED
    BY <2>1 DEF NoCollision
<1>3. ASSUME NEW p \in Holds(t, k) PROVE p = <<Hash[k], 0>> /\ Slot(t, k).valid
  <2>1. /\ p = <<p[1], p[2]>> /\ p[1] \in Rows /\ p[2] \in Buckets
        /\ t[p[1]][p[2]].valid /\ t[p[1]][p[2]].key = k
    BY DEF Holds, Places
  <2>2. p[2] = 0 /\ Hash[k] = p[1]
    BY <2>1 DEF AloneIn
  <2> QED
    BY <2>1, <2>2 DEF Slot
<1>4. Slot(t, k).valid => <<Hash[k], 0>> \in Holds(t, k)
  BY <1>1, <1>2 DEF Holds, Places, Slot
<1>5. Holds(t, k) = IF Slot(t, k).valid THEN {<<Hash[k], 0>>} ELSE {}
  BY <1>3, <1>4
<1>6. Slot(t, k).valid => First(t, k) = <<Hash[k], 0>>
  BY <1>3, <1>4, FirstHolds
<1> QED
  BY <1>2, <1>5, <1>6

LEMMA WriteSound ==
    ASSUME NEW db, Sound(db), NEW k \in Keys, NEW e \in Entries,
           e.valid, e.key = k, e.addr = 0
    PROVE  /\ Sound(WriteEntry(db, Hash[k], 0, 0, e))
           /\ Slot(WriteEntry(db, Hash[k], 0, 0, e).tab, k) = e
           /\ \A j \in Keys : Hash[j] # Hash[k] =>
                 Slot(WriteEntry(db, Hash[k], 0, 0, e).tab, j) = Slot(db.tab, j)
<1> DEFINE new == WriteEntry(db, Hash[k], 0, 0, e)
           r == Hash[k]
<1>1. r \in Rows /\ 0 \in Buckets /\ \A j \in Keys : Hash[j] \in Rows
  BY Basics
<1>2. db \in Dbs
  BY DEF Sound
<1>3. /\ new \in Dbs
      /\ \A q \in Rows, c \in Buckets :
            new.tab[q][c] = IF q = r /\ c = 0 THEN e ELSE db.tab[q][c]
      /\ \A q \in Rows, c \in Buckets :
            new.hw[q][c] = IF q = r /\ c = 0 THEN HwImage(e) ELSE db.hw[q][c]
  <2> HIDE DEF r
  <2> QED
    BY <1>1, <1>2, WriteRange DEF r
<1> HIDE DEF new
<1>4. \A q \in Rows, c \in Buckets : new.hw[q][c] = HwImage(new.tab[q][c])
  BY <1>3 DEF Sound
<1>5. \A q \in Rows : AloneIn(q, new.tab[q])
  BY <1>3 DEF Sound, AloneIn
<1>6. Sound(new)
  BY <1>3, <1>4, <1>5 DEF Sound
<1>7. Slot(new.tab, k) = e /\ \A j \in Keys : Hash[j] # r => Slot(new.tab, j) = Slot(db.tab, j)
  BY <1>1, <1>3 DEF Slot
<1> QED
  BY <1>6, <1>7 DEF new

\* What rtu_fd_create_entry() does with the entry of its key.
Created(e, k, drop, mask, d, how) ==
    IF drop THEN e
    ELSE IF ~e.valid THEN NewEntry(k, mask, d, 0)
    ELSE IF \/ how = "override_dynamic" /\ e.dynamic = Static /\ d = Dynamic
            \/ e.mask = mask /\ e.dynamic = d
         THEN e
    ELSE Refreshed(e, mask, d)

LEMMA CreateSound ==
    ASSUME NoCollision, NEW db, Sound(db), NEW vl \in Vlans, NEW m \in Macs, NEW v \in Vids,
           NEW mask \in Masks, NEW d \in BOOLEAN, NEW how,
           NEW k \in Keys, k = <<m, vl[v].fid>>
    PROVE  /\ Sound(CreateEntry(db, vl, m, v, mask, d, how))
           /\ \A j \in Keys :
                 Slot(CreateEntry(db, vl, m, v, mask, d, how).tab, j) =
                     IF j = k THEN Created(Slot(db.tab, k), k, vl[v].drop, mask, d, how)
                     ELSE Slot(db.tab, j)
<1> DEFINE new == CreateEntry(db, vl, m, v, mask, d, how)
           old == Slot(db.tab, k)
           Goal(x, e) == /\ Sound(x)
                         /\ \A j \in Keys :
                               Slot(x.tab, j) = IF j = k THEN e ELSE Slot(db.tab, j)
<1> SUFFICES Goal(new, Created(old, k, vl[v].drop, mask, d, how))
  OBVIOUS
<1>1. /\ db \in Dbs /\ db.tab \in Tables /\ Hash[k] \in Rows /\ 0 \in Buckets
      /\ old \in Entries /\ db.tab[Hash[k]] \in [Buckets -> Entries]
      /\ AloneIn(Hash[k], db.tab[Hash[k]])
  BY SoundTypes, Basics DEF Slot, Sound
<1>2. \A j \in Keys : j # k => Hash[j] # Hash[k]
  BY DEF NoCollision
<1>3. Goal(db, old)
  OBVIOUS
<1>4. /\ Holds(db.tab, k) = IF old.valid THEN {<<Hash[k], 0>>} ELSE {}
      /\ old.valid => old.key = k /\ First(db.tab, k) = <<Hash[k], 0>>
  BY <1>1, HoldsAlone DEF Sound
<1>5. ASSUME NEW e \in Entries, e.valid, e.key = k, e.addr = 0
      PROVE  Goal(WriteEntry(db, Hash[k], 0, 0, e), e)
  <2> DEFINE w == WriteEntry(db, Hash[k], 0, 0, e)
  <2>1. /\ Sound(w) /\ Slot(w.tab, k) = e
        /\ \A j \in Keys : Hash[j] # Hash[k] => Slot(w.tab, j) = Slot(db.tab, j)
    BY <1>5, WriteSound
  <2> HIDE DEF w
  <2>2. Goal(w, e)
    BY <1>2, <2>1
  <2> QED
    BY <2>2 DEF w
<1> HIDE DEF Goal, new
<1>6. CASE vl[v].drop
  BY <1>3, <1>6 DEF Created, CreateEntry, new
<1>7. CASE ~vl[v].drop /\ ~old.valid
  <2>1. new = InsertEntry(db, k, mask, d)
    BY <1>4, <1>7 DEF CreateEntry, new
  <2>2. Count(db.tab[Hash[k]]) = 0
    BY <1>1, <1>7, CountAlone DEF Slot
  <2>3. new = WriteEntry(db, Hash[k], 0, 0, NewEntry(k, mask, d, 0))
    <3>1. 0 # NBuckets
      BY Basics
    <3> QED
      BY <2>1, <2>2, <3>1 DEF InsertEntry, NewEntry
  <2>4. NewEntry(k, mask, d, 0) \in Entries
    BY <1>1, NewEntryRange
  <2>5. Goal(new, NewEntry(k, mask, d, 0))
    BY <1>5, <2>3, <2>4 DEF NewEntry
  <2> QED
    BY <1>7, <2>5 DEF Created
<1>8. CASE ~vl[v].drop /\ old.valid
  <2> DEFINE same == \/ how = "override_dynamic" /\ old.dynamic = Static /\ d = Dynamic
                     \/ old.mask = mask /\ old.dynamic = d
  <2>1. new = UpdateEntry(db, k, mask, d, how)
    BY <1>4, <1>8 DEF CreateEntry, new
  <2>2. old.addr = 0
    BY <1>1, <1>8 DEF AloneIn, Slot
  <2>3. new = IF same THEN db ELSE WriteEntry(db, Hash[k], 0, old.addr, Refreshed(old, mask, d))
    <3>1. /\ First(db.tab, k)[1] = Hash[k] /\ First(db.tab, k)[2] = 0
          /\ db.tab[First(db.tab, k)[1]][First(db.tab, k)[2]] = old
      BY <1>4, <1>8 DEF Slot
    <3> HIDE DEF old
    <3> QED
      BY <2>1, <3>1, Zenon DEF UpdateEntry, Refreshed
  <2>4. CASE same
    BY <1>3, <1>8, <2>3, <2>4 DEF Created
  <2>5. CASE ~same
    <3>1. Goal(new, Refreshed(old, mask, d))
      <4> DEFINE e == Refreshed(old, mask, d)
      <4>1. e \in Entries /\ e.valid /\ e.key = k /\ e.addr = 0
        BY <1>1, <1>4, <1>8, <2>2, RefreshedRange
      <4> HIDE DEF e, old
      <4>2. new = WriteEntry(db, Hash[k], 0, 0, e)
        BY <2>2, <2>3, <2>5 DEF e
      <4> QED
        BY <1>5, <4>1, <4>2 DEF e
    <3> QED
      BY <1>8, <2>5, <3>1 DEF Created
  <2> QED
    BY <2>4, <2>5
<1> QED
  BY <1>6, <1>7, <1>8

\* Deleting the entry of a row empties its first bucket, here and in the gateware.
LEMMA DeleteAlone ==
    ASSUME NEW r, NEW tr \in RowStates, AloneIn(r, tr.row), tr.row[0].valid,
           \A i \in Buckets : tr.hw[i] = HwImage(tr.row[i])
    PROVE  /\ \A i \in Buckets :
                 DeleteBucket(tr, 0).row[i] = IF i = 0 THEN Empty ELSE tr.row[i]
           /\ \A i \in Buckets :
                 DeleteBucket(tr, 0).hw[i] = IF i = 0 THEN HwImage(Empty) ELSE tr.hw[i]
<1> DEFINE row == [i \in Buckets |->
                      IF 0 <= i /\ i < Count(tr.row) - 1 THEN tr.row[i + 1]
                      ELSE IF i = 0 THEN Empty ELSE tr.row[i]]
           hwrow == [i \in Buckets |->
                        IF i < Count(tr.row) THEN HwImage(row[i]) ELSE tr.hw[i]]
<1>1. tr.row \in [Buckets -> Entries]
  BY DEF RowStates
<1>2. Count(tr.row) = 1
  BY <1>1, CountAlone
<1>3. \A i \in Buckets : i \in Nat /\ ~(0 <= i /\ i < 1 - 1) /\ (i < 1 <=> i = 0)
  BY Basics
<1>4. \A i \in Buckets : row[i] = IF i = 0 THEN Empty ELSE tr.row[i]
  BY <1>2, <1>3
<1> HIDE DEF row
<1>5. \A i \in Buckets : hwrow[i] = IF i = 0 THEN HwImage(Empty) ELSE tr.hw[i]
  BY <1>2, <1>3, <1>4
<1>6. DeleteBucket(tr, 0) = [row |-> row, hw |-> hwrow]
  BY DEF DeleteBucket, row
<1> HIDE DEF hwrow
<1> QED
  BY <1>4, <1>5, <1>6

\* A scan of such a row empties the matching buckets.
LEMMA RemoveMatchesAlone ==
    ASSUME NEW r, NEW row \in [Buckets -> Entries], NEW hwrow \in [Buckets -> HwEntries],
           AloneIn(r, row), \A i \in Buckets : hwrow[i] = HwImage(row[i]),
           NEW S \in SUBSET {b \in Buckets : row[b].valid}
    PROVE  /\ \A i \in Buckets :
                 RemoveMatches(row, hwrow, S).row[i] = IF i \in S THEN Empty ELSE row[i]
           /\ \A i \in Buckets :
                 RemoveMatches(row, hwrow, S).hw[i] = IF i \in S THEN HwImage(Empty) ELSE hwrow[i]
<1> DEFINE base == [row |-> row, hw |-> hwrow]
<1>1. S \in SUBSET Buckets /\ \A b \in S : b = 0 /\ row[0].valid /\ row[0].addr = 0
  BY DEF AloneIn
<1>2. PICK f : /\ f[0] = base
               /\ \A n \in 1 .. NBuckets :
                     f[n] = IF NBuckets - n \in S
                            THEN DeleteBucket(f[n - 1], row[NBuckets - n].addr)
                            ELSE f[n - 1]
               /\ \A n \in 0 .. NBuckets : f[n] \in RowStates
               /\ RemoveMatches(row, hwrow, S) = f[NBuckets]
  BY <1>1, ScanLoop
<1>3. f[NBuckets - 1] = base
  <2> DEFINE T == {base}
  <2>1. NBuckets - 1 \in Nat /\ NBuckets - 1 \in 0 .. NBuckets - 1
    BY Basics
  <2>2. ASSUME NEW n \in 1 .. NBuckets - 1, f[n - 1] \in T PROVE f[n] \in T
    <3>1. n \in 1 .. NBuckets /\ NBuckets - n # 0
      BY Basics
    <3>2. NBuckets - n \notin S
      BY <1>1, <3>1
    <3> QED
      BY <1>2, <2>2, <3>1, <3>2
  <2>3. f[0] \in T
    BY <1>2
  <2> HIDE DEF T
  <2>4. f[NBuckets - 1] \in T
    BY <2>1, <2>2, <2>3, LoopInvariant
  <2> QED
    BY <2>4 DEF T
<1>4. f[NBuckets] = IF 0 \in S THEN DeleteBucket(base, row[0].addr) ELSE base
  <2>1. NBuckets \in 1 .. NBuckets /\ NBuckets - NBuckets = 0
    BY Basics
  <2> QED
    BY <1>2, <1>3, <2>1
<1>5. CASE 0 \in S
  <2>1. row[0].valid /\ row[0].addr = 0 /\ \A i \in Buckets : i \in S <=> i = 0
    BY <1>1, <1>5
  <2>2. base \in RowStates /\ base.row = row /\ base.hw = hwrow
    BY DEF RowStates
  <2>3. RemoveMatches(row, hwrow, S) = DeleteBucket(base, 0)
    BY <1>2, <1>4, <1>5, <2>1
  <2> HIDE DEF base
  <2> QED
    BY <2>1, <2>2, <2>3, DeleteAlone
<1>6. CASE 0 \notin S
  <2>1. \A i \in Buckets : i \notin S
    BY <1>1, <1>6
  <2>2. RemoveMatches(row, hwrow, S) = base
    BY <1>2, <1>4, <1>6
  <2> QED
    BY <2>1, <2>2
<1> QED
  BY <1>5, <1>6

ValidPlaces(t) == {p \in Places : t[p[1]][p[2]].valid}

\* A scan of the table empties the places it found and no others.
LEMMA RemoveSound ==
    ASSUME NEW db, Sound(db), NEW S \in SUBSET ValidPlaces(db.tab)
    PROVE  /\ Sound(RemoveAll(db, S))
           /\ \A r \in Rows, b \in Buckets :
                 RemoveAll(db, S).tab[r][b] = IF <<r, b>> \in S THEN Empty ELSE db.tab[r][b]
<1> DEFINE M(r) == {b \in Buckets : <<r, b>> \in S}
           new == [r \in Rows |-> RemoveMatches(db.tab[r], db.hw[r], M(r))]
           out == RemoveAll(db, S)
<1> USE DEF ValidPlaces
<1>1. out = [tab |-> [r \in Rows |-> new[r].row], hw |-> [r \in Rows |-> new[r].hw]]
  BY DEF RemoveAll
<1>2. ASSUME NEW r \in Rows
      PROVE  /\ \A i \in Buckets :
                   new[r].row[i] = IF i \in M(r) THEN Empty ELSE db.tab[r][i]
             /\ \A i \in Buckets :
                   new[r].hw[i] = IF i \in M(r) THEN HwImage(Empty) ELSE db.hw[r][i]
  <2>1. /\ db.tab[r] \in [Buckets -> Entries] /\ db.hw[r] \in [Buckets -> HwEntries]
        /\ AloneIn(r, db.tab[r]) /\ \A i \in Buckets : db.hw[r][i] = HwImage(db.tab[r][i])
    BY SoundTypes DEF Sound
  <2>2. M(r) \in SUBSET {b \in Buckets : db.tab[r][b].valid}
    <3> SUFFICES ASSUME NEW b \in M(r) PROVE db.tab[r][b].valid /\ b \in Buckets
      OBVIOUS
    <3>1. <<r, b>> \in S /\ b \in Buckets
      OBVIOUS
    <3>2. db.tab[<<r, b>>[1]][<<r, b>>[2]].valid
      BY <3>1
    <3> QED
      BY <3>1, <3>2
  <2>3. new[r] = RemoveMatches(db.tab[r], db.hw[r], M(r))
    OBVIOUS
  <2> HIDE DEF M, new
  <2> QED
    BY <2>1, <2>2, <2>3, RemoveMatchesAlone
<1>3. out \in Dbs
  BY RemoveAllPacked DEF Sound
<1> HIDE DEF new, out
<1>4. \A r \in Rows, b \in Buckets :
         /\ out.tab[r][b] = IF <<r, b>> \in S THEN Empty ELSE db.tab[r][b]
         /\ out.hw[r][b] = IF <<r, b>> \in S THEN HwImage(Empty) ELSE db.hw[r][b]
  BY <1>1, <1>2
<1>5. \A r \in Rows, b \in Buckets : out.hw[r][b] = HwImage(out.tab[r][b])
  BY <1>4 DEF Sound
<1>6. \A r \in Rows : AloneIn(r, out.tab[r])
  <2>1. ~Empty.valid
    BY DEF Empty
  <2>2. ASSUME NEW r \in Rows, NEW b \in Buckets
        PROVE  IF out.tab[r][b].valid
               THEN /\ b = 0 /\ out.tab[r][b].addr = 0
                    /\ out.tab[r][b].key \in Keys /\ Hash[out.tab[r][b].key] = r
               ELSE out.tab[r][b] = Empty
    <3>1. AloneIn(r, db.tab[r])
      BY DEF Sound
    <3>2. CASE out.tab[r][b] = Empty
      BY <2>1, <3>2
    <3>3. CASE out.tab[r][b] = db.tab[r][b]
      BY <3>1, <3>3 DEF AloneIn
    <3> QED
      BY <1>4, <3>2, <3>3
  <2> QED
    BY <2>2 DEF AloneIn
<1> QED
  BY <1>3, <1>4, <1>5, <1>6 DEF Sound, out

\* rtu_create_static_entries(), entry by entry: what it changes becomes one of
\* the configured entries.
FixedEntry(e, k) ==
    \E i \in 1 .. Len(StaticEntries) :
        /\ StaticEntries[i].mac = k[1]
        /\ e.valid /\ e.dynamic = Static /\ e.age = 0 /\ e.mask = StaticEntries[i].mask

LEMMA StaticSound ==
    ASSUME NoCollision, NEW db, Sound(db), NEW vl \in Vlans
    PROVE  /\ Sound(CreateStatic(db, vl))
           /\ \A k \in Keys : \/ Slot(CreateStatic(db, vl).tab, k) = Slot(db.tab, k)
                              \/ FixedEntry(Slot(CreateStatic(db, vl).tab, k), k)
<1> DEFINE N == Len(StaticEntries)
           T == {x \in Dbs : /\ Sound(x)
                             /\ \A k \in Keys : \/ Slot(x.tab, k) = Slot(db.tab, k)
                                                \/ FixedEntry(Slot(x.tab, k), k)}
<1>1. db \in Dbs
  BY DEF Sound
<1>2. PICK f : /\ f[0] = db
               /\ \A n \in 1 .. N :
                     /\ StaticEntries[n] \in [mac : Macs, mask : Masks]
                     /\ f[n] = CreateEntry(f[n - 1], vl, StaticEntries[n].mac, 0,
                                           StaticEntries[n].mask, Static, "override")
               /\ \A n \in 0 .. N : f[n] \in Dbs
               /\ CreateStatic(db, vl) = f[N]
  BY <1>1, StaticLoop
<1>3. N \in Nat
  BY RtuConstants
<1>4. f[0] \in T
  BY <1>1, <1>2
<1>5. ASSUME NEW n \in 1 .. N, f[n - 1] \in T PROVE f[n] \in T
  <2> DEFINE s == StaticEntries[n]
             k == <<s.mac, vl[0].fid>>
             old == f[n - 1]
             new == CreateEntry(old, vl, s.mac, 0, s.mask, Static, "override")
  <2>1. /\ s.mac \in Macs /\ s.mask \in Masks /\ 0 \in Vids /\ Static \in BOOLEAN
        /\ vl[0].fid \in Fids /\ Static = FALSE /\ Dynamic = TRUE
    BY <1>2, RtuConstants DEF Static, Dynamic, Vlans
  <2>2. k \in Keys
    BY <2>1 DEF Keys
  <2>3. /\ old \in Dbs /\ Sound(old)
        /\ \A j \in Keys : \/ Slot(old.tab, j) = Slot(db.tab, j)
                           \/ FixedEntry(Slot(old.tab, j), j)
    BY <1>5
  <2>4. f[n] = new /\ f[n] \in Dbs
    BY <1>2, <1>3
  <2> HIDE DEF old, T
  <2>5. /\ Sound(new)
        /\ \A j \in Keys :
              Slot(new.tab, j) = IF j = k THEN Created(Slot(old.tab, k), k, vl[0].drop,
                                                       s.mask, Static, "override")
                                 ELSE Slot(old.tab, j)
    <3> HIDE DEF new, s
    <3> QED
      BY <2>1, <2>2, <2>3, CreateSound DEF new
  <2> HIDE DEF new
  <2>6. \/ Slot(new.tab, k) = Slot(old.tab, k)
        \/ FixedEntry(Slot(new.tab, k), k)
    <3>1. Slot(old.tab, k) \in Entries
      BY <2>2, <2>3, SoundTypes, Basics DEF Slot
    <3>2. ASSUME Slot(new.tab, k) # Slot(old.tab, k)
          PROVE  /\ Slot(new.tab, k).valid /\ Slot(new.tab, k).dynamic = Static
                 /\ Slot(new.tab, k).age = 0 /\ Slot(new.tab, k).mask = s.mask
      <4>1. Slot(new.tab, k) = Created(Slot(old.tab, k), k, vl[0].drop, s.mask,
                                       Static, "override")
        BY <2>2, <2>5
      <4>2. \/ Slot(new.tab, k) = NewEntry(k, s.mask, Static, 0)
            \/ Slot(old.tab, k).valid /\ Slot(new.tab, k) = Refreshed(Slot(old.tab, k), s.mask, Static)
        BY <3>2, <4>1 DEF Created
      <4>3. CASE Slot(new.tab, k) = NewEntry(k, s.mask, Static, 0)
        BY <4>3 DEF NewEntry
      <4>4. CASE Slot(old.tab, k).valid /\ Slot(new.tab, k) = Refreshed(Slot(old.tab, k), s.mask, Static)
        BY <2>1, <3>1, <4>4, RefreshedRange
      <4> QED
        BY <4>2, <4>3, <4>4
    <3> QED
      BY <3>2 DEF FixedEntry
  <2>7. \A j \in Keys : \/ Slot(new.tab, j) = Slot(db.tab, j)
                        \/ FixedEntry(Slot(new.tab, j), j)
    <3> HIDE DEF k
    <3> QED
      BY <2>2, <2>3, <2>5, <2>6
  <2> QED
    BY <2>4, <2>5, <2>7 DEF T
<1> HIDE DEF T
<1>6. f[N] \in T
  <2>1. N \in 0 .. N
    BY <1>3
  <2> HIDE DEF N
  <2> QED
    BY <1>3, <1>4, <1>5, <2>1, LoopInvariant
<1> QED
  BY <1>2, <1>6 DEF T

-----------------------------------------------------------------------------
(* What each step does to the entry of each key                            *)

LEMMA SetDbSound ==
    ASSUME NEW db, Sound(db), SetDb(db)
    PROVE  Sound(Db') /\ tab' = db.tab /\ hw' = db.hw
<1>1. db = [tab |-> db.tab, hw |-> db.hw]
  BY DEF Sound, Dbs
<1>2. Db' = db
  BY <1>1 DEF SetDb, Db
<1> QED
  BY <1>2 DEF SetDb

LEMMA SlotTypes ==
    ASSUME NEW db, Sound(db), NEW k \in Keys
    PROVE  /\ Slot(db.tab, k) \in Entries
           /\ Hash[k] \in Rows /\ <<Hash[k], 0>> \in Places
           /\ ~Slot(db.tab, k).valid => Slot(db.tab, k) = Empty
BY SoundTypes, Basics DEF Slot, Sound, AloneIn, Places

LEMMA RemoveSlots ==
    ASSUME NoCollision, NEW db, Sound(db),
           NEW S \in SUBSET ValidPlaces(db.tab)
    PROVE  /\ Sound(RemoveAll(db, S))
           /\ \A k \in Keys : Slot(RemoveAll(db, S).tab, k) =
                 IF <<Hash[k], 0>> \in S THEN Empty ELSE Slot(db.tab, k)
BY RemoveSound, Basics DEF Slot

LEMMA ClearSlots ==
    ASSUME NoCollision, NEW db, Sound(db), NEW p, NEW d
    PROVE  /\ Sound(ClearEntriesForPort(db, p, d))
           /\ \A k \in Keys : Slot(ClearEntriesForPort(db, p, d).tab, k) =
                 IF /\ Slot(db.tab, k).valid /\ Slot(db.tab, k).dynamic = d
                    /\ Slot(db.tab, k).mask = {p}
                 THEN Empty ELSE Slot(db.tab, k)
<1> DEFINE S == {q \in OfType(db.tab, d) : db.tab[q[1]][q[2]].mask = {p}}
<1>1. S \in SUBSET ValidPlaces(db.tab)
  BY DEF OfType, ValidPlaces
<1>2. \A k \in Keys : <<Hash[k], 0>> \in S <=>
         /\ Slot(db.tab, k).valid /\ Slot(db.tab, k).dynamic = d /\ Slot(db.tab, k).mask = {p}
  BY SlotTypes DEF OfType, Slot
<1>3. ClearEntriesForPort(db, p, d) = RemoveAll(db, S)
  BY DEF ClearEntriesForPort
<1> HIDE DEF S
<1>4. Sound(ClearEntriesForPort(db, p, d))
  BY <1>1, <1>3, RemoveSlots
<1>5. ASSUME NEW k \in Keys
      PROVE  Slot(ClearEntriesForPort(db, p, d).tab, k) =
                IF <<Hash[k], 0>> \in S THEN Empty ELSE Slot(db.tab, k)
  BY <1>1, <1>3, RemoveSlots
<1> QED
  BY <1>2, <1>4, <1>5

LEMMA RemoveEntrySlots ==
    ASSUME NoCollision, NEW db, Sound(db), NEW m, NEW mask, NEW d
    PROVE  /\ Sound(RemoveEntry(db, m, mask, d))
           /\ \A k \in Keys : Slot(RemoveEntry(db, m, mask, d).tab, k) =
                 IF /\ Slot(db.tab, k).valid /\ Slot(db.tab, k).dynamic = d
                    /\ k[1] = m /\ Slot(db.tab, k).mask = mask
                 THEN Empty ELSE Slot(db.tab, k)
<1> DEFINE S == {q \in OfType(db.tab, d) : /\ db.tab[q[1]][q[2]].key[1] = m
                                           /\ db.tab[q[1]][q[2]].mask = mask}
<1>1. S \in SUBSET ValidPlaces(db.tab)
  BY DEF OfType, ValidPlaces
<1>2. \A k \in Keys : Slot(db.tab, k).valid => Slot(db.tab, k).key = k
  BY SoundTypes, HoldsAlone DEF Sound
<1>3. \A k \in Keys : <<Hash[k], 0>> \in S <=>
         /\ Slot(db.tab, k).valid /\ Slot(db.tab, k).dynamic = d
         /\ k[1] = m /\ Slot(db.tab, k).mask = mask
  BY <1>2, SlotTypes DEF OfType, Slot
<1>4. RemoveEntry(db, m, mask, d) = RemoveAll(db, S)
  BY DEF RemoveEntry
<1> HIDE DEF S
<1>5. Sound(RemoveEntry(db, m, mask, d))
  BY <1>1, <1>4, RemoveSlots
<1>6. ASSUME NEW k \in Keys
      PROVE  Slot(RemoveEntry(db, m, mask, d).tab, k) =
                IF <<Hash[k], 0>> \in S THEN Empty ELSE Slot(db.tab, k)
  BY <1>1, <1>4, RemoveSlots
<1> QED
  BY <1>3, <1>5, <1>6

\* The entry of k after the gateware's marks have been read.
Young(e, k) ==
    IF <<Hash[k], 0>> \in used /\ e.dynamic = Dynamic THEN [e EXCEPT !.age = 0] ELSE e

LEMMA AgedSound ==
    ASSUME Sound(Db)
    PROVE  /\ Sound([tab |-> AgeUpdate(tab), hw |-> hw])
           /\ \A k \in Keys : Slot(AgeUpdate(tab), k) = Young(Slot(tab, k), k)
<1> DEFINE t == AgeUpdate(tab)
<1>1. tab \in Tables /\ hw \in HwTables /\ \A r \in Rows, b \in Buckets : tab[r][b] \in Entries
  BY SoundTypes DEF Db
<1>2. /\ t \in Tables
      /\ \A r \in Rows, b \in Buckets :
            t[r][b] = IF <<r, b>> \in used /\ tab[r][b].dynamic = Dynamic
                      THEN [tab[r][b] EXCEPT !.age = 0] ELSE tab[r][b]
  BY <1>1, AgeUpdateRange
<1> HIDE DEF t
<1>3. ASSUME NEW r \in Rows, NEW b \in Buckets
      PROVE  /\ hw[r][b] = HwImage(t[r][b])
             /\ IF t[r][b].valid
                THEN b = 0 /\ t[r][b].addr = 0 /\ t[r][b].key \in Keys /\ Hash[t[r][b].key] = r
                ELSE t[r][b] = Empty
  <2> DEFINE e == tab[r][b]
  <2>1. /\ e \in Entries /\ hw[r][b] = HwImage(e)
        /\ IF e.valid THEN b = 0 /\ e.addr = 0 /\ e.key \in Keys /\ Hash[e.key] = r ELSE e = Empty
    BY <1>1 DEF Sound, AloneIn, Db
  <2>2. CASE t[r][b] = e
    BY <2>1, <2>2
  <2>3. CASE t[r][b] = [e EXCEPT !.age = 0] /\ e.dynamic = Dynamic
    <3>1. e.valid
      BY <2>1, <2>3 DEF Empty, Static, Dynamic
    <3>2. /\ t[r][b].valid = e.valid /\ t[r][b].addr = e.addr /\ t[r][b].key = e.key
          /\ t[r][b].mask = e.mask
      BY <2>1, <2>3 DEF Entries
    <3> QED
      BY <2>1, <3>1, <3>2 DEF HwImage
  <2> QED
    BY <1>2, <2>2, <2>3
<1>4. Sound([tab |-> t, hw |-> hw])
  BY <1>1, <1>2, <1>3 DEF Sound, Dbs, AloneIn
<1>5. \A k \in Keys : Slot(t, k) = Young(Slot(tab, k), k)
  BY <1>2, Basics DEF Slot, Young
<1> QED
  BY <1>4, <1>5 DEF t

LEMMA AgeOutSlots ==
    ASSUME NoCollision, NEW db, Sound(db)
    PROVE  /\ Sound(AgeOut(db))
           /\ \A r \in Rows, b \in Buckets : ~Old(AgeOut(db).tab[r][b])
           /\ \A k \in Keys : Slot(AgeOut(db).tab, k) =
                 IF Old(Slot(db.tab, k)) THEN Empty ELSE Slot(db.tab, k)
<1> DEFINE S == {p \in Places : Old(db.tab[p[1]][p[2]])}
<1>1. S \in SUBSET ValidPlaces(db.tab)
  BY DEF Old, ValidPlaces
<1>2. \A k \in Keys : <<Hash[k], 0>> \in S <=> Old(Slot(db.tab, k))
  BY SlotTypes DEF Slot
<1>3. \A r \in Rows, b \in Buckets : <<r, b>> \in S <=> Old(db.tab[r][b])
  BY DEF Places
<1>4. ~Old(Empty)
  BY DEF Old, Empty
<1>5. AgeOut(db) = RemoveAll(db, S)
  BY DEF AgeOut
<1> HIDE DEF S
<1>6. ASSUME NEW r \in Rows, NEW b \in Buckets
      PROVE  AgeOut(db).tab[r][b] = IF <<r, b>> \in S THEN Empty ELSE db.tab[r][b]
  BY <1>1, <1>5, RemoveSound
<1>7. \A r \in Rows, b \in Buckets : ~Old(AgeOut(db).tab[r][b])
  BY <1>3, <1>4, <1>6
<1>8. Sound(AgeOut(db))
  BY <1>1, <1>5, RemoveSlots
<1>9. ASSUME NEW k \in Keys
      PROVE  Slot(AgeOut(db).tab, k) = IF <<Hash[k], 0>> \in S THEN Empty ELSE Slot(db.tab, k)
  BY <1>1, <1>5, RemoveSlots
<1> QED
  BY <1>2, <1>7, <1>8, <1>9

Aged(e) == [e EXCEPT !.age = IF @ < MaxAge THEN @ + 1 ELSE @]

LEMMA TickSlots ==
    ASSUME Sound(Db), Tick
    PROVE  Sound(Db') /\ \A k \in Keys : Slot(tab', k) = Aged(Slot(tab, k))
<1>1. tab \in Tables /\ hw \in HwTables /\ \A r \in Rows, b \in Buckets : tab[r][b] \in Entries
  BY SoundTypes DEF Db
<1>2. tab' = [r \in Rows |-> [b \in Buckets |-> Aged(tab[r][b])]] /\ hw' = hw
  BY DEF Tick, Aged
<1>3. Aged(Empty) = Empty
  <2>1. ~(Empty.age < MaxAge)
    BY Basics DEF Empty
  <2>2. Aged(Empty) = [Empty EXCEPT !.age = Empty.age]
    BY <2>1 DEF Aged
  <2>3. Empty \in Entries
    BY Basics
  <2> QED
    BY <2>2, <2>3 DEF Entries
<1>4. ASSUME NEW e \in Entries
      PROVE  /\ Aged(e) \in Entries /\ Aged(e).valid = e.valid /\ Aged(e).addr = e.addr
             /\ Aged(e).key = e.key /\ Aged(e).mask = e.mask
  <2>1. Aged(e) \in Entries /\ Aged(e).valid = e.valid
    BY OlderRange DEF Aged
  <2> QED
    BY <2>1 DEF Aged, Entries
<1>5. tab' \in Tables
  BY <1>1, <1>2, <1>4 DEF Tables
<1>6. ASSUME NEW r \in Rows, NEW b \in Buckets
      PROVE  /\ hw'[r][b] = HwImage(tab'[r][b])
             /\ IF tab'[r][b].valid
                THEN /\ b = 0 /\ tab'[r][b].addr = 0
                     /\ tab'[r][b].key \in Keys /\ Hash[tab'[r][b].key] = r
                ELSE tab'[r][b] = Empty
  <2> DEFINE e == tab[r][b]
  <2>1. /\ e \in Entries /\ hw[r][b] = HwImage(e)
        /\ IF e.valid THEN b = 0 /\ e.addr = 0 /\ e.key \in Keys /\ Hash[e.key] = r ELSE e = Empty
    BY <1>1 DEF Sound, AloneIn, Db
  <2>2. tab'[r][b] = Aged(e)
    BY <1>2
  <2> HIDE DEF e
  <2>3. HwImage(Aged(e)) = HwImage(e)
    BY <1>4, <2>1 DEF HwImage
  <2> QED
    BY <1>2, <1>3, <1>4, <2>1, <2>2, <2>3 DEF e
<1>7. Sound(Db')
  BY <1>1, <1>2, <1>5, <1>6 DEF Sound, Dbs, AloneIn, Db
<1>8. \A k \in Keys : Slot(tab', k) = Aged(Slot(tab, k))
  BY <1>2, Basics DEF Slot
<1> QED
  BY <1>7, <1>8

\* The requests of the learning thread and of the tools.
LEMMA LearnSlots ==
    ASSUME NoCollision, PackedInv, Sound(Db), Learn
    PROVE  /\ Sound(Db')
           /\ \E k \in Keys :
                 /\ learning.port \in Ports
                 /\ \A j \in Keys : Slot(tab', j) =
                       IF j = k
                       THEN Created(Slot(tab, k), k, vlan[learning.vid].drop, {learning.port},
                                    Dynamic, "override_dynamic")
                       ELSE Slot(tab, j)
<1> DEFINE k == <<learning.mac, vlan[learning.vid].fid>>
           db == CreateEntry(Db, vlan, learning.mac, learning.vid, {learning.port},
                             Dynamic, "override_dynamic")
<1>1. /\ learning.mac \in Macs /\ learning.vid \in Vids /\ learning.port \in Ports
      /\ {learning.port} \in Masks /\ Dynamic \in BOOLEAN /\ vlan \in Vlans
  BY RequestsRange, DbRange DEF PackedInv, TypeOK, Learn, Requests
<1>2. k \in Keys
  BY <1>1 DEF Keys, Vlans
<1>3. SetDb(db) /\ Db.tab = tab
  BY DEF Learn, Db
<1>4. /\ Sound(db)
      /\ \A j \in Keys : Slot(db.tab, j) =
            IF j = k THEN Created(Slot(tab, k), k, vlan[learning.vid].drop, {learning.port},
                                  Dynamic, "override_dynamic")
            ELSE Slot(tab, j)
  <2> HIDE DEF db
  <2> QED
    BY <1>1, <1>2, <1>3, CreateSound DEF db
<1> HIDE DEF db, k
<1>5. Sound(Db') /\ tab' = db.tab
  BY <1>3, <1>4, SetDbSound
<1> QED
  BY <1>1, <1>2, <1>4, <1>5

LEMMA AddSlots ==
    ASSUME NoCollision, PackedInv, Sound(Db), NEW m \in RpcMacs, NEW v \in Vids,
           NEW mask \in RpcMasks, NEW d \in BOOLEAN, RpcAdd(m, v, mask, d)
    PROVE  /\ Sound(Db')
           /\ \E k \in Keys :
                 \A j \in Keys : Slot(tab', j) =
                    IF j = k THEN Created(Slot(tab, k), k, vlan[v].drop, mask, d, "override")
                    ELSE Slot(tab, j)
<1> DEFINE k == <<m, vlan[v].fid>>
           db == CreateEntry(Db, vlan, m, v, mask, d, "override")
<1>1. m \in Macs /\ mask \in Masks /\ vlan \in Vlans
  BY RequestsRange, DbRange DEF PackedInv
<1>2. k \in Keys
  BY <1>1 DEF Keys, Vlans
<1>3. SetDb(db) /\ Db.tab = tab
  BY DEF RpcAdd, Db
<1>4. /\ Sound(db)
      /\ \A j \in Keys : Slot(db.tab, j) =
            IF j = k THEN Created(Slot(tab, k), k, vlan[v].drop, mask, d, "override")
            ELSE Slot(tab, j)
  <2> HIDE DEF db
  <2> QED
    BY <1>1, <1>2, <1>3, CreateSound DEF db
<1> HIDE DEF db, k
<1>5. Sound(Db') /\ tab' = db.tab
  BY <1>3, <1>4, SetDbSound
<1> QED
  BY <1>2, <1>4, <1>5

LEMMA RestartSlots ==
    ASSUME NoCollision, PackedInv, Sound(Db), Restart
    PROVE  /\ Sound(Db')
           /\ \A k \in Keys : Slot(tab', k) = Slot(tab, k) \/ FixedEntry(Slot(tab', k), k)
<1>1. vlan \in Vlans /\ Db.tab = tab
  BY DbRange DEF PackedInv, Db
<1>2. /\ Sound(CreateStatic(Db, vlan))
      /\ \A k \in Keys : \/ Slot(CreateStatic(Db, vlan).tab, k) = Slot(tab, k)
                         \/ FixedEntry(Slot(CreateStatic(Db, vlan).tab, k), k)
  BY <1>1, StaticSound
<1>3. Sound(Db') /\ tab' = CreateStatic(Db, vlan).tab
  BY <1>2, SetDbSound DEF Restart
<1> QED
  BY <1>2, <1>3

LEMMA FlushSlots ==
    ASSUME NoCollision, Sound(Db), Flush
    PROVE  /\ Sound(Db')
           /\ \A r \in Rows, b \in Buckets : ~Old(tab'[r][b])
           /\ \A k \in Keys : Slot(tab', k) =
                 IF Old(Young(Slot(tab, k), k)) THEN Empty ELSE Young(Slot(tab, k), k)
<1> DEFINE aged == [tab |-> AgeUpdate(tab), hw |-> hw]
<1>1. Sound(aged) /\ \A k \in Keys : Slot(aged.tab, k) = Young(Slot(tab, k), k)
  BY AgedSound
<1>2. SetDb(AgeOut(aged))
  BY DEF Flush
<1> HIDE DEF aged
<1>3. /\ Sound(AgeOut(aged))
      /\ \A r \in Rows, b \in Buckets : ~Old(AgeOut(aged).tab[r][b])
      /\ \A k \in Keys : Slot(AgeOut(aged).tab, k) =
            IF Old(Young(Slot(tab, k), k)) THEN Empty ELSE Young(Slot(tab, k), k)
  BY <1>1, AgeOutSlots
<1>4. Sound(Db') /\ tab' = AgeOut(aged).tab
  BY <1>2, <1>3, SetDbSound
<1> QED
  BY <1>3, <1>4

\* What VisitPort, RpcClear and RpcRemove leave.
LEMMA ClearStep ==
    ASSUME NoCollision, Sound(Db), NEW p, NEW d, SetDb(ClearEntriesForPort(Db, p, d))
    PROVE  /\ Sound(Db')
           /\ \A k \in Keys : Slot(tab', k) =
                 IF Slot(tab, k).valid /\ Slot(tab, k).dynamic = d /\ Slot(tab, k).mask = {p}
                 THEN Empty ELSE Slot(tab, k)
<1> DEFINE db == ClearEntriesForPort(Db, p, d)
<1>1. Db.tab = tab
  BY DEF Db
<1>2. /\ Sound(db)
      /\ \A k \in Keys : Slot(db.tab, k) =
            IF Slot(tab, k).valid /\ Slot(tab, k).dynamic = d /\ Slot(tab, k).mask = {p}
            THEN Empty ELSE Slot(tab, k)
  BY <1>1, ClearSlots
<1> HIDE DEF db
<1> QED
  BY <1>2, SetDbSound DEF db

LEMMA RemoveStep ==
    ASSUME NoCollision, Sound(Db), NEW m, NEW mask, NEW d, SetDb(RemoveEntry(Db, m, mask, d))
    PROVE  /\ Sound(Db')
           /\ \A k \in Keys : Slot(tab', k) =
                 IF /\ Slot(tab, k).valid /\ Slot(tab, k).dynamic = d
                    /\ k[1] = m /\ Slot(tab, k).mask = mask
                 THEN Empty ELSE Slot(tab, k)
<1>1. Db.tab = tab
  BY DEF Db
<1> QED
  BY <1>1, RemoveEntrySlots, SetDbSound

LEMMA VisitStep ==
    ASSUME NoCollision, PackedInv, Sound(Db), VisitPort
    PROVE  \/ tab' = tab /\ hw' = hw
           \/ visit \in Ports /\ SetDb(ClearEntriesForPort(Db, visit, Dynamic))
BY DEF VisitPort, PackedInv, TypeOK, SetDb, Db

-----------------------------------------------------------------------------
(* One entry per key, the gateware's copy, static and aged entries         *)

SoundInv == PackedInv /\ Sound(Db)

LEMMA InitSound == ASSUME NoCollision PROVE Init => SoundInv
<1> SUFFICES ASSUME Init PROVE SoundInv
  OBVIOUS
<1>1. Sound(EmptyDb)
  <2>1. HwImage(Empty) \in HwEntries /\ Empty \in Entries /\ ~Empty.valid
    BY Basics DEF Empty
  <2> QED
    BY <2>1 DEF EmptyDb, Sound, Dbs, Tables, HwTables, AloneIn
<1>2. CleanVlans \in Vlans
  BY RtuConstants DEF CleanVlans, Vlans
<1> DEFINE db == CreateStatic(EmptyDb, CleanVlans)
<1>3. Sound(db)
  BY <1>1, <1>2, StaticSound
<1>4. db = [tab |-> db.tab, hw |-> db.hw]
  BY <1>3 DEF Sound, Dbs
<1>5. tab = db.tab /\ hw = db.hw
  BY DEF Init
<1> HIDE DEF db
<1>6. Db = db
  BY <1>4, <1>5 DEF Db
<1> QED
  BY <1>3, <1>6, InitPacked DEF SoundInv

LEMMA NextSound == ASSUME NoCollision PROVE SoundInv /\ [Next]_vars => SoundInv'
<1> SUFFICES ASSUME SoundInv, [Next]_vars PROVE Sound(Db')
  BY NextPacked DEF SoundInv
<1> USE DEF SoundInv
<1>1. ASSUME tab' = tab, hw' = hw PROVE Sound(Db')
  BY <1>1 DEF Db
<1>2. CASE UNCHANGED vars
  BY <1>1, <1>2 DEF vars
<1>3. CASE Learn
  BY <1>3, LearnSlots
<1>4. CASE VisitPort
  BY <1>1, <1>4, VisitStep, ClearStep
<1>5. CASE Flush
  BY <1>5, FlushSlots
<1>6. ASSUME NEW m \in RpcMacs, NEW v \in Vids, NEW mask \in RpcMasks, NEW d \in BOOLEAN,
             RpcAdd(m, v, mask, d) \/ RpcRemove(m, mask, d)
      PROVE  Sound(Db')
  <2>1. CASE RpcAdd(m, v, mask, d)
    BY <2>1, AddSlots
  <2>2. CASE RpcRemove(m, mask, d)
    <3>1. SetDb(RemoveEntry(Db, m, mask, d))
      BY <2>2 DEF RpcRemove
    <3> QED
      BY <3>1, RemoveStep
  <2> QED
    BY <1>6, <2>1, <2>2
<1>7. ASSUME NEW p \in Ports \cup {Cpu}, NEW d \in BOOLEAN, RpcClear(p, d) PROVE Sound(Db')
  <2>1. SetDb(ClearEntriesForPort(Db, p, d))
    BY <1>7 DEF RpcClear
  <2> QED
    BY <2>1, ClearStep
<1>8. CASE Restart
  BY <1>8, RestartSlots
<1>9. CASE Tick
  BY <1>9, TickSlots
<1>10. ASSUME \/ TakeRequest \/ ReadPorts
              \/ \E v \in Vids, f \in Fids, drop \in BOOLEAN : RpcVlan(v, f, drop)
              \/ \E p \in Ports : LinkChange(p)
              \/ \E m \in Stations, v \in Vids, p \in Ports : Frame(m, v, p)
       PROVE  Sound(Db')
  <2>1. tab' = tab /\ hw' = hw
    BY <1>10 DEF TakeRequest, ReadPorts, RpcVlan, LinkChange, Frame
  <2> QED
    BY <1>1, <2>1
<1> HIDE DEF SoundInv
<1> QED
  BY <1>2, <1>3, <1>4, <1>5, <1>6, <1>7, <1>8, <1>9, <1>10
  DEF Next, LearningThread, AgeingThread, Rpc

THEOREM TableSound == ASSUME NoCollision PROVE Spec => []SoundInv
BY InitSound, NextSound, PTL DEF Spec

\* The gateware's table is the daemon's, whatever was deleted and moved.
THEOREM HwAgrees == ASSUME NoCollision PROVE Spec => []HwMatchesTable
<1>1. SoundInv => HwMatchesTable
  BY DEF SoundInv, Sound, Db, HwMatchesTable
<1> QED
  BY <1>1, TableSound, PTL

\* A station has one entry per filtering database identifier.
THEOREM OneEntryPerKey == ASSUME NoCollision PROVE Spec => []KeysUnique
<1>1. SoundInv => KeysUnique
  <2> SUFFICES ASSUME SoundInv, NEW k \in Keys PROVE Cardinality(Holds(tab, k)) <= 1
    BY DEF KeysUnique
  <2>1. Holds(tab, k) = {<<Hash[k], 0>>} \/ Holds(tab, k) = {}
    BY SoundTypes, HoldsAlone DEF SoundInv, Sound, Db
  <2>2. Cardinality({<<Hash[k], 0>>}) = 1 /\ Cardinality({}) = 0
    BY FS_Singleton, FS_EmptySet
  <2>3. Cardinality(Holds(tab, k)) \in {0, 1}
    BY <2>1, <2>2
  <2> QED
    BY <2>3
<1> QED
  BY <1>1, TableSound, PTL

LEMMA StaticSlots ==
    ASSUME NoCollision, NEW t \in Tables, \A r \in Rows : AloneIn(r, t[r]), NEW k \in Keys
    PROVE  k \in StaticOf(t) <=> Slot(t, k).valid /\ Slot(t, k).dynamic = Static
<1>1. \A p \in Holds(t, k) : p = <<Hash[k], 0>> /\ Slot(t, k).valid
  BY HoldsAlone
<1>2. Slot(t, k).valid => <<Hash[k], 0>> \in Holds(t, k)
  BY HoldsAlone
<1> QED
  BY <1>1, <1>2 DEF StaticOf, Slot

\* Neither traffic nor time nor a restart takes a static entry away or makes it dynamic.
THEOREM StaticStays == ASSUME NoCollision PROVE Spec => StaticPermanent
<1>1. ASSUME SoundInv, SoundInv', LearningThread \/ AgeingThread \/ Restart
      PROVE  StaticOf(tab) \subseteq StaticOf(tab')
  <2> SUFFICES ASSUME NEW k \in StaticOf(tab) PROVE k \in StaticOf(tab')
    OBVIOUS
  <2>1. /\ PackedInv /\ Sound(Db) /\ Sound(Db')
        /\ Db.tab = tab /\ Db'.tab = tab' /\ k \in Keys
        /\ Static = FALSE /\ Dynamic = TRUE
    BY <1>1 DEF SoundInv, Db, StaticOf, Static, Dynamic
  <2>2. Slot(tab, k).valid /\ Slot(tab, k).dynamic = Static
    BY <2>1, SoundTypes, StaticSlots DEF Sound
  <2>3. /\ tab' \in Tables /\ \A r \in Rows : AloneIn(r, tab'[r])
    BY <2>1, SoundTypes DEF Sound
  <2> SUFFICES Slot(tab', k).valid /\ Slot(tab', k).dynamic = Static
    BY <2>1, <2>3, StaticSlots
  <2>4. ASSUME Slot(tab', k) = Slot(tab, k)
        PROVE  Slot(tab', k).valid /\ Slot(tab', k).dynamic = Static
    BY <2>2, <2>4
  <2>5. CASE TakeRequest \/ ReadPorts
    BY <2>4, <2>5 DEF TakeRequest, ReadPorts
  <2>6. CASE Learn
    <3>1. PICK j \in Keys : Slot(tab', k) =
             IF k = j
             THEN Created(Slot(tab, j), j, vlan[learning.vid].drop, {learning.port},
                          Dynamic, "override_dynamic")
             ELSE Slot(tab, k)
      BY <2>1, <2>6, LearnSlots
    <3> QED
      BY <2>2, <2>4, <3>1 DEF Created
  <2>7. CASE VisitPort
    <3>1. CASE tab' = tab
      BY <2>4, <3>1
    <3>2. CASE SetDb(ClearEntriesForPort(Db, visit, Dynamic))
      <4>1. Slot(tab', k) =
               IF /\ Slot(tab, k).valid /\ Slot(tab, k).dynamic = Dynamic
                  /\ Slot(tab, k).mask = {visit}
               THEN Empty ELSE Slot(tab, k)
        <5>1. \A j \in Keys : Slot(tab', j) =
                 IF /\ Slot(tab, j).valid /\ Slot(tab, j).dynamic = Dynamic
                    /\ Slot(tab, j).mask = {visit}
                 THEN Empty ELSE Slot(tab, j)
          BY <2>1, <3>2, ClearStep
        <5> QED
          BY <2>1, <5>1
      <4> QED
        BY <2>1, <2>2, <2>4, <4>1
    <3> QED
      BY <2>1, <2>7, <3>1, <3>2, VisitStep
  <2>8. CASE Flush
    <3>1. Young(Slot(tab, k), k) = Slot(tab, k) /\ ~Old(Slot(tab, k))
      BY <2>1, <2>2 DEF Young, Old
    <3>2. Slot(tab', k) = Slot(tab, k)
      BY <2>1, <2>8, <3>1, FlushSlots
    <3> QED
      BY <2>4, <3>2
  <2>9. CASE Restart
    BY <2>1, <2>4, <2>9, RestartSlots DEF FixedEntry
  <2> QED
    BY <1>1, <2>5, <2>6, <2>7, <2>8, <2>9 DEF LearningThread, AgeingThread
<1> DEFINE Kept == StaticOf(tab) \subseteq StaticOf(tab')
<1>2. SoundInv /\ SoundInv' /\ [Next]_vars => [LearningThread \/ AgeingThread \/ Restart => Kept]_vars
  BY <1>1
<1> QED
  BY <1>2, TableSound, PTL DEF Spec, StaticPermanent

\* No dynamic entry older than the aging time survives a flush.
THEOREM FlushIsComplete == ASSUME NoCollision PROVE Spec => FlushRemovesOld
<1> DEFINE Gone == \A r \in Rows, b \in Buckets : ~Old(tab'[r][b])
<1>1. SoundInv /\ [Next]_vars => [Flush => Gone]_vars
  BY FlushSlots DEF SoundInv
<1> QED
  BY <1>1, TableSound, PTL DEF Spec, FlushRemovesOld

-----------------------------------------------------------------------------
(* The table implements FilterDb                                           *)

\* What the promise is about.
Ent == [k \in Keys |-> EntryOf(k)]

View(e) == [mask |-> e.mask, dynamic |-> e.dynamic, age |-> e.age]
Seen(e) == IF e.valid THEN View(e) ELSE NoKey
AbsOf(t) == [k \in Keys |-> Seen(Slot(t, k))]

LEMMA EntryAlone ==
    ASSUME NoCollision, NEW t \in Tables, \A r \in Rows : AloneIn(r, t[r]), NEW k \in Keys
    PROVE  LET p == First(t, k)
               e == t[p[1]][p[2]]
           IN  (IF Holds(t, k) = {} THEN NoKey
                ELSE [mask |-> e.mask, dynamic |-> e.dynamic, age |-> e.age])
               = Seen(Slot(t, k))
<1>1. CASE Slot(t, k).valid
  <2>1. /\ Holds(t, k) # {} /\ First(t, k)[1] = Hash[k] /\ First(t, k)[2] = 0
    BY <1>1, HoldsAlone
  <2> QED
    BY <1>1, <2>1 DEF Seen, View, Slot
<1>2. CASE ~Slot(t, k).valid
  BY <1>2, HoldsAlone DEF Seen
<1> QED
  BY <1>1, <1>2

LEMMA EntAbs ==
    /\ NoCollision /\ Sound(Db) => Ent = AbsOf(tab)
    /\ NoCollision /\ Sound(Db') => Ent' = AbsOf(tab')
<1>1. ASSUME NoCollision, Sound(Db), NEW k \in Keys PROVE EntryOf(k) = Seen(Slot(tab, k))
  <2>1. tab \in Tables /\ \A r \in Rows : AloneIn(r, tab[r])
    BY <1>1, SoundTypes DEF Sound, Db
  <2> QED
    BY <1>1, <2>1, EntryAlone DEF EntryOf
<1>2. ASSUME NoCollision, Sound(Db'), NEW k \in Keys PROVE EntryOf(k)' = Seen(Slot(tab', k))
  <2>1. Sound(Db') /\ Db'.tab = tab'
    BY <1>2 DEF Db
  <2>2. tab' \in Tables /\ \A r \in Rows : AloneIn(r, tab'[r])
    BY <2>1, SoundTypes DEF Sound
  <2> QED
    BY <1>2, <2>2, EntryAlone DEF EntryOf
<1> QED
  BY <1>1, <1>2 DEF Ent, AbsOf

\* A key seen to have an entry has one.
LEMMA SeenFacts ==
    /\ \A e \in Entries : /\ Seen(e) # NoKey <=> e.valid
                          /\ e.valid => /\ Seen(e).mask = e.mask /\ Seen(e).dynamic = e.dynamic
                                        /\ Seen(e).age = e.age
    /\ Seen(Empty) = NoKey
    /\ \A k, mask, d, n : Seen(NewEntry(k, mask, d, n)) = Promise!New(mask, d)
    /\ \A e \in Entries, mask \in Masks, d \in BOOLEAN :
          e.valid => Seen(Refreshed(e, mask, d)) = Promise!New(mask, d)
<1>1. \A e : View(e) # NoKey
  BY DEF View, NoKey
<1>2. \A e : /\ Seen(e) # NoKey <=> e.valid
             /\ e.valid => /\ Seen(e).mask = e.mask /\ Seen(e).dynamic = e.dynamic
                           /\ Seen(e).age = e.age
  BY <1>1 DEF Seen, View
<1>3. Seen(Empty) = NoKey
  BY DEF Seen, Empty
<1>4. \A k, mask, d, n : Seen(NewEntry(k, mask, d, n)) = Promise!New(mask, d)
  BY DEF Seen, View, NewEntry, Promise!New
<1>5. \A e \in Entries, mask \in Masks, d \in BOOLEAN :
         e.valid => Seen(Refreshed(e, mask, d)) = Promise!New(mask, d)
  BY RefreshedRange DEF Seen, View, Promise!New
<1> QED
  BY <1>2, <1>3, <1>4, <1>5

\* What rtu_fd_create_entry() does to the entry that is seen.
LEMMA CreatedSeen ==
    ASSUME NEW e \in Entries, NEW k, NEW drop, NEW mask \in Masks, NEW d \in BOOLEAN, NEW how
    PROVE  \/ Seen(Created(e, k, drop, mask, d, how)) = Seen(e)
           \/ /\ Seen(Created(e, k, drop, mask, d, how)) = Promise!New(mask, d)
              /\ how = "override_dynamic" /\ d = Dynamic /\ e.valid => e.dynamic
<1>1. e.dynamic \in BOOLEAN
  BY DEF Entries
<1> QED
  BY <1>1, SeenFacts DEF Created, Static

\* A configured entry is one of those the promise lets a key start with.
LEMMA FixedSeen ==
    ASSUME NEW k, NEW e, FixedEntry(e, k)
    PROVE  Seen(e) \in Promise!Fixed(k)
<1>1. PICK i \in 1 .. Len(StaticEntries) :
         /\ StaticEntries[i].mac = k[1]
         /\ e.valid /\ e.dynamic = Static /\ e.age = 0 /\ e.mask = StaticEntries[i].mask
  BY DEF FixedEntry
<1>2. StaticEntries[i] \in {StaticEntries[n] : n \in DOMAIN StaticEntries}
  BY RtuConstants
<1>3. Seen(e) = Promise!New(StaticEntries[i].mask, FALSE)
  BY <1>1 DEF Seen, View, Static, Promise!New
<1> QED
  BY <1>1, <1>2, <1>3 DEF Promise!Fixed, MacOf

LEMMA LearnedSeen ==
    ASSUME NEW e \in Entries, NEW k, NEW drop, NEW mask \in Masks
    PROVE  LET new == Created(e, k, drop, mask, Dynamic, "override_dynamic")
           IN  \/ Seen(new) = Seen(e)
               \/ Seen(new) = Promise!New(mask, TRUE) /\ (e.valid => e.dynamic)
<1> DEFINE new == Created(e, k, drop, mask, TRUE, "override_dynamic")
<1>1. TRUE \in BOOLEAN /\ Dynamic = TRUE
  BY DEF Dynamic
<1>2. \/ Seen(new) = Seen(e)
      \/ Seen(new) = Promise!New(mask, TRUE) /\ (e.valid => e.dynamic)
  <2> HIDE DEF new
  <2>1. \/ Seen(new) = Seen(e)
        \/ /\ Seen(new) = Promise!New(mask, TRUE)
           /\ "override_dynamic" = "override_dynamic" /\ TRUE = Dynamic /\ e.valid => e.dynamic
    BY <1>1, CreatedSeen DEF new
  <2> QED
    BY <1>1, <2>1
<1> QED
  BY <1>1, <1>2

LEMMA InitImplements == ASSUME NoCollision PROVE Init => Promise!Init
<1> SUFFICES ASSUME Init, NEW k \in Keys, Ent[k] # NoKey PROVE Ent[k] \in Promise!Fixed(k)
  BY DEF Promise!Init, Promise!Present, Ent
<1>1. Ent = AbsOf(tab) /\ Sound(Db)
  BY InitSound, EntAbs DEF SoundInv
<1>2. Sound(EmptyDb) /\ \A j \in Keys : ~Slot(EmptyDb.tab, j).valid
  <2>1. HwImage(Empty) \in HwEntries /\ Empty \in Entries /\ ~Empty.valid
    BY Basics DEF Empty
  <2> QED
    BY <2>1, Basics DEF EmptyDb, Sound, Dbs, Tables, HwTables, AloneIn, Slot
<1>3. CleanVlans \in Vlans /\ tab = CreateStatic(EmptyDb, CleanVlans).tab
  BY RtuConstants DEF CleanVlans, Vlans, Init
<1>4. Slot(tab, k) = Slot(EmptyDb.tab, k) \/ FixedEntry(Slot(tab, k), k)
  BY <1>2, <1>3, StaticSound
<1>5. Slot(tab, k).valid
  BY <1>1 DEF AbsOf, Seen
<1>6. FixedEntry(Slot(tab, k), k)
  BY <1>2, <1>4, <1>5
<1> QED
  BY <1>1, <1>6, FixedSeen DEF AbsOf

\* A step that leaves every key's entry as it is seen is a step of the promise.
LEMMA SameSlots ==
    ASSUME NoCollision, Sound(Db), Sound(Db'), \A k \in Keys : Slot(tab', k) = Slot(tab, k)
    PROVE  Ent' = Ent
BY EntAbs DEF AbsOf

LEMMA LearnImplements ==
    ASSUME NoCollision, SoundInv, Learn
    PROVE  Ent' = Ent \/ \E k \in Keys, p \in Ports \cup {Cpu} : Promise!Learn(k, p)
<1>1. PackedInv /\ Sound(Db) /\ Db.tab = tab /\ Dynamic = TRUE /\ Dynamic \in BOOLEAN
  BY DEF SoundInv, Db, Dynamic
<1> DEFINE p == learning.port
<1>2. PICK k \in Keys :
         /\ p \in Ports
         /\ \A j \in Keys : Slot(tab', j) =
               IF j = k
               THEN Created(Slot(tab, k), k, vlan[learning.vid].drop, {p},
                            Dynamic, "override_dynamic")
               ELSE Slot(tab, j)
  BY <1>1, LearnSlots
<1>3. Sound(Db')
  BY <1>1, LearnSlots
<1>4. Ent = AbsOf(tab) /\ Ent' = AbsOf(tab')
  BY <1>1, <1>3, EntAbs
<1>5. Slot(tab, k) \in Entries /\ {p} \in Masks
  BY <1>1, <1>2, SlotTypes, RequestsRange
<1>6. /\ \A j \in Keys : j # k => Ent'[j] = Ent[j]
      /\ \/ Ent'[k] = Ent[k]
         \/ Ent'[k] = Promise!New({p}, TRUE) /\ (Slot(tab, k).valid => Slot(tab, k).dynamic)
  <2> DEFINE e == Slot(tab, k)
             c == Created(e, k, vlan[learning.vid].drop, {p}, Dynamic, "override_dynamic")
  <2>1. \/ Seen(c) = Seen(e)
        \/ Seen(c) = Promise!New({p}, TRUE) /\ (e.valid => e.dynamic)
    BY <1>5, LearnedSeen
  <2> HIDE DEF c, p
  <2>2. Ent[k] = Seen(e) /\ Ent'[k] = Seen(c)
    BY <1>2, <1>4 DEF AbsOf, c
  <2>3. \A j \in Keys : j # k => Ent'[j] = Ent[j]
    BY <1>2, <1>4 DEF AbsOf
  <2> QED
    BY <2>1, <2>2, <2>3
<1>7. CASE Ent'[k] = Ent[k]
  BY <1>4, <1>6, <1>7 DEF AbsOf
<1>8. CASE /\ Ent'[k] = Promise!New({p}, TRUE)
           /\ Slot(tab, k).valid => Slot(tab, k).dynamic
  <2>1. Ent[k] # NoKey => Ent[k].dynamic
    BY <1>4, <1>5, <1>8, SeenFacts DEF AbsOf
  <2>2. Ent' = [Ent EXCEPT ![k] = Promise!New({p}, TRUE)]
    BY <1>4, <1>6, <1>8 DEF AbsOf
  <2> HIDE DEF p
  <2>3. Promise!Learn(k, p)
    BY <2>1, <2>2 DEF Promise!Learn, Promise!Present, Ent
  <2> QED
    BY <1>2, <2>3
<1> QED
  BY <1>6, <1>7, <1>8

LEMMA AddImplements ==
    ASSUME NoCollision, SoundInv, NEW m \in RpcMacs, NEW v \in Vids, NEW mask \in RpcMasks,
           NEW d \in BOOLEAN, RpcAdd(m, v, mask, d)
    PROVE  Ent' = Ent \/ \E k \in Keys : Promise!Configure(k, mask, d)
<1>1. PackedInv /\ Sound(Db) /\ Db.tab = tab
  BY DEF SoundInv, Db
<1>2. PICK k \in Keys : \A j \in Keys : Slot(tab', j) =
         IF j = k THEN Created(Slot(tab, k), k, vlan[v].drop, mask, d, "override")
         ELSE Slot(tab, j)
  BY <1>1, AddSlots
<1>3. Sound(Db')
  BY <1>1, AddSlots
<1>4. Ent = AbsOf(tab) /\ Ent' = AbsOf(tab')
  BY <1>1, <1>3, EntAbs
<1>5. Slot(tab, k) \in Entries /\ mask \in Masks
  BY <1>1, SlotTypes, RequestsRange
<1>6. /\ \A j \in Keys : j # k => Ent'[j] = Ent[j]
      /\ Ent'[k] = Ent[k] \/ Ent'[k] = Promise!New(mask, d)
  BY <1>2, <1>4, <1>5, CreatedSeen DEF AbsOf
<1>7. CASE Ent'[k] = Ent[k]
  BY <1>4, <1>6, <1>7 DEF AbsOf
<1>8. CASE Ent'[k] = Promise!New(mask, d)
  <2>1. Ent' = [Ent EXCEPT ![k] = Promise!New(mask, d)]
    BY <1>4, <1>6, <1>8 DEF AbsOf
  <2>2. Promise!Configure(k, mask, d)
    BY <2>1 DEF Promise!Configure, Ent
  <2> QED
    BY <2>2
<1> QED
  BY <1>6, <1>7, <1>8

LEMMA RestartImplements ==
    ASSUME NoCollision, SoundInv, Restart
    PROVE  \E S \in SUBSET Keys : Promise!Restore(S)
<1>1. PackedInv /\ Sound(Db)
  BY DEF SoundInv
<1>2. /\ Sound(Db')
      /\ \A k \in Keys : Slot(tab', k) = Slot(tab, k) \/ FixedEntry(Slot(tab', k), k)
  BY <1>1, RestartSlots
<1>3. Ent = AbsOf(tab) /\ Ent' = AbsOf(tab')
  BY <1>1, <1>2, EntAbs
<1> DEFINE S == {k \in Keys : Slot(tab', k) # Slot(tab, k)}
           new == [k \in S |-> Ent'[k]]
<1>4. ASSUME NEW k \in S PROVE new[k] \in Promise!Fixed(k)
  BY <1>2, <1>3, FixedSeen DEF AbsOf
<1>5. \A k : Promise!Fixed(k) \subseteq
         {Promise!New(c.mask, FALSE) : c \in {StaticEntries[i] : i \in DOMAIN StaticEntries}}
  BY DEF Promise!Fixed
<1>6. new \in [S -> {Promise!New(c.mask, FALSE) :
                         c \in {StaticEntries[i] : i \in DOMAIN StaticEntries}}]
  BY <1>4, <1>5
<1>7. Ent' = [k \in Keys |-> IF k \in S THEN new[k] ELSE Ent[k]]
  BY <1>3 DEF AbsOf
<1> HIDE DEF new
<1>8. Promise!Restore(S)
  <2> HIDE DEF S
  <2> QED
    BY <1>4, <1>6, <1>7 DEF Promise!Restore, Ent
<1> QED
  BY <1>8

LEMMA RemoveImplements ==
    ASSUME NoCollision, SoundInv, NEW m \in RpcMacs, NEW mask \in RpcMasks,
           NEW d \in BOOLEAN, RpcRemove(m, mask, d)
    PROVE  \E k \in Keys : Promise!Remove(MacOf(k), mask, d)
<1>1. Sound(Db) /\ SetDb(RemoveEntry(Db, m, mask, d)) /\ Db.tab = tab
  BY DEF SoundInv, RpcRemove, Db
<1>2. /\ Sound(Db')
      /\ \A k \in Keys : Slot(tab', k) =
            IF /\ Slot(tab, k).valid /\ Slot(tab, k).dynamic = d
               /\ k[1] = m /\ Slot(tab, k).mask = mask
            THEN Empty ELSE Slot(tab, k)
  BY <1>1, RemoveStep
<1>3. Ent = AbsOf(tab) /\ Ent' = AbsOf(tab')
  BY <1>1, <1>2, EntAbs
<1> DEFINE k0 == <<m, 0>>
<1>4. k0 \in Keys /\ MacOf(k0) = m
  BY RtuConstants, RequestsRange DEF Keys, MacOf
<1> DEFINE S == {k \in Keys : /\ Ent[k] # NoKey /\ k[1] = m
                              /\ Ent[k].mask = mask /\ Ent[k].dynamic = d}
<1>5. ASSUME NEW k \in Keys
      PROVE  k \in S <=> /\ Slot(tab, k).valid /\ Slot(tab, k).dynamic = d
                         /\ k[1] = m /\ Slot(tab, k).mask = mask
  <2>1. Slot(tab, k) \in Entries /\ Ent[k] = Seen(Slot(tab, k))
    BY <1>1, <1>3, SlotTypes DEF AbsOf
  <2> QED
    BY <2>1, SeenFacts
<1> HIDE DEF S
<1>6. ASSUME NEW k \in Keys PROVE Ent'[k] = IF k \in S THEN NoKey ELSE Ent[k]
  BY <1>2, <1>3, <1>5, SeenFacts DEF AbsOf
<1>7. Ent' = [k \in Keys |-> IF k \in S THEN NoKey ELSE Ent[k]]
  BY <1>3, <1>6 DEF AbsOf
<1>8. Promise!Remove(m, mask, d)
  BY <1>7 DEF S, Promise!Remove, Promise!Without, Promise!Present, MacOf, Ent
<1> QED
  BY <1>4, <1>8

LEMMA ClearImplements ==
    ASSUME NoCollision, SoundInv, NEW p \in Ports \cup {Cpu}, NEW d \in BOOLEAN,
           SetDb(ClearEntriesForPort(Db, p, d))
    PROVE  Promise!Clear(p, d)
<1>1. Sound(Db) /\ Db.tab = tab
  BY DEF SoundInv, Db
<1>2. /\ Sound(Db')
      /\ \A k \in Keys : Slot(tab', k) =
            IF Slot(tab, k).valid /\ Slot(tab, k).dynamic = d /\ Slot(tab, k).mask = {p}
            THEN Empty ELSE Slot(tab, k)
  BY <1>1, ClearStep
<1>3. Ent = AbsOf(tab) /\ Ent' = AbsOf(tab')
  BY <1>1, <1>2, EntAbs
<1> DEFINE S == {k \in Keys : Ent[k] # NoKey /\ Ent[k].mask = {p} /\ Ent[k].dynamic = d}
<1>4. ASSUME NEW k \in Keys
      PROVE  k \in S <=> /\ Slot(tab, k).valid /\ Slot(tab, k).dynamic = d
                         /\ Slot(tab, k).mask = {p}
  <2>1. Slot(tab, k) \in Entries /\ Ent[k] = Seen(Slot(tab, k))
    BY <1>1, <1>3, SlotTypes DEF AbsOf
  <2> QED
    BY <2>1, SeenFacts
<1> HIDE DEF S
<1>5. ASSUME NEW k \in Keys PROVE Ent'[k] = IF k \in S THEN NoKey ELSE Ent[k]
  BY <1>2, <1>3, <1>4, SeenFacts DEF AbsOf
<1>6. Ent' = [k \in Keys |-> IF k \in S THEN NoKey ELSE Ent[k]]
  BY <1>3, <1>5 DEF AbsOf
<1> QED
  BY <1>6 DEF S, Promise!Clear, Promise!Without, Promise!Present, Ent

LEMMA TickImplements ==
    ASSUME NoCollision, SoundInv, Tick
    PROVE  Promise!Tick
<1>1. Sound(Db) /\ Db.tab = tab
  BY DEF SoundInv, Db
<1>2. Sound(Db') /\ \A k \in Keys : Slot(tab', k) = Aged(Slot(tab, k))
  BY <1>1, TickSlots
<1>3. Ent = AbsOf(tab) /\ Ent' = AbsOf(tab')
  BY <1>1, <1>2, EntAbs
<1>4. \A k \in Keys : Ent'[k] = IF Ent[k] # NoKey THEN Promise!Older(Ent[k]) ELSE NoKey
  <2> SUFFICES ASSUME NEW k \in Keys
               PROVE  Ent'[k] = IF Ent[k] # NoKey THEN Promise!Older(Ent[k]) ELSE NoKey
    OBVIOUS
  <2> DEFINE e == Slot(tab, k)
  <2>1. e \in Entries /\ Ent[k] = Seen(e) /\ Ent'[k] = Seen(Aged(e))
    BY <1>1, <1>2, <1>3, SlotTypes DEF AbsOf
  <2> HIDE DEF e
  <2>2. /\ Aged(e).valid = e.valid /\ Aged(e).mask = e.mask /\ Aged(e).dynamic = e.dynamic
        /\ Aged(e).age = IF e.age < MaxAge THEN e.age + 1 ELSE e.age
    BY <2>1 DEF Aged, Entries
  <2>3. CASE e.valid
    <3>1. Seen(e) = View(e) /\ Seen(Aged(e)) = View(Aged(e)) /\ Seen(e) # NoKey
      BY <2>1, <2>2, <2>3, SeenFacts DEF Seen
    <3>2. Promise!Older(View(e)) = View(Aged(e))
      BY <2>2 DEF Promise!Older, Promise!MaxAge, MaxAge, View
    <3> QED
      BY <2>1, <3>1, <3>2
  <2>4. CASE ~e.valid
    BY <2>1, <2>2, <2>4, SeenFacts DEF Seen
  <2> QED
    BY <2>3, <2>4
<1>5. Ent' = [k \in Keys |-> IF Ent[k] # NoKey THEN Promise!Older(Ent[k]) ELSE NoKey]
  BY <1>3, <1>4 DEF AbsOf
<1> QED
  BY <1>5 DEF Promise!Tick, Promise!Present, Ent

LEMMA FlushImplements ==
    ASSUME NoCollision, SoundInv, Flush
    PROVE  Promise!Flush
<1>1. Sound(Db) /\ Db.tab = tab
  BY DEF SoundInv, Db
<1>2. /\ Sound(Db')
      /\ \A k \in Keys : Slot(tab', k) =
            IF Old(Young(Slot(tab, k), k)) THEN Empty ELSE Young(Slot(tab, k), k)
  BY <1>1, FlushSlots
<1>3. Ent = AbsOf(tab) /\ Ent' = AbsOf(tab')
  BY <1>1, <1>2, EntAbs
<1> DEFINE heard == {k \in Keys : /\ Ent[k] # NoKey /\ Ent[k].dynamic
                                  /\ <<Hash[k], 0>> \in used}
<1>4. ASSUME NEW k \in Keys
      PROVE  Ent'[k] = IF k \in heard THEN [Ent[k] EXCEPT !.age = 0]
                       ELSE IF Ent[k] # NoKey /\ Ent[k].dynamic /\ Ent[k].age > AgingTime
                            THEN NoKey
                       ELSE Ent[k]
  <2> DEFINE e == Slot(tab, k)
             y == Young(e, k)
  <2>1. /\ e \in Entries /\ Ent[k] = Seen(e)
        /\ Ent'[k] = Seen(IF Old(y) THEN Empty ELSE y)
        /\ Dynamic = TRUE /\ e.dynamic \in BOOLEAN
    BY <1>1, <1>2, <1>3, SlotTypes DEF AbsOf, Dynamic, Entries
  <2> HIDE DEF e
  <2>2. CASE ~e.valid
    <3>1. ~y.valid
      BY <2>1, <2>2 DEF Young, Entries
    <3>2. Ent[k] = NoKey /\ Ent'[k] = NoKey
      BY <2>1, <2>2, <3>1 DEF Seen, Old
    <3> QED
      BY <3>2
  <2>3. CASE e.valid /\ e.dynamic /\ <<Hash[k], 0>> \in used
    <3>1. y = [e EXCEPT !.age = 0]
      BY <2>1, <2>3 DEF Young
    <3>2. y.valid /\ y.mask = e.mask /\ y.dynamic = e.dynamic /\ y.age = 0
      BY <2>1, <2>3, <3>1 DEF Entries
    <3>3. ~Old(y)
      BY <3>2, Basics DEF Old
    <3>4. Ent[k] = View(e) /\ Ent'[k] = View(y) /\ k \in heard
      BY <2>1, <2>3, <3>2, <3>3, SeenFacts DEF Seen
    <3>5. View(y) = [View(e) EXCEPT !.age = 0]
      BY <3>2 DEF View
    <3> QED
      BY <3>4, <3>5
  <2>4. CASE e.valid /\ ~(e.dynamic /\ <<Hash[k], 0>> \in used)
    <3>1. y = e
      BY <2>1, <2>4 DEF Young
    <3>2. /\ Ent[k] # NoKey /\ Ent[k].dynamic = e.dynamic /\ Ent[k].age = e.age
          /\ Seen(Empty) = NoKey
      BY <2>1, <2>4, SeenFacts
    <3>3. k \notin heard
      BY <2>4, <3>2
    <3>4. Old(e) <=> Ent[k].dynamic /\ Ent[k].age > AgingTime
      BY <2>1, <2>4, <3>2 DEF Old
    <3> QED
      BY <2>1, <3>1, <3>2, <3>3, <3>4
  <2> QED
    BY <2>2, <2>3, <2>4
<1> HIDE DEF heard
<1>5. Ent' = [k \in Keys |->
                 IF k \in heard THEN [Ent[k] EXCEPT !.age = 0]
                 ELSE IF Ent[k] # NoKey /\ Ent[k].dynamic /\ Ent[k].age > AgingTime
                      THEN NoKey
                 ELSE Ent[k]]
  BY <1>3, <1>4 DEF AbsOf
<1>6. heard \in SUBSET {k \in Keys : Ent[k] # NoKey /\ Ent[k].dynamic}
  BY DEF heard
<1>7. \E H \in SUBSET {k \in Promise!Present : Ent[k].dynamic} :
         Ent' = [k \in Keys |->
                    IF k \in H THEN [Ent[k] EXCEPT !.age = 0]
                    ELSE IF k \in Promise!Present /\ Ent[k].dynamic /\ Ent[k].age > AgingTime
                         THEN NoKey
                    ELSE Ent[k]]
  <2>1. \A k \in Keys : k \in Promise!Present <=> Ent[k] # NoKey
    BY DEF Promise!Present, Ent
  <2>2. heard \in SUBSET {k \in Promise!Present : Ent[k].dynamic}
    BY <1>6, <2>1
  <2>3. Ent' = [k \in Keys |->
                   IF k \in heard THEN [Ent[k] EXCEPT !.age = 0]
                   ELSE IF k \in Promise!Present /\ Ent[k].dynamic /\ Ent[k].age > AgingTime
                        THEN NoKey
                   ELSE Ent[k]]
    BY <1>5, <2>1
  <2> QED
    BY <2>2, <2>3
<1> QED
  BY <1>7 DEF Promise!Flush, Ent

LEMMA NextImplements ==
    ASSUME NoCollision
    PROVE  SoundInv /\ SoundInv' /\ [Next]_vars => [Promise!Next]_Ent
<1> SUFFICES ASSUME SoundInv, SoundInv', [Next]_vars, Ent' # Ent PROVE Promise!Next
  BY DEF Ent
<1>1. PackedInv /\ Sound(Db) /\ Sound(Db')
  BY DEF SoundInv, Db
<1>2. tab' = tab => Ent' = Ent
  BY <1>1, SameSlots
<1>3. Ent' # Ent <=> [k \in Keys |-> EntryOf(k)]' # [k \in Keys |-> EntryOf(k)]
  BY DEF Ent
<1>4. CASE Learn
  <2>1. PICK k \in Keys, p \in Ports \cup {Cpu} : Promise!Learn(k, p)
    BY <1>4, LearnImplements
  <2> QED
    BY <1>3, <2>1 DEF Promise!Next
<1>5. CASE VisitPort
  <2>1. visit \in Ports /\ SetDb(ClearEntriesForPort(Db, visit, Dynamic)) /\ Dynamic \in BOOLEAN
    BY <1>1, <1>2, <1>5, VisitStep DEF Dynamic
  <2>2. Promise!Clear(visit, Dynamic)
    BY <2>1, ClearImplements
  <2> QED
    BY <1>3, <2>1, <2>2 DEF Promise!Next
<1>6. CASE Flush
  <2>1. Promise!Flush
    BY <1>6, FlushImplements
  <2> QED
    BY <1>3, <2>1 DEF Promise!Next
<1>7. ASSUME NEW m \in RpcMacs, NEW v \in Vids, NEW mask \in RpcMasks, NEW d \in BOOLEAN,
             RpcAdd(m, v, mask, d)
      PROVE  Promise!Next
  <2>1. PICK k \in Keys : Promise!Configure(k, mask, d)
    BY <1>7, AddImplements
  <2> QED
    BY <1>3, <2>1 DEF Promise!Next
<1>8. ASSUME NEW m \in RpcMacs, NEW mask \in RpcMasks, NEW d \in BOOLEAN, RpcRemove(m, mask, d)
      PROVE  Promise!Next
  <2>1. PICK k \in Keys : Promise!Remove(MacOf(k), mask, d)
    BY <1>8, RemoveImplements
  <2> QED
    BY <1>3, <2>1 DEF Promise!Next
<1>9. ASSUME NEW p \in Ports \cup {Cpu}, NEW d \in BOOLEAN, RpcClear(p, d) PROVE Promise!Next
  <2>1. Promise!Clear(p, d)
    BY <1>9, ClearImplements DEF RpcClear
  <2> QED
    BY <1>3, <2>1 DEF Promise!Next
<1>10. CASE Restart
  <2>1. PICK S \in SUBSET Keys : Promise!Restore(S)
    BY <1>10, RestartImplements
  <2> QED
    BY <1>3, <2>1 DEF Promise!Next
<1>11. CASE Tick
  <2>1. Promise!Tick
    BY <1>11, TickImplements
  <2> QED
    BY <1>3, <2>1 DEF Promise!Next
<1>12. CASE tab' # tab
  <2>1. ~UNCHANGED vars /\ ~TakeRequest /\ ~ReadPorts
    BY <1>12 DEF vars, TakeRequest, ReadPorts
  <2>2. /\ \A v \in Vids, f \in Fids, drop \in BOOLEAN : ~RpcVlan(v, f, drop)
        /\ \A p \in Ports : ~LinkChange(p)
        /\ \A m \in Stations, v \in Vids, p \in Ports : ~Frame(m, v, p)
    BY <1>12 DEF RpcVlan, LinkChange, Frame
  <2> QED
    BY <1>4, <1>5, <1>6, <1>7, <1>8, <1>9, <1>10, <1>11, <2>1, <2>2
    DEF Next, LearningThread, AgeingThread, Rpc
<1> QED
  BY <1>2, <1>12

\* The bucketed table, its scans, its commits and the copy in the gateware keep
\* the promise of FilterDb, step by step.
THEOREM KeepsPromise == ASSUME NoCollision PROVE Spec => FilterDbSpec
<1>1. Init => Promise!Init
  BY InitImplements
<1>2. SoundInv /\ SoundInv' /\ [Next]_vars => [Promise!Next]_([k \in Keys |-> EntryOf(k)])
  BY NextImplements DEF Ent
<1> QED
  BY <1>1, <1>2, TableSound, PTL DEF Spec, FilterDbSpec, Promise!Spec
=============================================================================
