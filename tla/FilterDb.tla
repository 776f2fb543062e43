------------------------------ MODULE FilterDb ------------------------------
(***************************************************************************)
(* What the filtering database of the RTU daemon promises: at most one     *)
(* entry per key, a (station, filtering database identifier) pair; learned *)
(* entries never replace configured ones and vanish once they have not     *)
(* been used for the aging time; every removal takes the entries it names  *)
(* and no other.  RtuFd implements it with a bucketed hash table.          *)
(***************************************************************************)
EXTENDS Integers

CONSTANTS Keys, Masks, Ports, AgingTime,
          Mac(_),      \* the station of a key
          Configured,  \* [mac, mask] of the entries configured from the start
          NoEntry

VARIABLE entries   \* [Keys -> [mask, dynamic, age] or NoEntry]

Present == {k \in Keys : entries[k] # NoEntry}
MaxAge == AgingTime + 1

New(mask, dynamic) == [mask |-> mask, dynamic |-> dynamic, age |-> 0]

Fixed(k) == {New(c.mask, FALSE) : c \in {c \in Configured : c.mac = Mac(k)}}

Init == \A k \in Present : entries[k] \in Fixed(k)

\* A station is learned on a port; a static entry is left as it is.
Learn(k, p) ==
    /\ k \in Present => entries[k].dynamic
    /\ entries' = [entries EXCEPT ![k] = New({p}, TRUE)]

\* The administrator writes an entry.
Configure(k, mask, dynamic) ==
    entries' = [entries EXCEPT ![k] = New(mask, dynamic)]

\* Those of the entries configured from the start that were changed or removed are
\* configured again.
Restore(S) ==
    \E new \in [S -> {New(c.mask, FALSE) : c \in Configured}] :
        /\ \A k \in S : new[k] \in Fixed(k)
        /\ entries' = [k \in Keys |-> IF k \in S THEN new[k] ELSE entries[k]]

Without(S) == [k \in Keys |-> IF k \in S THEN NoEntry ELSE entries[k]]

\* The administrator removes the entries of a station, or those of a port.
Remove(m, mask, dynamic) ==
    entries' = Without({k \in Present : /\ Mac(k) = m
                                        /\ entries[k].mask = mask
                                        /\ entries[k].dynamic = dynamic})

Clear(p, dynamic) ==
    entries' = Without({k \in Present : /\ entries[k].mask = {p}
                                        /\ entries[k].dynamic = dynamic})

Older(e) == [e EXCEPT !.age = IF @ < MaxAge THEN @ + 1 ELSE @]

\* Time passes for all.
Tick == entries' = [k \in Keys |-> IF k \in Present THEN Older(entries[k]) ELSE NoEntry]

\* The stations heard since the last flush are young again, and the dynamic
\* entries that are too old go.
Flush ==
    \E heard \in SUBSET {k \in Present : entries[k].dynamic} :
        entries' = [k \in Keys |->
            IF k \in heard THEN [entries[k] EXCEPT !.age = 0]
            ELSE IF k \in Present /\ entries[k].dynamic /\ entries[k].age > AgingTime
                 THEN NoEntry
            ELSE entries[k]]

Next ==
    /\ entries' # entries
    /\ \/ Tick
       \/ \E k \in Keys, p \in Ports : Learn(k, p)
       \/ \E k \in Keys, mask \in Masks, d \in BOOLEAN : Configure(k, mask, d)
       \/ \E S \in SUBSET Keys : Restore(S)
       \/ \E k \in Keys, mask \in Masks, d \in BOOLEAN : Remove(Mac(k), mask, d)
       \/ \E p \in Ports, d \in BOOLEAN : Clear(p, d)
       \/ Flush

Spec == Init /\ [][Next]_entries
=============================================================================
