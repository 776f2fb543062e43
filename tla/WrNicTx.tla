------------------------------ MODULE WrNicTx ------------------------------
(***************************************************************************)
(* Transmission in the network driver, kernel/wr_nic/nic-core.c and        *)
(* timestamp.c: the ring of transmit descriptors shared with the NIC, the  *)
(* socket buffers that wait in skb_desc[] for the end of the transmission  *)
(* or for their time stamp, and the three contexts that work on them:      *)
(* wrn_start_xmit(), the NIC's interrupt and the TXTSU's.                  *)
(*                                                                         *)
(* There is one CPU.  An interrupt handler runs between any two steps of   *)
(* wrn_start_xmit(), and the NIC works on at any time, also inside the     *)
(* handlers.  dev_kfree_skb_irq() only queues a buffer: the kernel         *)
(* releases it when no transmission is running.  A buffer freed twice is   *)
(* queued once here, and freeing a null pointer is not followed into the   *)
(* crash.                                                                  *)
(***************************************************************************)
EXTENDS Integers, FiniteSets

CONSTANTS
    Plain,       \* socket buffers without SKBTX_HW_TSTAMP
    Ptp,         \* socket buffers that ask for a time stamp
    NDesc,       \* WRN_NR_DESC, 8 in the code
    IdSpace,     \* number of frame ids, 2^16 in the code
    MaxRefused   \* bound: transmissions refused one after the other

Skbs == Plain \cup Ptp
NoSkb == "none"

\* The ids given while a frame stays in its slot do not repeat, and there is
\* always one more frame to send.
ConstantsOK ==
    /\ IsFiniteSet(Skbs) /\ Cardinality(Skbs) > NDesc
    /\ Plain \cap Ptp = {} /\ NoSkb \notin Skbs
    /\ NDesc \in Nat \ {0}
    /\ MaxRefused \in Nat
    /\ IdSpace \in Nat /\ IdSpace > NDesc * (MaxRefused + 1) + 1

VARIABLES
    ring,     \* [Desc -> [ready, skb, id]], the descriptors: ready is NIC_TX1_D1_READY
    slot,     \* [Desc -> [skb, id]], skb_desc[]
    head,     \* next_tx_head
    tail,     \* next_tx_tail
    nextId,   \* wrn->id
    hw,       \* the descriptor the NIC looks at
    tcomp,    \* the bit TCOMP of the NIC's EIC_ISR
    irq,      \* wrn_interrupt(): "idle", or "ack" between its loop and its acknowledge
    stamps,   \* the FIFO of the TXTSU: [id, skb], skb being the frame that was sent
    xmit,     \* wrn_start_xmit(): [pc, skb, desc, id]
    held,     \* buffers that the kernel has given to the driver and not got back
    freed,    \* those of them that dev_kfree_skb_irq() has queued
    refused   \* bound: refusals since the last accepted frame

vars == <<ring, slot, head, tail, nextId, hw, tcomp, irq, stamps, xmit, held, freed, refused>>

Desc == 0 .. NDesc - 1
\* A descriptor that is the driver's: what else it holds is never read again.
Empty == [ready |-> FALSE, skb |-> NoSkb, id |-> 0]
Idle == [pc |-> "idle", skb |-> NoSkb, desc |-> 0, id |-> 0]

\* __wrn_next_desc()
NextDesc(i) == (i + 1) % NDesc

\* id = (wrn->id++) & 0xffff, twice if that is 0.
TakeId == IF nextId = 0 THEN 1 ELSE nextId

-----------------------------------------------------------------------------
Init ==
    /\ ring = [d \in Desc |-> Empty]
    /\ slot = [d \in Desc |-> [skb |-> NoSkb, id |-> 0]]
    /\ head = 0 /\ tail = 0 /\ nextId = 0 /\ hw = 0
    /\ tcomp = FALSE /\ irq = "idle" /\ stamps = {}
    /\ xmit = Idle /\ held = {} /\ freed = {} /\ refused = 0

(* wrn_start_xmit().  Interrupts are off in Alloc only.                    *)

Running(pc) == xmit.pc = pc /\ irq = "idle"

\* Fault: the head moves on when the descriptor is not free.
Refuse_Skips ==
    /\ Running("idle") /\ ring[head].ready
    /\ refused < MaxRefused
    /\ refused' = refused + 1
    /\ nextId' = (TakeId + 1) % IdSpace
    /\ head' = NextDesc(head)
    /\ UNCHANGED <<ring, slot, tail, hw, tcomp, irq, stamps, xmit, held, freed>>

\* -ENOMEM: an id is spent all the same.  The kernel counts the frame as
\* consumed, the driver knows nothing of it any more.
Refuse ==
    /\ Running("idle") /\ ring[head].ready
    /\ refused < MaxRefused
    /\ refused' = refused + 1
    /\ nextId' = (TakeId + 1) % IdSpace
    /\ UNCHANGED <<ring, slot, head, tail, hw, tcomp, irq, stamps, xmit, held, freed>>

\* Fault: the id given to a frame is not counted.
Alloc_SameId(s) ==
    /\ Running("idle") /\ ~ring[head].ready
    /\ s \notin held
    /\ head' = NextDesc(head)
    /\ xmit' = [pc |-> "test", skb |-> s, desc |-> head, id |-> TakeId]
    /\ held' = held \cup {s}
    /\ stamps' = {t \in stamps : t.skb # slot[head].skb}
    /\ refused' = 0
    /\ UNCHANGED <<ring, slot, tail, hw, tcomp, irq, freed, nextId>>

\* A time stamp that has not come by the time its descriptor is used again
\* never does.
Alloc(s) ==
    /\ Running("idle") /\ ~ring[head].ready
    /\ s \notin held
    /\ head' = NextDesc(head)
    /\ nextId' = (TakeId + 1) % IdSpace
    /\ xmit' = [pc |-> "test", skb |-> s, desc |-> head, id |-> TakeId]
    /\ held' = held \cup {s}
    /\ stamps' = {t \in stamps : t.skb # slot[head].skb}
    /\ refused' = 0
    /\ UNCHANGED <<ring, slot, tail, hw, tcomp, irq, freed>>

\* Fault: the frame of the former transmission is forgotten.
Test_Overwrites ==
    /\ Running("test")
    /\ xmit' = [xmit EXCEPT !.pc = "skb"]
    /\ UNCHANGED <<ring, slot, head, tail, nextId, hw, tcomp, irq, stamps, held, freed, refused>>

\* Is there a frame that got no time stamp?  The warning is printed before it
\* is freed.
Test ==
    /\ Running("test")
    /\ xmit' = [xmit EXCEPT !.pc = IF slot[xmit.desc].skb # NoSkb THEN "discard" ELSE "skb"]
    /\ UNCHANGED <<ring, slot, head, tail, nextId, hw, tcomp, irq, stamps, held, freed, refused>>

Discard ==
    /\ Running("discard")
    /\ freed' = freed \cup ({slot[xmit.desc].skb} \ {NoSkb})
    /\ xmit' = [xmit EXCEPT !.pc = "skb"]
    /\ UNCHANGED <<ring, slot, head, tail, nextId, hw, tcomp, irq, stamps, held, refused>>

StoreSkb ==
    /\ Running("skb")
    /\ slot' = [slot EXCEPT ![xmit.desc].skb = xmit.skb]
    /\ xmit' = [xmit EXCEPT !.pc = "id"]
    /\ UNCHANGED <<ring, head, tail, nextId, hw, tcomp, irq, stamps, held, freed, refused>>

StoreId ==
    /\ Running("id")
    /\ slot' = [slot EXCEPT ![xmit.desc].id = xmit.id]
    /\ xmit' = [xmit EXCEPT !.pc = "fire"]
    /\ UNCHANGED <<ring, head, tail, nextId, hw, tcomp, irq, stamps, held, freed, refused>>

\* __wrn_tx_desc(): the copy of the data, then the three registers.
Fire ==
    /\ Running("fire")
    /\ ring' = [ring EXCEPT ![xmit.desc] = [ready |-> TRUE, skb |-> xmit.skb, id |-> xmit.id]]
    /\ xmit' = Idle
    /\ UNCHANGED <<slot, head, tail, nextId, hw, tcomp, irq, stamps, held, freed, refused>>

-----------------------------------------------------------------------------
(* The interrupt handlers                                                  *)

\* The k-th descriptor from the tail.
At(k) == (tail + k) % NDesc

Sent(d) == ~ring[d].ready /\ slot[d].skb # NoSkb

\* How many descriptors the loop of wrn_tx_interrupt() passes.
Passed ==
    LET most == (head - tail) % NDesc
    IN  CHOOSE n \in 0 .. most :
            /\ \A k \in 0 .. n - 1 : Sent(At(k))
            /\ n = most \/ ~Sent(At(n))

\* wrn_tx_interrupt().  wrn_tx_tstamp_skb() returns at once, nothing sets
\* valid: a frame that asked for a time stamp stays in its slot.
TxInterrupt ==
    /\ tcomp /\ irq = "idle"
    /\ LET done == {At(k) : k \in 0 .. Passed - 1}
           plain == {d \in done : slot[d].skb \in Plain}
       IN  /\ slot' = [d \in Desc |-> IF d \in plain THEN [slot[d] EXCEPT !.skb = NoSkb]
                                                     ELSE slot[d]]
           /\ freed' = freed \cup {slot[d].skb : d \in plain}
    /\ tail' = At(Passed)
    /\ irq' = "ack"
    /\ UNCHANGED <<ring, head, nextId, hw, tcomp, stamps, xmit, held, refused>>

\* The acknowledge clears what has come since the loop, too.
AckInterrupt ==
    /\ irq = "ack"
    /\ tcomp' = FALSE
    /\ irq' = "idle"
    /\ UNCHANGED <<ring, slot, head, tail, nextId, hw, stamps, xmit, held, freed, refused>>

\* The slots that record_tstamp() finds for an id; it takes the first.
Matching(id) == {d \in Desc : slot[d].skb # NoSkb /\ slot[d].id = id}
FirstOf(S) == CHOOSE d \in S : \A e \in S : d <= e

\* wrn_tstamp_interrupt(): one entry of the FIFO.
StampInterrupt ==
    /\ irq = "idle"
    /\ \E t \in stamps :
        /\ stamps' = stamps \ {t}
        /\ IF Matching(t.id) = {}
           THEN UNCHANGED <<slot, freed>>
           ELSE LET d == FirstOf(Matching(t.id))
                IN  /\ freed' = freed \cup {slot[d].skb}
                    /\ slot' = [slot EXCEPT ![d].skb = NoSkb]
    /\ UNCHANGED <<ring, head, tail, nextId, hw, tcomp, irq, xmit, held, refused>>

-----------------------------------------------------------------------------
(* The NIC and the kernel                                                  *)

\* The NIC sends in the order of the ring.  A time stamp may fail to come.
Send ==
    /\ ring[hw].ready
    /\ ring' = [ring EXCEPT ![hw] = Empty]
    /\ hw' = NextDesc(hw)
    /\ tcomp' = TRUE
    /\ \/ stamps' = stamps
       \/ /\ ring[hw].skb \in Ptp
          /\ stamps' = stamps \cup {[id |-> ring[hw].id, skb |-> ring[hw].skb]}
    /\ UNCHANGED <<slot, head, tail, nextId, irq, xmit, held, freed, refused>>

\* Fault: buffers are released in the interrupt, as by dev_kfree_skb().
Release_AtOnce ==
    /\ freed # {}
    /\ held' = held \ freed
    /\ freed' = {}
    /\ UNCHANGED <<ring, slot, head, tail, nextId, hw, tcomp, irq, stamps, xmit, refused>>

\* The softirq that releases queued buffers is kept off by a transmission.
Release ==
    /\ Running("idle") /\ freed # {}
    /\ held' = held \ freed
    /\ freed' = {}
    /\ UNCHANGED <<ring, slot, head, tail, nextId, hw, tcomp, irq, stamps, xmit, refused>>

StartXmit == Refuse \/ \E s \in Skbs : Alloc(s)
ContinueXmit == Test \/ Discard \/ StoreSkb \/ StoreId \/ Fire
Interrupt == TxInterrupt \/ AckInterrupt

Next ==
    \/ StartXmit \/ ContinueXmit
    \/ Interrupt \/ StampInterrupt
    \/ Send \/ Release

Spec == Init /\ [][Next]_vars

\* Traffic does not end (PTP sends all the time), the NIC sends what it is
\* given, and a pending interrupt or softirq is served.
Fairness ==
    /\ WF_vars(\E s \in Skbs : Alloc(s))
    /\ WF_vars(ContinueXmit)
    /\ WF_vars(Interrupt)
    /\ WF_vars(Send)
    /\ SF_vars(Release)

FairSpec == Spec /\ Fairness

-----------------------------------------------------------------------------
TypeOK ==
    /\ ring \in [Desc -> [ready : BOOLEAN, skb : Skbs \cup {NoSkb}, id : 0 .. IdSpace - 1]]
    /\ slot \in [Desc -> [skb : Skbs \cup {NoSkb}, id : 0 .. IdSpace - 1]]
    /\ head \in Desc /\ tail \in Desc /\ hw \in Desc
    /\ nextId \in 0 .. IdSpace - 1
    /\ tcomp \in BOOLEAN /\ irq \in {"idle", "ack"}
    /\ stamps \subseteq [id : 0 .. IdSpace - 1, skb : Ptp]
    /\ xmit \in [pc : {"idle", "test", "discard", "skb", "id", "fire"},
                 skb : Skbs \cup {NoSkb}, desc : Desc, id : 0 .. IdSpace - 1]
    /\ held \subseteq Skbs /\ freed \subseteq held
    /\ refused \in 0 .. MaxRefused

\* The NIC and the driver agree on the order: the descriptors that wait to be
\* sent are those from the NIC's own up to the one the driver fills next, so
\* frames leave in the order they were accepted and none is skipped
\* (__wrn_alloc_tx_desc() looks at READY, not at the tail).
SendOrder ==
    \E n \in 0 .. NDesc :
        /\ {d \in Desc : ring[d].ready} = {(hw + k) % NDesc : k \in 0 .. n - 1}
        /\ (hw + n) % NDesc = IF xmit.pc = "idle" THEN head ELSE xmit.desc

\* The buffer that wrn_start_xmit() copies from has not been released,
\* although an interrupt may take its descriptor for sent and free it, or the
\* one it replaces, before it is handed to the NIC.
NoUseAfterFree == xmit.pc # "idle" => xmit.skb \in held

\* Every buffer the driver has is in the transmission, in a slot or queued to
\* be released: none is leaked.
NoLeak ==
    \A s \in held :
        \/ s \in freed
        \/ xmit.skb = s
        \/ \E d \in Desc : slot[d].skb = s

\* A time stamp is given to the frame that was sent with its id
\* (record_tstamp()), however far the ids have come round.
StampRight ==
    \A t \in stamps : Matching(t.id) # {} => slot[FirstOf(Matching(t.id))].skb = t.skb

\* Every buffer goes back to the kernel, whatever completions, time stamps and
\* interrupts were missed: at the latest when its slot is used again.
ReleasedSkb(s) == (s \in held /\ xmit.skb # s) ~> s \notin held

=============================================================================
