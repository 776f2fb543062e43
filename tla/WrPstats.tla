----------------------------- MODULE WrPstats -----------------------------
(***************************************************************************)
(* The per-port counters of kernel/wr_pstats/wr_pstats.c.  The gateware    *)
(* keeps the low bits of a counter and raises an interrupt when they wrap; *)
(* the interrupt handler notes the overflow in a ring, a tasklet adds it   *)
(* to the stored counter, and a process that reads or clears the counters  *)
(* merges the low bits into it.                                            *)
(*                                                                         *)
(* One counter of one port: they do not affect each other.  The driver     *)
(* runs on one CPU without preemption (CONFIG_PREEMPT_NONE), where         *)
(* spin_lock() keeps nobody out: interrupt and tasklet come between any    *)
(* two steps of the process.                                               *)
(***************************************************************************)
EXTENDS Integers, FiniteSets

CONSTANTS
    Low,       \* values of the bits kept in hardware, 2^16
    Wide,      \* values of a stored counter, 2^64
    Buf,       \* PSTATS_IRQBUFSZ
    MaxTotal   \* bound: events counted

ConstantsOK ==
    /\ Low \in Nat \ {0} /\ Wide \in Nat /\ Wide % Low = 0
    /\ Buf \in Nat /\ Buf > 1
    /\ MaxTotal \in Nat /\ Low <= MaxTotal /\ MaxTotal < Wide

VARIABLES
    total,     \* what the gateware has counted since it was loaded
    wrapped,   \* the overflow flag of the counter, which raises the interrupt
    ovf,       \* [Slots -> BOOLEAN], overflows[]
    irqsHead,  \* irqs_head
    irqsTail,  \* irqs_tail
    cntr,      \* cntrs[port][cntr]
    zeros,     \* zeros[port][cntr]
    proc,      \* the process: [pc, low, value, zero]
    base,      \* overflows that counted before the counter was cleared
    mixed      \* the tasklet has run inside an update of the process

vars == <<total, wrapped, ovf, irqsHead, irqsTail, cntr, zeros, proc, base, mixed>>

Slots == 0 .. Buf - 1
\* zero: the counters are read in order to be cleared.
NoProc == [pc |-> "idle", low |-> 0, value |-> 0, zero |-> FALSE]

Msb(v) == v - (v % Low)    \* PSTATS_MSB_MSK

\* Overflows that the handler has noted and the tasklet has not added yet.
Noted ==
    LET n == (irqsHead - irqsTail) % Buf
    IN  {(irqsTail + k) % Buf : k \in 0 .. n - 1}

-----------------------------------------------------------------------------
\* The gateware may have counted before the driver is loaded; interrupts are
\* enabled at the end of pstats_init().
Init ==
    /\ total \in 0 .. Low - 1
    /\ wrapped = FALSE
    /\ ovf = [i \in Slots |-> FALSE] /\ irqsHead = 0 /\ irqsTail = 0
    /\ cntr = 0 /\ zeros = 0
    /\ proc = NoProc
    /\ base = 0 /\ mixed = FALSE

\* The interrupt is served before the counter wraps a second time.
Count ==
    /\ total < MaxTotal
    /\ total' = total + 1
    /\ IF total' % Low = 0
       THEN ~wrapped /\ wrapped' = TRUE
       ELSE UNCHANGED wrapped
    /\ UNCHANGED <<ovf, irqsHead, irqsTail, cntr, zeros, proc, base, mixed>>

\* pstats_irq_handler().  The line is shared by all counters, so the flag of
\* this one may be clear.  The tasklet is not late by a whole ring: nothing
\* could tell, the test in pstats_tlet_fn() is on indices that do wrap.
IrqHandler ==
    /\ (irqsHead + 1) % Buf # irqsTail
    /\ ovf' = [ovf EXCEPT ![irqsHead] = wrapped]
    /\ wrapped' = FALSE
    /\ irqsHead' = (irqsHead + 1) % Buf
    /\ UNCHANGED <<total, irqsTail, cntr, zeros, proc, base, mixed>>

\* pstats_tlet_fn(), one entry of the ring.
Tasklet ==
    /\ irqsTail # irqsHead
    /\ cntr' = (cntr + IF ovf[irqsTail] THEN Low ELSE 0) % Wide
    /\ irqsTail' = (irqsTail + 1) % Buf
    /\ mixed' = (mixed \/ (ovf[irqsTail] /\ proc.pc = "store"))
    /\ UNCHANGED <<total, wrapped, ovf, irqsHead, zeros, proc, base>>

-----------------------------------------------------------------------------
(* pstats_handler(), pstats_desc_handler(), pstats_callback(): a process   *)
(* reads or clears.                                                        *)

\* rd_cnt_word() reads the registers.
ReadWord(zero) ==
    /\ proc.pc = "idle"
    /\ proc' = [NoProc EXCEPT !.pc = "load", !.low = total % Low, !.zero = zero]
    /\ UNCHANGED <<total, wrapped, ovf, irqsHead, irqsTail, cntr, zeros, base, mixed>>

\* Fault: the low bits of the last reading are kept.
Load_Unmasked ==
    /\ proc.pc = "load"
    /\ proc' = [proc EXCEPT !.pc = "store", !.value = (cntr + proc.low - zeros) % Wide]
    /\ UNCHANGED <<total, wrapped, ovf, irqsHead, irqsTail, cntr, zeros, base, mixed>>

\* The update of the stored counter: what is stored follows from what was
\* loaded a moment ago.
Load ==
    /\ proc.pc = "load"
    /\ proc' = [proc EXCEPT !.pc = "store", !.value = (Msb(cntr) + proc.low - zeros) % Wide]
    /\ UNCHANGED <<total, wrapped, ovf, irqsHead, irqsTail, cntr, zeros, base, mixed>>

Store ==
    /\ proc.pc = "store"
    /\ cntr' = proc.value
    /\ proc' = [proc EXCEPT !.pc = IF proc.zero THEN "zero" ELSE "idle"]
    /\ UNCHANGED <<total, wrapped, ovf, irqsHead, irqsTail, zeros, base, mixed>>

\* The overflows that have been added by now are cleared with the counter.
Counted == (total \div Low) - (IF wrapped THEN 1 ELSE 0)
                            - Cardinality({i \in Noted : ovf[i]})

\* pstats_zero(), after its pstats_rd_cntrs().
Zero ==
    /\ proc.pc = "zero"
    /\ LET low == (cntr + zeros) % Low
       IN  cntr' = low /\ zeros' = low
    /\ base' = Counted
    /\ proc' = NoProc
    /\ UNCHANGED <<total, wrapped, ovf, irqsHead, irqsTail, mixed>>

Next ==
    \/ Count \/ IrqHandler \/ Tasklet
    \/ \E zero \in BOOLEAN : ReadWord(zero)
    \/ Load \/ Store \/ Zero

Spec == Init /\ [][Next]_vars

-----------------------------------------------------------------------------
TypeOK ==
    /\ total \in 0 .. MaxTotal /\ wrapped \in BOOLEAN
    /\ ovf \in [Slots -> BOOLEAN] /\ irqsHead \in Slots /\ irqsTail \in Slots
    /\ cntr \in 0 .. Wide - 1 /\ zeros \in 0 .. Low - 1
    /\ proc \in [pc : {"idle", "load", "store", "zero"}, low : 0 .. Low - 1,
                 value : 0 .. Wide - 1, zero : BOOLEAN]
    /\ base \in Nat /\ mixed \in BOOLEAN

\* Every overflow is in the counter, in the ring or in the flag, once,
\* whichever of interrupt, tasklet, reading and clearing comes when; unless
\* the tasklet has run inside an update, or the counter was cleared when its
\* low bits were not 0.
Exact ==
    (~mixed /\ zeros = 0) => cntr \div Low = Counted - base

\* rd_cnt_word(): "since cntrs are monotonic, they're always bigger than
\* zeros"; looked at when no overflow waits to be added, and the counter did
\* not wrap while it was cleared.
AboveZeros ==
    (proc.pc = "load" /\ ~mixed /\ ~wrapped /\ irqsHead = irqsTail
        /\ base * Low + zeros <= total)
        => Msb(cntr) + proc.low >= zeros
=============================================================================
