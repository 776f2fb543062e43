------------------------------ MODULE WrClock ------------------------------
(***************************************************************************)
(* The clock source of the switch's kernel, wrcs_read() in                 *)
(* kernel/wr_clocksource/wr_clocksource.c: the counter of the PPS          *)
(* generator, which begins anew every second and is negative for a while   *)
(* after it was set back, made into one that counts on.                    *)
(***************************************************************************)
EXTENDS Integers

CONSTANTS
    Freq,   \* WRCS_FREQUENCY, 62 500 000
    Back,   \* how far the counter may be set back below 0
    Wide    \* values of an unsigned integer, 2^32

ConstantsOK ==
    /\ Freq \in Nat \ {0} /\ Back \in 0 .. Freq
    /\ Wide \in Nat /\ Wide > 2 * Freq

VARIABLES
    ticksCounter,   \* CNTR_NSEC
    cs,             \* the static variables: [offset, last, adjustOffset, cntWasNeg]
    out,            \* what the last read returned
    idle,           \* ticks since then
    jumped,         \* the counter was adjusted since then
    borrowed        \* ticksCounter+adjustOffset was negative then

vars == <<ticksCounter, cs, out, idle, jumped, borrowed>>

Init ==
    /\ ticksCounter \in -Back .. Freq - 1
    /\ cs = [offset |-> 0, last |-> 0, adjustOffset |-> 0, cntWasNeg |-> FALSE]
    /\ out = 0 /\ idle = 0 /\ jumped = TRUE /\ borrowed = FALSE

\* The clock is read again before a second is over (max_idle_ns).
Tick ==
    /\ idle < Freq - 1
    /\ ticksCounter' = IF ticksCounter = Freq - 1 THEN 0 ELSE ticksCounter + 1
    /\ idle' = idle + 1
    /\ UNCHANGED <<cs, out, jumped, borrowed>>

\* shw_pps_gen_adjust(), for which the HAL is asked by PPSi.
Adjust ==
    /\ ticksCounter' \in -Back .. Freq - 1
    /\ jumped' = TRUE
    /\ UNCHANGED <<cs, out, idle, borrowed>>

\* Fault: the distance is added on every read of a negative counter.
AdjustOffset_Always ==
    IF ticksCounter < 0 THEN (cs.adjustOffset - ticksCounter) % Freq ELSE cs.adjustOffset

\* "Jump from positive to negative counter value"
AdjustOffset ==
    IF ticksCounter < 0 /\ ~cs.cntWasNeg
    THEN (cs.adjustOffset - ticksCounter) % Freq
    ELSE cs.adjustOffset

\* this < last
Anew(this) == this < cs.last

\* wrcs_read(); the sum is unsigned.
Read ==
    LET sum == ticksCounter + AdjustOffset
        this == (sum % Wide) % Freq
        offset == (cs.offset + IF Anew(this) THEN Freq ELSE 0) % Wide
    IN  /\ cs' = [offset |-> offset, last |-> this, adjustOffset |-> AdjustOffset,
                  cntWasNeg |-> ticksCounter < 0]
        /\ out' = (offset + this) % Wide
        /\ borrowed' = (sum < 0)
    /\ idle' = 0 /\ jumped' = FALSE
    /\ UNCHANGED ticksCounter

Next == Tick \/ Adjust \/ Read

Spec == Init /\ [][Next]_vars

-----------------------------------------------------------------------------
TypeOK ==
    /\ ticksCounter \in -Back .. Freq - 1
    /\ cs \in [offset : 0 .. Wide - 1, last : 0 .. Freq - 1, adjustOffset : 0 .. Freq - 1,
               cntWasNeg : BOOLEAN]
    /\ out \in 0 .. Wide - 1 /\ idle \in 0 .. Freq - 1
    /\ jumped \in BOOLEAN /\ borrowed \in BOOLEAN

\* Between two reads the clock advances by the ticks that have passed, through
\* ends of seconds, negative counters and the overflow of the 32 bits, unless
\* the counter was adjusted, or was so far below 0 that the unsigned sum of
\* the former read borrowed 2^32.
Steady ==
    [][(Read /\ ~jumped /\ ~borrowed) => out' = (out + idle) % Wide]_vars
=============================================================================
