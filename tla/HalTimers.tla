----------------------------- MODULE HalTimers -----------------------------
(***************************************************************************)
(* The timers of the HAL's main loop: timer_scan() of                      *)
(* userspace/wrsw_hal/hal_timer.c with the time-outs of libwr/timeout.c.   *)
(* A table is scanned again and again; a scan may come late, by the time a *)
(* callback or a request of PPSi takes, by more than a period too.         *)
(*                                                                         *)
(* Times are relative to the present.                                      *)
(***************************************************************************)
EXTENDS Integers, Sequences

CONSTANTS
    Periods,   \* the time-outs of the table, all with repeat
    MaxLate    \* bound: how late a scan can be, in ticks

ConstantsOK == Periods \in Seq(Nat \ {0}) /\ Periods # <<>> /\ MaxLate \in Nat

Timers == 1 .. Len(Periods)

VARIABLES
    age,       \* [Timers -> Nat], the time since start_tics
    index,     \* the timer that the scan looks at next
    ticks,     \* [Timers -> Nat], ticks since the present period of the timer began
    called     \* [Timers -> BOOLEAN], its callback has been called in this period

vars == <<age, index, ticks, called>>

\* timer_init().  The callbacks are not called before the first period is over.
Init ==
    /\ age = [i \in Timers |-> 0]
    /\ index = 1
    /\ ticks = [i \in Timers |-> 0]
    /\ called = [i \in Timers |-> TRUE]

\* A period begins when the last one, to its very last tick, is over.
Tick ==
    /\ \A i \in Timers : age[i] < Periods[i] + MaxLate
    /\ age' = [i \in Timers |-> age[i] + 1]
    /\ ticks' = [i \in Timers |-> IF ticks[i] = Periods[i] THEN 1 ELSE ticks[i] + 1]
    /\ called' = [i \in Timers |-> called[i] /\ ticks[i] # Periods[i]]
    /\ UNCHANGED index

\* time > tmo->start_tics + tmo->timeout
Over(i, a) == a > Periods[i]

\* Fault: what was missed is made up for in the following scans.
Restarted_ByOne(i) == age[i] - Periods[i]

\* The loop of libwr_tmo_expired(): start_tics is moved on by whole periods,
\* until the time-out is no longer over.
Restarted(i) == ((age[i] - 1) % Periods[i]) + 1

\* timer_scan(), one timer.
Scan ==
    LET i == index
    IN  /\ IF Over(i, age[i])
           THEN /\ age' = [age EXCEPT ![i] = Restarted(i)]
                /\ called' = [called EXCEPT ![i] = TRUE]
           ELSE UNCHANGED <<age, called>>
        /\ index' = (i % Len(Periods)) + 1
        /\ UNCHANGED ticks

Next == Tick \/ Scan

Spec == Init /\ [][Next]_vars

-----------------------------------------------------------------------------
TypeOK ==
    /\ age \in [Timers -> Nat]
    /\ \A i \in Timers : age[i] =< Periods[i] + MaxLate
    /\ index \in Timers
    /\ \A i \in Timers : ticks[i] \in 0 .. Periods[i]
    /\ called \in [Timers -> BOOLEAN]

\* A timer that is looked at is called if and only if it has not been called in
\* the present period: however late the scans are, no period sees two calls, the
\* calls keep to the periods that began at the start, and none is delayed.
OncePerPeriod ==
    [][index' # index => (Over(index, age[index]) <=> ~called[index])]_vars
=============================================================================
