----------------------------- MODULE SnmpTiming -----------------------------
(***************************************************************************)
(* wrsPTPStatus of the SNMP agent, userspace/snmpd: the agent keeps copies *)
(* of the servo's counters (wrsPtpDataTable.c) and of the SoftPLL's state  *)
(* (wrsSpllStatusGroup.c), each for some seconds, and compares the         *)
(* counters with those of the last check (wrsTimingStatusGroup.c).  The    *)
(* copies are refreshed by whatever query comes first after they expire.   *)
(*                                                                         *)
(* One slave port.  Times are in seconds and counted from now; a counter   *)
(* is known by what it has done: counted since it was copied, or between   *)
(* the copy of the last check and the present one.                         *)
(***************************************************************************)
EXTENDS Integers

CONSTANT Timeout   \* WRSPTPDATATABLE_CACHE_TIMEOUT, WRSSPLLSTATUS_CACHE_TIMEOUT

\* The servo is updated every second, but not at a fixed point of it.
ConstantsOK == Timeout \in Nat /\ Timeout > 1

VARIABLES
    servo,     \* counted since the last copy: [updates, errors]
    slave,     \* the SoftPLL is in slave mode
    beat,      \* the servo was updated in this second; FALSE once sick
    ptpCopy,   \* wrsPtpDataTable_array against the last check: [age, updates, errors]
    spllCopy,  \* wrsSpllStatus_s: [age, slave]
    timing,    \* wrsTimingStatus_s: [pc, age, status, first, late]
    sick,      \* the servo has missed a second, or has counted an error
    others     \* one of the copies has been asked for by itself

vars == <<servo, slave, beat, ptpCopy, spllCopy, timing, sick, others>>

\* Bound: an age is counted up to one second more than any query asks about.
Oldest == Timeout + 1
Ages == 0 .. Oldest
None == [updates |-> FALSE, errors |-> FALSE]

\* init.c fills everything first.
Init ==
    /\ servo \in [updates : BOOLEAN, errors : BOOLEAN]
    /\ slave \in BOOLEAN
    /\ beat = FALSE
    /\ ptpCopy = [age |-> Oldest, updates |-> FALSE, errors |-> FALSE]
    /\ spllCopy = [age |-> Oldest, slave |-> FALSE]
    /\ timing = [pc |-> "ptp", age |-> Oldest, status |-> "na", first |-> TRUE,
                  late |-> FALSE]
    /\ sick = FALSE /\ others = FALSE

-----------------------------------------------------------------------------
(* PPSi, the SoftPLL and the clock                                         *)

Update ==
    /\ servo' = [servo EXCEPT !.updates = TRUE]
    /\ beat' = ~sick
    /\ UNCHANGED <<slave, ptpCopy, spllCopy, timing, sick, others>>

Err ==
    /\ servo' = [servo EXCEPT !.errors = TRUE]
    /\ sick' = TRUE
    /\ beat' = FALSE
    /\ UNCHANGED <<slave, ptpCopy, spllCopy, timing, others>>

ModeChange ==
    /\ slave' = ~slave
    /\ UNCHANGED <<servo, beat, ptpCopy, spllCopy, timing, sick, others>>

Older(a) == IF a < Oldest THEN a + 1 ELSE a

\* The agent takes less than a second for a query: one second at most ends
\* while it is busy.
Tick ==
    /\ timing.pc = "idle" \/ ~timing.late
    /\ beat' = FALSE
    /\ sick' = (sick \/ ~beat)
    /\ ptpCopy' = [ptpCopy EXCEPT !.age = Older(@)]
    /\ spllCopy' = [spllCopy EXCEPT !.age = Older(@)]
    /\ timing' = [timing EXCEPT !.age = Older(@), !.late = timing.pc # "idle"]
    /\ UNCHANGED <<servo, slave, others>>

-----------------------------------------------------------------------------
(* The agent: one query after the other                                    *)

\* Fault: a copy that is too old by less than a second is kept.
FillPtp_LateByOne ==
    IF ptpCopy.age =< Timeout
    THEN UNCHANGED <<ptpCopy, servo>>
    ELSE /\ ptpCopy' = [age |-> 0, updates |-> ptpCopy.updates \/ servo.updates,
                                   errors |-> ptpCopy.errors \/ servo.errors]
         /\ servo' = None

\* wrsPtpDataTable_data_fill()
FillPtp ==
    IF ptpCopy.age < Timeout
    THEN UNCHANGED <<ptpCopy, servo>>
    ELSE /\ ptpCopy' = [age |-> 0, updates |-> ptpCopy.updates \/ servo.updates,
                                   errors |-> ptpCopy.errors \/ servo.errors]
         /\ servo' = None

\* wrsSpllStatus_data_fill()
FillSpll ==
    IF spllCopy.age < Timeout THEN UNCHANGED spllCopy
    ELSE spllCopy' = [age |-> 0, slave |-> slave]

\* A walk over wrsPtpDataTable.
QueryPtp ==
    /\ timing.pc = "idle"
    /\ FillPtp
    /\ others' = TRUE
    /\ UNCHANGED <<slave, beat, spllCopy, timing, sick>>

\* A query of wrsSpllStatusGroup.
QuerySpll ==
    /\ timing.pc = "idle"
    /\ FillSpll
    /\ others' = TRUE
    /\ UNCHANGED <<servo, slave, beat, ptpCopy, timing, sick>>

(* wrsTimingStatus_data_fill()                                             *)

QueryTiming ==
    /\ timing.pc = "idle"
    /\ timing' = [timing EXCEPT !.pc = "ptp"]
    /\ UNCHANGED <<servo, slave, beat, ptpCopy, spllCopy, sick, others>>

FillPtpFirst ==
    /\ timing.pc = "ptp"
    /\ FillPtp
    /\ timing' = [timing EXCEPT !.pc = "spll"]
    /\ UNCHANGED <<slave, beat, spllCopy, sick, others>>

ThenSpll ==
    /\ timing.pc = "spll"
    /\ FillSpll
    /\ timing' = [timing EXCEPT !.pc = "check"]
    /\ UNCHANGED <<servo, slave, beat, ptpCopy, sick, others>>

\* time_ptp_data > time_update, time_spll > time_update
Newer(copy) == copy.age < timing.age

\* get_wrsPTPStatus()
Status ==
    IF timing.first THEN "firstRead"
    ELSE IF spllCopy.slave /\ (~ptpCopy.updates \/ ptpCopy.errors) THEN "error"
    ELSE "ok"

\* Fault: the status is found again whenever one of the copies is new.
Checked_Either == Newer(ptpCopy) \/ Newer(spllCopy)

\* "update when ptp_data and spll status were updated"
Checked == Newer(ptpCopy) /\ Newer(spllCopy)

\* The counters of this check are those to compare with in the next.
\* The tables that other states are found from may be new when these are not.
Check ==
    /\ timing.pc = "check"
    /\ IF Checked
       THEN /\ timing' = [timing EXCEPT !.pc = "stamp", !.status = Status, !.first = FALSE]
            /\ ptpCopy' = [ptpCopy EXCEPT !.updates = FALSE, !.errors = FALSE]
       ELSE /\ \/ timing' = [timing EXCEPT !.pc = "stamp"]
               \/ /\ ~Newer(ptpCopy) /\ ~Newer(spllCopy)
                  /\ timing' = [timing EXCEPT !.pc = "idle", !.late = FALSE]
            /\ UNCHANGED ptpCopy
    /\ UNCHANGED <<servo, slave, beat, spllCopy, sick, others>>

\* time_update = get_monotonic_sec(), at the end.
StampUpdate ==
    /\ timing.pc = "stamp"
    /\ timing' = [timing EXCEPT !.pc = "idle", !.age = 0, !.late = FALSE]
    /\ UNCHANGED <<servo, slave, beat, ptpCopy, spllCopy, sick, others>>

Agent == FillPtpFirst \/ ThenSpll \/ Check \/ StampUpdate

Next ==
    \/ Update \/ Err \/ ModeChange \/ Tick
    \/ QueryPtp \/ QuerySpll \/ QueryTiming \/ Agent

Spec == Init /\ [][Next]_vars

\* Time passes, the agent answers, and the station asks for the status again
\* and again.
Fairness ==
    /\ WF_vars(Tick)
    /\ WF_vars(Agent)
    /\ WF_vars(QueryTiming)

-----------------------------------------------------------------------------
FairSpec == Spec /\ Fairness

TypeOK ==
    /\ servo \in [updates : BOOLEAN, errors : BOOLEAN]
    /\ slave \in BOOLEAN /\ beat \in BOOLEAN
    /\ ptpCopy \in [age : Ages, updates : BOOLEAN, errors : BOOLEAN]
    /\ spllCopy \in [age : Ages, slave : BOOLEAN]
    /\ timing \in [pc : {"idle", "ptp", "spll", "check", "stamp"}, age : Ages,
                   status : {"na", "ok", "error", "firstRead"}, first : BOOLEAN,
                   late : BOOLEAN]
    /\ sick \in BOOLEAN /\ others \in BOOLEAN

\* A servo that is updated every second and counts no error is never reported
\* as faulty: counters are not compared with themselves, whoever refreshed the
\* copies and when.
NoFalseError == ~sick => timing.status # "error"

\* While the switch is in slave mode, an error that the servo counts is
\* reported, if no copy is ever asked for by itself: "Error when SPLL is in
\* slave mode and at least one error counter in PTP increased".
ErrorReported ==
    ([]slave /\ []~others)
        => [](servo.errors /\ ~timing.first => <>(timing.status = "error"))

\* The same, if no second ends within a query either: then the copies keep
\* being refreshed together.
ErrorReportedInPhase ==
    ([]slave /\ []~others /\ []~timing.late)
        => [](servo.errors /\ ~timing.first => <>(timing.status = "error"))
=============================================================================
