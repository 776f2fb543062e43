------------------------------ MODULE WrnStamp ------------------------------
(***************************************************************************)
(* The second of a time stamp in the network driver: kernel/wr_nic/pps.c,  *)
(* record_tstamp() of timestamp.c for sent frames and                      *)
(* __wrn_rx_descriptor() of nic-core.c for received ones.  The hardware    *)
(* gives the ticks within the second; the second is read later from the    *)
(* PPS generator, which goes on counting between two reads, and corrected  *)
(* by comparing the two tick counts.                                       *)
(*                                                                         *)
(* One frame at a time: a job keeps nothing that another one changes.      *)
(***************************************************************************)
EXTENDS Integers

CONSTANTS
    Quarter,   \* REFCLK_FREQ / 4, 15 625 000 ticks
    MaxSec     \* bound: seconds

ConstantsOK == Quarter \in Nat \ {0} /\ MaxSec \in Nat

VARIABLES
    sec,   \* CNTR_UTCLO
    cnt,   \* CNTR_NSEC, in ticks
    job    \* [pc, kind, at, ts, age, utc1, cnt, utc2, utc]

vars == <<sec, cnt, job>>

Freq == 4 * Quarter

\* at and ts: second and tick of the frame; age: ticks since, up to a second.
\* The others are the variables of the code.
NoJob == [pc |-> "idle", kind |-> "rx", at |-> 0, ts |-> 0, age |-> 0,
          utc1 |-> 0, cnt |-> 0, utc2 |-> 0, utc |-> 0]

Init ==
    /\ sec = 0 /\ cnt \in 0 .. Freq - 1
    /\ job = NoJob

\* The PPS generator counts.
Tick ==
    /\ \/ cnt < Freq - 1 /\ cnt' = cnt + 1 /\ sec' = sec
       \/ cnt = Freq - 1 /\ sec < MaxSec /\ cnt' = 0 /\ sec' = sec + 1
    /\ job' = [job EXCEPT !.age = IF job.pc # "idle" /\ job.age < Freq THEN job.age + 1
                                  ELSE job.age]

\* A frame is stamped.
Stamp(kind) ==
    /\ job.pc = "idle"
    /\ job' = [pc |-> "utc1", kind |-> kind, at |-> sec, ts |-> cnt, age |-> 0,
               utc1 |-> 0, cnt |-> 0, utc2 |-> 0, utc |-> 0]
    /\ UNCHANGED <<sec, cnt>>

-----------------------------------------------------------------------------
(* wrn_ppsg_read_time()                                                    *)

ReadUtc1 ==
    /\ job.pc = "utc1"
    /\ job' = [job EXCEPT !.pc = "cnt", !.utc1 = sec]
    /\ UNCHANGED <<sec, cnt>>

ReadCnt ==
    /\ job.pc = "cnt"
    /\ job' = [job EXCEPT !.pc = "utc2", !.cnt = cnt]
    /\ UNCHANGED <<sec, cnt>>

\* Fault: the counter is not read again in a new second.
ReadUtc2_Once ==
    /\ job.pc = "utc2"
    /\ job' = [job EXCEPT !.pc = "correct", !.utc2 = sec]
    /\ UNCHANGED <<sec, cnt>>

\* if (utc2 != utc1)
ReadUtc2 ==
    /\ job.pc = "utc2"
    /\ job' = [job EXCEPT !.pc = IF sec # job.utc1 THEN "again" ELSE "correct", !.utc2 = sec]
    /\ UNCHANGED <<sec, cnt>>

ReadAgain ==
    /\ job.pc = "again"
    /\ job' = [job EXCEPT !.pc = "correct", !.cnt = cnt]
    /\ UNCHANGED <<sec, cnt>>

\* Has a second begun since the frame?
Later ==
    IF job.kind = "tx" THEN job.cnt < job.ts
    ELSE job.cnt < Quarter /\ job.ts > 3 * Quarter

\* utc--
Correct ==
    /\ job.pc = "correct"
    /\ job' = [job EXCEPT !.pc = "done", !.utc = IF Later THEN job.utc2 - 1 ELSE job.utc2]
    /\ UNCHANGED <<sec, cnt>>

Finish ==
    /\ job.pc = "done"
    /\ job' = NoJob
    /\ UNCHANGED <<sec, cnt>>

Next ==
    \/ Tick
    \/ Stamp("rx") \/ Stamp("tx")
    \/ ReadUtc1 \/ ReadCnt \/ ReadUtc2 \/ ReadAgain
    \/ Correct \/ Finish

Spec == Init /\ [][Next]_vars

-----------------------------------------------------------------------------
Jobs ==
    [pc : {"idle", "utc1", "cnt", "utc2", "again", "correct", "done"}, kind : {"rx", "tx"},
     at : 0 .. MaxSec, ts : 0 .. Freq - 1, age : 0 .. Freq,
     utc1 : 0 .. MaxSec, cnt : 0 .. Freq - 1, utc2 : 0 .. MaxSec, utc : -1 .. MaxSec]

TypeOK == sec \in 0 .. MaxSec /\ cnt \in 0 .. Freq - 1 /\ job \in Jobs

\* The driver is in time: for a sent frame within a second, for a received one
\* within a quarter of a second.
InTime == job.age < IF job.kind = "tx" THEN Freq ELSE Quarter

\* A time stamp has the second in which the frame was stamped, wherever the
\* beginning of a second falls between the frame and the reads.
SecondRight == (job.pc = "done" /\ InTime) => job.utc = job.at
=============================================================================
