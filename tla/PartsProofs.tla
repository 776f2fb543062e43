----------------------------- MODULE PartsProofs ----------------------------
(***************************************************************************)
(* Theorems about the other parts of Parts, and the types of all: each     *)
(* holds for all values of the constants of its part.                      *)
(*                                                                         *)
(* An invariant of a part speaks of the variables of that part alone, and  *)
(* a step of another part leaves those as they are: so it is enough to     *)
(* look at the steps of the part.                                          *)
(***************************************************************************)
EXTENDS NicProofs, DaemonProofs, FiniteSetTheorems, SequenceTheorems, TLAPS

-----------------------------------------------------------------------------
(* The timers of the HAL                                                   *)

\* The time since start_tics is the time since the period began, or the period
\* is over and the scan has not noticed: then it is by whole periods more.
TimerInv ==
    /\ Timer!TypeOK
    /\ \A i \in Timer!Timers :
        IF called[i] THEN age[i] = ticks[i]
        ELSE /\ age[i] > TimerPeriods[i]
             /\ ticks[i] = ((age[i] - 1) % TimerPeriods[i]) + 1

LEMMA TimerConstants ==
    /\ Len(TimerPeriods) \in Nat \ {0} /\ TimerMaxLate \in Nat
    /\ \A i \in Timer!Timers : TimerPeriods[i] \in Nat \ {0}
BY PartsConstants DEF Timer!ConstantsOK, Timer!Timers

LEMMA TimerInit == Init => TimerInv
<1> SUFFICES ASSUME Timer!Init PROVE TimerInv
  BY DEF Init
<1>1. Timer!TypeOK
  BY TimerConstants DEF Timer!Init, Timer!TypeOK, Timer!Timers
<1>2. \A i \in Timer!Timers : called[i] /\ age[i] = ticks[i]
  BY DEF Timer!Init
<1> QED
  BY <1>1, <1>2 DEF TimerInv

LEMMA TimerNext == TimerInv /\ [Next]_vars => TimerInv'
<1> SUFFICES ASSUME TimerInv, Timer!Tick \/ Timer!Scan \/ UNCHANGED timerVars
             PROVE  TimerInv'
  BY DEF Next, vars, Timer!Next
<1> USE TimerConstants
<1>1. Timer!Timers = 1 .. Len(TimerPeriods)
  BY DEF Timer!Timers
<1>2. CASE Timer!Tick
  <2>1. Timer!TypeOK'
    BY <1>2 DEF TimerInv, Timer!TypeOK, Timer!Tick
  <2>2. ASSUME NEW i \in Timer!Timers
        PROVE  IF called'[i] THEN age'[i] = ticks'[i]
               ELSE /\ age'[i] > TimerPeriods[i]
                    /\ ticks'[i] = ((age'[i] - 1) % TimerPeriods[i]) + 1
    <3> DEFINE P == TimerPeriods[i]
    <3>1. /\ age[i] \in Nat /\ ticks[i] \in 0 .. P /\ called[i] \in BOOLEAN
          /\ P \in Nat \ {0}
      BY DEF TimerInv, Timer!TypeOK
    <3>2. /\ age'[i] = age[i] + 1
          /\ ticks'[i] = IF ticks[i] = P THEN 1 ELSE ticks[i] + 1
          /\ called'[i] = (called[i] /\ ticks[i] # P)
      BY <1>2 DEF Timer!Tick
    <3>3. CASE called[i]
      <4>1. age[i] = ticks[i]
        BY <3>3 DEF TimerInv
      <4>2. CASE ticks[i] = P
        <5>1. ~called'[i] /\ age'[i] = P + 1 /\ ticks'[i] = 1
          BY <3>2, <4>1, <4>2
        <5>2. P % P = 0
          BY <3>1, SmallRemainder
        <5>3. age'[i] - 1 = P /\ age'[i] > P
          BY <3>1, <5>1
        <5> QED
          BY <5>1, <5>2, <5>3
      <4>3. CASE ticks[i] # P
        BY <3>1, <3>2, <3>3, <4>1, <4>3
      <4> QED
        BY <4>2, <4>3
    <3>4. CASE ~called[i]
      <4>1. age[i] > P /\ ticks[i] = ((age[i] - 1) % P) + 1
        BY <3>4 DEF TimerInv
      <4>2. age[i] % P = IF (age[i] - 1) % P = P - 1 THEN 0 ELSE ((age[i] - 1) % P) + 1
        <5>1. age[i] - 1 \in Int /\ (age[i] - 1) + 1 = age[i]
          BY <3>1
        <5> QED
          BY <3>1, <5>1, NextRemainder
      <4>3. ~called'[i] /\ age'[i] > P /\ age'[i] - 1 = age[i]
        BY <3>1, <3>2, <3>4, <4>1
      <4>4. (age[i] - 1) % P \in 0 .. P - 1
        <5>1. age[i] - 1 \in Int
          BY <3>1
        <5> QED
          BY <3>1, <5>1, Division
      <4>5. ticks'[i] = (age[i] % P) + 1
        BY <3>1, <3>2, <4>1, <4>2, <4>4
      <4> QED
        BY <4>3, <4>5
    <3> QED
      BY <3>1, <3>3, <3>4
  <2> QED
    BY <2>1, <2>2 DEF TimerInv, Timer!Timers
<1>3. CASE Timer!Scan
  <2>1. index \in Timer!Timers /\ index' = (index % Len(TimerPeriods)) + 1
        /\ ticks' = ticks
    BY <1>3 DEF Timer!Scan, TimerInv, Timer!TypeOK
  <2>2. index' \in Timer!Timers
    <3>1. index \in Int
      BY <1>1, <2>1
    <3>2. index % Len(TimerPeriods) \in 0 .. Len(TimerPeriods) - 1
      BY <3>1, Division
    <3> QED
      BY <1>1, <2>1, <3>2
  <2>3. CASE ~Timer!Over(index, age[index])
    <3>1. age' = age /\ called' = called
      BY <1>3, <2>3 DEF Timer!Scan
    <3> QED
      BY <2>1, <2>2, <3>1 DEF TimerInv, Timer!TypeOK, Timer!Timers
  <2>4. CASE Timer!Over(index, age[index])
    <3> DEFINE P == TimerPeriods[index]
    <3>1. /\ age' = [age EXCEPT ![index] = ((age[index] - 1) % P) + 1]
          /\ called' = [called EXCEPT ![index] = TRUE]
      BY <1>3, <2>4 DEF Timer!Scan, Timer!Restarted
    <3>2. age \in [Timer!Timers -> Nat] /\ called \in [Timer!Timers -> BOOLEAN]
          /\ age[index] > P /\ P \in Nat \ {0} /\ age[index] \in Nat
      BY <2>1, <2>4 DEF TimerInv, Timer!TypeOK, Timer!Over
    <3>3. ~called[index]
      BY <2>1, <3>2 DEF TimerInv, Timer!TypeOK
    <3>4. ticks[index] = ((age[index] - 1) % P) + 1
      BY <2>1, <3>3 DEF TimerInv
    <3>5. age' = [age EXCEPT ![index] = ticks[index]]
      BY <3>1, <3>4
    <3>6. ticks[index] \in 0 .. P
      BY <2>1 DEF TimerInv, Timer!TypeOK
    <3>7. Timer!TypeOK'
      BY <2>1, <2>2, <3>1, <3>2, <3>5, <3>6 DEF TimerInv, Timer!TypeOK
    <3>8. ASSUME NEW i \in Timer!Timers
          PROVE  IF called'[i] THEN age'[i] = ticks'[i]
                 ELSE /\ age'[i] > TimerPeriods[i]
                      /\ ticks'[i] = ((age'[i] - 1) % TimerPeriods[i]) + 1
      <4>1. CASE i = index
        BY <2>1, <3>1, <3>2, <3>5, <4>1
      <4>2. CASE i # index
        <5>1. age'[i] = age[i] /\ called'[i] = called[i] /\ ticks'[i] = ticks[i]
          BY <2>1, <3>1, <3>2, <3>5, <4>2
        <5> QED
          BY <5>1 DEF TimerInv
      <4> QED
        BY <4>1, <4>2
    <3> QED
      BY <3>7, <3>8 DEF TimerInv, Timer!Timers
  <2> QED
    BY <2>3, <2>4
<1>4. CASE UNCHANGED timerVars
  BY <1>4 DEF timerVars, TimerInv, Timer!TypeOK, Timer!Timers
<1> QED
  BY <1>2, <1>3, <1>4

\* However late the scans are and whatever the periods, timer_scan() calls a
\* timer once in each of its periods.
THEOREM TimersKeepTime == Spec => OncePerPeriod
<1>1. TimerInv /\ [Next]_vars
        => [index' # index => (Timer!Over(index, age[index]) <=> ~called[index])]_(Timer!vars)
  <2> SUFFICES ASSUME TimerInv, index' # index
               PROVE  Timer!Over(index, age[index]) <=> ~called[index]
    OBVIOUS
  <2>1. /\ index \in Timer!Timers /\ called[index] \in BOOLEAN
        /\ age[index] \in Nat /\ ticks[index] \in 0 .. TimerPeriods[index]
    BY TimerConstants DEF TimerInv, Timer!TypeOK
  <2>2. CASE called[index]
    BY <2>1, <2>2, TimerConstants DEF TimerInv, Timer!Over
  <2>3. CASE ~called[index]
    BY <2>1, <2>3, TimerConstants DEF TimerInv, Timer!Over
  <2> QED
    BY <2>1, <2>2, <2>3
<1> QED
  BY <1>1, TimerInit, TimerNext, PTL DEF Spec, OncePerPeriod, Timer!OncePerPeriod

-----------------------------------------------------------------------------
(* The clock source                                                        *)

\* Since a read that nothing has disturbed, the counter has gone on by the ticks
\* that have passed, up to whole seconds, and the offset that makes it positive
\* is that of the read.
ClockInv ==
    /\ Clock!TypeOK
    /\ (~jumped /\ ~borrowed) =>
        /\ ticksCounter + cs.adjustOffset >= 0
        /\ (ticksCounter + cs.adjustOffset - idle) % ClockFreq = cs.last
        /\ ticksCounter < 0 => cs.cntWasNeg
        /\ out = (cs.offset + cs.last) % ClockWide

LEMMA ClockConstants ==
    /\ ClockFreq \in Nat \ {0} /\ ClockBack \in 0 .. ClockFreq
    /\ ClockWide \in Nat \ {0} /\ ClockWide > 2 * ClockFreq
BY PartsConstants DEF Clock!ConstantsOK

LEMMA ClockInit == Init => ClockInv
<1> SUFFICES ASSUME Clock!Init PROVE ClockInv
  BY DEF Init
<1>1. Clock!TypeOK
  <2>1. cs \in [offset : 0 .. ClockWide - 1, last : 0 .. ClockFreq - 1,
                adjustOffset : 0 .. ClockFreq - 1, cntWasNeg : BOOLEAN]
    BY ClockConstants DEF Clock!Init
  <2>2. /\ ticksCounter \in -ClockBack .. ClockFreq - 1
        /\ out \in 0 .. ClockWide - 1 /\ idle \in 0 .. ClockFreq - 1
    BY ClockConstants DEF Clock!Init
  <2>3. jumped \in BOOLEAN /\ borrowed \in BOOLEAN
    BY Zenon DEF Clock!Init
  <2> QED
    BY <2>1, <2>2, <2>3 DEF Clock!TypeOK
<1> QED
  BY <1>1 DEF ClockInv, Clock!Init

\* The new offset is one again.
LEMMA ClockAdjustOffset ==
    ASSUME Clock!TypeOK
    PROVE  Clock!AdjustOffset \in 0 .. ClockFreq - 1
<1>1. cs.adjustOffset \in 0 .. ClockFreq - 1 /\ ticksCounter \in Int
  BY ClockConstants DEF Clock!TypeOK
<1>2. cs.adjustOffset - ticksCounter \in Int
  BY <1>1, ClockConstants
<1>3. (cs.adjustOffset - ticksCounter) % ClockFreq \in 0 .. ClockFreq - 1
  BY <1>2, Division, ClockConstants
<1> QED
  BY <1>1, <1>3 DEF Clock!AdjustOffset

\* What a read leaves behind.
LEMMA ClockRead ==
    ASSUME Clock!TypeOK, Clock!Read
    PROVE  /\ Clock!TypeOK'
           /\ ~borrowed' =>
                /\ ticksCounter' + cs'.adjustOffset >= 0
                /\ (ticksCounter' + cs'.adjustOffset - idle') % ClockFreq = cs'.last
                /\ ticksCounter' < 0 => cs'.cntWasNeg
                /\ out' = (cs'.offset + cs'.last) % ClockWide
<1> DEFINE adjust == Clock!AdjustOffset
           sum == ticksCounter + adjust
           this == (sum % ClockWide) % ClockFreq
           offset == (cs.offset + IF Clock!Anew(this) THEN ClockFreq ELSE 0) % ClockWide
<1> USE ClockConstants
<1>1. /\ cs' = [offset |-> offset, last |-> this, adjustOffset |-> adjust,
                cntWasNeg |-> ticksCounter < 0]
      /\ out' = (offset + this) % ClockWide /\ borrowed' = (sum < 0)
      /\ idle' = 0 /\ jumped' = FALSE /\ ticksCounter' = ticksCounter
  BY DEF Clock!Read
<1>2. adjust \in 0 .. ClockFreq - 1
  BY ClockAdjustOffset
<1>3. ticksCounter \in -ClockBack .. ClockFreq - 1 /\ cs.offset \in 0 .. ClockWide - 1
  BY DEF Clock!TypeOK
<1>4. sum \in Int /\ sum < ClockWide
  BY <1>2, <1>3
<1>5. sum % ClockWide \in 0 .. ClockWide - 1
  BY <1>4, Division
<1>6. this \in 0 .. ClockFreq - 1
  <2>1. sum % ClockWide \in Int
    BY <1>5
  <2> QED
    BY <2>1, Division
<1>7. offset \in 0 .. ClockWide - 1
  <2>1. cs.offset + (IF Clock!Anew(this) THEN ClockFreq ELSE 0) \in Int
    BY <1>3
  <2> QED
    BY <2>1, Division
<1>8. (offset + this) % ClockWide \in 0 .. ClockWide - 1
  <2>1. offset + this \in Int
    BY <1>6, <1>7
  <2> QED
    BY <2>1, Division
<1>9. sum >= 0 => this = sum % ClockFreq
  <2>1. ASSUME sum >= 0 PROVE sum % ClockWide = sum
    <3>1. sum \in -ClockWide .. 2 * ClockWide - 1 /\ ~(sum < 0) /\ sum < ClockWide
      BY <1>4, <2>1
    <3> HIDE DEF sum
    <3> QED
      BY <3>1, SmallRemainder
  <2> QED
    BY <2>1
<1> HIDE DEF adjust, this, offset
<1>10. Clock!TypeOK'
  <2>1. cs' \in [offset : 0 .. ClockWide - 1, last : 0 .. ClockFreq - 1,
                 adjustOffset : 0 .. ClockFreq - 1, cntWasNeg : BOOLEAN]
    BY <1>1, <1>2, <1>6, <1>7
  <2>2. borrowed' \in BOOLEAN /\ jumped' \in BOOLEAN
    <3>1. (sum < 0) \in BOOLEAN
      BY <1>4
    <3> QED
      BY <1>1, <3>1, Zenon
  <2>3. /\ ticksCounter' \in -ClockBack .. ClockFreq - 1
        /\ out' \in 0 .. ClockWide - 1 /\ idle' \in 0 .. ClockFreq - 1
    BY <1>1, <1>3, <1>8
  <2> QED
    BY <2>1, <2>2, <2>3 DEF Clock!TypeOK
<1>11. ASSUME ~borrowed'
       PROVE  /\ ticksCounter' + cs'.adjustOffset >= 0
              /\ (ticksCounter' + cs'.adjustOffset - idle') % ClockFreq = cs'.last
              /\ ticksCounter' < 0 => cs'.cntWasNeg
              /\ out' = (cs'.offset + cs'.last) % ClockWide
  <2>1. sum >= 0
    <3>1. ~(sum < 0)
      BY <1>1, <1>11, Zenon
    <3> QED
      BY <1>4, <3>1
  <2>2. /\ ticksCounter' + cs'.adjustOffset = sum
        /\ ticksCounter' + cs'.adjustOffset - idle' = sum
    BY <1>1, <1>2, <1>3
  <2>3. cs'.last = this /\ cs'.offset = offset /\ cs'.cntWasNeg = (ticksCounter < 0)
    BY <1>1
  <2>4. (ticksCounter' + cs'.adjustOffset - idle') % ClockFreq = this
    BY <1>9, <2>1, <2>2
  <2> QED
    BY <1>1, <2>1, <2>2, <2>3, <2>4
<1> QED
  BY <1>10, <1>11

LEMMA ClockNext == ClockInv /\ [Next]_vars => ClockInv'
<1> SUFFICES ASSUME ClockInv,
                    Clock!Tick \/ Clock!Adjust \/ Clock!Read \/ UNCHANGED clockVars
             PROVE  ClockInv'
  BY DEF Next, vars, Clock!Next
<1> USE ClockConstants
<1>1. CASE Clock!Tick
  <2> DEFINE x == ticksCounter + cs.adjustOffset - idle
  <2>1. /\ ticksCounter \in -ClockBack .. ClockFreq - 1 /\ idle \in 0 .. ClockFreq - 1
        /\ cs.adjustOffset \in 0 .. ClockFreq - 1 /\ x \in Int
    BY DEF ClockInv, Clock!TypeOK
  <2>2. /\ idle < ClockFreq - 1 /\ idle' = idle + 1
        /\ ticksCounter' = IF ticksCounter = ClockFreq - 1 THEN 0 ELSE ticksCounter + 1
        /\ cs' = cs /\ out' = out /\ jumped' = jumped /\ borrowed' = borrowed
    BY <1>1 DEF Clock!Tick
  <2>3. Clock!TypeOK'
    BY <2>1, <2>2 DEF ClockInv, Clock!TypeOK
  <2>4. ASSUME ~jumped, ~borrowed
        PROVE  /\ ticksCounter' + cs.adjustOffset >= 0
               /\ (ticksCounter' + cs.adjustOffset - idle') % ClockFreq = cs.last
               /\ ticksCounter' < 0 => cs.cntWasNeg
    <3>1. ticksCounter' + cs.adjustOffset >= 0 /\ (ticksCounter' < 0 => cs.cntWasNeg)
      BY <2>1, <2>2, <2>4 DEF ClockInv
    <3>2. x % ClockFreq = cs.last
      BY <2>4 DEF ClockInv
    <3>3. CASE ticksCounter = ClockFreq - 1
      <4>1. ticksCounter' + cs.adjustOffset - idle' = x - ClockFreq
        BY <2>1, <2>2, <3>3
      <4>2. (x - ClockFreq) % ClockFreq = x % ClockFreq
        BY <2>1, ShiftRemainder
      <4> QED
        BY <3>1, <3>2, <4>1, <4>2
    <3>4. CASE ticksCounter # ClockFreq - 1
      <4>1. ticksCounter' + cs.adjustOffset - idle' = x
        BY <2>1, <2>2, <3>4
      <4> QED
        BY <3>1, <3>2, <4>1
    <3> QED
      BY <3>3, <3>4
  <2> QED
    BY <2>2, <2>3, <2>4 DEF ClockInv
<1>2. CASE Clock!Adjust
  BY <1>2 DEF ClockInv, Clock!TypeOK, Clock!Adjust
<1>3. CASE Clock!Read
  BY <1>3, ClockRead DEF ClockInv
<1>4. CASE UNCHANGED clockVars
  BY <1>4 DEF clockVars, ClockInv, Clock!TypeOK
<1> QED
  BY <1>1, <1>2, <1>3, <1>4

\* Two reads, and the ticks between them.
LEMMA ClockAdvances ==
    ASSUME ClockInv, Clock!Read, ~jumped, ~borrowed
    PROVE  out' = (out + idle) % ClockWide
<1> DEFINE sum == ticksCounter + cs.adjustOffset
           this == sum % ClockFreq
           more == IF this < cs.last THEN ClockFreq ELSE 0
<1> USE ClockConstants
<1>1. /\ ticksCounter \in -ClockBack .. ClockFreq - 1 /\ idle \in 0 .. ClockFreq - 1
      /\ cs.adjustOffset \in 0 .. ClockFreq - 1 /\ cs.last \in 0 .. ClockFreq - 1
      /\ cs.offset \in 0 .. ClockWide - 1
  BY DEF ClockInv, Clock!TypeOK
<1>2. sum \in Int /\ 0 <= sum /\ sum < ClockWide /\ sum - idle \in Int
  <2>1. sum >= 0
    BY DEF ClockInv
  <2> QED
    BY <1>1, <2>1
<1>3. /\ (sum - idle) % ClockFreq = cs.last
      /\ ticksCounter < 0 => cs.cntWasNeg
      /\ out = (cs.offset + cs.last) % ClockWide
  <2>1. (sum - idle) % ClockFreq = cs.last /\ out = (cs.offset + cs.last) % ClockWide
    BY <1>1, <1>2 DEF ClockInv
  <2>2. ticksCounter < 0 => cs.cntWasNeg
    BY Zenon DEF ClockInv
  <2> QED
    BY <2>1, <2>2, Zenon
<1>4. Clock!AdjustOffset = cs.adjustOffset
  BY <1>3 DEF Clock!AdjustOffset
<1>5. sum % ClockWide = sum
  <2>1. sum \in -ClockWide .. 2 * ClockWide - 1 /\ ~(sum < 0) /\ sum < ClockWide
    BY <1>2
  <2> HIDE DEF sum
  <2> QED
    BY <2>1, SmallRemainder
<1>6. out' = (((cs.offset + more) % ClockWide) + this) % ClockWide
  BY <1>4, <1>5 DEF Clock!Read, Clock!Anew
<1>7. this \in 0 .. ClockFreq - 1
  BY <1>2, Division
<1>8. this = (cs.last + idle) % ClockFreq
  <2>1. (((sum - idle) % ClockFreq) + idle) % ClockFreq = ((sum - idle) + idle) % ClockFreq
    BY <1>1, <1>2, SumRemainder
  <2>2. (sum - idle) + idle = sum
    BY <1>1, <1>2
  <2> QED
    BY <1>3, <2>1, <2>2
<1>9. this = IF cs.last + idle < ClockFreq THEN cs.last + idle
             ELSE cs.last + idle - ClockFreq
  <2>1. cs.last + idle \in -ClockFreq .. 2 * ClockFreq - 1 /\ ~(cs.last + idle < 0)
    BY <1>1
  <2> DEFINE n == cs.last + idle
  <2>2. this = n % ClockFreq
    BY <1>8, Zenon
  <2>3. n \in -ClockFreq .. 2 * ClockFreq - 1 /\ ~(n < 0)
    BY <2>1
  <2> HIDE DEF n, this
  <2>4. n % ClockFreq = IF n < ClockFreq THEN n ELSE n - ClockFreq
    BY <2>3, SmallRemainder
  <2> QED
    BY <1>1, <2>2, <2>4 DEF n
<1> HIDE DEF this
<1>10. more + this = cs.last + idle
  BY <1>1, <1>7, <1>9
<1>11. out' = (cs.offset + more + this) % ClockWide
  <2>1. cs.offset + more \in Int /\ this \in Int
    BY <1>1, <1>7
  <2> QED
    BY <1>6, <2>1, SumRemainder
<1>12. cs.offset + more + this = (cs.offset + cs.last) + idle
  BY <1>1, <1>7, <1>10
<1>13. (out + idle) % ClockWide = ((cs.offset + cs.last) + idle) % ClockWide
  <2>1. cs.offset + cs.last \in Int /\ idle \in Int
    BY <1>1
  <2> QED
    BY <1>3, <2>1, SumRemainder
<1> QED
  BY <1>11, <1>12, <1>13

\* wrcs_read() for every frequency and word size: the clock advances by the
\* ticks that pass, through the end of a second and a counter below zero.
THEOREM ClockIsSteady == Spec => Steady
<1>1. ClockInv /\ [Next]_vars
        => [(Clock!Read /\ ~jumped /\ ~borrowed)
              => out' = (out + idle) % ClockWide]_(Clock!vars)
  BY ClockAdvances
<1> QED
  BY <1>1, ClockInit, ClockNext, PTL DEF Spec, Steady, Clock!Steady

-----------------------------------------------------------------------------
(* The table and the gateware's: FdRequestsProofs, for the part            *)

FdProof == INSTANCE FdRequestsProofs WITH
    Threads <- FdThreads, Serialized <- TRUE, Keys <- FdKeys, Masks <- FdMasks,
    Nodes <- FdNodes

LEMMA FdStep ==
    /\ Fd!Next => FdProof!Next
    /\ [Next]_vars => [FdProof!Next]_(FdProof!vars)
<1>1. /\ Fd!Nil = FdProof!Nil /\ Fd!None = FdProof!None /\ Fd!Nobody = FdProof!Nobody
      /\ Fd!Idle = FdProof!Idle /\ Fd!Present = FdProof!Present
  BY DEF Fd!Nil, FdProof!Nil, Fd!None, FdProof!None, Fd!Nobody, FdProof!Nobody,
         Fd!Idle, FdProof!Idle, Fd!Present, FdProof!Present
<1>2. ASSUME NEW t \in FdThreads, Fd!HwRequest(t) PROVE FdProof!HwRequest(t)
  <2>1. \A x : Fd!LastOf(x) = FdProof!LastOf(x)
    BY <1>1, Zenon DEF Fd!LastOf, FdProof!LastOf, Fd!Nil, FdProof!Nil
  <2> QED
    BY <1>2, <2>1, Zenon DEF Fd!HwRequest, FdProof!HwRequest, Fd!Nil, FdProof!Nil
<1>3. ASSUME NEW t \in FdThreads, Fd!Step(t) PROVE FdProof!Step(t)
  <2>1. ASSUME NEW k \in FdKeys, NEW mask \in FdMasks, Fd!CreateEntry(t, k, mask)
        PROVE  FdProof!CreateEntry(t, k, mask)
    BY <1>1, <2>1 DEF Fd!CreateEntry, FdProof!CreateEntry, Fd!Enter, FdProof!Enter,
       Fd!Locked, FdProof!Locked, Fd!Request, FdProof!Request
  <2>2. ASSUME Fd!Flush(t) PROVE FdProof!Flush(t)
    BY <1>1, <2>2 DEF Fd!Flush, FdProof!Flush, Fd!Enter, FdProof!Enter,
       Fd!Locked, FdProof!Locked, Fd!Request, FdProof!Request
  <2>3. ASSUME NEW mask \in FdMasks, Fd!ClearEntriesForPort(t, mask)
        PROVE  FdProof!ClearEntriesForPort(t, mask)
    BY <1>1, <2>3 DEF Fd!ClearEntriesForPort, FdProof!ClearEntriesForPort, Fd!Enter, FdProof!Enter,
       Fd!Locked, FdProof!Locked, Fd!Request, FdProof!Request
  <2>4. ASSUME NEW k \in FdKeys, Fd!RemoveEntry(t, k) PROVE FdProof!RemoveEntry(t, k)
    BY <1>1, <2>4 DEF Fd!RemoveEntry, FdProof!RemoveEntry, Fd!Enter, FdProof!Enter,
       Fd!Locked, FdProof!Locked, Fd!Request, FdProof!Request
  <2>5. ASSUME Fd!Link(t) PROVE FdProof!Link(t)
    BY <1>1, <2>5 DEF Fd!Link, FdProof!Link
  <2>6. ASSUME Fd!Commit(t) PROVE FdProof!Commit(t)
    BY <1>1, <2>6 DEF Fd!Commit, FdProof!Commit
  <2>7. ASSUME Fd!ServeWrite(t) PROVE FdProof!ServeWrite(t)
    BY <1>1, <2>7 DEF Fd!ServeWrite, FdProof!ServeWrite, Fd!Serving, FdProof!Serving,
       Fd!Advance, FdProof!Advance
  <2>8. ASSUME Fd!ServeRemove(t) PROVE FdProof!ServeRemove(t)
    BY <1>1, <2>8 DEF Fd!ServeRemove, FdProof!ServeRemove, Fd!Serving, FdProof!Serving,
       Fd!Buckets, FdProof!Buckets
  <2>9. ASSUME Fd!Rewrite(t) PROVE FdProof!Rewrite(t)
    BY <1>1, <2>9 DEF Fd!Rewrite, FdProof!Rewrite, Fd!Advance, FdProof!Advance
  <2>10. ASSUME Fd!Free(t) PROVE FdProof!Free(t)
    BY <1>1, <2>10 DEF Fd!Free, FdProof!Free
  <2>11. ASSUME Fd!ClearList(t) PROVE FdProof!ClearList(t)
    BY <1>1, <2>11 DEF Fd!ClearList, FdProof!ClearList
  <2>12. ASSUME Fd!Leave(t) PROVE FdProof!Leave(t)
    BY <1>1, <2>12 DEF Fd!Leave, FdProof!Leave
  <2> QED
    BY <1>2, <1>3, <2>1, <2>2, <2>3, <2>4, <2>5, <2>6, <2>7, <2>8, <2>9, <2>10, <2>11, <2>12
    DEF Fd!Step, FdProof!Step
<1>4. Fd!Crash => FdProof!Crash
  BY <1>1 DEF Fd!Crash, FdProof!Crash
<1>5. Fd!Next => FdProof!Next
  BY <1>3, <1>4 DEF Fd!Next, FdProof!Next
<1>6. [Next]_vars => Fd!Next \/ UNCHANGED fdVars
  BY DEF Next, vars
<1>7. [Next]_vars => [FdProof!Next]_(FdProof!vars)
  BY <1>5, <1>6 DEF FdProof!vars, fdVars
<1> QED
  BY <1>5, <1>7

LEMMA FdSame ==
    /\ FdProof!ConstantsOK
    /\ Init => FdProof!Init
    /\ FdProof!RequestsAlive /\ FdProof!MirrorsTable => MirrorsTable
<1>1. FdProof!ConstantsOK
  BY PartsConstants DEF Fd!ConstantsOK, FdProof!ConstantsOK, Fd!Cardinality, FdProof!Cardinality,
     Fd!IsFiniteSet, FdProof!IsFiniteSet, Fd!Nil, FdProof!Nil, Fd!None, FdProof!None,
     Fd!Nobody, FdProof!Nobody
<1>2. Init => FdProof!Init
  BY DEF Init, Fd!Init, FdProof!Init, Fd!Nil, FdProof!Nil, Fd!None, FdProof!None,
     Fd!Nobody, FdProof!Nobody, Fd!Idle, FdProof!Idle
<1>3. FdProof!RequestsAlive /\ FdProof!MirrorsTable => MirrorsTable
  BY DEF MirrorsTable, Fd!RequestsAlive, FdProof!RequestsAlive, Fd!MirrorsTable,
     FdProof!MirrorsTable, Fd!Nil, FdProof!Nil
<1> QED
  BY <1>1, <1>2, <1>3

\* "this list no longer needed": as long as the operations do not overlap, nobody
\* looks at a request that clean_list() has freed, and the gateware has what the
\* table has whenever no operation is under way, except where a daemon died; for
\* any number of threads, entries and crashes.
THEOREM TableIsMirrored == Spec => []MirrorsTable
<1>1. Init => FdProof!IInv
  BY FdSame, FdProof!InitIInv
<1>2. FdProof!IInv /\ [Next]_vars => FdProof!IInv'
  BY FdSame, FdStep, FdProof!NextIInv
<1>3. FdProof!IInv => MirrorsTable
  BY FdSame, FdProof!KeepsAlive, FdProof!KeepsMirror
<1> QED
  BY <1>1, <1>2, <1>3, PTL DEF Spec

-----------------------------------------------------------------------------
(* The statistics counters                                                 *)

LEMMA PstatsConstants ==
    /\ PstatsLow \in Nat \ {0} /\ PstatsWide \in Nat /\ PstatsWide % PstatsLow = 0
    /\ PstatsBuf \in Nat \ {0} /\ PstatsBuf > 1
    /\ PstatsMaxTotal \in Nat /\ PstatsMaxTotal < PstatsWide
BY PartsConstants DEF Pstats!ConstantsOK

\* The entries of the ring from tail t to head h.
PstatsRing(h, t) == {(t + k) % PstatsBuf : k \in 0 .. ((h - t) % PstatsBuf) - 1}

LEMMA PstatsRingOf ==
    ASSUME NEW h \in Pstats!Slots, NEW t \in Pstats!Slots
    PROVE  PstatsRing(h, t) = IF t <= h THEN t .. h - 1 ELSE (t .. PstatsBuf - 1) \cup (0 .. h - 1)
<1> USE PstatsConstants DEF Pstats!Slots
<1> DEFINE n == (h - t) % PstatsBuf
           F(k) == (t + k) % PstatsBuf
<1>1. n = IF t <= h THEN h - t ELSE h - t + PstatsBuf
  <2>1. h - t \in -PstatsBuf .. 2 * PstatsBuf - 1
    OBVIOUS
  <2>2. (h - t) % PstatsBuf = IF h - t < 0 THEN h - t + PstatsBuf
                              ELSE IF h - t < PstatsBuf THEN h - t ELSE h - t - PstatsBuf
    BY <2>1, SmallRemainder
  <2> HIDE DEF n
  <2>3. n = IF h - t < 0 THEN h - t + PstatsBuf
            ELSE IF h - t < PstatsBuf THEN h - t ELSE h - t - PstatsBuf
    BY <2>2, Zenon DEF n
  <2> QED
    BY <2>3
<1>2. ASSUME NEW k \in 0 .. PstatsBuf - 1
      PROVE  F(k) = IF t + k < PstatsBuf THEN t + k ELSE t + k - PstatsBuf
  <2>1. t + k \in -PstatsBuf .. 2 * PstatsBuf - 1 /\ ~(t + k < 0)
    OBVIOUS
  <2> DEFINE m == t + k
  <2> HIDE DEF m
  <2>2. m % PstatsBuf = IF m < PstatsBuf THEN m ELSE m - PstatsBuf
    BY <2>1, SmallRemainder DEF m
  <2>3. F(k) = m % PstatsBuf
    BY DEF m
  <2> HIDE DEF F
  <2> QED
    BY <2>2, <2>3 DEF m
<1>3. PstatsRing(h, t) = {F(k) : k \in 0 .. n - 1}
  BY DEF PstatsRing
<1>4. n \in 0 .. PstatsBuf - 1
  BY <1>1
<1> HIDE DEF n, F
<1>5. CASE t <= h
  <2>1. n = h - t /\ \A k \in 0 .. n - 1 : F(k) = t + k
    BY <1>1, <1>2, <1>4, <1>5
  <2>2. \A i \in t .. h - 1 : i - t \in 0 .. n - 1 /\ F(i - t) = i
    BY <2>1
  <2> QED
    BY <1>3, <1>5, <2>1, <2>2
<1>6. CASE ~(t <= h)
  <2>1. n = h - t + PstatsBuf
    BY <1>1, <1>6
  <2>2. \A k \in 0 .. n - 1 : F(k) \in (t .. PstatsBuf - 1) \cup (0 .. h - 1)
    BY <1>2, <1>4, <2>1
  <2>3. \A i \in t .. PstatsBuf - 1 : i - t \in 0 .. n - 1 /\ F(i - t) = i
    BY <1>2, <1>4, <2>1
  <2>4. \A i \in 0 .. h - 1 : i + PstatsBuf - t \in 0 .. n - 1 /\ F(i + PstatsBuf - t) = i
    BY <1>2, <1>4, <1>6, <2>1
  <2> QED
    BY <1>3, <1>6, <2>2, <2>3, <2>4
<1> QED
  BY <1>5, <1>6

LEMMA PstatsNextSlot ==
    ASSUME NEW i \in Pstats!Slots
    PROVE  (i + 1) % PstatsBuf \in Pstats!Slots
           /\ (i + 1) % PstatsBuf = IF i = PstatsBuf - 1 THEN 0 ELSE i + 1
<1> USE PstatsConstants DEF Pstats!Slots
<1>1. i + 1 \in -PstatsBuf .. 2 * PstatsBuf - 1 /\ ~(i + 1 < 0)
  OBVIOUS
<1>2. (i + 1) % PstatsBuf = IF i + 1 < PstatsBuf THEN i + 1 ELSE i + 1 - PstatsBuf
  BY <1>1, SmallRemainder
<1> QED
  BY <1>2

\* The tasklet takes the oldest entry,
LEMMA PstatsRingTake ==
    ASSUME NEW h \in Pstats!Slots, NEW t \in Pstats!Slots, h # t
    PROVE  /\ t \notin PstatsRing(h, (t + 1) % PstatsBuf)
           /\ PstatsRing(h, t) = PstatsRing(h, (t + 1) % PstatsBuf) \cup {t}
<1> DEFINE u == (t + 1) % PstatsBuf
<1>1. u \in Pstats!Slots /\ u = IF t = PstatsBuf - 1 THEN 0 ELSE t + 1
  BY PstatsNextSlot
<1> HIDE DEF u
<1>2. PstatsRing(h, t) = IF t <= h THEN t .. h - 1 ELSE (t .. PstatsBuf - 1) \cup (0 .. h - 1)
  BY PstatsRingOf
<1>3. PstatsRing(h, u) = IF u <= h THEN u .. h - 1 ELSE (u .. PstatsBuf - 1) \cup (0 .. h - 1)
  BY <1>1, PstatsRingOf
<1>4. /\ t \notin PstatsRing(h, u)
      /\ PstatsRing(h, t) = PstatsRing(h, u) \cup {t}
  BY <1>1, <1>2, <1>3, PstatsConstants DEF Pstats!Slots
<1> QED
  BY <1>4 DEF u

\* and the interrupt handler adds one, unless the ring is full.
LEMMA PstatsRingAdd ==
    ASSUME NEW h \in Pstats!Slots, NEW t \in Pstats!Slots, (h + 1) % PstatsBuf # t
    PROVE  /\ h \notin PstatsRing(h, t)
           /\ PstatsRing((h + 1) % PstatsBuf, t) = PstatsRing(h, t) \cup {h}
<1> DEFINE u == (h + 1) % PstatsBuf
<1>1. u \in Pstats!Slots /\ u # t /\ u = IF h = PstatsBuf - 1 THEN 0 ELSE h + 1
  BY PstatsNextSlot
<1> HIDE DEF u
<1>2. PstatsRing(h, t) = IF t <= h THEN t .. h - 1 ELSE (t .. PstatsBuf - 1) \cup (0 .. h - 1)
  BY PstatsRingOf
<1>3. PstatsRing(u, t) = IF t <= u THEN t .. u - 1 ELSE (t .. PstatsBuf - 1) \cup (0 .. u - 1)
  BY <1>1, PstatsRingOf
<1>4. /\ h \notin PstatsRing(h, t)
      /\ PstatsRing(u, t) = PstatsRing(h, t) \cup {h}
  BY <1>1, <1>2, <1>3, PstatsConstants DEF Pstats!Slots
<1> QED
  BY <1>4 DEF u

\* How many of the entries are overflows of this counter.
PstatsWaiting(o, h, t) == Cardinality({i \in PstatsRing(h, t) : o[i]})

LEMMA PstatsWaitingSet ==
    ASSUME NEW o, NEW h \in Pstats!Slots, NEW t \in Pstats!Slots
    PROVE  /\ IsFiniteSet({i \in PstatsRing(h, t) : o[i]})
           /\ PstatsWaiting(o, h, t) \in Nat
<1>1. PstatsRing(h, t) \subseteq 0 .. PstatsBuf - 1
  BY PstatsRingOf, PstatsConstants DEF Pstats!Slots
<1>2. IsFiniteSet(0 .. PstatsBuf - 1)
  BY FS_Interval, PstatsConstants
<1>3. IsFiniteSet({i \in PstatsRing(h, t) : o[i]})
  BY <1>1, <1>2, FS_Subset
<1> QED
  BY <1>3, FS_CardinalityType DEF PstatsWaiting

LEMMA PstatsWaitingTake ==
    ASSUME NEW o, NEW h \in Pstats!Slots, NEW t \in Pstats!Slots, h # t
    PROVE  PstatsWaiting(o, h, t)
             = PstatsWaiting(o, h, (t + 1) % PstatsBuf) + IF o[t] THEN 1 ELSE 0
<1> DEFINE u == (t + 1) % PstatsBuf
           W == {i \in PstatsRing(h, u) : o[i]}
<1>1. u \in Pstats!Slots
  BY PstatsNextSlot
<1>2. t \notin PstatsRing(h, u) /\ PstatsRing(h, t) = PstatsRing(h, u) \cup {t}
  BY PstatsRingTake
<1>3. IsFiniteSet(W) /\ Cardinality(W) \in Nat
  BY <1>1, PstatsWaitingSet DEF PstatsWaiting
<1> HIDE DEF u
<1>4. CASE o[t]
  <2>1. {i \in PstatsRing(h, t) : o[i]} = W \cup {t} /\ t \notin W
    BY <1>2, <1>4
  <2>2. Cardinality(W \cup {t}) = Cardinality(W) + 1
    BY <1>3, <2>1, FS_AddElement
  <2> QED
    BY <1>4, <2>1, <2>2 DEF PstatsWaiting, u
<1>5. CASE ~o[t]
  <2>1. {i \in PstatsRing(h, t) : o[i]} = W
    BY <1>2, <1>5
  <2>2. /\ PstatsWaiting(o, h, t) = Cardinality(W)
        /\ PstatsWaiting(o, h, (t + 1) % PstatsBuf) = Cardinality(W)
    BY <2>1, Zenon DEF PstatsWaiting, u
  <2> HIDE DEF W
  <2> QED
    BY <1>3, <1>5, <2>2
<1> QED
  BY <1>4, <1>5

LEMMA PstatsWaitingAdd ==
    ASSUME NEW o \in [Pstats!Slots -> BOOLEAN], NEW w \in BOOLEAN,
           NEW h \in Pstats!Slots, NEW t \in Pstats!Slots, (h + 1) % PstatsBuf # t
    PROVE  PstatsWaiting([o EXCEPT ![h] = w], (h + 1) % PstatsBuf, t)
             = PstatsWaiting(o, h, t) + IF w THEN 1 ELSE 0
<1> DEFINE u == (h + 1) % PstatsBuf
           o2 == [o EXCEPT ![h] = w]
           W == {i \in PstatsRing(h, t) : o[i]}
<1>1. h \notin PstatsRing(h, t) /\ PstatsRing(u, t) = PstatsRing(h, t) \cup {h}
  BY PstatsRingAdd
<1>2. IsFiniteSet(W) /\ Cardinality(W) \in Nat
  BY PstatsWaitingSet DEF PstatsWaiting
<1>3. PstatsRing(h, t) \subseteq Pstats!Slots
  BY PstatsRingOf, PstatsConstants DEF Pstats!Slots
<1>4. o2[h] = w /\ \A i \in PstatsRing(h, t) : o2[i] = o[i]
  BY <1>1, <1>3
<1> HIDE DEF u, o2
<1>5. CASE w
  <2>1. {i \in PstatsRing(u, t) : o2[i]} = W \cup {h} /\ h \notin W
    BY <1>1, <1>4, <1>5
  <2>2. Cardinality(W \cup {h}) = Cardinality(W) + 1
    BY <1>2, <2>1, FS_AddElement
  <2> QED
    BY <1>5, <2>1, <2>2 DEF PstatsWaiting, u, o2
<1>6. CASE ~w
  <2>1. {i \in PstatsRing(u, t) : o2[i]} = W
    BY <1>1, <1>4, <1>6
  <2>2. /\ PstatsWaiting(o, h, t) = Cardinality(W)
        /\ PstatsWaiting([o EXCEPT ![h] = w], (h + 1) % PstatsBuf, t) = Cardinality(W)
    BY <2>1, Zenon DEF PstatsWaiting, u, o2
  <2> HIDE DEF W
  <2> QED
    BY <1>2, <1>6, <2>2
<1> QED
  BY <1>5, <1>6

PstatsTypes ==
    /\ total \in 0 .. PstatsWide - 1 /\ wrapped \in BOOLEAN
    /\ ovf \in [Pstats!Slots -> BOOLEAN]
    /\ irqsHead \in Pstats!Slots /\ irqsTail \in Pstats!Slots
    /\ cntr \in 0 .. PstatsWide - 1 /\ zeros \in 0 .. PstatsLow - 1
    /\ proc \in [pc : {"idle", "load", "store", "zero"}, low : 0 .. PstatsLow - 1,
                 value : 0 .. PstatsWide - 1, zero : BOOLEAN]
    /\ base \in Nat /\ mixed \in BOOLEAN

\* What an update will store has the overflows of what is there.
PstatsUpdate ==
    (proc.pc = "store" /\ ~mixed /\ zeros = 0)
        => proc.value \div PstatsLow = cntr \div PstatsLow

\* That no more overflows were counted than have happened keeps the counter from
\* wrapping.
PstatsInv ==
    /\ PstatsTypes
    /\ Pstats!Counted \in Nat
    /\ PstatsUpdate
    /\ Exact

\* Counted, by the entries of the ring.
PstatsSum ==
    Pstats!Counted = (total \div PstatsLow) - (IF wrapped THEN 1 ELSE 0)
                       - PstatsWaiting(ovf, irqsHead, irqsTail)

LEMMA PstatsCountedNow == PstatsSum
<1> DEFINE Overflows == {i \in Pstats!Noted : ovf[i]}
<1>1. Overflows = {i \in PstatsRing(irqsHead, irqsTail) : ovf[i]}
  BY Zenon DEF Pstats!Noted, PstatsRing
<1>2. Pstats!Cardinality(Overflows) = Cardinality(Overflows)
  BY Zenon DEF Cardinality, Pstats!Cardinality
<1>3. Pstats!Counted = (total \div PstatsLow) - (IF wrapped THEN 1 ELSE 0)
                         - Pstats!Cardinality(Overflows)
  BY Zenon DEF Pstats!Counted
<1>4. Pstats!Cardinality(Overflows) = PstatsWaiting(ovf, irqsHead, irqsTail)
  BY <1>1, <1>2, Zenon DEF PstatsWaiting
<1> QED
  BY <1>3, <1>4, Zenon DEF PstatsSum

\* What holds in every state holds after a step.
LEMMA PstatsCounted ==
    /\ Pstats!Counted = (total \div PstatsLow) - (IF wrapped THEN 1 ELSE 0)
                          - PstatsWaiting(ovf, irqsHead, irqsTail)
    /\ Pstats!Counted' = (total' \div PstatsLow) - (IF wrapped' THEN 1 ELSE 0)
                           - PstatsWaiting(ovf', irqsHead', irqsTail')
<1>1. PstatsSum /\ PstatsSum'
  BY PstatsCountedNow, PTL
<1> QED
  BY <1>1, Zenon DEF PstatsSum

LEMMA PstatsRanges ==
    ASSUME PstatsTypes
    PROVE  /\ total \div PstatsLow \in Int /\ cntr \div PstatsLow \in Int
           /\ PstatsWaiting(ovf, irqsHead, irqsTail) \in Nat
           /\ total \in Int /\ cntr \in Int
<1>1. total \in Int /\ cntr \in Int
  BY PstatsConstants DEF PstatsTypes
<1>2. irqsHead \in Pstats!Slots /\ irqsTail \in Pstats!Slots
  BY DEF PstatsTypes
<1> QED
  BY <1>1, <1>2, Division, PstatsConstants, PstatsWaitingSet

LEMMA PstatsInit == Init => PstatsInv
<1> SUFFICES ASSUME Pstats!Init PROVE PstatsInv
  BY DEF Init
<1> USE PstatsConstants
<1>1. PstatsLow - 1 < PstatsWide
  <2>1. 0 \div PstatsLow = 0
    <3>1. 0 = PstatsLow * 0 + 0 /\ 0 \in 0 .. PstatsLow - 1
      OBVIOUS
    <3> QED
      BY <3>1, DivisionUnique
  <2>2. (PstatsLow - 1) \div PstatsLow = 0
    <3>1. PstatsLow - 1 = PstatsLow * 0 + (PstatsLow - 1) /\ PstatsLow - 1 \in 0 .. PstatsLow - 1
      OBVIOUS
    <3> QED
      BY <3>1, DivisionUnique
  <2>3. 0 < PstatsWide
    OBVIOUS
  <2>4. 0 \div PstatsLow < PstatsWide \div PstatsLow
    BY <2>3, QuotientBelow
  <2>5. (PstatsLow - 1) \div PstatsLow < PstatsWide \div PstatsLow
    BY <2>1, <2>2, <2>4
  <2> QED
    BY <2>5, QuotientBelow
<1>2. PstatsTypes
  <2>1. /\ total \in 0 .. PstatsWide - 1 /\ cntr \in 0 .. PstatsWide - 1
        /\ zeros \in 0 .. PstatsLow - 1 /\ base \in Nat
        /\ irqsHead \in Pstats!Slots /\ irqsTail \in Pstats!Slots
    BY <1>1 DEF Pstats!Init, Pstats!Slots
  <2>2. /\ wrapped \in BOOLEAN /\ mixed \in BOOLEAN /\ ovf \in [Pstats!Slots -> BOOLEAN]
    BY DEF Pstats!Init
  <2>3. proc \in [pc : {"idle", "load", "store", "zero"}, low : 0 .. PstatsLow - 1,
                  value : 0 .. PstatsWide - 1, zero : BOOLEAN]
    BY DEF Pstats!Init, Pstats!NoProc
  <2> QED
    BY <2>1, <2>2, <2>3 DEF PstatsTypes
<1>3. Pstats!Counted = 0
  <2>1. total \div PstatsLow = 0
    <3>1. total \in Int /\ total = PstatsLow * 0 + total /\ total \in 0 .. PstatsLow - 1
      BY DEF Pstats!Init
    <3> QED
      BY <3>1, DivisionUnique
  <2>2. PstatsWaiting(ovf, irqsHead, irqsTail) = 0
    <3>1. \A i \in Pstats!Slots : ~ovf[i]
      BY DEF Pstats!Init
    <3>2. PstatsRing(irqsHead, irqsTail) \subseteq Pstats!Slots
      BY <1>2, PstatsRingOf DEF PstatsTypes, Pstats!Slots
    <3>3. {i \in PstatsRing(irqsHead, irqsTail) : ovf[i]} = {}
      BY <3>1, <3>2
    <3> QED
      BY <3>3, FS_EmptySet DEF PstatsWaiting
  <2> QED
    BY <2>1, <2>2, PstatsCounted DEF Pstats!Init
<1>4. cntr \div PstatsLow = 0 /\ base = 0
  <2>1. cntr = 0 /\ 0 = PstatsLow * 0 + 0 /\ 0 \in 0 .. PstatsLow - 1
    BY DEF Pstats!Init
  <2> QED
    BY <2>1, DivisionUnique DEF Pstats!Init
<1>5. proc.pc = "idle"
  BY DEF Pstats!Init, Pstats!NoProc
<1>6. Exact
  BY <1>3, <1>4 DEF Exact, Pstats!Exact
<1> QED
  BY <1>2, <1>3, <1>5, <1>6 DEF PstatsInv, PstatsUpdate

\* The gateware counts: an overflow goes into the flag.
LEMMA PstatsCount == ASSUME PstatsInv, Pstats!Count PROVE PstatsInv'
<1> USE PstatsConstants
<1>1. /\ total' = total + 1 /\ total < PstatsMaxTotal
      /\ IF total' % PstatsLow = 0 THEN ~wrapped /\ wrapped' = TRUE ELSE wrapped' = wrapped
      /\ UNCHANGED <<ovf, irqsHead, irqsTail, cntr, zeros, proc, base, mixed>>
  BY DEF Pstats!Count
<1>2. /\ total \div PstatsLow \in Int /\ PstatsWaiting(ovf, irqsHead, irqsTail) \in Nat
      /\ total \in Int
  BY PstatsRanges DEF PstatsInv
<1>3. (total + 1) \div PstatsLow
        = IF (total + 1) % PstatsLow = 0 THEN (total \div PstatsLow) + 1
          ELSE total \div PstatsLow
  BY <1>2, NextQuotient
<1>4. Pstats!Counted' = Pstats!Counted
  <2>1. total' \div PstatsLow = IF total' % PstatsLow = 0 THEN (total \div PstatsLow) + 1
                                ELSE total \div PstatsLow
    BY <1>1, <1>3
  <2>2. PstatsWaiting(ovf', irqsHead', irqsTail') = PstatsWaiting(ovf, irqsHead, irqsTail)
    BY <1>1
  <2>3. CASE total' % PstatsLow = 0
    <3>1. ~wrapped /\ wrapped' /\ total' \div PstatsLow = (total \div PstatsLow) + 1
      BY <1>1, <2>1, <2>3, Zenon
    <3> QED
      BY <1>2, <2>2, <3>1, PstatsCounted
  <2>4. CASE total' % PstatsLow # 0
    <3>1. wrapped' = wrapped /\ total' \div PstatsLow = total \div PstatsLow
      BY <1>1, <2>1, <2>4, Zenon
    <3> QED
      BY <2>2, <3>1, PstatsCounted
  <2> QED
    BY <2>3, <2>4
<1>5. PstatsTypes'
  <2>1. total' \in 0 .. PstatsWide - 1
    BY <1>1 DEF PstatsInv, PstatsTypes
  <2>2. wrapped' \in BOOLEAN
    BY <1>1, Zenon DEF PstatsInv, PstatsTypes
  <2> QED
    BY <1>1, <2>1, <2>2 DEF PstatsInv, PstatsTypes
<1>6. PstatsUpdate' /\ Exact'
  BY <1>1, <1>4 DEF PstatsInv, PstatsUpdate, Exact, Pstats!Exact
<1> QED
  BY <1>4, <1>5, <1>6 DEF PstatsInv

\* The handler moves the flag into the ring.
LEMMA PstatsHandler == ASSUME PstatsInv, Pstats!IrqHandler PROVE PstatsInv'
<1> USE PstatsConstants
<1>1. /\ (irqsHead + 1) % PstatsBuf # irqsTail
      /\ ovf' = [ovf EXCEPT ![irqsHead] = wrapped] /\ wrapped' = FALSE
      /\ irqsHead' = (irqsHead + 1) % PstatsBuf
      /\ UNCHANGED <<total, irqsTail, cntr, zeros, proc, base, mixed>>
  BY DEF Pstats!IrqHandler
<1>2. /\ irqsHead \in Pstats!Slots /\ irqsTail \in Pstats!Slots /\ wrapped \in BOOLEAN
      /\ ovf \in [Pstats!Slots -> BOOLEAN]
  BY DEF PstatsInv, PstatsTypes
<1>3. PstatsWaiting(ovf', irqsHead', irqsTail')
        = PstatsWaiting(ovf, irqsHead, irqsTail) + IF wrapped THEN 1 ELSE 0
  BY <1>1, <1>2, PstatsWaitingAdd
<1>4. /\ total \div PstatsLow \in Int /\ PstatsWaiting(ovf, irqsHead, irqsTail) \in Nat
  BY PstatsRanges DEF PstatsInv
<1>5. Pstats!Counted' = Pstats!Counted
  <2>1. total' \div PstatsLow = total \div PstatsLow /\ ~wrapped'
    BY <1>1
  <2> QED
    BY <1>3, <1>4, <2>1, PstatsCounted
<1>6. PstatsTypes'
  <2>1. irqsHead' \in Pstats!Slots
    BY <1>1, <1>2, PstatsNextSlot
  <2>2. ovf' \in [Pstats!Slots -> BOOLEAN] /\ wrapped' \in BOOLEAN
    BY <1>1, <1>2
  <2> QED
    BY <1>1, <2>1, <2>2 DEF PstatsInv, PstatsTypes
<1>7. PstatsUpdate' /\ Exact'
  BY <1>1, <1>5 DEF PstatsInv, PstatsUpdate, Exact, Pstats!Exact
<1> QED
  BY <1>5, <1>6, <1>7 DEF PstatsInv

\* The tasklet moves an overflow from the ring into the counter.
LEMMA PstatsTasklet == ASSUME PstatsInv, Pstats!Tasklet PROVE PstatsInv'
<1> USE PstatsConstants
<1> DEFINE more == IF ovf[irqsTail] THEN PstatsLow ELSE 0
<1>1. /\ irqsTail # irqsHead /\ cntr' = (cntr + more) % PstatsWide
      /\ irqsTail' = (irqsTail + 1) % PstatsBuf
      /\ mixed' = (mixed \/ (ovf[irqsTail] /\ proc.pc = "store"))
      /\ UNCHANGED <<total, wrapped, ovf, irqsHead, zeros, proc, base>>
  BY DEF Pstats!Tasklet
<1>2. /\ irqsHead \in Pstats!Slots /\ irqsTail \in Pstats!Slots /\ wrapped \in BOOLEAN
      /\ ovf \in [Pstats!Slots -> BOOLEAN] /\ cntr \in 0 .. PstatsWide - 1
      /\ mixed \in BOOLEAN /\ base \in Nat /\ total \in 0 .. PstatsWide - 1
  BY DEF PstatsInv, PstatsTypes
<1>3. irqsTail' \in Pstats!Slots
  BY <1>1, <1>2, PstatsNextSlot
<1>4. PstatsWaiting(ovf, irqsHead, irqsTail)
        = PstatsWaiting(ovf', irqsHead', irqsTail') + IF ovf[irqsTail] THEN 1 ELSE 0
  BY <1>1, <1>2, PstatsWaitingTake
<1>5. /\ total \div PstatsLow \in Int /\ cntr \div PstatsLow \in Int
      /\ PstatsWaiting(ovf, irqsHead, irqsTail) \in Nat
      /\ PstatsWaiting(ovf', irqsHead', irqsTail') \in Nat
      /\ PstatsWide \div PstatsLow \in Int
  <2>1. PstatsWaiting(ovf', irqsHead', irqsTail') \in Nat
    BY <1>1, <1>2, <1>3, PstatsWaitingSet
  <2> QED
    BY <2>1, PstatsRanges, Division DEF PstatsInv
<1>6. Pstats!Counted' = Pstats!Counted + IF ovf[irqsTail] THEN 1 ELSE 0
  <2>1. total' \div PstatsLow = total \div PstatsLow /\ wrapped' = wrapped
    BY <1>1
  <2> QED
    BY <1>4, <1>5, <2>1, PstatsCounted
<1>7. PstatsTypes'
  <2>1. cntr + more \in Int
    BY <1>2
  <2>2. (cntr + more) % PstatsWide \in 0 .. PstatsWide - 1
    <3>1. PstatsWide \in Nat \ {0}
      OBVIOUS
    <3> HIDE DEF more
    <3> QED
      BY <2>1, <3>1, Division
  <2>4. cntr' \in 0 .. PstatsWide - 1
    BY <1>1, <2>2
  <2>3. mixed' \in BOOLEAN
    BY <1>1, <1>2, Zenon
  <2> QED
    BY <1>1, <1>3, <2>3, <2>4 DEF PstatsInv, PstatsTypes
<1>8. CASE ~ovf[irqsTail]
  <2>1. cntr' = cntr
    <3>1. cntr \in -PstatsWide .. 2 * PstatsWide - 1 /\ ~(cntr < 0) /\ cntr < PstatsWide
      BY <1>2
    <3>2. cntr % PstatsWide = cntr
      BY <3>1, SmallRemainder
    <3>3. cntr + more = cntr
      BY <1>2, <1>8
    <3> QED
      BY <1>1, <3>2, <3>3
  <2>2. mixed' = mixed
    BY <1>1, <1>2, <1>8, Zenon
  <2>3. Pstats!Counted' = Pstats!Counted
    BY <1>6, <1>8 DEF PstatsInv
  <2> QED
    BY <1>1, <1>7, <2>1, <2>2, <2>3 DEF PstatsInv, PstatsUpdate, Exact, Pstats!Exact
<1>9. CASE ovf[irqsTail]
  <2>1. Pstats!Counted \in Nat /\ Pstats!Counted' = Pstats!Counted + 1
    BY <1>6, <1>9 DEF PstatsInv
  <2>2. PstatsUpdate'
    <3>1. mixed' \/ proc'.pc # "store"
      BY <1>1, <1>2, <1>9, Zenon
    <3> QED
      BY <3>1 DEF PstatsUpdate
  <2>3. ASSUME ~mixed', zeros' = 0
        PROVE  cntr' \div PstatsLow = Pstats!Counted' - base'
    <3>1. ~mixed /\ zeros = 0
      BY <1>1, <1>2, <2>3, Zenon
    <3>2. cntr \div PstatsLow = Pstats!Counted - base
      BY <3>1 DEF PstatsInv, Exact, Pstats!Exact
    <3>3. (cntr + PstatsLow) \div PstatsLow = (cntr \div PstatsLow) + 1
      <4>1. cntr \in Int
        BY <1>2
      <4> QED
        BY <4>1, MoreQuotient
    <3>4. total \div PstatsLow < PstatsWide \div PstatsLow
      BY <1>2, QuotientBelow
    <3>5. Pstats!Counted + 1 <= total \div PstatsLow
      <4>1. Pstats!Counted' <= total \div PstatsLow
        <5>1. total' \div PstatsLow = total \div PstatsLow
          BY <1>1
        <5> QED
          BY <1>5, <5>1, PstatsCounted
      <4> QED
        BY <2>1, <4>1
    <3>6. (cntr + PstatsLow) \div PstatsLow < PstatsWide \div PstatsLow
      <4> DEFINE c == cntr \div PstatsLow
                 t == total \div PstatsLow
                 w == PstatsWide \div PstatsLow
                 n == Pstats!Counted
      <4>1. c \in Int /\ t \in Int /\ w \in Int /\ n \in Nat
        BY <1>5, <2>1
      <4>2. c = n - base /\ t < w /\ n + 1 <= t /\ base \in Nat
        BY <1>2, <3>2, <3>4, <3>5
      <4>3. (cntr + PstatsLow) \div PstatsLow = c + 1
        BY <3>3
      <4> HIDE DEF c, t, w, n
      <4>4. c + 1 < w
        BY <4>1, <4>2
      <4> QED
        BY <4>3, <4>4 DEF w
    <3>7. cntr + PstatsLow \in Int /\ cntr + PstatsLow < PstatsWide
      <4>1. cntr + PstatsLow \in Int
        BY <1>2
      <4> QED
        BY <3>6, <4>1, QuotientBelow
    <3>8. cntr' = cntr + PstatsLow
      <4> DEFINE m == cntr + PstatsLow
      <4>1. m \in -PstatsWide .. 2 * PstatsWide - 1 /\ ~(m < 0) /\ m < PstatsWide
        BY <1>2, <3>7
      <4>2. m % PstatsWide = m
        <5> HIDE DEF m
        <5> QED
          BY <4>1, SmallRemainder
      <4>3. cntr' = m % PstatsWide
        BY <1>1, <1>9
      <4> QED
        BY <4>2, <4>3
    <3>9. cntr' \div PstatsLow = (cntr \div PstatsLow) + 1
      BY <3>3, <3>8
    <3>10. base' = base
      BY <1>1
    <3> DEFINE c == cntr \div PstatsLow
    <3>11. c \in Int /\ c = Pstats!Counted - base /\ cntr' \div PstatsLow = c + 1
      BY <1>5, <3>2, <3>9
    <3> HIDE DEF c
    <3> QED
      BY <1>2, <2>1, <3>10, <3>11
  <2> QED
    BY <1>7, <2>1, <2>2, <2>3 DEF PstatsInv, Exact, Pstats!Exact
<1> QED
  BY <1>8, <1>9

\* What is stored later has the low bits of the reading and the overflows of now.
LEMMA PstatsLoad == ASSUME PstatsInv, Pstats!Load PROVE PstatsInv'
<1> USE PstatsConstants
<1> DEFINE new == Pstats!Msb(cntr) + proc.low - zeros
<1>1. /\ proc' = [proc EXCEPT !.pc = "store", !.value = new % PstatsWide]
      /\ UNCHANGED <<total, wrapped, ovf, irqsHead, irqsTail, cntr, zeros, base, mixed>>
  BY DEF Pstats!Load
<1>2. /\ cntr \in 0 .. PstatsWide - 1 /\ zeros \in 0 .. PstatsLow - 1
      /\ proc \in [pc : {"idle", "load", "store", "zero"}, low : 0 .. PstatsLow - 1,
                   value : 0 .. PstatsWide - 1, zero : BOOLEAN]
  BY DEF PstatsInv, PstatsTypes
<1>3. proc.low \in 0 .. PstatsLow - 1 /\ cntr \in Int
  BY <1>2
<1>4. /\ Pstats!Msb(cntr) + proc.low \in Int
      /\ (Pstats!Msb(cntr) + proc.low) \div PstatsLow = cntr \div PstatsLow
      /\ Pstats!Msb(cntr) + proc.low = PstatsLow * (cntr \div PstatsLow) + proc.low
  BY <1>3, HighPart DEF Pstats!Msb
<1>5. new \in Int /\ (zeros = 0 => new = Pstats!Msb(cntr) + proc.low)
  <2> DEFINE m == Pstats!Msb(cntr)
  <2>1. m \in Int
    <3>1. cntr % PstatsLow \in Int
      BY <1>3, Division
    <3> QED
      BY <1>3, <3>1 DEF Pstats!Msb
  <2>2. new = m + (proc.low - zeros)
    BY Zenon
  <2> HIDE DEF m, new
  <2>3. new \in Int /\ (zeros = 0 => new = m + proc.low)
    BY <1>2, <1>3, <2>1, <2>2
  <2> QED
    BY <2>3, Zenon DEF m
<1>6. new % PstatsWide \in 0 .. PstatsWide - 1
  <2>1. PstatsWide \in Nat \ {0}
    OBVIOUS
  <2> HIDE DEF new
  <2> QED
    BY <1>5, <2>1, Division
<1> HIDE DEF new
<1>7. proc'.pc = "store" /\ proc'.value = new % PstatsWide
  BY <1>1, <1>2
<1>8. PstatsTypes'
  <2> DEFINE p == [proc EXCEPT !.pc = "store"]
  <2>1. p \in [pc : {"idle", "load", "store", "zero"}, low : 0 .. PstatsLow - 1,
               value : 0 .. PstatsWide - 1, zero : BOOLEAN]
    BY <1>2
  <2>2. proc' = [p EXCEPT !.value = new % PstatsWide]
    BY <1>1
  <2> HIDE DEF p
  <2>3. proc' \in [pc : {"idle", "load", "store", "zero"}, low : 0 .. PstatsLow - 1,
                   value : 0 .. PstatsWide - 1, zero : BOOLEAN]
    BY <1>6, <2>1, <2>2
  <2> QED
    BY <1>1, <2>3 DEF PstatsInv, PstatsTypes
<1>9. ASSUME zeros = 0 PROVE proc'.value \div PstatsLow = cntr \div PstatsLow
  <2>1. new = Pstats!Msb(cntr) + proc.low
    BY <1>5, <1>9
  <2>2. cntr \div PstatsLow < PstatsWide \div PstatsLow
    <3>1. cntr < PstatsWide /\ PstatsWide \in Int
      BY <1>2
    <3> QED
      BY <1>3, <3>1, QuotientBelow
  <2>3. new \div PstatsLow = cntr \div PstatsLow
    BY <1>4, <2>1
  <2>4. new < PstatsWide
    BY <1>5, <2>2, <2>3, QuotientBelow
  <2>5. 0 <= new
    <3>1. cntr \div PstatsLow \in Nat
      <4> DEFINE q == cntr \div PstatsLow
                 r == cntr % PstatsLow
      <4>1. q \in Int /\ r \in 0 .. PstatsLow - 1 /\ cntr = PstatsLow * q + r
        BY <1>3, Division
      <4> HIDE DEF q, r
      <4>2. CASE q <= -1
        <5>1. PstatsLow * q <= -PstatsLow
          BY <4>1, <4>2, Z3
        <5> QED
          BY <1>2, <4>1, <5>1
      <4>3. q \in Nat
        BY <4>1, <4>2
      <4> QED
        BY <4>3 DEF q
    <3>2. PstatsLow * (cntr \div PstatsLow) \in Nat
      <4> DEFINE q == cntr \div PstatsLow
      <4>1. q \in Nat
        BY <3>1
      <4> HIDE DEF q
      <4>2. PstatsLow * q \in Nat
        BY <4>1, Z3
      <4> QED
        BY <4>2 DEF q
    <3> QED
      BY <1>3, <1>4, <2>1, <3>2
  <2>6. new % PstatsWide = new
    <3>1. new \in -PstatsWide .. 2 * PstatsWide - 1 /\ ~(new < 0) /\ PstatsWide \in Nat \ {0}
      BY <1>5, <2>4, <2>5
    <3> QED
      BY <2>4, <3>1, SmallRemainder
  <2> QED
    BY <1>7, <2>3, <2>6
<1>10. PstatsUpdate'
  BY <1>1, <1>9 DEF PstatsUpdate
<1>11. Pstats!Counted' = Pstats!Counted
  BY <1>1, PstatsCounted, Zenon
<1> QED
  BY <1>1, <1>8, <1>10, <1>11 DEF PstatsInv, Exact, Pstats!Exact

\* A step of the process alone.
LEMMA PstatsNothingCounted ==
    ASSUME UNCHANGED <<total, wrapped, ovf, irqsHead, irqsTail>>
    PROVE  Pstats!Counted' = Pstats!Counted
BY PstatsCounted, Zenon

LEMMA PstatsNext == PstatsInv /\ [Next]_vars => PstatsInv'
<1> SUFFICES ASSUME PstatsInv, Pstats!Next \/ UNCHANGED pstatsVars
             PROVE  PstatsInv'
  BY DEF Next, vars
<1> USE PstatsConstants
<1>1. /\ cntr \in 0 .. PstatsWide - 1 /\ zeros \in 0 .. PstatsLow - 1
      /\ proc \in [pc : {"idle", "load", "store", "zero"}, low : 0 .. PstatsLow - 1,
                   value : 0 .. PstatsWide - 1, zero : BOOLEAN]
  BY DEF PstatsInv, PstatsTypes
<1>2. ASSUME NEW zero \in BOOLEAN, Pstats!ReadWord(zero) PROVE PstatsInv'
  <2>1. /\ proc' = [Pstats!NoProc EXCEPT !.pc = "load", !.low = total % PstatsLow,
                                         !.zero = zero]
        /\ UNCHANGED <<total, wrapped, ovf, irqsHead, irqsTail, cntr, zeros, base, mixed>>
    BY <1>2 DEF Pstats!ReadWord
  <2>2. total % PstatsLow \in 0 .. PstatsLow - 1
    BY PstatsRanges, Division DEF PstatsInv
  <2>3. /\ proc' \in [pc : {"idle", "load", "store", "zero"}, low : 0 .. PstatsLow - 1,
                      value : 0 .. PstatsWide - 1, zero : BOOLEAN]
        /\ proc'.pc = "load"
    <3> DEFINE low == total % PstatsLow
    <3>1. low \in 0 .. PstatsLow - 1
      BY <2>2
    <3>2. proc' = [pc |-> "load", low |-> low, value |-> 0, zero |-> zero]
      BY <2>1, Zenon DEF Pstats!NoProc
    <3> HIDE DEF low
    <3>3. PstatsWide > 0
      OBVIOUS
    <3> QED
      BY <3>1, <3>2, <3>3
  <2>4. PstatsTypes' /\ PstatsUpdate'
    BY <2>1, <2>3 DEF PstatsInv, PstatsTypes, PstatsUpdate
  <2> QED
    BY <2>1, <2>4, PstatsNothingCounted DEF PstatsInv, Exact, Pstats!Exact
<1>3. CASE Pstats!Store
  <2>1. /\ proc.pc = "store" /\ cntr' = proc.value
        /\ proc' = [proc EXCEPT !.pc = IF proc.zero THEN "zero" ELSE "idle"]
        /\ UNCHANGED <<total, wrapped, ovf, irqsHead, irqsTail, zeros, base, mixed>>
    BY <1>3 DEF Pstats!Store
  <2>2. /\ proc' \in [pc : {"idle", "load", "store", "zero"}, low : 0 .. PstatsLow - 1,
                      value : 0 .. PstatsWide - 1, zero : BOOLEAN]
        /\ proc'.pc \in {"zero", "idle"} /\ cntr' \in 0 .. PstatsWide - 1
    BY <1>1, <2>1
  <2>3. PstatsTypes' /\ PstatsUpdate'
    BY <2>1, <2>2 DEF PstatsInv, PstatsTypes, PstatsUpdate
  <2>4. Exact'
    <3>1. ASSUME ~mixed, zeros = 0 PROVE cntr' \div PstatsLow = cntr \div PstatsLow
      BY <2>1, <3>1 DEF PstatsInv, PstatsUpdate
    <3> QED
      BY <2>1, <3>1, PstatsNothingCounted DEF PstatsInv, Exact, Pstats!Exact
  <2> QED
    BY <2>1, <2>3, <2>4, PstatsNothingCounted DEF PstatsInv
<1>4. CASE Pstats!Zero
  <2> DEFINE low == (cntr + zeros) % PstatsLow
  <2>1. /\ cntr' = low /\ zeros' = low /\ base' = Pstats!Counted
        /\ proc' = Pstats!NoProc
        /\ UNCHANGED <<total, wrapped, ovf, irqsHead, irqsTail, mixed>>
    BY <1>4 DEF Pstats!Zero
  <2>2. low \in 0 .. PstatsLow - 1
    <3>1. cntr + zeros \in Int
      BY <1>1
    <3> QED
      BY <3>1, Division
  <2> HIDE DEF low
  <2>3. low \in 0 .. PstatsWide - 1
    <3>1. low \div PstatsLow = 0
      <4>1. low \in Int /\ low = PstatsLow * 0 + low
        BY <2>2
      <4> QED
        BY <2>2, <4>1, DivisionUnique
    <3>2. 0 \div PstatsLow = 0
      <4>1. 0 = PstatsLow * 0 + 0 /\ 0 \in 0 .. PstatsLow - 1
        OBVIOUS
      <4> QED
        BY <4>1, DivisionUnique
    <3>3. low < PstatsWide <=> low \div PstatsLow < PstatsWide \div PstatsLow
      BY <2>2, QuotientBelow
    <3>4. 0 \div PstatsLow < PstatsWide \div PstatsLow
      <4>1. 0 < PstatsWide
        OBVIOUS
      <4> QED
        BY <4>1, QuotientBelow
    <3>5. low < PstatsWide
      BY <3>1, <3>2, <3>3, <3>4
    <3> QED
      BY <2>2, <3>5
  <2>4. /\ proc' \in [pc : {"idle", "load", "store", "zero"}, low : 0 .. PstatsLow - 1,
                      value : 0 .. PstatsWide - 1, zero : BOOLEAN]
        /\ proc'.pc = "idle"
    BY <2>1 DEF Pstats!NoProc
  <2>5. Pstats!Counted \in Nat /\ Pstats!Counted' = Pstats!Counted
    BY <2>1, PstatsNothingCounted DEF PstatsInv
  <2>6. PstatsTypes' /\ PstatsUpdate'
    BY <2>1, <2>2, <2>3, <2>4, <2>5 DEF PstatsInv, PstatsTypes, PstatsUpdate
  <2>7. Exact'
    <3>1. ASSUME zeros' = 0 PROVE cntr' \div PstatsLow = 0
      <4>1. cntr' = 0 /\ 0 = PstatsLow * 0 + 0 /\ 0 \in 0 .. PstatsLow - 1
        BY <2>1, <3>1
      <4> QED
        BY <4>1, DivisionUnique
    <3>2. Pstats!Counted' - base' = 0
      BY <2>1, <2>5
    <3> QED
      BY <3>1, <3>2 DEF Exact, Pstats!Exact
  <2> QED
    BY <2>5, <2>6, <2>7 DEF PstatsInv
<1>5. CASE UNCHANGED pstatsVars
  <2>1. UNCHANGED <<total, wrapped, ovf, irqsHead, irqsTail, cntr, zeros, proc, base, mixed>>
    BY <1>5 DEF pstatsVars
  <2> QED
    BY <2>1, PstatsNothingCounted
    DEF PstatsInv, PstatsTypes, PstatsUpdate, Exact, Pstats!Exact, Pstats!Slots
<1> QED
  BY <1>2, <1>3, <1>4, <1>5, PstatsCount, PstatsHandler, PstatsTasklet, PstatsLoad
  DEF Pstats!Next

\* Every overflow is counted once, for counters and rings of every size, in
\* whatever order pstats_irq_handler(), pstats_tlet_fn() and the processes that
\* read and clear run, with the two exceptions that Exact names.
THEOREM OverflowsCountOnce == Spec => []Exact
<1>1. PstatsInv => Exact
  BY DEF PstatsInv
<1> QED
  BY <1>1, PstatsInit, PstatsNext, PTL DEF Spec

-----------------------------------------------------------------------------
(* Remote calls                                                            *)

RpcConn ==
    [client : {"closed", "idle", "waiting"}, server : {"none", "backlog", "open", "closed"},
     fd : Rpc!Fds \cup {0}, calls : Nat, late : Nat, got : Nat,
     reqs : Seq(Nat), reps : Seq(Nat)]

RpcServer ==
    [pc : {"idle", "clients"}, set : SUBSET Rpc!Fds, listen : BOOLEAN, pos : Nat]

\* Packets are on their way in the order of their calls, and younger than the last
\* answer.  A call that is over was answered, by an answer that no other call
\* took, or has timed out, or has found the connection closed: that was the last.
RpcCounts(k) ==
    /\ k.got <= k.calls
    /\ \A j \in 1 .. Len(k.reps) : k.got < k.reps[j] /\ k.reps[j] <= k.calls
    /\ \A j \in 1 .. Len(k.reqs) :
        /\ k.got < k.reqs[j] /\ k.reqs[j] <= k.calls
        /\ \A i \in 1 .. Len(k.reps) : k.reps[i] < k.reqs[j]
    /\ k.client = "waiting" => k.calls <= k.got + k.late + 1
    /\ (k.client = "idle" /\ k.server # "closed") => k.calls <= k.got + k.late

RpcTypes ==
    /\ conn \in [RpcConns -> RpcConn]
    /\ backlog \in Seq(RpcConns)
    /\ slots \in [Rpc!Pos -> Rpc!Fds \cup {0}]
    /\ srv \in RpcServer

\* Who waits for accept() has no descriptor.
RpcBacklog ==
    /\ \A i \in 1 .. Len(backlog) : conn[backlog[i]].server = "backlog"
    /\ \A i, j \in 1 .. Len(backlog) : backlog[i] = backlog[j] => i = j

\* Descriptors, places and the set that select() looks at are those of the
\* connections that are open.
RpcPlaces ==
    /\ \A c \in RpcConns : conn[c].fd # 0 <=> conn[c].server = "open"
    /\ \A c, d \in RpcConns : (conn[c].fd # 0 /\ conn[c].fd = conn[d].fd) => c = d
    /\ \A i, j \in Rpc!Pos : (slots[i] # 0 /\ slots[i] = slots[j]) => i = j
    /\ \A i \in Rpc!Pos : slots[i] # 0 => \E c \in RpcConns : conn[c].fd = slots[i]
    /\ \A c \in RpcConns : conn[c].fd # 0 => \E i \in Rpc!Pos : slots[i] = conn[c].fd
    /\ fdset = {conn[c].fd : c \in {d \in RpcConns : conn[d].fd # 0}}

\* What select() has reported is still so, for the places to come.
RpcReported ==
    srv.pc = "clients" =>
        /\ srv.listen => backlog # <<>>
        /\ \A i \in Rpc!Pos : (i >= srv.pos /\ slots[i] \in srv.set) =>
            \E c \in RpcConns : /\ conn[c].fd = slots[i]
                                /\ conn[c].reqs # <<>> \/ conn[c].client = "closed"

RpcInv ==
    /\ RpcTypes
    /\ \A c \in RpcConns : RpcCounts(conn[c])
    /\ RpcBacklog /\ RpcPlaces /\ RpcReported

LEMMA RpcConstants ==
    /\ IsFiniteSet(RpcConns) /\ RpcMaxClients \in Nat \ {0}
    /\ Rpc!Fds = 1 .. Cardinality(RpcConns) /\ Cardinality(RpcConns) \in Nat
    /\ Rpc!Pos = 1 .. RpcMaxClients /\ Rpc!NoFd = 0
<1>1. Rpc!IsFiniteSet(RpcConns) /\ RpcMaxClients \in Nat \ {0}
  BY PartsConstants DEF Rpc!ConstantsOK
<1>2. IsFiniteSet(RpcConns)
  BY <1>1, Zenon DEF IsFiniteSet, Rpc!IsFiniteSet
<1>3. Rpc!Cardinality(RpcConns) = Cardinality(RpcConns)
  BY Zenon DEF Cardinality, Rpc!Cardinality
<1>4. Cardinality(RpcConns) \in Nat
  BY <1>2, FS_CardinalityType
<1> QED
  BY <1>1, <1>2, <1>3, <1>4 DEF Rpc!Fds, Rpc!Pos, Rpc!NoFd

LEMMA RpcClosed ==
    /\ Rpc!Closed \in RpcConn /\ RpcCounts(Rpc!Closed)
    /\ Rpc!Closed.fd = 0 /\ Rpc!Closed.server = "none" /\ Rpc!Closed.client = "closed"
    /\ Rpc!Closed.reqs = <<>>
BY RpcConstants, EmptySeq DEF Rpc!Closed, RpcConn, RpcCounts

LEMMA RpcInit == Init => RpcInv
<1> SUFFICES ASSUME Rpc!Init PROVE RpcInv
  BY DEF Init
<1> USE RpcConstants
<1>1. conn = [c \in RpcConns |-> Rpc!Closed] /\ backlog = <<>>
      /\ slots = [i \in Rpc!Pos |-> 0] /\ fdset = {}
  BY DEF Rpc!Init
<1>2. srv = [pc |-> "idle", set |-> {}, listen |-> FALSE, pos |-> 1]
  BY DEF Rpc!Init, Rpc!IdleServer
<1>3. RpcTypes
  <2>1. srv \in RpcServer
    BY <1>2 DEF RpcServer
  <2> QED
    BY <1>1, <2>1, RpcClosed, EmptySeq DEF RpcTypes
<1>4. \A c \in RpcConns : RpcCounts(conn[c])
  BY <1>1, RpcClosed
<1>5. RpcBacklog /\ RpcReported
  BY <1>1, <1>2 DEF RpcBacklog, RpcReported
<1>6. RpcPlaces
  <2>1. \A c \in RpcConns : conn[c].fd = 0 /\ conn[c].server = "none"
    BY <1>1, RpcClosed
  <2>2. {conn[c].fd : c \in {d \in RpcConns : conn[d].fd # 0}} = {}
    BY <2>1
  <2> QED
    BY <1>1, <2>1, <2>2 DEF RpcPlaces
<1> QED
  BY <1>3, <1>4, <1>5, <1>6 DEF RpcInv

\* A step of a client changes its connection.  What the server knows of it stays
\* true, unless the server had closed it.
LEMMA RpcClient ==
    ASSUME RpcInv, NEW c \in RpcConns, NEW r \in RpcConn, RpcCounts(r),
           conn' = [conn EXCEPT ![c] = r], UNCHANGED <<backlog, slots, fdset, srv>>,
           r.fd = conn[c].fd,
           \/ r.server = conn[c].server
           \/ conn[c].server = "closed" /\ r.server = "none",
           (conn[c].server # "closed" /\ conn[c].reqs # <<>>) => r.reqs # <<>>,
           (conn[c].server # "closed" /\ conn[c].client = "closed") => r.client = "closed"
    PROVE  RpcInv'
<1>1. RpcTypes /\ RpcBacklog /\ RpcPlaces /\ RpcReported
  BY DEF RpcInv
<1>2. conn'[c] = r /\ \A d \in RpcConns : d # c => conn'[d] = conn[d]
  BY <1>1 DEF RpcTypes
<1>3. \A d \in RpcConns : conn'[d].fd = conn[d].fd
  BY <1>2
<1>4. \A d \in RpcConns : conn'[d].server = "open" <=> conn[d].server = "open"
  BY <1>2
<1>5. RpcTypes'
  BY <1>1 DEF RpcTypes, Rpc!Pos, Rpc!Fds, RpcConn
<1>6. \A d \in RpcConns : RpcCounts(conn'[d])
  BY <1>2 DEF RpcInv
<1>7. RpcBacklog'
  <2>1. \A i \in 1 .. Len(backlog) : backlog[i] \in RpcConns
    BY <1>1 DEF RpcTypes
  <2>2. \A d \in RpcConns : conn[d].server = "backlog" => conn'[d].server = "backlog"
    BY <1>2
  <2> QED
    BY <1>1, <2>1, <2>2 DEF RpcBacklog
<1>8. RpcPlaces'
  <2>1. {conn'[d].fd : d \in {e \in RpcConns : conn'[e].fd # 0}}
          = {conn[d].fd : d \in {e \in RpcConns : conn[e].fd # 0}}
    BY <1>3
  <2> QED
    BY <1>1, <1>3, <1>4, <2>1 DEF RpcPlaces, Rpc!Pos
<1>9. RpcReported'
  <2>1. ASSUME NEW d \in RpcConns, conn[d].fd # 0,
               conn[d].reqs # <<>> \/ conn[d].client = "closed"
        PROVE  conn'[d].reqs # <<>> \/ conn'[d].client = "closed"
    <3>1. conn[d].server # "closed"
      BY <1>1, <2>1 DEF RpcPlaces
    <3> QED
      BY <1>2, <2>1, <3>1
  <2>2. ASSUME NEW i \in Rpc!Pos, slots[i] \in srv.set PROVE slots[i] # 0
    BY <1>1, <2>2, RpcConstants DEF RpcTypes, RpcServer
  <2> QED
    BY <1>1, <1>3, <2>1, <2>2 DEF RpcReported, Rpc!Pos
<1> QED
  BY <1>5, <1>6, <1>7, <1>8, <1>9 DEF RpcInv

\* Sending.
LEMMA RpcCall == ASSUME RpcInv, NEW c \in RpcConns, Rpc!Call(c) PROVE RpcInv'
<1> DEFINE k == conn[c]
           n == k.calls + 1
           r == [k EXCEPT !.client = "waiting", !.calls = n, !.reqs = Append(k.reqs, n)]
<1>1. k \in RpcConn /\ RpcCounts(k)
  BY DEF RpcInv, RpcTypes
<1>2. /\ k.client = "idle" /\ k.server # "closed"
      /\ conn' = [conn EXCEPT ![c] = r] /\ UNCHANGED <<backlog, slots, fdset, srv>>
  BY DEF Rpc!Call
<1> HIDE DEF k
<1>3. n \in Nat /\ k.reqs \in Seq(Nat)
  BY <1>1 DEF RpcConn
<1> DEFINE q == Append(k.reqs, n)
<1>4. /\ q \in Seq(Nat) /\ q # <<>> /\ Len(q) = Len(k.reqs) + 1
      /\ \A j \in 1 .. Len(k.reqs) : q[j] = k.reqs[j]
      /\ q[Len(k.reqs) + 1] = n
  BY <1>3, AppendProperties
<1>5. Len(k.reqs) \in Nat /\ k.reps \in Seq(Nat) /\ Len(k.reps) \in Nat
  BY <1>1, <1>3, LenProperties DEF RpcConn
<1> HIDE DEF n
<1>6. /\ r.client = "waiting" /\ r.server = k.server /\ r.fd = k.fd /\ r.calls = n
      /\ r.late = k.late /\ r.got = k.got /\ r.reqs = q /\ r.reps = k.reps
  BY <1>1 DEF RpcConn
<1>7. r \in RpcConn
  BY <1>1, <1>3, <1>4 DEF RpcConn
<1> HIDE DEF q, r
<1>8. RpcCounts(r)
  <2>1. \A j \in 1 .. Len(q) : j \in 1 .. Len(k.reqs) \/ j = Len(k.reqs) + 1
    BY <1>4, <1>5
  <2>2. k.got \in Nat /\ k.calls \in Nat /\ k.late \in Nat /\ n = k.calls + 1
        /\ \A i \in 1 .. Len(k.reps) : k.reps[i] \in Nat
    BY <1>1, <1>5, ElementOfSeq DEF RpcConn, n
  <2>3. \A j \in 1 .. Len(k.reqs) : k.reqs[j] \in Nat
    BY <1>3, ElementOfSeq
  <2>4. r.got = k.got /\ r.calls = n /\ r.late = k.late /\ r.reqs = q /\ r.reps = k.reps
        /\ r.client = "waiting"
    BY <1>6
  <2>5. r.got <= r.calls /\ (r.client = "waiting" => r.calls <= r.got + r.late + 1)
        /\ r.client # "idle"
    BY <1>1, <1>2, <2>2, <2>4 DEF RpcCounts
  <2>6. \A j \in 1 .. Len(r.reps) : r.got < r.reps[j] /\ r.reps[j] <= r.calls
    BY <1>1, <2>2, <2>4 DEF RpcCounts
  <2>7. ASSUME NEW j \in 1 .. Len(r.reqs)
        PROVE  /\ r.got < r.reqs[j] /\ r.reqs[j] <= r.calls
               /\ \A i \in 1 .. Len(r.reps) : r.reps[i] < r.reqs[j]
    <3>1. CASE j \in 1 .. Len(k.reqs)
      BY <1>1, <1>4, <2>2, <2>3, <2>4, <3>1 DEF RpcCounts
    <3>2. CASE j = Len(k.reqs) + 1
      BY <1>1, <1>4, <2>2, <2>4, <3>2 DEF RpcCounts
    <3> QED
      BY <2>1, <2>4, <3>1, <3>2
  <2> QED
    BY <2>5, <2>6, <2>7 DEF RpcCounts
<1> QED
  BY <1>1, <1>2, <1>4, <1>6, <1>7, <1>8, RpcClient DEF k

\* An answer takes all that wait with it.
LEMMA RpcAnswer == ASSUME RpcInv, NEW c \in RpcConns, Rpc!Answer(c) PROVE RpcInv'
<1> DEFINE k == conn[c]
           r == [k EXCEPT !.client = "idle", !.got = Head(k.reps), !.reps = <<>>]
<1>1. k \in RpcConn /\ RpcCounts(k)
  BY DEF RpcInv, RpcTypes
<1>2. /\ k.client = "waiting" /\ k.reps # <<>>
      /\ conn' = [conn EXCEPT ![c] = r] /\ UNCHANGED <<backlog, slots, fdset, srv>>
  BY DEF Rpc!Answer
<1> HIDE DEF k
<1>3. k.reps \in Seq(Nat) /\ Len(k.reps) \in Nat \ {0} /\ Head(k.reps) = k.reps[1]
      /\ k.reps[1] \in Nat
  <2>1. k.reps \in Seq(Nat)
    BY <1>1 DEF RpcConn
  <2>2. Len(k.reps) \in Nat \ {0}
    BY <1>2, <2>1, EmptySeq
  <2> QED
    BY <2>1, <2>2, ElementOfSeq
<1> DEFINE h == Head(k.reps)
<1>4. /\ h \in Nat /\ k.got < h /\ h <= k.calls
      /\ \A j \in 1 .. Len(k.reqs) : h < k.reqs[j] /\ k.reqs[j] <= k.calls
  BY <1>1, <1>3 DEF RpcCounts
<1>5. /\ r.client = "idle" /\ r.server = k.server /\ r.fd = k.fd /\ r.calls = k.calls
      /\ r.late = k.late /\ r.got = h /\ r.reqs = k.reqs /\ r.reps = <<>>
  BY <1>1 DEF RpcConn
<1>6. r \in RpcConn
  BY <1>1, <1>4, EmptySeq DEF RpcConn
<1> HIDE DEF h, r
<1>7. RpcCounts(r)
  <2>1. k.got \in Nat /\ k.calls \in Nat /\ k.late \in Nat
    BY <1>1 DEF RpcConn
  <2>2. k.calls <= h + k.late
    BY <1>1, <1>2, <1>4, <2>1 DEF RpcCounts
  <2>3. Len(r.reps) = 0
    BY <1>5
  <2> QED
    BY <1>4, <1>5, <2>1, <2>2, <2>3 DEF RpcCounts
<1> QED
  BY <1>1, <1>2, <1>5, <1>6, <1>7, RpcClient DEF k

LEMMA RpcTimeOut ==
    ASSUME RpcInv, NEW c \in RpcConns, Rpc!TimeOut(c) \/ Rpc!AnswerEof(c)
    PROVE  RpcInv'
<1> DEFINE k == conn[c]
           l == k.late + 1
           r1 == [k EXCEPT !.client = "idle", !.late = l]
           r2 == [k EXCEPT !.client = "idle"]
<1>1. k \in RpcConn /\ RpcCounts(k)
  BY DEF RpcInv, RpcTypes
<1>2. /\ k.client = "waiting" /\ UNCHANGED <<backlog, slots, fdset, srv>>
      /\ \/ k.server # "closed" /\ conn' = [conn EXCEPT ![c] = r1]
         \/ k.server = "closed" /\ conn' = [conn EXCEPT ![c] = r2]
  BY DEF Rpc!TimeOut, Rpc!AnswerEof
<1> HIDE DEF k
<1>3. k.got \in Nat /\ k.calls \in Nat /\ k.late \in Nat /\ l \in Nat /\ l = k.late + 1
  BY <1>1 DEF RpcConn
<1> HIDE DEF l
<1>4. /\ r1.client = "idle" /\ r1.server = k.server /\ r1.fd = k.fd /\ r1.calls = k.calls
      /\ r1.late = l /\ r1.got = k.got /\ r1.reqs = k.reqs /\ r1.reps = k.reps
      /\ r2.client = "idle" /\ r2.server = k.server /\ r2.fd = k.fd /\ r2.calls = k.calls
      /\ r2.late = k.late /\ r2.got = k.got /\ r2.reqs = k.reqs /\ r2.reps = k.reps
  BY <1>1 DEF RpcConn
<1>5. r1 \in RpcConn
  BY <1>1, <1>3 DEF RpcConn
<1>6. r2 \in RpcConn
  BY <1>1 DEF RpcConn
<1> HIDE DEF r1, r2
<1>7. CASE k.server # "closed"
  <2>1. RpcCounts(r1)
    BY <1>1, <1>2, <1>3, <1>4 DEF RpcCounts
  <2> QED
    BY <1>2, <1>4, <1>5, <1>7, <2>1, RpcClient DEF k
<1>8. CASE k.server = "closed"
  <2>1. RpcCounts(r2)
    BY <1>1, <1>2, <1>3, <1>4, <1>8 DEF RpcCounts
  <2> QED
    BY <1>2, <1>4, <1>6, <1>8, <2>1, RpcClient DEF k
<1> QED
  BY <1>7, <1>8

\* The client ends.
LEMMA RpcGone ==
    ASSUME RpcInv, NEW c \in RpcConns, Rpc!CallDies(c) \/ Rpc!Disconnect(c)
    PROVE  RpcInv'
<1> DEFINE k == conn[c]
           r == [k EXCEPT !.client = "closed", !.reps = <<>>]
<1>1. k \in RpcConn /\ RpcCounts(k)
  BY DEF RpcInv, RpcTypes
<1>2. UNCHANGED <<backlog, slots, fdset, srv>>
  BY DEF Rpc!CallDies, Rpc!Disconnect
<1>3. CASE k.server = "closed"
  <2>1. conn' = [conn EXCEPT ![c] = Rpc!Closed]
    BY <1>3 DEF Rpc!CallDies, Rpc!Disconnect
  <2>2. k.fd = 0
    BY <1>1, <1>3 DEF RpcInv, RpcPlaces
  <2> QED
    BY <1>2, <1>3, <2>1, <2>2, RpcClosed, RpcClient
<1>4. CASE k.server # "closed"
  <2>1. conn' = [conn EXCEPT ![c] = r]
    BY <1>4 DEF Rpc!CallDies, Rpc!Disconnect
  <2> HIDE DEF k
  <2>2. /\ r.client = "closed" /\ r.server = k.server /\ r.fd = k.fd /\ r.calls = k.calls
        /\ r.late = k.late /\ r.got = k.got /\ r.reqs = k.reqs /\ r.reps = <<>>
    BY <1>1 DEF RpcConn
  <2>3. r \in RpcConn /\ Len(r.reps) = 0
    BY <1>1, <2>2, EmptySeq DEF RpcConn
  <2> HIDE DEF r
  <2>4. RpcCounts(r)
    BY <1>1, <2>2, <2>3 DEF RpcCounts
  <2> QED
    BY <1>2, <2>1, <2>2, <2>3, <2>4, RpcClient DEF k
<1> QED
  BY <1>3, <1>4

\* A connection that is made waits for accept().
LEMMA RpcConnect == ASSUME RpcInv, NEW c \in RpcConns, Rpc!Connect(c) PROVE RpcInv'
<1> DEFINE r == [Rpc!Closed EXCEPT !.client = "idle", !.server = "backlog"]
<1>1. RpcTypes /\ RpcBacklog /\ RpcPlaces /\ RpcReported
  BY DEF RpcInv
<1>2. /\ conn[c] = Rpc!Closed /\ conn' = [conn EXCEPT ![c] = r]
      /\ backlog' = Append(backlog, c) /\ UNCHANGED <<slots, fdset, srv>>
  BY DEF Rpc!Connect
<1>3. /\ r \in RpcConn /\ RpcCounts(r) /\ r.fd = 0 /\ r.server = "backlog"
      /\ r.client = "idle" /\ r.reqs = <<>>
  <2> DEFINE k == Rpc!Closed
  <2>1. k \in RpcConn
    BY RpcClosed
  <2>2. /\ k.fd = 0 /\ k.calls = 0 /\ k.late = 0 /\ k.got = 0
        /\ k.reqs = <<>> /\ k.reps = <<>>
    BY DEF Rpc!Closed, Rpc!NoFd
  <2> HIDE DEF k
  <2>3. /\ r.client = "idle" /\ r.server = "backlog" /\ r.fd = k.fd /\ r.calls = k.calls
        /\ r.late = k.late /\ r.got = k.got /\ r.reqs = k.reqs /\ r.reps = k.reps
    BY <2>1 DEF RpcConn, k
  <2>4. r \in RpcConn
    BY <2>1 DEF RpcConn, k
  <2> HIDE DEF r
  <2>5. RpcCounts(r)
    BY <2>2, <2>3 DEF RpcCounts
  <2> QED
    BY <2>2, <2>3, <2>4, <2>5
<1> HIDE DEF r
<1>4. conn'[c] = r /\ \A d \in RpcConns : d # c => conn'[d] = conn[d]
  BY <1>1, <1>2 DEF RpcTypes
<1>5. /\ backlog' \in Seq(RpcConns) /\ backlog' # <<>> /\ Len(backlog') = Len(backlog) + 1
      /\ \A i \in 1 .. Len(backlog) : backlog'[i] = backlog[i]
      /\ backlog'[Len(backlog) + 1] = c
      /\ Len(backlog) \in Nat /\ \A i \in 1 .. Len(backlog) : backlog[i] \in RpcConns
  BY <1>1, <1>2, AppendProperties, LenProperties, ElementOfSeq DEF RpcTypes
<1>6. conn[c].fd = 0 /\ conn[c].server = "none" /\ conn[c].reqs = <<>>
  BY <1>2, RpcClosed
<1>7. RpcTypes'
  BY <1>1, <1>2, <1>3, <1>5 DEF RpcTypes, Rpc!Pos, Rpc!Fds, RpcConn
<1>8. \A d \in RpcConns : RpcCounts(conn'[d])
  BY <1>3, <1>4 DEF RpcInv
<1>9. RpcBacklog'
  <2>1. \A i \in 1 .. Len(backlog) : backlog[i] # c /\ conn'[backlog[i]].server = "backlog"
    BY <1>1, <1>4, <1>5, <1>6 DEF RpcBacklog
  <2>2. \A i \in 1 .. Len(backlog') : i \in 1 .. Len(backlog) \/ i = Len(backlog) + 1
    BY <1>5
  <2> QED
    BY <1>1, <1>3, <1>4, <1>5, <2>1, <2>2 DEF RpcBacklog
<1>10. \A d \in RpcConns : conn'[d].fd = conn[d].fd
                           /\ (conn'[d].server = "open" <=> conn[d].server = "open")
  BY <1>3, <1>4, <1>6
<1>11. RpcPlaces'
  <2>1. {conn'[d].fd : d \in {e \in RpcConns : conn'[e].fd # 0}}
          = {conn[d].fd : d \in {e \in RpcConns : conn[e].fd # 0}}
    BY <1>10
  <2> QED
    BY <1>1, <1>2, <1>10, <2>1 DEF RpcPlaces, Rpc!Pos
<1>12. RpcReported'
  <2>1. ASSUME NEW i \in Rpc!Pos, slots[i] \in srv.set PROVE slots[i] # 0
    BY <1>1, <2>1, RpcConstants DEF RpcTypes, RpcServer
  <2>2. \A d \in RpcConns : conn[d].fd # 0 => conn'[d] = conn[d]
    BY <1>4, <1>6
  <2> QED
    BY <1>1, <1>2, <1>5, <2>1, <2>2 DEF RpcReported, Rpc!Pos
<1> QED
  BY <1>7, <1>8, <1>9, <1>11, <1>12 DEF RpcInv

\* A descriptor has one connection.
LEMMA RpcOwner ==
    ASSUME RpcPlaces, NEW c \in RpcConns, conn[c].fd # 0
    PROVE  Rpc!Owner(conn[c].fd) = c
<1> DEFINE o == Rpc!Owner(conn[c].fd)
<1>1. o \in RpcConns /\ conn[o].fd = conn[c].fd
  BY Zenon DEF Rpc!Owner
<1> HIDE DEF o
<1>2. o = c
  BY <1>1 DEF RpcPlaces
<1> QED
  BY <1>2 DEF o

\* What close() leaves of a connection.
LEMMA RpcShut ==
    ASSUME NEW k \in RpcConn, RpcCounts(k)
    PROVE  LET m == Rpc!Shut(k)
           IN  /\ m \in RpcConn /\ RpcCounts(m)
               /\ m.fd = 0 /\ m.server \in {"none", "closed"}
<1>1. CASE k.client = "closed"
  BY <1>1, RpcClosed DEF Rpc!Shut
<1>2. CASE k.client # "closed"
  <2> DEFINE q == <<>>
             m == [k EXCEPT !.server = "closed", !.fd = 0, !.reqs = q]
  <2>1. Rpc!Shut(k) = m
    BY <1>2, RpcConstants DEF Rpc!Shut
  <2>2. q \in Seq(Nat) /\ Len(q) = 0
    BY EmptySeq
  <2> HIDE DEF q
  <2>3. /\ m.client = k.client /\ m.server = "closed" /\ m.fd = 0 /\ m.calls = k.calls
        /\ m.late = k.late /\ m.got = k.got /\ m.reqs = q /\ m.reps = k.reps
    BY DEF RpcConn
  <2>4. m \in RpcConn
    BY <2>2 DEF RpcConn
  <2> HIDE DEF m
  <2>5. RpcCounts(m)
    BY <2>2, <2>3 DEF RpcCounts
  <2> QED
    BY <2>1, <2>3, <2>4, <2>5
<1> QED
  BY <1>1, <1>2

\* select() reports what is so.
LEMMA RpcSelect == ASSUME RpcInv, Rpc!Select PROVE RpcInv'
<1> DEFINE ready == {fd \in fdset : Rpc!Readable(fd)}
           listen == backlog # <<>>
<1>1. RpcTypes /\ RpcBacklog /\ RpcPlaces
  BY DEF RpcInv
<1>2. /\ srv' = [pc |-> "clients", set |-> ready, listen |-> listen, pos |-> 1]
      /\ UNCHANGED <<conn, backlog, slots, fdset>>
  BY DEF Rpc!Select
<1>3. ready \subseteq Rpc!Fds
  BY <1>1 DEF RpcTypes, RpcPlaces, RpcConn
<1>4. ASSUME NEW i \in Rpc!Pos, slots[i] \in ready
      PROVE  \E c \in RpcConns : /\ conn[c].fd = slots[i]
                                 /\ conn[c].reqs # <<>> \/ conn[c].client = "closed"
  <2>1. PICK c \in RpcConns : conn[c].fd # 0 /\ conn[c].fd = slots[i]
    BY <1>1, <1>4 DEF RpcPlaces
  <2>2. Rpc!Owner(slots[i]) = c
    BY <1>1, <2>1, RpcOwner
  <2>3. Rpc!Readable(slots[i])
    BY <1>4
  <2> QED
    BY <2>1, <2>2, <2>3 DEF Rpc!Readable
<1>5. srv'.pc = "clients" /\ srv'.set = ready /\ srv'.listen = listen /\ srv'.pos = 1
  BY <1>2
<1>6. listen \in BOOLEAN /\ (listen => backlog # <<>>)
  BY Zenon
<1> HIDE DEF ready, listen
<1>7. RpcTypes'
  <2>1. srv' \in RpcServer'
    BY <1>2, <1>3, <1>6 DEF RpcServer, Rpc!Fds
  <2> QED
    BY <1>1, <1>2, <2>1 DEF RpcTypes, Rpc!Fds, Rpc!Pos
<1>8. RpcBacklog' /\ RpcPlaces'
  BY <1>1, <1>2 DEF RpcBacklog, RpcPlaces, Rpc!Pos
<1>9. RpcReported'
  <2>1. srv'.listen => backlog' # <<>>
    BY <1>2, <1>5, <1>6
  <2>2. ASSUME NEW i \in Rpc!Pos, slots'[i] \in srv'.set
        PROVE  \E c \in RpcConns : /\ conn'[c].fd = slots'[i]
                                   /\ conn'[c].reqs # <<>> \/ conn'[c].client = "closed"
    BY <1>2, <1>4, <1>5, <2>2
  <2> QED
    BY <2>1, <2>2 DEF RpcReported, Rpc!Pos
<1>10. \A c \in RpcConns : RpcCounts(conn'[c])
  BY <1>2 DEF RpcInv
<1> QED
  BY <1>7, <1>8, <1>9, <1>10 DEF RpcInv

\* A client that is handled: its connection is closed, or it is served.
LEMMA RpcHandle == ASSUME RpcInv, Rpc!HandleClient PROVE RpcInv'
<1> DEFINE i == CHOOSE j \in Rpc!Ready : \A m \in Rpc!Ready : j <= m
           c == Rpc!Owner(slots[i])
           next == [srv EXCEPT !.pos = i + 1]
           Known(d, j) == /\ conn[d].fd = slots[j]
                          /\ conn[d].reqs # <<>> \/ conn[d].client = "closed"
<1>1. RpcTypes /\ RpcBacklog /\ RpcPlaces /\ RpcReported
      /\ \A d \in RpcConns : conn[d] \in RpcConn /\ RpcCounts(conn[d])
  BY DEF RpcInv, RpcTypes
<1>2. /\ srv.pc = "clients" /\ Rpc!Ready # {} /\ UNCHANGED backlog
      /\ \/ conn[c].client = "closed" /\ Rpc!CloseClient(i, c) /\ srv' = next
         \/ /\ conn[c].client # "closed" /\ conn[c].reqs # <<>>
            /\ Rpc!Serve(c) /\ srv' = next /\ UNCHANGED <<slots, fdset>>
         \/ conn[c].client # "closed" /\ conn[c].reqs = <<>>
  BY DEF Rpc!HandleClient
<1>3. /\ i \in Rpc!Pos /\ i \in Nat /\ i >= srv.pos /\ slots[i] \in srv.set
      /\ \A j \in Rpc!Pos : (j >= srv.pos /\ slots[j] \in srv.set) => i <= j
  <2>1. Rpc!Ready \subseteq Nat
    BY RpcConstants DEF Rpc!Ready
  <2>2. \E j \in Rpc!Ready : \A m \in Rpc!Ready : j <= m
    BY <1>2, <2>1, LeastNumber
  <2>3. i \in Rpc!Ready /\ \A m \in Rpc!Ready : i <= m
    BY <2>2, Zenon
  <2> HIDE DEF i
  <2> QED
    BY <2>1, <2>3 DEF Rpc!Ready
<1> HIDE DEF i
<1>4. slots[i] # 0 /\ slots[i] \in Rpc!Fds
  BY <1>1, <1>3, RpcConstants DEF RpcTypes, RpcServer
<1>5. PICK o \in RpcConns : Known(o, i)
  BY <1>1, <1>2, <1>3 DEF RpcReported
<1>6. c = o
  BY <1>1, <1>4, <1>5, RpcOwner
<1> HIDE DEF c
<1>7. /\ c \in RpcConns /\ conn[c].fd = slots[i] /\ conn[c].server = "open"
      /\ conn[c].reqs # <<>> \/ conn[c].client = "closed"
  BY <1>1, <1>4, <1>5, <1>6 DEF RpcPlaces
<1>8. \A j \in Rpc!Pos : (j # i /\ slots[j] # 0) => slots[j] # slots[i]
  BY <1>1, <1>3 DEF RpcPlaces
<1>9. srv' = next => /\ srv'.pc = "clients" /\ srv'.set = srv.set
                     /\ srv'.listen = srv.listen /\ srv'.pos = i + 1
  BY <1>1, <1>2, RpcConstants DEF RpcTypes, RpcServer
<1>10. ASSUME srv' = next, UNCHANGED backlog, slots' \in [Rpc!Pos -> Rpc!Fds \cup {0}],
              \A j \in Rpc!Pos : j # i => slots'[j] = slots[j],
              \A d \in RpcConns : d # c => conn'[d] = conn[d]
       PROVE  RpcReported' /\ srv' \in RpcServer
  <2>1. srv' \in RpcServer
    BY <1>1, <1>3, <1>10 DEF RpcTypes, RpcServer
  <2>2. srv'.listen => backlog' # <<>>
    BY <1>1, <1>2, <1>9, <1>10 DEF RpcReported
  <2>3. ASSUME NEW j \in Rpc!Pos, j >= srv'.pos, slots'[j] \in srv'.set
        PROVE  \E d \in RpcConns : /\ conn'[d].fd = slots'[j]
                                   /\ conn'[d].reqs # <<>> \/ conn'[d].client = "closed"
    <3>1. j # i /\ j >= srv.pos /\ slots'[j] = slots[j] /\ slots[j] \in srv.set
      BY <1>1, <1>3, <1>9, <1>10, <2>3, RpcConstants DEF RpcTypes, RpcServer
    <3>2. slots[j] # 0
      BY <1>1, <3>1, RpcConstants DEF RpcTypes, RpcServer
    <3>3. PICK d \in RpcConns : Known(d, j)
      BY <1>1, <1>2, <3>1 DEF RpcReported
    <3>4. d # c
      BY <1>7, <1>8, <3>1, <3>2, <3>3
    <3> QED
      BY <1>10, <3>1, <3>3, <3>4
  <2> QED
    BY <2>1, <2>2, <2>3 DEF RpcReported, Rpc!Pos
<1>11. CASE conn[c].client = "closed"
  <2> DEFINE m == Rpc!Closed
  <2>1. /\ conn' = [conn EXCEPT ![c] = m] /\ fdset' = fdset \ {slots[i]}
        /\ slots' = [slots EXCEPT ![i] = 0] /\ srv' = next /\ UNCHANGED backlog
    BY <1>2, <1>11, RpcConstants DEF Rpc!CloseClient, Rpc!Shut
  <2>2. m \in RpcConn /\ RpcCounts(m) /\ m.fd = 0 /\ m.server = "none"
    BY RpcClosed
  <2> HIDE DEF m
  <2>3. conn'[c] = m /\ \A d \in RpcConns : d # c => conn'[d] = conn[d]
    BY <1>1, <1>7, <2>1 DEF RpcTypes
  <2>4. /\ slots' \in [Rpc!Pos -> Rpc!Fds \cup {0}] /\ slots'[i] = 0
        /\ \A j \in Rpc!Pos : j # i => slots'[j] = slots[j]
    BY <1>1, <1>3, <2>1 DEF RpcTypes
  <2>5. conn' \in [RpcConns -> RpcConn]
    BY <1>1, <1>7, <2>1, <2>2 DEF RpcTypes
  <2>6. RpcReported' /\ srv' \in RpcServer
    BY <1>10, <2>1, <2>3, <2>4
  <2>7. RpcTypes'
    BY <1>1, <2>1, <2>4, <2>5, <2>6 DEF RpcTypes, RpcServer, RpcConn, Rpc!Fds, Rpc!Pos
  <2>8. \A d \in RpcConns : RpcCounts(conn'[d])
    BY <1>1, <2>2, <2>3
  <2>9. RpcBacklog'
    <3>1. \A j \in 1 .. Len(backlog) : backlog[j] \in RpcConns /\ backlog[j] # c
      BY <1>1, <1>7 DEF RpcTypes, RpcBacklog
    <3> QED
      BY <1>1, <2>1, <2>3, <3>1 DEF RpcBacklog
  <2>10. \A d \in RpcConns : d # c => conn'[d].fd = conn[d].fd /\ conn[d].fd # slots[i]
    BY <1>1, <1>4, <1>7, <2>3 DEF RpcPlaces
  <2>11. fdset' = {conn'[d].fd : d \in {e \in RpcConns : conn'[e].fd # 0}}
    BY <1>1, <1>7, <2>1, <2>2, <2>3, <2>10 DEF RpcPlaces
  <2>12. /\ \A d \in RpcConns : conn'[d].fd # 0 <=> conn'[d].server = "open"
         /\ \A d, e \in RpcConns : (conn'[d].fd # 0 /\ conn'[d].fd = conn'[e].fd) => d = e
    BY <1>1, <2>2, <2>3 DEF RpcPlaces
  <2>13. \A j, l \in Rpc!Pos : (slots'[j] # 0 /\ slots'[j] = slots'[l]) => j = l
    BY <1>1, <2>4 DEF RpcPlaces
  <2>14. ASSUME NEW j \in Rpc!Pos, slots'[j] # 0
         PROVE  \E d \in RpcConns : conn'[d].fd = slots'[j]
    <3>1. j # i /\ slots'[j] = slots[j] /\ slots[j] # slots[i]
      BY <1>8, <2>4, <2>14
    <3>2. PICK d \in RpcConns : conn[d].fd = slots[j]
      BY <1>1, <2>14, <3>1 DEF RpcPlaces
    <3> QED
      BY <1>7, <2>3, <3>1, <3>2
  <2>15. ASSUME NEW d \in RpcConns, conn'[d].fd # 0
         PROVE  \E j \in Rpc!Pos : slots'[j] = conn'[d].fd
    <3>1. d # c /\ conn'[d].fd = conn[d].fd /\ conn[d].fd # slots[i]
      BY <2>2, <2>3, <2>10, <2>15
    <3> QED
      BY <1>1, <2>4, <2>15, <3>1 DEF RpcPlaces
  <2>16. RpcPlaces'
    BY <2>11, <2>12, <2>13, <2>14, <2>15 DEF RpcPlaces, Rpc!Pos
  <2> QED
    BY <2>6, <2>7, <2>8, <2>9, <2>16 DEF RpcInv
<1>12. CASE conn[c].client # "closed"
  <2> DEFINE k == conn[c]
             p == Append(k.reps, Head(k.reqs))
             q == <<>>
             m == [k EXCEPT !.reqs = q, !.reps = p]
  <2>1. conn' = [conn EXCEPT ![c] = m] /\ srv' = next /\ UNCHANGED <<slots, fdset, backlog>>
    BY <1>2, <1>7, <1>12 DEF Rpc!Serve
  <2>2. k \in RpcConn /\ RpcCounts(k) /\ k.reqs # <<>>
    BY <1>1, <1>7, <1>12
  <2> HIDE DEF k
  <2>3. /\ k.reps \in Seq(Nat) /\ k.reqs \in Seq(Nat) /\ Len(k.reqs) \in Nat \ {0}
        /\ Head(k.reqs) = k.reqs[1] /\ k.reqs[1] \in Nat
    <3>1. k.reps \in Seq(Nat) /\ k.reqs \in Seq(Nat)
      BY <2>2 DEF RpcConn
    <3>2. Len(k.reqs) \in Nat \ {0}
      BY <2>2, <3>1, EmptySeq
    <3> QED
      BY <3>1, <3>2, ElementOfSeq
  <2> DEFINE h == Head(k.reqs)
  <2>4. /\ h \in Nat /\ k.got < h /\ h <= k.calls
        /\ \A j \in 1 .. Len(k.reps) : k.reps[j] < h
    BY <2>2, <2>3 DEF RpcCounts
  <2> HIDE DEF h
  <2>5. /\ p \in Seq(Nat) /\ Len(p) = Len(k.reps) + 1 /\ Len(k.reps) \in Nat
        /\ \A j \in 1 .. Len(k.reps) : p[j] = k.reps[j]
        /\ p[Len(k.reps) + 1] = h
    BY <2>3, <2>4, AppendProperties, LenProperties DEF h
  <2> HIDE DEF p
  <2>6. q \in Seq(Nat) /\ Len(q) = 0
    BY EmptySeq
  <2> HIDE DEF q
  <2>7. /\ m.client = k.client /\ m.server = k.server /\ m.fd = k.fd /\ m.calls = k.calls
        /\ m.late = k.late /\ m.got = k.got /\ m.reqs = q /\ m.reps = p
    BY <2>2 DEF RpcConn
  <2>8. m \in RpcConn
    BY <2>2, <2>5, <2>6 DEF RpcConn
  <2> HIDE DEF m
  <2>9. RpcCounts(m)
    <3>1. \A j \in 1 .. Len(p) : j \in 1 .. Len(k.reps) \/ j = Len(k.reps) + 1
      BY <2>5
    <3>2. \A j \in 1 .. Len(p) : k.got < p[j] /\ p[j] <= k.calls
      BY <2>2, <2>4, <2>5, <3>1 DEF RpcCounts
    <3> QED
      BY <2>2, <2>6, <2>7, <3>2 DEF RpcCounts
  <2>10. conn'[c] = m /\ \A d \in RpcConns : d # c => conn'[d] = conn[d]
    BY <1>1, <1>7, <2>1 DEF RpcTypes
  <2>11. \A d \in RpcConns : conn'[d].fd = conn[d].fd /\ conn'[d].server = conn[d].server
    BY <2>7, <2>10 DEF k
  <2>12. RpcReported' /\ srv' \in RpcServer
    BY <1>1, <1>10, <2>1, <2>10 DEF RpcTypes
  <2>13. conn' \in [RpcConns -> RpcConn]
    BY <1>1, <1>7, <2>1, <2>8 DEF RpcTypes
  <2>14. RpcTypes'
    BY <1>1, <2>1, <2>12, <2>13 DEF RpcTypes, RpcServer, RpcConn, Rpc!Fds, Rpc!Pos
  <2>15. RpcBacklog'
    BY <1>1, <2>1, <2>11 DEF RpcBacklog, RpcTypes
  <2>16. RpcPlaces'
    <3>1. {conn'[d].fd : d \in {e \in RpcConns : conn'[e].fd # 0}}
            = {conn[d].fd : d \in {e \in RpcConns : conn[e].fd # 0}}
      BY <2>11
    <3> QED
      BY <1>1, <2>1, <2>11, <3>1 DEF RpcPlaces, Rpc!Pos
  <2>17. \A d \in RpcConns : RpcCounts(conn'[d])
    BY <1>1, <2>9, <2>10
  <2> QED
    BY <2>12, <2>14, <2>15, <2>16, <2>17 DEF RpcInv
<1> QED
  BY <1>11, <1>12

\* accept() has a number left.
LEMMA RpcFreeNumber ==
    ASSUME RpcTypes, NEW c \in RpcConns, conn[c].fd = 0
    PROVE  \E f \in Rpc!Fds : \A d \in RpcConns : conn[d].fd # f
<1> SUFFICES ASSUME \A f \in Rpc!Fds : \E d \in RpcConns : conn[d].fd = f PROVE FALSE
  OBVIOUS
<1> DEFINE n == Cardinality(RpcConns)
           S == 1 .. n
           T == RpcConns \ {c}
           g == [f \in S |-> CHOOSE d \in RpcConns : conn[d].fd = f]
<1>1. /\ n \in Nat /\ S = Rpc!Fds /\ IsFiniteSet(T) /\ Cardinality(T) = n - 1
  BY RpcConstants, FS_RemoveElement
<1>2. IsFiniteSet(S) /\ Cardinality(S) = n
  <2>1. IsFiniteSet(1 .. n) /\ Cardinality(1 .. n) = IF 1 > n THEN 0 ELSE n - 1 + 1
    BY <1>1, FS_Interval
  <2> QED
    BY <1>1, <2>1
<1>3. \A f \in S : g[f] \in RpcConns /\ conn[g[f]].fd = f
  BY <1>1
<1>4. \A f \in S : g[f] \in T
  <2> SUFFICES ASSUME NEW f \in S PROVE g[f] # c
    BY <1>3
  <2>1. f # 0
    BY <1>1
  <2> QED
    BY <1>3, <2>1
<1>5. g \in [S -> T]
  BY <1>4
<1> HIDE DEF g, T, S, n
<1>6. \E x, y \in S : x # y /\ g[x] = g[y]
  BY <1>1, <1>2, <1>5, FS_PigeonHole
<1> QED
  BY <1>3, <1>6

\* A new client gets a number and a place, or is closed.
LEMMA RpcAccept == ASSUME RpcInv, Rpc!HandleConnection PROVE RpcInv'
<1> DEFINE c == Head(backlog)
           free == {f \in Rpc!Fds : \A d \in RpcConns : conn[d].fd # f}
           fd == CHOOSE f \in free : \A g \in free : f <= g
           places == {i \in Rpc!Pos : slots[i] = 0}
           i == CHOOSE j \in places : \A l \in places : j <= l
           k == conn[c]
<1>1. RpcTypes /\ RpcBacklog /\ RpcPlaces /\ RpcReported
      /\ \A d \in RpcConns : conn[d] \in RpcConn /\ RpcCounts(conn[d])
  BY DEF RpcInv, RpcTypes
<1>2. srv.pc = "clients" /\ srv' = Rpc!IdleServer
  BY DEF Rpc!HandleConnection
<1>3. srv' \in RpcServer /\ srv'.pc = "idle" /\ RpcReported'
  BY <1>2 DEF Rpc!IdleServer, RpcServer, RpcReported
<1>4. CASE ~srv.listen
  <2>1. UNCHANGED <<conn, backlog, slots, fdset>>
    BY <1>4 DEF Rpc!HandleConnection
  <2> QED
    BY <1>1, <1>3, <2>1
    DEF RpcInv, RpcTypes, RpcBacklog, RpcPlaces, RpcServer, RpcConn, Rpc!Fds, Rpc!Pos
<1>5. CASE srv.listen
  <2>1. backlog # <<>> /\ backlog' = Tail(backlog)
        /\ IF places = {}
           THEN conn' = [conn EXCEPT ![c] = Rpc!Shut(k)] /\ UNCHANGED <<slots, fdset>>
           ELSE /\ conn' = [conn EXCEPT ![c].server = "open", ![c].fd = fd]
                /\ slots' = [slots EXCEPT ![i] = fd] /\ fdset' = fdset \cup {fd}
    BY <1>1, <1>2, <1>5, RpcConstants DEF Rpc!HandleConnection, Rpc!Accept, RpcReported
  <2>2. /\ Len(backlog) \in Nat \ {0} /\ c = backlog[1] /\ c \in RpcConns
        /\ Tail(backlog) \in Seq(RpcConns) /\ Len(Tail(backlog)) = Len(backlog) - 1
        /\ \A j \in 1 .. Len(backlog) - 1 : Tail(backlog)[j] = backlog[j + 1]
    <3>1. backlog \in Seq(RpcConns)
      BY <1>1 DEF RpcTypes
    <3>2. Len(backlog) \in Nat \ {0}
      BY <2>1, <3>1, EmptySeq
    <3>3. Tail(backlog) \in Seq(RpcConns) /\ Len(Tail(backlog)) = Len(backlog) - 1
          /\ \A j \in 1 .. Len(backlog) - 1 : Tail(backlog)[j] = backlog[j + 1]
      BY <2>1, <3>1, HeadTailProperties
    <3> QED
      BY <3>1, <3>2, <3>3, ElementOfSeq
  <2>3. /\ k \in RpcConn /\ RpcCounts(k) /\ k.server = "backlog" /\ k.fd = 0
    BY <1>1, <2>2 DEF RpcBacklog, RpcPlaces
  <2>4. \A j \in 1 .. Len(backlog') : backlog'[j] \in RpcConns /\ backlog'[j] # c
                                      /\ conn[backlog'[j]].server = "backlog"
    <3> SUFFICES ASSUME NEW j \in 1 .. Len(backlog) - 1
                 PROVE  backlog[j + 1] \in RpcConns /\ backlog[j + 1] # c
                        /\ conn[backlog[j + 1]].server = "backlog"
      BY <2>1, <2>2
    <3>1. j + 1 \in 1 .. Len(backlog) /\ j + 1 # 1 /\ 1 \in 1 .. Len(backlog)
      BY <2>2
    <3> QED
      BY <1>1, <2>2, <3>1 DEF RpcBacklog, RpcTypes
  <2>5. \A j, l \in 1 .. Len(backlog') : backlog'[j] = backlog'[l] => j = l
    <3> SUFFICES ASSUME NEW j \in 1 .. Len(backlog) - 1, NEW l \in 1 .. Len(backlog) - 1,
                        backlog[j + 1] = backlog[l + 1]
                 PROVE  j = l
      BY <2>1, <2>2
    <3>1. j + 1 \in 1 .. Len(backlog) /\ l + 1 \in 1 .. Len(backlog)
      BY <2>2
    <3>2. j + 1 = l + 1
      BY <1>1, <3>1 DEF RpcBacklog
    <3> QED
      BY <2>2, <3>2
  <2> HIDE DEF c
  <2>6. CASE places = {}
    <3> DEFINE m == Rpc!Shut(k)
    <3>1. conn' = [conn EXCEPT ![c] = m] /\ UNCHANGED <<slots, fdset>>
      BY <2>1, <2>6
    <3>2. m \in RpcConn /\ RpcCounts(m) /\ m.fd = 0 /\ m.server \in {"none", "closed"}
      BY <2>3, RpcShut
    <3> HIDE DEF m
    <3>3. conn'[c] = m /\ \A d \in RpcConns : d # c => conn'[d] = conn[d]
      BY <1>1, <2>2, <3>1 DEF RpcTypes
    <3>4. \A d \in RpcConns : conn'[d].fd = conn[d].fd
                              /\ (conn'[d].server = "open" <=> conn[d].server = "open")
      BY <2>3, <3>2, <3>3
    <3>5. conn' \in [RpcConns -> RpcConn]
      BY <1>1, <2>2, <3>1, <3>2 DEF RpcTypes
    <3>6. RpcTypes'
      BY <1>1, <1>3, <2>1, <2>2, <3>1, <3>5
      DEF RpcTypes, RpcServer, RpcConn, Rpc!Fds, Rpc!Pos
    <3>7. RpcBacklog'
      BY <2>4, <2>5, <3>3 DEF RpcBacklog
    <3>8. RpcPlaces'
      <4>1. {conn'[d].fd : d \in {e \in RpcConns : conn'[e].fd # 0}}
              = {conn[d].fd : d \in {e \in RpcConns : conn[e].fd # 0}}
        BY <3>4
      <4> QED
        BY <1>1, <3>1, <3>4, <4>1 DEF RpcPlaces, Rpc!Pos
    <3>9. \A d \in RpcConns : RpcCounts(conn'[d])
      BY <1>1, <3>2, <3>3
    <3> QED
      BY <1>3, <3>6, <3>7, <3>8, <3>9 DEF RpcInv
  <2>7. CASE places # {}
    <3>1. fd \in Rpc!Fds /\ fd # 0 /\ \A d \in RpcConns : conn[d].fd # fd
      <4>1. free # {}
        BY <1>1, <2>2, <2>3, RpcFreeNumber
      <4>2. free \subseteq Nat
        BY RpcConstants
      <4>3. \E f \in free : \A g \in free : f <= g
        BY <4>1, <4>2, LeastNumber
      <4>4. fd \in free
        BY <4>3, Zenon
      <4> HIDE DEF fd
      <4> QED
        BY <4>4, RpcConstants
    <3>2. i \in Rpc!Pos /\ slots[i] = 0
      <4>1. places \subseteq Nat
        BY RpcConstants
      <4>2. \E j \in places : \A l \in places : j <= l
        BY <2>7, <4>1, LeastNumber
      <4>3. i \in places
        BY <4>2, Zenon
      <4> HIDE DEF i
      <4> QED
        BY <4>3
    <3> DEFINE m == [k EXCEPT !.server = "open", !.fd = fd]
    <3>3. conn' = [conn EXCEPT ![c] = m] /\ slots' = [slots EXCEPT ![i] = fd]
          /\ fdset' = fdset \cup {fd}
      BY <2>1, <2>7
    <3> HIDE DEF fd, i, k
    <3>4. /\ m.client = k.client /\ m.server = "open" /\ m.fd = fd /\ m.calls = k.calls
          /\ m.late = k.late /\ m.got = k.got /\ m.reqs = k.reqs /\ m.reps = k.reps
      BY <2>3 DEF RpcConn
    <3>5. m \in RpcConn
      BY <2>3, <3>1 DEF RpcConn
    <3> HIDE DEF m
    <3>6. RpcCounts(m)
      BY <2>3, <3>4 DEF RpcCounts
    <3>7. conn'[c] = m /\ \A d \in RpcConns : d # c => conn'[d] = conn[d]
      BY <1>1, <2>2, <3>3 DEF RpcTypes
    <3>8. conn' \in [RpcConns -> RpcConn]
      BY <1>1, <2>2, <3>3, <3>5 DEF RpcTypes
    <3>9. /\ slots' \in [Rpc!Pos -> Rpc!Fds \cup {0}] /\ slots'[i] = fd
          /\ \A j \in Rpc!Pos : j # i => slots'[j] = slots[j]
      BY <1>1, <3>1, <3>2, <3>3 DEF RpcTypes
    <3>10. RpcTypes'
      BY <1>1, <1>3, <2>1, <2>2, <3>8, <3>9
      DEF RpcTypes, RpcServer, RpcConn, Rpc!Fds, Rpc!Pos
    <3>11. RpcBacklog'
      BY <2>4, <2>5, <3>7 DEF RpcBacklog
    <3>12. conn[c].fd = 0
      BY <2>3 DEF k
    <3>13. fdset' = {conn'[d].fd : d \in {e \in RpcConns : conn'[e].fd # 0}}
      BY <1>1, <2>2, <3>1, <3>3, <3>4, <3>7, <3>12 DEF RpcPlaces
    <3>14. /\ \A d \in RpcConns : conn'[d].fd # 0 <=> conn'[d].server = "open"
           /\ \A d, e \in RpcConns : (conn'[d].fd # 0 /\ conn'[d].fd = conn'[e].fd) => d = e
      BY <1>1, <3>1, <3>4, <3>7 DEF RpcPlaces
    <3>15. \A j \in Rpc!Pos : slots[j] # fd
      BY <1>1, <3>1 DEF RpcPlaces
    <3>16. \A j, l \in Rpc!Pos : (slots'[j] # 0 /\ slots'[j] = slots'[l]) => j = l
      BY <1>1, <3>9, <3>15 DEF RpcPlaces
    <3>17. ASSUME NEW j \in Rpc!Pos, slots'[j] # 0
           PROVE  \E d \in RpcConns : conn'[d].fd = slots'[j]
      <4>1. CASE j = i
        BY <2>2, <3>4, <3>7, <3>9, <4>1
      <4>2. CASE j # i
        <5>1. PICK d \in RpcConns : conn[d].fd = slots[j] /\ slots[j] # 0
          BY <1>1, <3>9, <3>17, <4>2 DEF RpcPlaces
        <5> QED
          BY <3>7, <3>9, <3>12, <4>2, <5>1
      <4> QED
        BY <4>1, <4>2
    <3>18. ASSUME NEW d \in RpcConns, conn'[d].fd # 0
           PROVE  \E j \in Rpc!Pos : slots'[j] = conn'[d].fd
      <4>1. CASE d = c
        BY <3>2, <3>4, <3>7, <3>9, <4>1
      <4>2. CASE d # c
        <5>1. PICK j \in Rpc!Pos : slots[j] = conn[d].fd /\ conn[d].fd # 0
          BY <1>1, <3>7, <3>18, <4>2 DEF RpcPlaces
        <5> QED
          BY <3>2, <3>7, <3>9, <4>2, <5>1
      <4> QED
        BY <4>1, <4>2
    <3>19. RpcPlaces'
      BY <3>13, <3>14, <3>16, <3>17, <3>18 DEF RpcPlaces, Rpc!Pos
    <3>20. \A d \in RpcConns : RpcCounts(conn'[d])
      BY <1>1, <3>6, <3>7
    <3> QED
      BY <1>3, <3>10, <3>11, <3>19, <3>20 DEF RpcInv
  <2> QED
    BY <2>6, <2>7
<1> QED
  BY <1>4, <1>5

\* A server that starts again has no connection.
LEMMA RpcRestart == ASSUME RpcInv, Rpc!Restart PROVE RpcInv'
<1>1. /\ conn' = [c \in RpcConns |-> Rpc!Shut(conn[c])] /\ backlog' = <<>>
      /\ slots' = [i \in Rpc!Pos |-> 0] /\ fdset' = {} /\ srv' = Rpc!IdleServer
  BY RpcConstants DEF Rpc!Restart
<1>2. \A c \in RpcConns : /\ conn'[c] \in RpcConn /\ RpcCounts(conn'[c])
                          /\ conn'[c].fd = 0 /\ conn'[c].server \in {"none", "closed"}
  <2> SUFFICES ASSUME NEW c \in RpcConns
               PROVE  /\ conn'[c] \in RpcConn /\ RpcCounts(conn'[c])
                      /\ conn'[c].fd = 0 /\ conn'[c].server \in {"none", "closed"}
    OBVIOUS
  <2>1. conn[c] \in RpcConn /\ RpcCounts(conn[c]) /\ conn'[c] = Rpc!Shut(conn[c])
    BY <1>1 DEF RpcInv, RpcTypes
  <2> QED
    BY <2>1, RpcShut
<1>3. srv' \in RpcServer /\ srv'.pc = "idle"
  BY <1>1 DEF Rpc!IdleServer, RpcServer
<1>4. RpcTypes'
  BY <1>1, <1>2, <1>3, EmptySeq DEF RpcTypes, RpcServer, RpcConn, Rpc!Fds, Rpc!Pos
<1>5. RpcBacklog' /\ RpcReported'
  BY <1>1, <1>3 DEF RpcBacklog, RpcReported
<1>6. RpcPlaces'
  <2>1. {conn'[c].fd : c \in {d \in RpcConns : conn'[d].fd # 0}} = {}
    BY <1>2
  <2> QED
    BY <1>1, <1>2, <2>1 DEF RpcPlaces, Rpc!Pos
<1> QED
  BY <1>2, <1>4, <1>5, <1>6 DEF RpcInv

LEMMA RpcNext == RpcInv /\ [Next]_vars => RpcInv'
<1> SUFFICES ASSUME RpcInv, [Next]_vars PROVE RpcInv'
  OBVIOUS
<1>1. Rpc!Next \/ UNCHANGED rpcVars
  BY DEF Next, vars
<1>2. CASE UNCHANGED rpcVars
  <2>1. UNCHANGED <<conn, backlog, slots, fdset, srv>>
    BY <1>2 DEF rpcVars
  <2> QED
    BY <2>1
    DEF RpcInv, RpcTypes, RpcCounts, RpcBacklog, RpcPlaces, RpcReported, RpcConn,
        RpcServer, Rpc!Pos, Rpc!Fds
<1>3. ASSUME NEW c \in RpcConns,
             \/ Rpc!Connect(c) \/ Rpc!Call(c) \/ Rpc!CallDies(c)
             \/ Rpc!Answer(c) \/ Rpc!AnswerEof(c) \/ Rpc!TimeOut(c) \/ Rpc!Disconnect(c)
      PROVE  RpcInv'
  BY <1>3, RpcConnect, RpcCall, RpcGone, RpcAnswer, RpcTimeOut
<1> QED
  BY <1>1, <1>2, <1>3, RpcSelect, RpcHandle, RpcAccept, RpcRestart
  DEF Rpc!Next, Rpc!ServerAction

\* minipc_call() compares an answer with its call by the type alone.  Nevertheless
\* it lags behind its call by no more calls than have timed out on the connection,
\* and is never the answer to a call that was answered before, for any number of
\* connections and calls.
THEOREM AnswersMatch == Spec => []AnswerIsFor
<1>1. RpcInv => AnswerIsFor
  <2> SUFFICES ASSUME RpcInv, NEW c \in RpcConns,
                      conn[c].client = "waiting", conn[c].reps # <<>>
               PROVE  /\ Head(conn[c].reps) > conn[c].got
                      /\ Head(conn[c].reps) >= conn[c].calls - conn[c].late
    BY DEF AnswerIsFor, Rpc!AnswerIsFor
  <2> DEFINE k == conn[c]
  <2>1. k \in RpcConn /\ RpcCounts(k) /\ k.client = "waiting" /\ k.reps # <<>>
    BY DEF RpcInv, RpcTypes
  <2> HIDE DEF k
  <2>2. k.reps \in Seq(Nat) /\ k.got \in Nat /\ k.calls \in Nat /\ k.late \in Nat
    BY <2>1 DEF RpcConn
  <2>3. Len(k.reps) \in Nat \ {0}
    BY <2>1, <2>2, EmptySeq
  <2>4. Head(k.reps) = k.reps[1] /\ k.reps[1] \in Nat
    BY <2>2, <2>3, ElementOfSeq
  <2>5. k.got < k.reps[1] /\ k.calls <= k.got + k.late + 1
    BY <2>1, <2>3 DEF RpcCounts
  <2>6. Head(k.reps) > k.got /\ Head(k.reps) >= k.calls - k.late
    BY <2>2, <2>4, <2>5
  <2> QED
    BY <2>6 DEF k
<1> QED
  BY <1>1, RpcInit, RpcNext, PTL DEF Spec

\* As many places are used as connections are open.
LEMMA RpcCountPlaces == RpcTypes /\ RpcPlaces => Rpc!PlacesOfClients
<1> SUFFICES ASSUME RpcTypes, RpcPlaces PROVE Rpc!PlacesOfClients
  OBVIOUS
<1> DEFINE open == {c \in RpcConns : conn[c].fd # 0}
           used == {i \in Rpc!Pos : slots[i] # 0}
           f == [i \in used |-> CHOOSE c \in open : conn[c].fd = slots[i]]
<1>1. \A i \in used : f[i] \in open /\ conn[f[i]].fd = slots[i]
  <2> SUFFICES ASSUME NEW i \in used PROVE \E c \in open : conn[c].fd = slots[i]
    OBVIOUS
  <2> QED
    BY DEF RpcPlaces
<1>2. f \in [used -> open]
  BY <1>1
<1> HIDE DEF f
<1>3. \A i, j \in used : f[i] = f[j] => i = j
  <2>1. \A i, j \in used : slots[i] = slots[j] => i = j
    BY DEF RpcPlaces
  <2> QED
    BY <1>1, <2>1
<1>4. \A c \in open : \E i \in used : f[i] = c
  <2> SUFFICES ASSUME NEW c \in open PROVE \E i \in used : f[i] = c
    OBVIOUS
  <2>1. PICK i \in used : slots[i] = conn[c].fd
    BY DEF RpcPlaces
  <2>2. f[i] \in RpcConns /\ conn[f[i]].fd = conn[c].fd /\ conn[c].fd # 0
    BY <1>1, <2>1
  <2>3. f[i] = c
    BY <2>2 DEF RpcPlaces
  <2> QED
    BY <2>3
<1>5. IsFiniteSet(used)
  <2>1. IsFiniteSet(Rpc!Pos)
    BY RpcConstants, FS_Interval
  <2>2. used \in SUBSET Rpc!Pos
    OBVIOUS
  <2> QED
    BY <2>1, <2>2, FS_Subset
<1>6. Cardinality(used) = Cardinality(open)
  <2>1. f \in Bijection(used, open)
    BY <1>2, <1>3, <1>4, Zenon DEF Bijection, Injection, Surjection, IsInjective
  <2>2. ExistsBijection(used, open)
    BY <2>1 DEF ExistsBijection
  <2> QED
    BY <1>5, <2>2, FS_Bijection
<1>7. Rpc!Cardinality(used) = Cardinality(used) /\ Rpc!Cardinality(open) = Cardinality(open)
  BY Zenon DEF Cardinality, Rpc!Cardinality
<1>8. {slots[i] : i \in used} = {conn[c].fd : c \in open}
  BY <1>1, <1>4
<1>9. fdset = {conn[c].fd : c \in open}
  BY DEF RpcPlaces
<1> QED
  BY <1>6, <1>7, <1>8, <1>9, RpcConstants DEF Rpc!PlacesOfClients

\* The places of the server are those of its clients: none is lost when a client
\* leaves, none is given twice, and none makes recv() wait in the main loop of
\* the daemon.
THEOREM ServerServes == Spec => [](Rpc!PlacesOfClients /\ Rpc!NeverBlocks)
<1>1. RpcInv => Rpc!PlacesOfClients /\ Rpc!NeverBlocks
  <2> SUFFICES ASSUME RpcInv PROVE Rpc!PlacesOfClients /\ Rpc!NeverBlocks
    OBVIOUS
  <2>1. Rpc!PlacesOfClients
    BY RpcCountPlaces DEF RpcInv
  <2>2. Rpc!NeverBlocks
    BY DEF RpcInv, RpcTypes, RpcServer, Rpc!NeverBlocks
  <2> QED
    BY <2>1, <2>2
<1> QED
  BY <1>1, RpcInit, RpcNext, PTL DEF Spec

-----------------------------------------------------------------------------
(* The types of all parts, with the bounds                                 *)

PstatsLimit == PstatsInv /\ total \in 0 .. PstatsMaxTotal

LEMMA PstatsLimited ==
    /\ Init => PstatsLimit
    /\ PstatsLimit /\ [Next]_vars => PstatsLimit'
    /\ PstatsLimit => Pstats!TypeOK
<1>1. ASSUME PstatsLimit, [Next]_vars PROVE PstatsLimit'
  <2>1. PstatsInv'
    BY <1>1, PstatsNext DEF PstatsLimit
  <2>2. Pstats!Next \/ UNCHANGED pstatsVars
    BY <1>1 DEF Next, vars
  <2>3. total' = total \/ (total < PstatsMaxTotal /\ total' = total + 1)
    BY <2>2 DEF pstatsVars, Pstats!Next, Pstats!Count, Pstats!IrqHandler, Pstats!Tasklet,
       Pstats!ReadWord, Pstats!Load, Pstats!Store, Pstats!Zero
  <2>4. total' \in 0 .. PstatsMaxTotal
    BY <1>1, <2>3, PstatsConstants DEF PstatsLimit
  <2> QED
    BY <2>1, <2>4 DEF PstatsLimit
<1>2. PstatsLimit => Pstats!TypeOK
  BY DEF PstatsLimit, PstatsInv, PstatsTypes, Pstats!TypeOK
<1>3. ASSUME Init PROVE PstatsLimit
  <2>1. PstatsInv
    BY <1>3, PstatsInit
  <2>2. total \in 0 .. PstatsLow - 1 /\ PstatsLow <= PstatsMaxTotal
    BY <1>3, PartsConstants DEF Init, Pstats!Init, Pstats!ConstantsOK
  <2>3. total \in 0 .. PstatsMaxTotal
    BY <2>2, PstatsConstants
  <2> QED
    BY <2>1, <2>3 DEF PstatsLimit
<1> QED
  BY <1>1, <1>2, <1>3

\* A call that has timed out is not the one that the client waits for.
RpcLimit(c, k) ==
    /\ k.calls <= RpcMaxCalls[c]
    /\ k.late + (IF k.client = "waiting" THEN 1 ELSE 0) <= k.calls

RpcLimits ==
    /\ RpcInv
    /\ \A c \in RpcConns : RpcLimit(c, conn[c])
    /\ srv.pos \in 1 .. RpcMaxClients + 1

LEMMA RpcMaxCallsNat == \A c \in RpcConns : RpcMaxCalls[c] \in Nat
BY PartsConstants DEF Rpc!ConstantsOK

LEMMA RpcClosedLimit == \A c \in RpcConns : RpcLimit(c, Rpc!Closed)
BY RpcMaxCallsNat DEF RpcLimit, Rpc!Closed

\* Only a client changes these numbers.
LEMMA RpcShutLimit ==
    ASSUME NEW c \in RpcConns, NEW k \in RpcConn, RpcLimit(c, k)
    PROVE  RpcLimit(c, Rpc!Shut(k))
<1>1. CASE k.client = "closed"
  BY <1>1, RpcClosedLimit DEF Rpc!Shut
<1>2. CASE k.client # "closed"
  <2> DEFINE r == Rpc!Shut(k)
  <2>1. r = [k EXCEPT !.server = "closed", !.fd = 0, !.reqs = <<>>]
    BY <1>2, RpcConstants DEF Rpc!Shut
  <2>2. r.calls = k.calls /\ r.late = k.late /\ r.client = k.client
    BY <2>1 DEF RpcConn
  <2> HIDE DEF r
  <2>3. RpcLimit(c, r)
    BY <2>2 DEF RpcLimit
  <2> QED
    BY <2>3 DEF r
<1> QED
  BY <1>1, <1>2

LEMMA RpcClientLimit ==
    ASSUME RpcLimits, NEW c \in RpcConns,
           \/ Rpc!Connect(c) \/ Rpc!Call(c) \/ Rpc!CallDies(c)
           \/ Rpc!Answer(c) \/ Rpc!AnswerEof(c) \/ Rpc!TimeOut(c) \/ Rpc!Disconnect(c)
    PROVE  (\A d \in RpcConns : RpcLimit(d, conn'[d])) /\ UNCHANGED srv
<1> DEFINE k == conn[c]
<1>1. /\ conn \in [RpcConns -> RpcConn] /\ k \in RpcConn
      /\ \A d \in RpcConns : RpcLimit(d, conn[d])
  BY DEF RpcLimits, RpcInv, RpcTypes
<1>2. /\ k.calls \in Nat /\ k.late \in Nat /\ RpcMaxCalls[c] \in Nat
      /\ k.calls <= RpcMaxCalls[c]
      /\ k.client = "waiting" => k.late + 1 <= k.calls
      /\ k.late <= k.calls
  BY <1>1, RpcMaxCallsNat DEF RpcConn, RpcLimit
<1>3. \A d \in RpcConns : d # c => conn'[d] = conn[d]
  BY <1>1 DEF Rpc!Connect, Rpc!Call, Rpc!CallDies, Rpc!Answer, Rpc!AnswerEof, Rpc!TimeOut,
     Rpc!Disconnect
<1>4. UNCHANGED srv
  BY DEF Rpc!Connect, Rpc!Call, Rpc!CallDies, Rpc!Answer, Rpc!AnswerEof, Rpc!TimeOut,
     Rpc!Disconnect
<1>5. RpcLimit(c, conn'[c])
  <2>1. CASE Rpc!Connect(c)
    <3>1. conn'[c].client = "idle" /\ conn'[c].calls = k.calls /\ conn'[c].late = k.late
      BY <1>1, <2>1 DEF Rpc!Connect, RpcConn
    <3> QED
      BY <1>2, <3>1 DEF RpcLimit
  <2>2. CASE Rpc!Call(c)
    <3>1. /\ k.client = "idle" /\ k.calls + 1 <= RpcMaxCalls[c]
          /\ conn'[c].client = "waiting" /\ conn'[c].calls = k.calls + 1
          /\ conn'[c].late = k.late
      BY <1>1, <2>2 DEF Rpc!Call, RpcConn
    <3> QED
      BY <1>2, <3>1 DEF RpcLimit
  <2>3. CASE Rpc!CallDies(c)
    BY <1>1, <2>3, RpcClosedLimit DEF Rpc!CallDies
  <2>4. CASE Rpc!Answer(c)
    <3>1. conn'[c].client = "idle" /\ conn'[c].calls = k.calls /\ conn'[c].late = k.late
      BY <1>1, <2>4 DEF Rpc!Answer, RpcConn
    <3> QED
      BY <1>2, <3>1 DEF RpcLimit
  <2>5. CASE Rpc!AnswerEof(c)
    <3>1. conn'[c].client = "idle" /\ conn'[c].calls = k.calls /\ conn'[c].late = k.late
      BY <1>1, <2>5 DEF Rpc!AnswerEof, RpcConn
    <3> QED
      BY <1>2, <3>1 DEF RpcLimit
  <2>6. CASE Rpc!TimeOut(c)
    <3>1. /\ k.client = "waiting"
          /\ conn'[c].client = "idle" /\ conn'[c].calls = k.calls
          /\ conn'[c].late = k.late + 1
      BY <1>1, <2>6 DEF Rpc!TimeOut, RpcConn
    <3> QED
      BY <1>2, <3>1 DEF RpcLimit
  <2>7. CASE Rpc!Disconnect(c)
    <3>1. CASE k.server = "closed"
      BY <1>1, <2>7, <3>1, RpcClosedLimit DEF Rpc!Disconnect
    <3>2. CASE k.server # "closed"
      <4>1. /\ conn'[c].client = "closed" /\ conn'[c].calls = k.calls
            /\ conn'[c].late = k.late
        BY <1>1, <2>7, <3>2 DEF Rpc!Disconnect, RpcConn
      <4> QED
        BY <1>2, <4>1 DEF RpcLimit
    <3> QED
      BY <3>1, <3>2
  <2> QED
    BY <2>1, <2>2, <2>3, <2>4, <2>5, <2>6, <2>7
<1> QED
  BY <1>1, <1>3, <1>4, <1>5

LEMMA RpcServerLimit ==
    ASSUME RpcLimits, Rpc!ServerAction \/ Rpc!Restart
    PROVE  (\A d \in RpcConns : RpcLimit(d, conn'[d])) /\ srv'.pos \in 1 .. RpcMaxClients + 1
<1> USE RpcConstants
<1>1. /\ conn \in [RpcConns -> RpcConn] /\ srv \in RpcServer
      /\ \A d \in RpcConns : RpcLimit(d, conn[d])
      /\ srv.pos \in 1 .. RpcMaxClients + 1
      /\ \A d \in RpcConns : RpcLimit(d, Rpc!Shut(conn[d]))
  BY RpcShutLimit DEF RpcLimits, RpcInv, RpcTypes
<1>2. ASSUME NEW c, \/ conn' = [conn EXCEPT ![c] = Rpc!Shut(@)]
                    \/ Rpc!Serve(c)
                    \/ \E fd : conn' = [conn EXCEPT ![c].server = "open", ![c].fd = fd]
      PROVE  \A d \in RpcConns : RpcLimit(d, conn'[d])
  <2> SUFFICES ASSUME NEW d \in RpcConns PROVE RpcLimit(d, conn'[d])
    OBVIOUS
  <2>1. CASE d # c
    BY <1>1, <1>2, <2>1 DEF Rpc!Serve
  <2>2. CASE d = c /\ conn' = [conn EXCEPT ![c] = Rpc!Shut(@)]
    BY <1>1, <2>2
  <2>3. CASE d = c /\ ~(conn' = [conn EXCEPT ![c] = Rpc!Shut(@)])
    <3>1. /\ conn'[d].client = conn[d].client /\ conn'[d].calls = conn[d].calls
          /\ conn'[d].late = conn[d].late
      BY <1>1, <1>2, <2>3 DEF Rpc!Serve, RpcConn
    <3> QED
      BY <1>1, <3>1 DEF RpcLimit
  <2> QED
    BY <2>1, <2>2, <2>3
<1>3. CASE Rpc!Select
  BY <1>1, <1>3 DEF Rpc!Select
<1>4. CASE Rpc!HandleClient
  <2> DEFINE i == CHOOSE j \in Rpc!Ready : \A m \in Rpc!Ready : j <= m
             c == Rpc!Owner(slots[i])
  <2>1. /\ Rpc!Ready # {}
        /\ \/ Rpc!CloseClient(i, c) /\ srv' = [srv EXCEPT !.pos = i + 1]
           \/ Rpc!Serve(c) /\ srv' = [srv EXCEPT !.pos = i + 1]
           \/ srv' = [srv EXCEPT !.pc = "blocked"] /\ UNCHANGED conn
    BY <1>4 DEF Rpc!HandleClient
  <2>2. i \in 1 .. RpcMaxClients
    <3>1. Rpc!Ready \subseteq Nat
      BY DEF Rpc!Ready
    <3>2. \E j \in Rpc!Ready : \A m \in Rpc!Ready : j <= m
      BY <2>1, <3>1, LeastNumber
    <3>3. i \in Rpc!Ready
      BY <3>2, Zenon
    <3> HIDE DEF i
    <3> QED
      BY <3>3 DEF Rpc!Ready
  <2> HIDE DEF i
  <2> HIDE DEF c
  <2>3. srv'.pos = i + 1 \/ srv'.pos = srv.pos
    BY <1>1, <2>1 DEF RpcServer
  <2>4. srv'.pos \in 1 .. RpcMaxClients + 1
    BY <1>1, <2>2, <2>3
  <2>5. \A d \in RpcConns : RpcLimit(d, conn'[d])
    BY <1>1, <1>2, <2>1 DEF Rpc!CloseClient
  <2> QED
    BY <2>4, <2>5
<1>5. CASE Rpc!HandleConnection
  <2>1. srv'.pos = 1
    BY <1>5 DEF Rpc!HandleConnection, Rpc!IdleServer
  <2>2. CASE srv.listen
    <3>1. \/ conn' = [conn EXCEPT ![Head(backlog)] = Rpc!Shut(@)]
          \/ \E fd : conn' = [conn EXCEPT ![Head(backlog)].server = "open",
                                          ![Head(backlog)].fd = fd]
      BY <1>5, <2>2 DEF Rpc!HandleConnection, Rpc!Accept
    <3>2. \A d \in RpcConns : RpcLimit(d, conn'[d])
      <4> DEFINE c == Head(backlog)
      <4>1. \/ conn' = [conn EXCEPT ![c] = Rpc!Shut(@)]
            \/ Rpc!Serve(c)
            \/ \E fd : conn' = [conn EXCEPT ![c].server = "open", ![c].fd = fd]
        BY <3>1
      <4> HIDE DEF c
      <4> QED
        BY <1>2, <4>1
    <3> QED
      BY <2>1, <3>2
  <2>3. CASE ~srv.listen
    BY <1>1, <1>5, <2>1, <2>3 DEF Rpc!HandleConnection
  <2> QED
    BY <2>2, <2>3
<1>6. CASE Rpc!Restart
  BY <1>1, <1>6 DEF Rpc!Restart, Rpc!IdleServer
<1> QED
  BY <1>3, <1>4, <1>5, <1>6 DEF Rpc!ServerAction

LEMMA RpcLimited ==
    /\ Init => RpcLimits
    /\ RpcLimits /\ [Next]_vars => RpcLimits'
<1> USE RpcConstants
<1>1. ASSUME Init PROVE RpcLimits
  <2>1. RpcInv
    BY <1>1, RpcInit
  <2>2. conn = [c \in RpcConns |-> Rpc!Closed] /\ srv = Rpc!IdleServer
    BY <1>1 DEF Init, Rpc!Init
  <2>3. srv.pos = 1
    BY <2>2 DEF Rpc!IdleServer
  <2> QED
    BY <2>1, <2>2, <2>3, RpcClosedLimit DEF RpcLimits
<1>2. ASSUME RpcLimits, [Next]_vars PROVE RpcLimits'
  <2>1. RpcInv'
    BY <1>2, RpcNext DEF RpcLimits
  <2>2. Rpc!Next \/ UNCHANGED rpcVars
    BY <1>2 DEF Next, vars
  <2>3. /\ \A d \in RpcConns : RpcLimit(d, conn'[d])
        /\ srv'.pos \in 1 .. RpcMaxClients + 1
    <3>1. CASE UNCHANGED rpcVars
      BY <1>2, <3>1 DEF rpcVars, RpcLimits
    <3>2. CASE Rpc!Next
      BY <1>2, <3>2, RpcClientLimit, RpcServerLimit DEF Rpc!Next, RpcLimits
    <3> QED
      BY <2>2, <3>1, <3>2
  <2> QED
    BY <2>1, <2>3 DEF RpcLimits, RpcLimit
<1> QED
  BY <1>1, <1>2

LEMMA RpcTypeOK == RpcLimits => Rpc!TypeOK
<1> SUFFICES ASSUME RpcLimits PROVE Rpc!TypeOK
  OBVIOUS
<1> USE RpcConstants
<1>1. /\ conn \in [RpcConns -> RpcConn] /\ backlog \in Seq(RpcConns)
      /\ slots \in [Rpc!Pos -> Rpc!Fds \cup {0}] /\ srv \in RpcServer
      /\ srv.pos \in 1 .. RpcMaxClients + 1 /\ RpcPlaces
  BY DEF RpcLimits, RpcInv, RpcTypes
<1>2. ASSUME NEW c \in RpcConns
      PROVE  /\ conn[c].client \in {"closed", "idle", "waiting"}
             /\ conn[c].server \in {"none", "backlog", "open", "closed"}
             /\ conn[c].fd \in Rpc!Fds \cup {0}
             /\ {conn[c].calls, conn[c].late, conn[c].got} \subseteq 0 .. RpcMaxCalls[c]
             /\ Rpc!ToSet(conn[c].reqs) \cup Rpc!ToSet(conn[c].reps)
                    \subseteq 1 .. RpcMaxCalls[c]
  <2> DEFINE k == conn[c]
             m == RpcMaxCalls[c]
  <2>1. k \in RpcConn /\ RpcCounts(k) /\ RpcLimit(c, k) /\ m \in Nat
    BY <1>1, RpcMaxCallsNat DEF RpcLimits, RpcInv
  <2> HIDE DEF k, m
  <2>2. /\ k.client \in {"closed", "idle", "waiting"}
        /\ k.server \in {"none", "backlog", "open", "closed"}
        /\ k.fd \in Rpc!Fds \cup {0}
        /\ k.calls \in Nat /\ k.late \in Nat /\ k.got \in Nat
        /\ k.reqs \in Seq(Nat) /\ k.reps \in Seq(Nat)
    BY <2>1 DEF RpcConn
  <2>3. k.calls <= m /\ k.late <= k.calls /\ k.got <= k.calls
    BY <2>1, <2>2 DEF RpcLimit, RpcCounts, m
  <2>4. ASSUME NEW x \in Rpc!ToSet(k.reqs) \cup Rpc!ToSet(k.reps) PROVE x \in 1 .. m
    <3>1. CASE x \in Rpc!ToSet(k.reqs)
      <4>1. PICK j \in 1 .. Len(k.reqs) : x = k.reqs[j]
        BY <2>2, <3>1 DEF Rpc!ToSet
      <4>2. x \in Nat /\ k.got < x /\ x <= k.calls
        BY <2>1, <2>2, <4>1 DEF RpcCounts
      <4> QED
        BY <2>1, <2>2, <2>3, <4>2
    <3>2. CASE x \in Rpc!ToSet(k.reps)
      <4>1. PICK j \in 1 .. Len(k.reps) : x = k.reps[j]
        BY <2>2, <3>2 DEF Rpc!ToSet
      <4>2. x \in Nat /\ k.got < x /\ x <= k.calls
        BY <2>1, <2>2, <4>1 DEF RpcCounts
      <4> QED
        BY <2>1, <2>2, <2>3, <4>2
    <3> QED
      BY <2>4, <3>1, <3>2
  <2>5. {k.calls, k.late, k.got} \subseteq 0 .. m
    BY <2>1, <2>2, <2>3
  <2> QED
    BY <2>2, <2>4, <2>5 DEF k, m
<1>3. Rpc!ToSet(backlog) \subseteq RpcConns
  BY <1>1 DEF Rpc!ToSet
<1>4. fdset \subseteq Rpc!Fds
  BY <1>1, <1>2 DEF RpcPlaces
<1>5. /\ srv.pc \in {"idle", "clients", "blocked"} /\ srv.set \subseteq Rpc!Fds
      /\ srv.listen \in BOOLEAN
  BY <1>1 DEF RpcServer
<1> QED
  BY <1>1, <1>2, <1>3, <1>4, <1>5 DEF Rpc!TypeOK

LEMMA FdTypeOK == FdProof!TypeOK => Fd!TypeOK
BY DEF FdProof!TypeOK, Fd!TypeOK, Fd!Nil, FdProof!Nil, Fd!None, FdProof!None,
   Fd!Nobody, FdProof!Nobody

\* Every variable of every part has its type, and a type has the bounds of the
\* model: counters, rings, descriptors, sequences and calls.
THEOREM TypesAreKept == Spec => []TypeOK
<1>1. TxInv /\ RxInv /\ MdioInv /\ StampInv => Tx!TypeOK /\ Rx!TypeOK /\ Mdio!TypeOK /\ Stamp!TypeOK
  BY DEF TxInv, RxInv, MdioInv, StampInv
<1>2. VlanInv /\ DogInv /\ SnmpInv /\ LedsInv
          => Vlan!TypeOK /\ Dog!TypeOK /\ Snmp!TypeOK /\ Leds!TypeOK
  BY VlanTypeOK DEF DogInv, SnmpInv, LedsInv
<1>3. IrqInv /\ HashInv /\ TimerInv /\ ClockInv
          => Irq!TypeOK /\ Hash!TypeOK /\ Timer!TypeOK /\ Clock!TypeOK
  BY DEF IrqInv, HashInv, TimerInv, ClockInv
<1>4. PstatsLimit /\ RpcLimits /\ FdProof!IInv => Pstats!TypeOK /\ Rpc!TypeOK /\ Fd!TypeOK
  BY PstatsLimited, RpcTypeOK, FdTypeOK DEF FdProof!IInv
<1> DEFINE
      I == /\ TxInv /\ RxInv /\ MdioInv /\ StampInv
           /\ VlanInv /\ DogInv /\ SnmpInv /\ LedsInv
           /\ IrqInv /\ HashInv /\ TimerInv /\ ClockInv
           /\ PstatsLimit /\ RpcLimits /\ FdProof!IInv
<1>5. I => TypeOK
  BY <1>1, <1>2, <1>3, <1>4 DEF TypeOK
<1>6. ASSUME Init PROVE I
  <2>1. StampInv /\ IrqInv
    BY <1>6, PartsConstants, StampInit, IrqInit DEF Init
  <2>2. FdProof!IInv
    BY <1>6, FdSame, FdProof!InitIInv
  <2> QED
    BY <1>6, <2>1, <2>2, PstatsLimited, TxInit, RxInit, MdioInit, VlanInit, DogInit, SnmpInit,
       LedsInit, HashInit, TimerInit, ClockInit, RpcLimited
<1>7. ASSUME I, [Next]_vars PROVE I'
  <2>1. [Irq!Next]_(Irq!vars) /\ [Stamp!Next]_(Stamp!vars)
    BY <1>7 DEF Next, vars, irqVars, Irq!vars, stampVars, Stamp!vars
  <2>2. StampInv' /\ IrqInv'
    BY <1>7, <2>1, PartsConstants, StampNext, IrqNext
  <2>3. FdProof!IInv'
    BY <1>7, FdSame, FdStep, FdProof!NextIInv
  <2>4. TxInv' /\ RxInv' /\ MdioInv'
    BY <1>7, TxNext, RxNext, MdioNext
  <2>5. VlanInv' /\ DogInv' /\ SnmpInv' /\ LedsInv'
    BY <1>7, VlanNext, DogNext, SnmpNext, LedsNext
  <2>6. HashInv' /\ TimerInv' /\ ClockInv' /\ PstatsLimit' /\ RpcLimits'
    BY <1>7, HashNext, TimerNext, ClockNext, PstatsLimited, RpcLimited
  <2> QED
    BY <2>2, <2>3, <2>4, <2>5, <2>6
<1> HIDE DEF I
<1> QED
  BY <1>5, <1>6, <1>7, PTL DEF Spec
=============================================================================
