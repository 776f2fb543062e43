---------------------------- MODULE HalPortProofs ----------------------------
(***************************************************************************)
(* The port state machines for every number of ports, every choice of      *)
(* those with low phase drift calibration and every bound: types, the      *)
(* barrier between the TX setups of the ports, and what a port's state     *)
(* tells of its hardware.                                                  *)
(*                                                                         *)
(* The properties are of a port at rest; the invariant adds what holds     *)
(* while its machines run, one handler at a time.                          *)
(***************************************************************************)
EXTENDS HalPort, Iteration, SequenceTheorems, TLAPS

\* An inner machine runs only inside the handler of the main machine's state
\* that called it, which found the port usable.
CallInv ==
    \A p \in Ports : turn = p =>
        /\ call = "tx" => main[p].at = "INIT"
        /\ call = "rx" => main[p].at = "LINK_DOWN" /\ ~main[p].new /\ Usable(p)
        /\ call = "pll" => /\ Usable(p)
                           /\ \/ main[p].at = "LINK_UP" /\ ~main[p].new /\ evtLink[p]
                              \/ main[p].at = "LINK_DOWN" /\ main[p].new

\* What the state of the main machine says of the inner ones.
SetupInv ==
    \A p \in Ports :
        /\ main[p].at = "none" => tx[p].at = "none"
        /\ main[p].at = "INIT" => ~main[p].new
        /\ main[p].at \notin {"none", "INIT"} => tx[p].at = "DONE"
        /\ main[p].at = "LINK_UP" => rx[p].at = "DONE"

\* Only calibrated ports are counted as done, and all are when the first of
\* them leaves the TX setup.
BarrierInv ==
    \A p \in Ports :
        /\ p \in done => Calibrated(p)
        /\ tx[p].at = "DONE" => done = Ports

\* The calibration file is of no use until the first LPDC port leaves the TX setup.
FileInv ==
    /\ calFile \in {{}, Lpdc}
    /\ \A p \in Lpdc : p = FirstLpdc /\ tx[p].at = "DONE" => calFile = Lpdc

\* A port that reports itself locked is up and its PLL machine locked, or one of
\* the two has fired a state whose handler is about to run and clears the report.
LockInv ==
    \A p \in Ports : locked[p] =>
        \/ /\ main[p].at = "LINK_UP"
           /\ pll[p].at = "LOCKED" \/ (turn = p /\ call = "pll" /\ pll[p].new)
        \/ main[p].new /\ turn = p

-----------------------------------------------------------------------------
(* Types                                                                   *)

\* A machine in state s has run its handler or not.
LEMMA FsmRange ==
    ASSUME NEW S
    PROVE  /\ \A s \in S : Fire(s) \in Fsms(S)
           /\ \A f \in Fsms(S) : Stay(f) \in Fsms(S)
BY DEF Fire, Stay, Fsms

\* The handler of the main machine leaves it as m: a fired state keeps the
\* daemon at the port, otherwise it goes elsewhere.
LEMMA ContinueStep ==
    ASSUME TypeOK, NEW p \in Ports, NEW m \in Fsms(MainStates), turn = p, Continue(p, m)
    PROVE  /\ main' = [main EXCEPT ![p] = m]
           /\ main' \in [Ports -> Fsms(MainStates)]
           /\ phase' \in {"loop", "netlink", "ports"}
           /\ turn' \in 0 .. NPorts
           /\ m.new => turn' = turn /\ call' = "main"
           /\ ~m.new => turn' # p /\ call' = "bmcr"
<1>1. NPorts \in Nat /\ p \in 1 .. NPorts
  BY HalConstants DEF Ports
<1>2. main \in [Ports -> Fsms(MainStates)] /\ phase \in {"loop", "netlink", "ports"}
  BY DEF TypeOK
<1>3. main' = [main EXCEPT ![p] = m]
  BY DEF Continue
<1>4. main' \in [Ports -> Fsms(MainStates)]
  BY <1>2, <1>3
<1>5. CASE m.new
  BY <1>1, <1>2, <1>3, <1>4, <1>5 DEF Continue
<1>6. CASE ~m.new
  BY <1>1, <1>2, <1>3, <1>4, <1>6, SMT DEF Continue
<1> QED
  BY <1>5, <1>6

\* The handler of an inner machine leaves it as f.
LEMMA InnerStep ==
    ASSUME TypeOK, NEW p \in Ports, NEW f, turn = p, Inner(p, f)
    PROVE  /\ main' = main
           /\ phase' \in {"loop", "netlink", "ports"}
           /\ turn' \in 0 .. NPorts
           /\ call' \in {call, "main", "bmcr"}
           /\ f.new \/ main[p].new => turn' = turn
           /\ f.new => call' = call
           /\ ~f.new /\ main[p].new => call' = "main"
           /\ ~f.new /\ ~main[p].new => turn' # p /\ call' = "bmcr"
<1>1. main \in [Ports -> Fsms(MainStates)] /\ main[p] \in Fsms(MainStates)
  BY DEF TypeOK
<1>2. CASE f.new
  BY <1>2 DEF Inner, control, TypeOK
<1>3. CASE ~f.new
  <2>1. Continue(p, main[p])
    BY <1>3 DEF Inner
  <2>2. main' = [main EXCEPT ![p] = main[p]]
    BY <2>1, <1>1, ContinueStep
  <2>3. main' = main
    BY <2>2, <1>1
  <2> QED
    BY <2>1, <2>3, <1>1, <1>3, ContinueStep
<1> QED
  BY <1>2, <1>3

LEMMA CalibTypes ==
    ASSUME TypeOK, NEW p \in Ports, NEW since \in {"init", "link"}, RestartMinCalib(p, since)
    PROVE  minCalib' \in [Ports -> [since : {"init", "link"}, expired : BOOLEAN]]
<1>1. [since |-> since, expired |-> FALSE] \in [since : {"init", "link"}, expired : BOOLEAN]
  OBVIOUS
<1> QED
  BY <1>1 DEF TypeOK, RestartMinCalib

\* Where the daemon is after a handler of an inner machine, or of the main one.
ControlOK ==
    /\ main' \in [Ports -> Fsms(MainStates)]
    /\ phase' \in {"loop", "netlink", "ports"}
    /\ turn' \in 0 .. NPorts
    /\ call' \in {"bmcr", "main", "tx", "rx", "pll"}

LEMMA InnerTypes ==
    ASSUME TypeOK, NEW p \in Ports, NEW f, turn = p, Inner(p, f)
    PROVE  ControlOK
BY InnerStep DEF ControlOK, TypeOK

LEMMA ContinueTypes ==
    ASSUME TypeOK, NEW p \in Ports, NEW m \in Fsms(MainStates), turn = p, Continue(p, m)
    PROVE  ControlOK
<1>1. m.new \in BOOLEAN
  BY DEF Fsms
<1> QED
  BY <1>1, ContinueStep DEF ControlOK

LEMMA TxTypes == ASSUME TypeOK, NEW p \in Ports, TxStep(p) PROVE TypeOK'
<1>1. tx[p] \in Fsms(TxStates) /\ tx \in [Ports -> Fsms(TxStates)]
  BY DEF TypeOK
<1>2. \A s \in TxStates : Fire(s) \in Fsms(TxStates)
  BY FsmRange
<1>3. Stay(tx[p]) \in Fsms(TxStates)
  BY <1>1, FsmRange
<1>4. ASSUME NEW f \in Fsms(TxStates), StepTx(p, f), turn = p
      PROVE  ControlOK /\ tx' \in [Ports -> Fsms(TxStates)] /\ rx' = rx /\ pll' = pll
  BY <1>1, <1>4, InnerTypes DEF StepTx
<1>5. CASE TxStart(p)
  <2> DEFINE f == Fire(IF p \in Lpdc THEN "RESET_PCS" ELSE "WAIT_OTHER_PORTS")
  <2>1. f \in Fsms(TxStates)
    BY <1>2 DEF TxStates
  <2>2. ControlOK /\ tx' \in [Ports -> Fsms(TxStates)] /\ rx' = rx /\ pll' = pll
    BY <1>4, <1>5, <2>1 DEF TxStart, Runs
  <2>3. locked' \in [Ports -> BOOLEAN] /\ done' \subseteq Ports
    BY <1>5 DEF TxStart, TypeOK
  <2>4. hwPll' \in Plls /\ rts' \in Plls \cup {Invalid}
    <3>1. hwPll \in Plls /\ rts \in Plls \cup {Invalid}
      BY DEF TypeOK
    <3>2. [hwPll EXCEPT !.mode = "FREE_MASTER"] \in Plls
      BY <3>1 DEF Plls
    <3>3. hwPll' \in Plls
      BY <1>5, <3>1, <3>2 DEF TxStart, timing
    <3>4. UNCHANGED rts \/ PollRts(hwPll')
      BY <1>5 DEF TxStart, timing
    <3> QED
      BY <3>1, <3>3, <3>4 DEF PollRts
  <2> QED
    BY <1>5, <2>2, <2>3, <2>4 DEF TxStart, TypeOK, ControlOK, events, world
<1>6. ASSUME NEW f \in Fsms(TxStates), StepTx(p, f), turn = p,
             UNCHANGED <<locked, events, minCalib, shm, timing, world>>,
             done' \subseteq Ports, calFile' \subseteq Lpdc
      PROVE  TypeOK'
  <2>1. ControlOK /\ tx' \in [Ports -> Fsms(TxStates)] /\ rx' = rx /\ pll' = pll
    BY <1>4, <1>6
  <2> QED
    BY <1>6, <2>1 DEF TypeOK, ControlOK, events, timing, world
<1>7. done \subseteq Ports /\ calFile \subseteq Lpdc
  BY DEF TypeOK
<1>8. CASE TxResetPcs(p)
  <2>1. Fire("WAIT_LOCK") \in Fsms(TxStates)
    BY <1>2 DEF TxStates
  <2> QED
    BY <1>6, <1>7, <1>8, <2>1 DEF TxResetPcs, Runs, barrier
<1>9. ASSUME NEW ok \in BOOLEAN, TxWaitLock(p, ok) PROVE TypeOK'
  <2>1. (IF ok THEN Fire("MEASURE_PHASE") ELSE Stay(tx[p])) \in Fsms(TxStates)
    BY <1>2, <1>3 DEF TxStates
  <2> QED
    BY <1>6, <1>7, <1>9, <2>1 DEF TxWaitLock, Runs, barrier
<1>10. ASSUME NEW ok \in BOOLEAN, TxValidate(p, ok) PROVE TypeOK'
  <2>1. (IF ok THEN Fire("WAIT_OTHER_PORTS") ELSE Stay(tx[p])) \in Fsms(TxStates)
    BY <1>2, <1>3 DEF TxStates
  <2> QED
    BY <1>6, <1>7, <1>10, <2>1 DEF TxValidate, Runs, barrier
<1>11. ASSUME NEW m \in {"no", "retry", "in range"}, TxMeasurePhase(p, m) PROVE TypeOK'
  <2> DEFINE f == CASE m = "no" -> Stay(tx[p])
                    [] m = "retry" -> Fire("RESET_PCS")
                    [] m = "in range" -> Fire("VALIDATE")
  <2>1. f \in Fsms(TxStates)
    BY <1>2, <1>3 DEF TxStates
  <2>2. StepTx(p, f) /\ turn = p
    BY <1>11 DEF TxMeasurePhase, Runs
  <2> HIDE DEF f
  <2> QED
    BY <1>6, <1>7, <1>11, <2>1, <2>2 DEF TxMeasurePhase, barrier
<1>12. CASE TxWaitOtherPorts(p)
  <2>1. done' \subseteq Ports
    BY <1>7, <1>12 DEF TxWaitOtherPorts, MarkDone
  <2>2. calFile' \subseteq Lpdc
    BY <1>7, <1>12 DEF TxWaitOtherPorts, CalibrationFile
  <2>3. PICK f \in {Fire("DONE"), Stay(tx[p])} : StepTx(p, f)
    BY <1>12 DEF TxWaitOtherPorts
  <2>4. f \in Fsms(TxStates)
    BY <1>2, <1>3 DEF TxStates
  <2> QED
    BY <1>6, <1>12, <2>1, <2>2, <2>3, <2>4 DEF TxWaitOtherPorts, Runs
<1>13. CASE TxDone(p)
  <2>1. Fire("DISABLED") \in Fsms(MainStates)
    BY FsmRange DEF MainStates
  <2>2. ControlOK
    BY <1>13, <2>1, ContinueTypes DEF TxDone, Runs
  <2>3. tx' \in [Ports -> Fsms(TxStates)]
    BY <1>1, <1>3, <1>13 DEF TxDone
  <2> QED
    BY <1>13, <2>2, <2>3 DEF TxDone, TypeOK, ControlOK, barrier, events, timing, world
<1> QED
  BY <1>5, <1>8, <1>9, <1>10, <1>11, <1>12, <1>13 DEF TxStep

LEMMA RxTypes == ASSUME TypeOK, NEW p \in Ports, RxStep(p) PROVE TypeOK'
<1>1. rx[p] \in Fsms(RxStates) /\ rx \in [Ports -> Fsms(RxStates)]
  BY DEF TypeOK
<1>2. \A s \in RxStates : Fire(s) \in Fsms(RxStates)
  BY FsmRange
<1>3. Stay(rx[p]) \in Fsms(RxStates)
  BY <1>1, FsmRange
<1>4. ASSUME NEW f \in Fsms(RxStates), StepRx(p, f), turn = p,
             UNCHANGED <<barrier, locked, events, minCalib, shm, timing, world>>
      PROVE  TypeOK'
  <2>1. ControlOK /\ rx' \in [Ports -> Fsms(RxStates)] /\ tx' = tx /\ pll' = pll
    BY <1>1, <1>4, InnerTypes DEF StepRx
  <2> QED
    BY <1>4, <2>1 DEF TypeOK, ControlOK, barrier, events, timing, world
<1>5. CASE RxInit(p)
  <2>1. Fire("START") \in Fsms(RxStates)
    BY <1>2 DEF RxStates
  <2>2. ControlOK /\ rx' \in [Ports -> Fsms(RxStates)] /\ tx' = tx /\ pll' = pll
    BY <1>1, <1>5, <2>1, InnerTypes DEF RxInit, Runs, StepRx
  <2>3. minCalib' \in [Ports -> [since : {"init", "link"}, expired : BOOLEAN]]
    <3>1. RestartMinCalib(p, "link") \/ UNCHANGED minCalib
      BY <1>5 DEF RxInit
    <3> QED
      BY <3>1, CalibTypes DEF TypeOK
  <2> QED
    BY <1>5, <2>2, <2>3 DEF RxInit, TypeOK, ControlOK, barrier, events, timing, world
<1>6. ASSUME NEW ok \in BOOLEAN,
             RxStart(p, ok) \/ RxResetPcs(p, ok) \/ RxWaitLock(p, ok) \/ RxValidate(p, ok)
      PROVE  TypeOK'
  <2>1. PICK f : StepRx(p, f) /\ \/ f = Stay(rx[p])
                                 \/ f \in {Fire(s) : s \in RxStates}
    BY <1>6, SMT DEF RxStart, RxResetPcs, RxWaitLock, RxValidate, RxStates
  <2>2. f \in Fsms(RxStates)
    BY <1>2, <1>3, <2>1
  <2> QED
    BY <1>4, <1>6, <2>1, <2>2 DEF RxStart, RxResetPcs, RxWaitLock, RxValidate, Runs
<1>7. ASSUME NEW ok \in BOOLEAN, RxDone(p, ok) PROVE TypeOK'
  <2>1. CASE p \in Lpdc /\ ~Aligned(p)
    <3>1. Fire("INIT") \in Fsms(RxStates)
      BY <1>2 DEF RxStates
    <3> QED
      BY <1>4, <1>7, <2>1, <3>1 DEF RxDone, Runs
  <2>2. CASE ~(p \in Lpdc /\ ~Aligned(p))
    <3>1. Fire("LINK_UP") \in Fsms(MainStates) /\ main[p] \in Fsms(MainStates)
      BY FsmRange DEF MainStates, TypeOK
    <3>2. ControlOK
      BY <1>7, <2>2, <3>1, ContinueTypes DEF RxDone, Runs
    <3>3. rx' \in [Ports -> Fsms(RxStates)]
      BY <1>1, <1>3, <1>7, <2>2 DEF RxDone
    <3> QED
      BY <1>7, <2>2, <3>2, <3>3 DEF RxDone, TypeOK, ControlOK, barrier, events, timing, world
  <2> QED
    BY <2>1, <2>2
<1> QED
  BY <1>5, <1>6, <1>7 DEF RxStep

LEMMA PllTypes == ASSUME TypeOK, NEW p \in Ports, PllStep(p) PROVE TypeOK'
<1>1. pll[p] \in Fsms(PllStates) /\ pll \in [Ports -> Fsms(PllStates)]
  BY DEF TypeOK
<1>2. \A s \in PllStates : Fire(s) \in Fsms(PllStates)
  BY FsmRange
<1>3. Stay(pll[p]) \in Fsms(PllStates)
  BY <1>1, FsmRange
<1>4. PICK s \in PllStates, f \in {Stay(pll[p])} \cup {Fire(t) : t \in PllStates} :
         PllHandler(p, s, f)
  BY SMT DEF PllStep, PllUnlocked, PllLocking, PllLocked, PllStates
<1>5. f \in Fsms(PllStates)
  BY <1>2, <1>3, <1>4
<1>6. ControlOK /\ pll' \in [Ports -> Fsms(PllStates)] /\ tx' = tx /\ rx' = rx
  BY <1>1, <1>4, <1>5, InnerTypes DEF PllHandler, Runs, StepPll
<1>7. locked' \in [Ports -> BOOLEAN] /\ evtLock' \in [Ports -> BOOLEAN]
  <2>1. locked \in [Ports -> BOOLEAN] /\ evtLock \in [Ports -> BOOLEAN]
    BY DEF TypeOK
  <2>2. (IF pll[p].new THEN s = "LOCKED" ELSE locked[p]) \in BOOLEAN
    BY <2>1
  <2>3. (evtLock[p] /\ ~TakesLock(p)) \in BOOLEAN
    OBVIOUS
  <2> QED
    BY <1>4, <2>1, <2>2, <2>3 DEF PllHandler, ConsumeLock
<1> QED
  BY <1>4, <1>6, <1>7 DEF PllHandler, TypeOK, ControlOK, barrier, timing, world

LEMMA MainTypes == ASSUME TypeOK, NEW p \in Ports, MainStep(p) PROVE TypeOK'
<1>1. main[p] \in Fsms(MainStates) /\ main \in [Ports -> Fsms(MainStates)]
  BY DEF TypeOK
<1>2. \A s \in MainStates : Fire(s) \in Fsms(MainStates)
  BY FsmRange
<1>3. Stay(main[p]) \in Fsms(MainStates)
  BY <1>1, FsmRange
<1>4. BuildEvents(p) => evtReset' \in [Ports -> BOOLEAN]
  BY DEF BuildEvents, TypeOK
<1>5. Reset(p) => locked' \in [Ports -> BOOLEAN]
  BY DEF Reset, TypeOK
<1>6. CASE MainInit(p)
  <2>1. Fire("START") \in Fsms(TxStates)
    BY FsmRange DEF TxStates
  <2>2. tx' \in [Ports -> Fsms(TxStates)]
    BY <1>6, <2>1 DEF MainInit, TypeOK
  <2>3. main' \in [Ports -> Fsms(MainStates)]
    <3>1. [at |-> "INIT", new |-> FALSE] \in Fsms(MainStates)
      BY DEF Fsms, MainStates
    <3> QED
      BY <1>1, <1>6, <3>1 DEF MainInit
  <2>4. locked' \in [Ports -> BOOLEAN]
    BY <1>5, <1>6 DEF MainInit, TypeOK
  <2> QED
    BY <1>4, <1>6, <2>2, <2>3, <2>4 DEF MainInit, TypeOK, barrier, timing, world
<1>7. CASE MainDisabled(p)
  <2>1. PICK m \in {Fire("LINK_DOWN"), Stay(main[p])} : Continue(p, m)
    BY <1>7 DEF MainDisabled
  <2>2. ControlOK
    BY <1>2, <1>3, <1>7, <2>1, ContinueTypes DEF MainDisabled, MainStates, Runs
  <2>3. locked' \in [Ports -> BOOLEAN]
    BY <1>5, <1>7 DEF MainDisabled, TypeOK
  <2> QED
    BY <1>4, <1>7, <2>2, <2>3 DEF MainDisabled, TypeOK, ControlOK, barrier, timing, world
<1>8. CASE MainLinkDown(p)
  <2>1. ControlOK
    <3>1. CASE ~Usable(p)
      BY <1>2, <1>8, <3>1, ContinueTypes DEF MainLinkDown, MainStates, Runs
    <3>2. CASE Usable(p)
      BY <1>1, <1>3, <1>8, <3>2 DEF MainLinkDown, ControlOK, TypeOK
    <3> QED
      BY <3>1, <3>2
  <2>2. locked' \in [Ports -> BOOLEAN]
    BY <1>5, <1>8 DEF MainLinkDown, TypeOK
  <2>3. rx' \in [Ports -> Fsms(RxStates)]
    <3>1. Fire("INIT") \in Fsms(RxStates)
      BY FsmRange DEF RxStates
    <3> QED
      BY <1>8, <3>1 DEF MainLinkDown, TypeOK
  <2>4. minCalib' \in [Ports -> [since : {"init", "link"}, expired : BOOLEAN]]
    <3>1. RestartMinCalib(p, "init") \/ UNCHANGED minCalib
      BY <1>8 DEF MainLinkDown
    <3> QED
      BY <3>1, CalibTypes DEF TypeOK
  <2> QED
    BY <1>4, <1>8, <2>1, <2>2, <2>3, <2>4
       DEF MainLinkDown, TypeOK, ControlOK, barrier, timing, world
<1>9. CASE MainLinkUp(p)
  <2>1. ControlOK
    <3>1. CASE \E s \in MainStates : Continue(p, Fire(s))
      BY <1>2, <1>9, <3>1, ContinueTypes DEF MainLinkUp, Runs
    <3>2. CASE /\ main' \in {[main EXCEPT ![p] = m] : m \in {Fire("LINK_DOWN"), Stay(main[p])}}
               /\ call' = "pll" /\ UNCHANGED <<phase, turn>>
      BY <1>1, <1>2, <1>3, <3>2 DEF ControlOK, MainStates, TypeOK
    <3> QED
      BY <1>9, <3>1, <3>2 DEF MainLinkUp, MainStates
  <2>2. pll' \in [Ports -> Fsms(PllStates)]
    <3>1. Fire("UNLOCKED") \in Fsms(PllStates)
      BY FsmRange DEF PllStates
    <3> QED
      BY <1>9, <3>1 DEF MainLinkUp, TypeOK
  <2> QED
    BY <1>4, <1>9, <2>1, <2>2 DEF MainLinkUp, TypeOK, ControlOK, barrier, timing, world
<1> QED
  BY <1>6, <1>7, <1>8, <1>9 DEF MainStep

\* The main loop, the requests it serves and the world around the daemon.
Around ==
    \/ Update \/ Newlink \/ NoNews \/ CheckInitialized \/ Ppsi \/ World
    \/ \E p \in Ports, down \in BOOLEAN : ReadBmcr(p, down)
    \/ \E p \in Ports : MinCalibOver(p)

LEMMA Steps ==
    Next <=> \/ Around
             \/ \E p \in Ports : MainStep(p) \/ TxStep(p) \/ RxStep(p) \/ PllStep(p)
BY DEF Next, Daemon, Around

\* What is read from the SoftPLL or set in it is a state of it.
LEMMA PllRange ==
    ASSUME NEW h \in Plls
    PROVE  /\ \A m \in {"FREE_MASTER", "BC"} : [h EXCEPT !.mode = m, !.locked = FALSE] \in Plls
           /\ \A p \in Ports : [h EXCEPT !.ref = p, !.locked = FALSE] \in Plls
           /\ [h EXCEPT !.locked = ~@] \in Plls
           /\ PollRts(h) => rts' \in Plls \cup {Invalid}
<1>1. ASSUME NEW m \in {"FREE_MASTER", "BC"}
      PROVE  [h EXCEPT !.mode = m, !.locked = FALSE] \in Plls
  <2>1. [h EXCEPT !.mode = m] \in Plls
    BY DEF Plls
  <2> QED
    BY <2>1 DEF Plls
<1>2. ASSUME NEW p \in Ports PROVE [h EXCEPT !.ref = p, !.locked = FALSE] \in Plls
  <2>1. [h EXCEPT !.ref = p] \in Plls
    BY DEF Plls
  <2> QED
    BY <2>1 DEF Plls
<1>3. [h EXCEPT !.locked = ~@] \in Plls
  BY DEF Plls
<1>4. PollRts(h) => rts' \in Plls \cup {Invalid}
  BY DEF PollRts
<1> QED
  BY <1>1, <1>2, <1>3, <1>4

LEMMA AroundTypes == ASSUME TypeOK, Around PROVE TypeOK'
<1> DEFINE Messages == [port : Ports, up : BOOLEAN]
<1>1. hwPll \in Plls /\ netlink \in Seq(Messages) /\ Len(netlink) <= MaxNews
  BY DEF TypeOK
<1>2. CASE Update
  BY <1>1, <1>2, PllRange DEF Update, TypeOK, machines, barrier, events, world
<1>3. CASE Newlink
  <2>1. Head(netlink) \in Messages /\ Tail(netlink) \in Seq(Messages)
    <3> HIDE DEF Messages
    <3> QED
      BY <1>1, <1>3, HeadTailProperties DEF Newlink
  <2>2. Len(Tail(netlink)) <= MaxNews
    BY <1>1, <1>3, HalConstants DEF Newlink
  <2>3. evtLink' \in [Ports -> BOOLEAN] /\ turn' \in 0 .. NPorts
    BY <1>3, <2>1, HalConstants DEF Newlink, TypeOK, Ports
  <2>4. call' \in {"bmcr", "main", "tx", "rx", "pll"}
    BY <1>3 DEF Newlink, TypeOK
  <2> QED
    BY <1>3, <2>1, <2>2, <2>3, <2>4 DEF Newlink, TypeOK, machines, barrier, timing
<1>4. CASE NoNews
  BY <1>4, HalConstants DEF NoNews, TypeOK, machines, barrier, events, timing, world
<1>5. CASE CheckInitialized
  BY <1>5 DEF CheckInitialized, TypeOK, control, machines, barrier, events, timing, world
<1>6. ASSUME NEW p \in Ports, RpcLock(p) PROVE TypeOK'
  <2>1. hwPll' \in Plls
    BY <1>1, <1>6, PllRange DEF RpcLock
  <2>2. evtLock' \in [Ports -> BOOLEAN]
    BY <1>6 DEF RpcLock, TypeOK
  <2> QED
    BY <1>6, <2>1, <2>2 DEF RpcLock, TypeOK, control, machines, barrier, world
<1>7. ASSUME NEW p \in Ports, RpcReset(p) PROVE TypeOK'
  BY <1>7 DEF RpcReset, TypeOK, control, machines, barrier, timing, world
<1>8. ASSUME NEW m \in {"FREE_MASTER", "BC"}, RpcMode(m) PROVE TypeOK'
  <2>1. hwPll' \in Plls
    BY <1>1, <1>8, PllRange DEF RpcMode
  <2>2. rts' \in Plls \cup {Invalid}
    BY <1>8, <2>1 DEF RpcMode, PollRts
  <2> QED
    BY <1>8, <2>1, <2>2 DEF RpcMode, TypeOK, control, machines, barrier, events, world
<1>9. CASE PllChange
  <2>1. hwPll' \in Plls
    BY <1>1, <1>9, PllRange DEF PllChange
  <2> QED
    BY <1>9, <2>1 DEF PllChange, TypeOK, control, machines, barrier, events, world
<1>10. ASSUME NEW p \in Ports, PollSfp(p) PROVE TypeOK'
  BY <1>10 DEF PollSfp, TypeOK, control, machines, barrier, timing, world
<1>11. ASSUME NEW p \in Ports, CarrierChange(p) PROVE TypeOK'
  <2>1. carrier' \in [Ports -> BOOLEAN]
    BY <1>11 DEF CarrierChange, TypeOK
  <2>2. [port |-> p, up |-> carrier'[p]] \in Messages
    BY <2>1
  <2>3. netlink' \in Seq(Messages) /\ Len(netlink') <= MaxNews
    BY <1>1, <1>11, <2>2, HalConstants DEF CarrierChange
  <2> QED
    BY <1>11, <2>1, <2>3 DEF CarrierChange, TypeOK, control, machines, barrier, events, timing
<1>12. ASSUME NEW p \in Ports, NEW v \in Phys, PhyChange(p, v) PROVE TypeOK'
  BY <1>12 DEF PhyChange, TypeOK, control, machines, barrier, events, timing
<1>13. ASSUME NEW p \in Ports, NEW down \in BOOLEAN, ReadBmcr(p, down) PROVE TypeOK'
  BY <1>13 DEF ReadBmcr, TypeOK, machines, barrier, timing, world
<1>14. ASSUME NEW p \in Ports, MinCalibOver(p) PROVE TypeOK'
  <2>1. minCalib' \in [Ports -> [since : {"init", "link"}, expired : BOOLEAN]]
    BY <1>14 DEF MinCalibOver, TypeOK
  <2> QED
    BY <1>14, <2>1 DEF MinCalibOver, TypeOK, control, machines, barrier, events, timing, world
<1> QED
  BY <1>2, <1>3, <1>4, <1>5, <1>6, <1>7, <1>8, <1>9, <1>10, <1>11, <1>12, <1>13, <1>14
     DEF Around, Ppsi, World

LEMMA InitTypes == Init => TypeOK
<1> SUFFICES ASSUME Init PROVE TypeOK
  OBVIOUS
<1>1. 1 \in Ports
  BY HalConstants DEF Ports
<1>2. /\ Fire("none") \in Fsms(MainStates)
      /\ Stay(Fire("none")) \in Fsms(TxStates)
      /\ Stay(Fire("none")) \in Fsms(RxStates)
      /\ Stay(Fire("none")) \in Fsms(PllStates)
  BY DEF Fire, Stay, Fsms, MainStates, TxStates, RxStates, PllStates
<1>3. hwPll \in Plls
  BY <1>1 DEF Init, Plls
<1>4. minCalib \in [Ports -> [since : {"init", "link"}, expired : BOOLEAN]]
  BY DEF Init
<1>5. netlink \in Seq([port : Ports, up : BOOLEAN]) /\ Len(netlink) <= MaxNews
  BY HalConstants DEF Init
<1>6. {locked, evtLink, evtReset, evtLock, pdown, sfp, carrier} \subseteq [Ports -> BOOLEAN]
  BY DEF Init
<1> QED
  BY <1>2, <1>3, <1>4, <1>5, <1>6, HalConstants DEF Init, TypeOK

LEMMA TypeStep == ASSUME TypeOK, [Next]_vars PROVE TypeOK'
<1>1. CASE Next
  BY <1>1, Steps, AroundTypes, MainTypes, TxTypes, RxTypes, PllTypes
<1>2. CASE UNCHANGED vars
  BY <1>2 DEF vars, control, machines, barrier, events, timing, world, TypeOK
<1> QED
  BY <1>1, <1>2

\* Every variable stays in its range: the loop over the ports never runs the
\* machines of a port beyond the last one, a machine never leaves the states of its table.
THEOREM TypeCorrect == Spec => []TypeOK
BY InitTypes, TypeStep, PTL DEF Spec

-----------------------------------------------------------------------------
(* What a step of each machine does to the others                          *)

\* Where the daemon goes when the handler of an inner machine leaves it as f and
\* the main machine alone.
Returns(p, f) ==
    /\ main' = main
    /\ f.new \/ main[p].new => turn' = p
    /\ f.new => call' = call
    /\ ~f.new /\ main[p].new => call' = "main"
    /\ ~f.new /\ ~main[p].new => turn' # p /\ call' = "bmcr"

\* ... and when it makes the main machine fire s.
Fires(p, s) == main' = [main EXCEPT ![p] = Fire(s)] /\ turn' = p /\ call' = "main"

LEMMA FiresStep ==
    ASSUME TypeOK, NEW p \in Ports, NEW s \in MainStates, turn = p, Continue(p, Fire(s))
    PROVE  Fires(p, s)
<1>1. Fire(s) \in Fsms(MainStates) /\ Fire(s).new
  BY FsmRange DEF Fire
<1> QED
  BY <1>1, ContinueStep DEF Fires

LEMMA ReturnsStep ==
    ASSUME TypeOK, NEW p \in Ports, NEW f, turn = p, Inner(p, f)
    PROVE  Returns(p, f)
BY InnerStep DEF Returns

LEMMA TxEffect ==
    ASSUME TypeOK, NEW p \in Ports, TxStep(p)
    PROVE  /\ turn = p /\ call = "tx"
           /\ UNCHANGED <<rx, pll, events, carrier, netlink>>
           /\ \A q \in Ports \ {p} : tx'[q] = tx[q] /\ locked'[q] = locked[q]
           /\ locked'[p] => locked[p]
           /\ \/ Returns(p, tx'[p])
              \/ Fires(p, "DISABLED") /\ tx'[p].at = "DONE"
<1>1. tx \in [Ports -> Fsms(TxStates)] /\ locked \in [Ports -> BOOLEAN]
  BY DEF TypeOK
<1>2. turn = p /\ call = "tx"
  BY DEF TxStep, TxStart, TxResetPcs, TxWaitLock, TxMeasurePhase, TxValidate,
         TxWaitOtherPorts, TxDone, Runs
<1>3. UNCHANGED <<events, carrier, netlink>> /\ locked' \in {locked, [locked EXCEPT ![p] = FALSE]}
  BY DEF TxStep, TxStart, TxResetPcs, TxWaitLock, TxMeasurePhase, TxValidate,
         TxWaitOtherPorts, TxDone, world
<1>4. CASE TxDone(p)
  <2>1. Fires(p, "DISABLED")
    BY <1>2, <1>4, FiresStep DEF TxDone, MainStates
  <2>2. tx'[p].at = "DONE" /\ UNCHANGED <<rx, pll>>
    BY <1>1, <1>4 DEF TxDone, Stay
  <2>3. \A q \in Ports \ {p} : tx'[q] = tx[q]
    BY <1>1, <1>4 DEF TxDone
  <2> QED
    BY <1>1, <1>2, <1>3, <2>1, <2>2, <2>3
<1>5. CASE \E f : StepTx(p, f)
  <2>1. PICK f : StepTx(p, f)
    BY <1>5
  <2>2. tx'[p] = f /\ UNCHANGED <<rx, pll>> /\ \A q \in Ports \ {p} : tx'[q] = tx[q]
    BY <1>1, <2>1 DEF StepTx
  <2>3. Returns(p, f)
    BY <1>2, <2>1, ReturnsStep DEF StepTx
  <2> QED
    BY <1>1, <1>2, <1>3, <2>2, <2>3
<1> QED
  BY <1>4, <1>5 DEF TxStep, TxStart, TxResetPcs, TxWaitLock, TxMeasurePhase, TxValidate,
                    TxWaitOtherPorts

LEMMA RxEffect ==
    ASSUME TypeOK, NEW p \in Ports, RxStep(p)
    PROVE  /\ turn = p /\ call = "rx"
           /\ UNCHANGED <<tx, pll, done, calFile, locked, events, carrier, netlink>>
           /\ \A q \in Ports \ {p} : rx'[q] = rx[q]
           /\ \/ Returns(p, rx'[p])
              \/ Fires(p, "LINK_UP") /\ rx'[p].at = "DONE"
<1>1. rx \in [Ports -> Fsms(RxStates)] /\ rx[p] \in Fsms(RxStates) /\ main[p] \in Fsms(MainStates)
  BY DEF TypeOK
<1>2. turn = p /\ call = "rx"
  BY DEF RxStep, RxInit, RxStart, RxResetPcs, RxWaitLock, RxValidate, RxDone, Runs
<1>3. UNCHANGED <<done, calFile, locked, events, carrier, netlink>>
  BY DEF RxStep, RxInit, RxStart, RxResetPcs, RxWaitLock, RxValidate, RxDone, barrier, world
<1>4. CASE \E f : StepRx(p, f)
  <2>1. PICK f : StepRx(p, f)
    BY <1>4
  <2>2. rx'[p] = f /\ UNCHANGED <<tx, pll>> /\ \A q \in Ports \ {p} : rx'[q] = rx[q]
    BY <1>1, <2>1 DEF StepRx
  <2>3. Returns(p, f)
    BY <1>2, <2>1, ReturnsStep DEF StepRx
  <2> QED
    BY <1>1, <1>2, <1>3, <2>2, <2>3
<1>5. ASSUME NEW m \in {Fire("LINK_UP"), main[p]}, rx[p].at = "DONE",
             rx' = [rx EXCEPT ![p] = Stay(@)], Continue(p, m), UNCHANGED <<tx, pll>>
      PROVE  /\ UNCHANGED <<tx, pll>>
             /\ \A q \in Ports \ {p} : rx'[q] = rx[q]
             /\ \/ Returns(p, rx'[p])
                \/ Fires(p, "LINK_UP") /\ rx'[p].at = "DONE"
  <2>1. rx'[p] = Stay(rx[p]) /\ \A q \in Ports \ {p} : rx'[q] = rx[q]
    BY <1>1, <1>5
  <2>2. rx'[p].at = "DONE" /\ ~rx'[p].new
    BY <1>5, <2>1 DEF Stay
  <2>3. CASE m = Fire("LINK_UP")
    BY <1>2, <1>5, <2>1, <2>2, <2>3, FiresStep DEF MainStates
  <2>4. CASE m = main[p]
    <3>1. Inner(p, rx'[p])
      BY <1>5, <2>2, <2>4 DEF Inner
    <3> QED
      BY <1>2, <1>5, <2>1, <3>1, ReturnsStep
  <2> QED
    BY <2>3, <2>4
<1>6. ASSUME NEW ok \in BOOLEAN, RxDone(p, ok), ~(p \in Lpdc /\ ~Aligned(p))
      PROVE  \E m \in {Fire("LINK_UP"), main[p]} :
                rx' = [rx EXCEPT ![p] = Stay(@)] /\ Continue(p, m)
                /\ UNCHANGED <<tx, pll>> /\ rx[p].at = "DONE"
  BY <1>6 DEF RxDone
<1> QED
  BY <1>2, <1>3, <1>4, <1>5, <1>6
     DEF RxStep, RxInit, RxStart, RxResetPcs, RxWaitLock, RxValidate, RxDone

LEMMA PllEffect ==
    ASSUME TypeOK, NEW p \in Ports, PllStep(p)
    PROVE  /\ turn = p /\ call = "pll"
           /\ UNCHANGED <<tx, rx, done, calFile, evtLink, evtReset, pdown, sfp, carrier, netlink>>
           /\ \A q \in Ports \ {p} : pll'[q] = pll[q] /\ locked'[q] = locked[q]
           /\ locked'[p] = IF pll[p].new THEN pll[p].at = "LOCKED" ELSE locked[p]
           /\ pll'[p].at = pll[p].at \/ pll'[p].new
           /\ Returns(p, pll'[p])
<1>1. pll \in [Ports -> Fsms(PllStates)] /\ locked \in [Ports -> BOOLEAN]
  BY DEF TypeOK
<1>2. PICK f \in {Stay(pll[p])} \cup {Fire(t) : t \in PllStates} : PllHandler(p, pll[p].at, f)
  BY SMT DEF PllStep, PllUnlocked, PllLocking, PllLocked, PllStates, PllHandler
<1>3. turn = p /\ call = "pll"
  BY <1>2 DEF PllHandler, Runs
<1>4. pll'[p] = f /\ UNCHANGED <<tx, rx>> /\ \A q \in Ports \ {p} : pll'[q] = pll[q]
  BY <1>1, <1>2 DEF PllHandler, StepPll
<1>5. f.at = pll[p].at \/ f.new
  BY <1>2 DEF Fire, Stay
<1>6. Returns(p, f)
  BY <1>2, <1>3, ReturnsStep DEF PllHandler, StepPll
<1>7. /\ \A q \in Ports \ {p} : locked'[q] = locked[q]
      /\ locked'[p] = IF pll[p].new THEN pll[p].at = "LOCKED" ELSE locked[p]
  BY <1>1, <1>2 DEF PllHandler
<1> QED
  BY <1>2, <1>3, <1>4, <1>5, <1>6, <1>7 DEF PllHandler, barrier, world

LEMMA AroundEffect ==
    ASSUME TypeOK, Around
    PROVE  /\ UNCHANGED <<machines, barrier, locked>>
           /\ \A p \in Ports : turn = p => turn' = p /\ (call' = call \/ call = "bmcr")
           /\ \A p \in Ports : turn' = p =>
                \/ call' \in {"main", "bmcr"}
                \/ UNCHANGED <<turn, call, pdown, sfp, evtLink>>
<1>1. \A p \in Ports : p # 0
  BY HalConstants DEF Ports
<1> QED
  BY <1>1 DEF Around, Update, Newlink, NoNews, CheckInitialized, Ppsi, World, ReadBmcr,
     MinCalibOver, PllChange, PollSfp, CarrierChange, PhyChange, RpcLock, RpcReset, RpcMode,
     Idle, Runs, machines, barrier, control, events, world

-----------------------------------------------------------------------------
(* The inductive invariant                                                 *)

IInv ==
    /\ TypeOK /\ CallInv /\ SetupInv /\ BarrierInv /\ FileInv /\ LockInv /\ LinkKnown

LEMMA CallStep == ASSUME IInv, [Next]_vars PROVE CallInv'
<1> USE DEF CallInv
<1>1. main \in [Ports -> Fsms(MainStates)] /\ CallInv
  BY DEF IInv, TypeOK
<1>2. ASSUME NEW p \in Ports, TxStep(p) PROVE CallInv'
  <2>1. main[p].at = "INIT" /\ turn = p /\ call = "tx"
    BY <1>1, <1>2, TxEffect DEF IInv
  <2>2. \A q \in Ports : turn' = q => \/ call' \in {"main", "bmcr"}
                                      \/ q = p /\ call' = "tx" /\ main' = main
    BY <1>2, <2>1, TxEffect DEF IInv, Returns, Fires
  <2> QED
    BY <2>1, <2>2
<1>3. ASSUME NEW p \in Ports, RxStep(p) PROVE CallInv'
  <2>1. main[p].at = "LINK_DOWN" /\ ~main[p].new /\ Usable(p) /\ turn = p /\ call = "rx"
    BY <1>1, <1>3, RxEffect DEF IInv
  <2>2. \A q \in Ports : turn' = q => \/ call' \in {"main", "bmcr"}
                                      \/ q = p /\ call' = "rx" /\ main' = main
    BY <1>3, <2>1, RxEffect DEF IInv, Returns, Fires
  <2>3. Usable(p)'
    BY <1>3, <2>1, RxEffect DEF IInv, Usable, events
  <2> QED
    BY <2>1, <2>2, <2>3
<1>4. ASSUME NEW p \in Ports, PllStep(p) PROVE CallInv'
  <2>1. /\ Usable(p) /\ turn = p /\ call = "pll"
        /\ \/ main[p].at = "LINK_UP" /\ ~main[p].new /\ evtLink[p]
           \/ main[p].at = "LINK_DOWN" /\ main[p].new
    BY <1>1, <1>4, PllEffect DEF IInv
  <2>2. \A q \in Ports : turn' = q => \/ call' \in {"main", "bmcr"}
                                      \/ q = p /\ call' = "pll" /\ main' = main
    BY <1>4, <2>1, PllEffect DEF IInv, Returns
  <2>3. Usable(p)' /\ evtLink' = evtLink /\ main' = main
    BY <1>4, <2>1, PllEffect DEF IInv, Usable, Returns
  <2> QED
    BY <2>1, <2>2, <2>3
<1>5. ASSUME NEW p \in Ports, MainStep(p) PROVE CallInv'
  <2>1. turn = p /\ call = "main"
    BY <1>5 DEF MainStep, MainInit, MainDisabled, MainLinkDown, MainLinkUp, Runs
  <2>2. CASE \E m \in Fsms(MainStates) : Continue(p, m)
    BY <2>1, <2>2, ContinueStep DEF IInv, Fsms
  <2>3. CASE MainInit(p)
    BY <1>1, <2>1, <2>3 DEF MainInit
  <2>4. CASE MainLinkDown(p) /\ Usable(p)
    <3>1. Usable(p)'
      BY <2>4 DEF MainLinkDown, Usable
    <3> QED
      BY <1>1, <2>1, <2>4, <3>1 DEF MainLinkDown, Stay
  <2>5. CASE MainLinkUp(p) /\ Usable(p) /\ evtLink[p] /\ ~evtReset[p]
    <3>1. Usable(p)' /\ evtLink'[p]
      BY <2>5 DEF MainLinkUp, Usable
    <3>2. /\ turn' = turn /\ call' = "pll"
          /\ \/ main' = [main EXCEPT ![p] = Fire("LINK_DOWN")]
             \/ main' = [main EXCEPT ![p] = Stay(@)] /\ main[p].at = "LINK_UP"
      BY <2>5 DEF MainLinkUp
    <3> QED
      BY <1>1, <2>1, <3>1, <3>2 DEF Stay, Fire
  <2>6. \A s \in MainStates : Fire(s) \in Fsms(MainStates)
    BY FsmRange
  <2>7. Stay(main[p]) \in Fsms(MainStates)
    BY <1>1, FsmRange
  <2> QED
    BY <1>5, <2>2, <2>3, <2>4, <2>5, <2>6, <2>7
       DEF MainStep, MainDisabled, MainLinkDown, MainLinkUp, MainStates
<1>6. CASE Around
  BY <1>1, <1>6, AroundEffect DEF IInv, machines, Usable
<1>7. CASE UNCHANGED vars
  BY <1>1, <1>7 DEF vars, control, machines, events, Usable
<1> QED
  BY <1>2, <1>3, <1>4, <1>5, <1>6, <1>7, Steps

\* The handlers of the main machine touch the inner machines only on entry of INIT,
\* LINK_DOWN and LINK_UP, and nothing of another port.
LEMMA MainEffect ==
    ASSUME TypeOK, SetupInv, NEW p \in Ports, MainStep(p)
    PROVE  /\ turn = p /\ call = "main"
           /\ UNCHANGED <<done, calFile, evtLink, pdown, sfp, carrier, netlink>>
           /\ \A q \in Ports \ {p} : /\ main'[q] = main[q] /\ tx'[q] = tx[q] /\ rx'[q] = rx[q]
                                     /\ pll'[q] = pll[q] /\ locked'[q] = locked[q]
           /\ tx'[p] # tx[p] => tx[p].at = "none" /\ tx'[p].at = "START"
           /\ \/ main'[p].at = "INIT" /\ ~main'[p].new /\ main[p].at \in {"none", "INIT"}
              \/ /\ main[p].at \notin {"none", "INIT"} /\ main'[p].at \notin {"none", "INIT"}
                 /\ tx'[p] = tx[p]
<1>1. /\ main \in [Ports -> Fsms(MainStates)] /\ tx \in [Ports -> Fsms(TxStates)]
      /\ rx \in [Ports -> Fsms(RxStates)] /\ pll \in [Ports -> Fsms(PllStates)]
      /\ locked \in [Ports -> BOOLEAN]
  BY DEF TypeOK
<1>2. turn = p /\ call = "main"
  BY DEF MainStep, MainInit, MainDisabled, MainLinkDown, MainLinkUp, Runs
<1>3. UNCHANGED <<done, calFile, evtLink, pdown, sfp, carrier, netlink>>
  BY DEF MainStep, MainInit, MainDisabled, MainLinkDown, MainLinkUp, barrier, world
<1>4. \A q \in Ports \ {p} : /\ tx'[q] = tx[q] /\ rx'[q] = rx[q]
                             /\ pll'[q] = pll[q] /\ locked'[q] = locked[q]
  BY <1>1 DEF MainStep, MainInit, MainDisabled, MainLinkDown, MainLinkUp, Reset
<1>5. CASE MainInit(p)
  <2>1. main'[p].at = "INIT" /\ ~main'[p].new /\ main[p].at \in {"none", "INIT"}
    BY <1>1, <1>5 DEF MainInit
  <2>2. tx'[p] # tx[p] => tx[p].at = "none" /\ tx'[p].at = "START"
    BY <1>1, <1>5 DEF MainInit, Entering, SetupInv, Fire
  <2>3. \A q \in Ports \ {p} : main'[q] = main[q]
    BY <1>1, <1>5 DEF MainInit
  <2> QED
    BY <1>2, <1>3, <1>4, <2>1, <2>2, <2>3
<1>6. CASE MainDisabled(p) \/ MainLinkDown(p) \/ MainLinkUp(p)
  <2>1. tx' = tx /\ main[p].at \in {"DISABLED", "LINK_DOWN", "LINK_UP"}
    BY <1>6 DEF MainDisabled, MainLinkDown, MainLinkUp
  <2>2. PICK m \in {Fire("DISABLED"), Fire("LINK_DOWN"), Stay(main[p])} :
           main' = [main EXCEPT ![p] = m]
    BY <1>6 DEF MainDisabled, MainLinkDown, MainLinkUp, Continue
  <2>3. m.at \notin {"none", "INIT"}
    BY <2>1, <2>2 DEF Fire, Stay
  <2> QED
    BY <1>1, <1>2, <1>3, <1>4, <2>1, <2>2, <2>3
<1> QED
  BY <1>5, <1>6 DEF MainStep

LEMMA SetupStep == ASSUME IInv, [Next]_vars PROVE SetupInv'
<1> USE DEF SetupInv
<1>1. /\ main \in [Ports -> Fsms(MainStates)] /\ SetupInv /\ CallInv /\ TypeOK
      /\ rx \in [Ports -> Fsms(RxStates)]
  BY DEF IInv, TypeOK
<1>2. ASSUME NEW p \in Ports, TxStep(p) PROVE SetupInv'
  <2>1. main[p].at = "INIT" /\ ~main[p].new
    BY <1>1, <1>2, TxEffect DEF CallInv
  <2>2. CASE Returns(p, tx'[p])
    BY <1>1, <1>2, <2>1, <2>2, TxEffect DEF Returns
  <2>3. CASE Fires(p, "DISABLED") /\ tx'[p].at = "DONE"
    BY <1>1, <1>2, <2>1, <2>3, TxEffect DEF Fires, Fire
  <2> QED
    BY <1>1, <1>2, <2>2, <2>3, TxEffect
<1>3. ASSUME NEW p \in Ports, RxStep(p) PROVE SetupInv'
  <2>1. main[p].at = "LINK_DOWN"
    BY <1>1, <1>3, RxEffect DEF CallInv
  <2>2. CASE Returns(p, rx'[p])
    BY <1>1, <1>3, <2>1, <2>2, RxEffect DEF Returns
  <2>3. CASE Fires(p, "LINK_UP") /\ rx'[p].at = "DONE"
    BY <1>1, <1>3, <2>1, <2>3, RxEffect DEF Fires, Fire
  <2> QED
    BY <1>1, <1>3, <2>2, <2>3, RxEffect
<1>4. ASSUME NEW p \in Ports, PllStep(p) PROVE SetupInv'
  BY <1>1, <1>4, PllEffect DEF Returns
<1>5. ASSUME NEW p \in Ports, MainStep(p) PROVE SetupInv'
  <2>1. ASSUME NEW q \in Ports \ {p}
        PROVE  main'[q] = main[q] /\ tx'[q] = tx[q] /\ rx'[q] = rx[q]
    BY <1>1, <1>5, MainEffect
  <2>2. \/ main'[p].at = "INIT" /\ ~main'[p].new
        \/ main'[p].at \notin {"none", "INIT"} /\ tx'[p].at = "DONE"
    BY <1>1, <1>5, MainEffect
  <2>3. main'[p].at = "LINK_UP" => rx'[p].at = "DONE"
    <3>1. CASE MainInit(p)
      BY <1>1, <3>1 DEF MainInit
    <3>2. CASE MainDisabled(p)
      BY <1>1, <3>2 DEF MainDisabled, Continue, Fire, Stay
    <3>3. CASE MainLinkDown(p)
      BY <1>1, <3>3 DEF MainLinkDown, Continue, Fire, Stay
    <3>4. CASE MainLinkUp(p)
      BY <1>1, <3>4 DEF MainLinkUp
    <3> QED
      BY <1>5, <3>1, <3>2, <3>3, <3>4 DEF MainStep
  <2> QED
    BY <1>1, <2>1, <2>2, <2>3
<1>6. CASE Around
  BY <1>1, <1>6, AroundEffect DEF machines
<1>7. CASE UNCHANGED vars
  BY <1>1, <1>7 DEF vars, machines
<1> QED
  BY <1>2, <1>3, <1>4, <1>5, <1>6, <1>7, Steps

\* What the handlers of the TX setup do to the mask of ports done and to the
\* calibration file.
LEMMA TxBarrierEffect ==
    ASSUME TypeOK, NEW p \in Ports, TxStep(p)
    PROVE  \/ /\ ~Calibrated(p) /\ tx'[p].at # "DONE"
              /\ done' \in {done, done \ {p}} /\ calFile' = calFile
           \/ /\ tx[p].at = "WAIT_OTHER_PORTS" /\ tx'[p].at = "DONE"
              /\ done' \in {done, done \cup {p}} /\ done' = Ports
              /\ calFile' = CalibrationFile(p)
           \/ /\ tx[p].at = "WAIT_OTHER_PORTS" /\ tx'[p].at = "WAIT_OTHER_PORTS"
              /\ done' \in {done, done \cup {p}} /\ calFile' = calFile
           \/ /\ tx[p].at = "DONE" /\ tx'[p].at = "DONE"
              /\ done' = done /\ calFile' = calFile
<1>1. tx \in [Ports -> Fsms(TxStates)]
  BY DEF TypeOK
<1>2. \A f : StepTx(p, f) => tx'[p] = f
  BY <1>1 DEF StepTx
<1>3. CASE TxStart(p)
  BY <1>2, <1>3 DEF TxStart, Calibrated, Fire
<1>4. CASE TxResetPcs(p)
  BY <1>2, <1>4 DEF TxResetPcs, Calibrated, Fire, barrier
<1>5. ASSUME NEW ok \in BOOLEAN, TxWaitLock(p, ok) \/ TxValidate(p, ok)
      PROVE  /\ ~Calibrated(p) /\ tx'[p].at # "DONE"
             /\ done' \in {done, done \ {p}} /\ calFile' = calFile
  BY <1>2, <1>5 DEF TxWaitLock, TxValidate, Calibrated, Fire, Stay, barrier
<1>6. ASSUME NEW m \in {"no", "retry", "in range"}, TxMeasurePhase(p, m)
      PROVE  /\ ~Calibrated(p) /\ tx'[p].at # "DONE"
             /\ done' \in {done, done \ {p}} /\ calFile' = calFile
  <2> DEFINE f == CASE m = "no" -> Stay(tx[p])
                    [] m = "retry" -> Fire("RESET_PCS")
                    [] m = "in range" -> Fire("VALIDATE")
  <2>1. f \in {Stay(tx[p]), Fire("RESET_PCS"), Fire("VALIDATE")}
    OBVIOUS
  <2>2. StepTx(p, f)
    BY <1>6 DEF TxMeasurePhase
  <2> HIDE DEF f
  <2>3. tx'[p] = f
    BY <1>2, <2>2
  <2>4. tx[p].at = "MEASURE_PHASE" /\ UNCHANGED <<done, calFile>>
    BY <1>6 DEF TxMeasurePhase, barrier
  <2>5. f.at \in {"MEASURE_PHASE", "RESET_PCS", "VALIDATE"}
    <3>1. Stay(tx[p]).at = "MEASURE_PHASE"
      BY <2>4 DEF Stay
    <3>2. Fire("RESET_PCS").at = "RESET_PCS" /\ Fire("VALIDATE").at = "VALIDATE"
      BY DEF Fire
    <3> QED
      BY <2>1, <3>1, <3>2
  <2> QED
    BY <2>3, <2>4, <2>5 DEF Calibrated
<1>7. CASE TxWaitOtherPorts(p)
  BY <1>2, <1>7 DEF TxWaitOtherPorts, MarkDone, Fire, Stay
<1>8. CASE TxDone(p)
  BY <1>1, <1>8 DEF TxDone, Stay, barrier
<1> QED
  BY <1>3, <1>4, <1>5, <1>6, <1>7, <1>8 DEF TxStep

LEMMA BarrierStep == ASSUME IInv, [Next]_vars PROVE BarrierInv'
<1> USE DEF BarrierInv, Calibrated
<1>1. BarrierInv /\ TypeOK /\ SetupInv /\ done \subseteq Ports
  BY DEF IInv, TypeOK
<1>2. ASSUME NEW p \in Ports, TxStep(p) PROVE BarrierInv'
  <2>1. \A q \in Ports \ {p} : tx'[q] = tx[q]
    BY <1>1, <1>2, TxEffect
  <2>2. CASE ~Calibrated(p) /\ tx'[p].at # "DONE" /\ done' \in {done, done \ {p}}
    <3>1. p \notin done /\ done' = done
      BY <1>1, <2>2
    <3> QED
      BY <1>1, <2>1, <2>2, <3>1
  <2>3. CASE /\ tx[p].at = "WAIT_OTHER_PORTS" /\ tx'[p].at = "DONE"
             /\ done' \in {done, done \cup {p}} /\ done' = Ports
    BY <1>1, <2>1, <2>3
  <2>4. CASE /\ tx[p].at = "WAIT_OTHER_PORTS" /\ tx'[p].at = "WAIT_OTHER_PORTS"
             /\ done' \in {done, done \cup {p}}
    BY <1>1, <2>1, <2>4
  <2>5. CASE tx[p].at = "DONE" /\ tx'[p].at = "DONE" /\ done' = done
    BY <1>1, <2>1, <2>5
  <2> QED
    BY <1>1, <1>2, <2>2, <2>3, <2>4, <2>5, TxBarrierEffect
<1>3. ASSUME NEW p \in Ports, RxStep(p) PROVE BarrierInv'
  BY <1>1, <1>3, RxEffect
<1>4. ASSUME NEW p \in Ports, PllStep(p) PROVE BarrierInv'
  BY <1>1, <1>4, PllEffect
<1>5. ASSUME NEW p \in Ports, MainStep(p) PROVE BarrierInv'
  BY <1>1, <1>5, MainEffect
<1>6. CASE Around
  BY <1>1, <1>6, AroundEffect DEF machines, barrier
<1>7. CASE UNCHANGED vars
  BY <1>1, <1>7 DEF vars, machines, barrier
<1> QED
  BY <1>2, <1>3, <1>4, <1>5, <1>6, <1>7, Steps

LEMMA FileStep == ASSUME IInv, [Next]_vars PROVE FileInv'
<1> USE DEF FileInv
<1>1. FileInv /\ TypeOK /\ SetupInv /\ Lpdc \subseteq Ports
  BY HalConstants DEF IInv
<1>2. ASSUME NEW p \in Ports, TxStep(p) PROVE FileInv'
  <2>1. \A q \in Ports \ {p} : tx'[q] = tx[q]
    BY <1>1, <1>2, TxEffect
  <2> QED
    BY <1>1, <1>2, <2>1, TxBarrierEffect DEF CalibrationFile, Calibrated
<1>3. ASSUME NEW p \in Ports, RxStep(p) PROVE FileInv'
  BY <1>1, <1>3, RxEffect
<1>4. ASSUME NEW p \in Ports, PllStep(p) PROVE FileInv'
  BY <1>1, <1>4, PllEffect
<1>5. ASSUME NEW p \in Ports, MainStep(p) PROVE FileInv'
  BY <1>1, <1>5, MainEffect
<1>6. CASE Around
  BY <1>1, <1>6, AroundEffect DEF machines, barrier
<1>7. CASE UNCHANGED vars
  BY <1>1, <1>7 DEF vars, machines, barrier
<1> QED
  BY <1>2, <1>3, <1>4, <1>5, <1>6, <1>7, Steps

LEMMA LockStep == ASSUME IInv, [Next]_vars PROVE LockInv'
<1> USE DEF LockInv
<1>1. /\ LockInv /\ TypeOK /\ SetupInv /\ CallInv
      /\ main \in [Ports -> Fsms(MainStates)] /\ locked \in [Ports -> BOOLEAN]
      /\ pll \in [Ports -> Fsms(PllStates)]
  BY DEF IInv, TypeOK
<1>2. ASSUME NEW p \in Ports, TxStep(p) PROVE LockInv'
  <2>1. main[p].at = "INIT" /\ ~main[p].new /\ turn = p /\ call = "tx"
    BY <1>1, <1>2, TxEffect DEF CallInv, SetupInv
  <2>2. ~locked'[p]
    BY <1>1, <1>2, <2>1, TxEffect
  <2>3. ASSUME NEW q \in Ports \ {p}
        PROVE  main'[q] = main[q] /\ locked'[q] = locked[q] /\ pll'[q] = pll[q]
    BY <1>1, <1>2, TxEffect DEF Returns, Fires
  <2> QED
    BY <1>1, <2>1, <2>2, <2>3
<1>3. ASSUME NEW p \in Ports, RxStep(p) PROVE LockInv'
  <2>1. main[p].at = "LINK_DOWN" /\ ~main[p].new /\ turn = p /\ call = "rx"
    BY <1>1, <1>3, RxEffect DEF CallInv
  <2>2. locked' = locked /\ pll' = pll /\ ~locked[p]
    BY <1>1, <1>3, <2>1, RxEffect
  <2>3. ASSUME NEW q \in Ports \ {p} PROVE main'[q] = main[q]
    BY <1>1, <1>3, RxEffect DEF Returns, Fires
  <2> QED
    BY <1>1, <2>1, <2>2, <2>3
<1>4. ASSUME NEW p \in Ports, PllStep(p) PROVE LockInv'
  <2>1. turn = p /\ call = "pll" /\ main' = main
    BY <1>1, <1>4, PllEffect DEF Returns
  <2>2. \/ main[p].at = "LINK_UP" /\ ~main[p].new
        \/ main[p].at = "LINK_DOWN" /\ main[p].new
    BY <1>1, <2>1 DEF CallInv
  <2>3. ASSUME NEW q \in Ports \ {p} PROVE pll'[q] = pll[q] /\ locked'[q] = locked[q]
    BY <1>1, <1>4, PllEffect
  <2>4. CASE main[p].new
    <3>1. turn' = p
      BY <1>1, <1>4, <2>4, PllEffect DEF Returns
    <3> QED
      BY <1>1, <2>1, <2>3, <2>4, <3>1
  <2>5. CASE ~main[p].new
    <3>1. locked'[p] => pll[p].at = "LOCKED"
      BY <1>1, <1>4, <2>5, PllEffect
    <3>2. pll'[p].at = pll[p].at \/ (pll'[p].new /\ turn' = p /\ call' = "pll")
      BY <1>1, <1>4, <2>1, PllEffect DEF Returns
    <3> QED
      BY <1>1, <2>1, <2>2, <2>3, <2>5, <3>1, <3>2
  <2> QED
    BY <2>4, <2>5
<1>5. ASSUME NEW p \in Ports, MainStep(p) PROVE LockInv'
  <2>1. turn = p /\ call = "main"
    BY <1>1, <1>5, MainEffect
  <2>2. ASSUME NEW q \in Ports \ {p}
        PROVE  main'[q] = main[q] /\ locked'[q] = locked[q] /\ pll'[q] = pll[q]
    BY <1>1, <1>5, MainEffect
  <2>3. locked'[p] => \/ /\ main'[p].at = "LINK_UP"
                         /\ pll'[p].at = "LOCKED" \/ (turn' = p /\ call' = "pll" /\ pll'[p].new)
                      \/ main'[p].new /\ turn' = p
    <3>1. CASE ~locked'[p]
      BY <3>1
    <3>2. CASE \E s \in MainStates : Continue(p, Fire(s))
      <4>1. PICK s \in MainStates : Fires(p, s)
        BY <1>1, <2>1, <3>2, FiresStep
      <4> QED
        BY <1>1, <4>1 DEF Fires, Fire
    <3>3. CASE MainInit(p)
      <4>1. ~locked'[p]
        BY <1>1, <2>1, <3>3 DEF MainInit, Entering, Reset
      <4> QED
        BY <4>1
    <3>4. CASE MainDisabled(p)
      <4>1. \/ ~locked'[p]
            \/ \E s \in MainStates : Continue(p, Fire(s))
        BY <1>1, <2>1, <3>4 DEF MainDisabled, Entering, Reset, MainStates
      <4> QED
        BY <3>1, <3>2, <4>1
    <3>5. CASE MainLinkDown(p)
      <4>1. \/ ~locked'[p]
            \/ \E s \in MainStates : Continue(p, Fire(s))
        BY <1>1, <2>1, <3>5 DEF MainLinkDown, Entering, Reset, MainStates
      <4> QED
        BY <3>1, <3>2, <4>1
    <3>6. CASE MainLinkUp(p)
      <4>1. CASE \E s \in {"DISABLED", "LINK_DOWN"} : Continue(p, Fire(s))
        BY <3>2, <4>1 DEF MainStates
      <4>2. CASE /\ main' = [main EXCEPT ![p] = IF p \in Lpdc /\ ~Aligned(p) THEN Fire("LINK_DOWN")
                                                 ELSE Stay(@)]
                 /\ call' = "pll" /\ UNCHANGED <<phase, turn>>
                 /\ pll' = IF Entering(p) THEN [pll EXCEPT ![p] = Fire("UNLOCKED")] ELSE pll
        <5>1. locked' = locked /\ main[p].at = "LINK_UP"
          BY <3>6 DEF MainLinkUp
        <5>2. CASE p \in Lpdc /\ ~Aligned(p)
          BY <1>1, <2>1, <4>2, <5>2 DEF Fire
        <5>3. CASE ~(p \in Lpdc /\ ~Aligned(p)) /\ Entering(p)
          BY <1>1, <2>1, <4>2, <5>1, <5>3 DEF Fire, Stay
        <5>4. CASE ~(p \in Lpdc /\ ~Aligned(p)) /\ ~Entering(p)
          BY <1>1, <2>1, <4>2, <5>1, <5>4 DEF Stay, Entering
        <5> QED
          BY <5>2, <5>3, <5>4
      <4> QED
        BY <3>6, <4>1, <4>2 DEF MainLinkUp
    <3> QED
      BY <1>5, <3>3, <3>4, <3>5, <3>6 DEF MainStep
  <2> QED
    BY <1>1, <2>1, <2>2, <2>3
<1>6. CASE Around
  BY <1>1, <1>6, AroundEffect DEF machines
<1>7. CASE UNCHANGED vars
  BY <1>1, <1>7 DEF vars, machines, control
<1> QED
  BY <1>2, <1>3, <1>4, <1>5, <1>6, <1>7, Steps

\* A message is read, or one is appended; nothing else touches the three.
LEMMA LinkStep == ASSUME IInv, [Next]_vars PROVE LinkKnown'
<1> DEFINE Messages == [port : Ports, up : BOOLEAN]
<1>1. /\ LinkKnown /\ netlink \in Seq(Messages)
      /\ evtLink \in [Ports -> BOOLEAN] /\ carrier \in [Ports -> BOOLEAN]
  BY DEF IInv, TypeOK
<1>2. CASE Newlink
  <2>1. Head(netlink) \in Messages /\ Tail(netlink) \in Seq(Messages)
    <3> HIDE DEF Messages
    <3> QED
      BY <1>1, <1>2, HeadTailProperties DEF Newlink
  <2>2. /\ netlink # <<>> /\ netlink' = Tail(netlink) /\ carrier' = carrier
        /\ evtLink' = [evtLink EXCEPT ![netlink[1].port] = netlink[1].up]
    <3>1. Head(netlink) = netlink[1]
      OBVIOUS
    <3> QED
      BY <1>2, <3>1 DEF Newlink
  <2>3. Len(netlink) \in Nat \ {0} /\ DOMAIN netlink = 1 .. Len(netlink)
    BY <1>1, <2>2
  <2>4. /\ DOMAIN netlink' = 1 .. (Len(netlink) - 1)
        /\ \A i \in DOMAIN netlink' : netlink'[i] = netlink[i + 1]
    BY <1>1, <2>1, <2>2, <2>3
  <2>5. ASSUME NEW p \in Ports
        PROVE  /\ About(p)' = {} => carrier'[p] = evtLink'[p]
               /\ \A i \in About(p)' : (\A j \in About(p)' : j <= i) => carrier'[p] = netlink'[i].up
    <3>1. About(p)' = {i \in 1 .. (Len(netlink) - 1) : netlink[i + 1].port = p}
      BY <2>4 DEF About
    <3>2. About(p) = {i \in 1 .. Len(netlink) : netlink[i].port = p}
      BY <2>3 DEF About
    <3>3. ASSUME About(p)' = {} PROVE carrier'[p] = evtLink'[p]
      <4>1. CASE netlink[1].port = p
        <5>1. 1 \in About(p) /\ \A j \in About(p) : j <= 1
          <6>1. ASSUME NEW j \in About(p), j > 1 PROVE FALSE
            <7>1. j - 1 \in 1 .. (Len(netlink) - 1) /\ netlink[(j - 1) + 1].port = p
              BY <2>3, <3>2, <6>1
            <7> QED
              BY <3>1, <3>3, <7>1
          <6> QED
            BY <2>3, <3>2, <4>1, <6>1
        <5>2. carrier[p] = netlink[1].up
          BY <1>1, <5>1 DEF LinkKnown
        <5> QED
          BY <1>1, <2>2, <4>1, <5>2
      <4>2. CASE netlink[1].port # p
        <5>1. About(p) = {}
          <6>1. ASSUME NEW j \in About(p) PROVE FALSE
            <7>1. j # 1
              BY <3>2, <4>2, <6>1
            <7>2. j - 1 \in 1 .. (Len(netlink) - 1) /\ netlink[(j - 1) + 1].port = p
              BY <2>3, <3>2, <6>1, <7>1
            <7> QED
              BY <3>1, <3>3, <7>2
          <6> QED
            BY <6>1
        <5> QED
          BY <1>1, <2>2, <4>2, <5>1 DEF LinkKnown
      <4> QED
        BY <4>1, <4>2
    <3>4. ASSUME NEW i \in About(p)', \A j \in About(p)' : j <= i
          PROVE  carrier'[p] = netlink'[i].up
      <4>1. i \in 1 .. (Len(netlink) - 1) /\ i + 1 \in About(p)
        BY <2>3, <3>1, <3>2, <3>4
      <4>2. \A j \in About(p) : j <= i + 1
        <5>1. ASSUME NEW j \in About(p), j > i + 1 PROVE FALSE
          <6>1. j - 1 \in 1 .. (Len(netlink) - 1) /\ netlink[(j - 1) + 1].port = p /\ j - 1 > i
            BY <2>3, <3>2, <4>1, <5>1
          <6> QED
            BY <3>1, <3>4, <4>1, <6>1
        <5> QED
          BY <2>3, <3>2, <4>1, <5>1
      <4> QED
        BY <1>1, <2>2, <2>4, <4>1, <4>2, <3>4 DEF LinkKnown, About
    <3> QED
      BY <3>3, <3>4
  <2> QED
    BY <2>5 DEF LinkKnown
<1>3. ASSUME NEW q \in Ports, CarrierChange(q) PROVE LinkKnown'
  <2>1. /\ carrier' = [carrier EXCEPT ![q] = ~@] /\ evtLink' = evtLink
        /\ netlink' = Append(netlink, [port |-> q, up |-> carrier'[q]])
    BY <1>3 DEF CarrierChange, events
  <2>2. [port |-> q, up |-> carrier'[q]] \in Messages
    BY <1>1, <2>1
  <2>3. Len(netlink) \in Nat /\ DOMAIN netlink = 1 .. Len(netlink)
    BY <1>1
  <2>4. /\ DOMAIN netlink' = 1 .. (Len(netlink) + 1)
        /\ \A i \in DOMAIN netlink : netlink'[i] = netlink[i]
        /\ netlink'[Len(netlink) + 1] = [port |-> q, up |-> carrier'[q]]
    BY <1>1, <2>1, <2>2, <2>3
  <2>5. ASSUME NEW p \in Ports \ {q} PROVE About(p)' = About(p) /\ carrier'[p] = carrier[p]
    BY <1>1, <2>1, <2>3, <2>4 DEF About
  <2>6. Len(netlink) + 1 \in About(q)'
    BY <2>3, <2>4 DEF About
  <2>7. \A i \in About(q)' : (\A j \in About(q)' : j <= i) => i = Len(netlink) + 1
    BY <2>3, <2>4, <2>6 DEF About
  <2>8. \A i \in About(q)' : (\A j \in About(q)' : j <= i) => carrier'[q] = netlink'[i].up
    BY <2>4, <2>7
  <2>9. \A p \in Ports \ {q} : /\ About(p)' = {} => carrier'[p] = evtLink'[p]
                               /\ \A i \in About(p)' : (\A j \in About(p)' : j <= i)
                                                          => carrier'[p] = netlink'[i].up
    BY <1>1, <2>1, <2>3, <2>4, <2>5 DEF LinkKnown, About
  <2> QED
    BY <2>6, <2>8, <2>9 DEF LinkKnown
<1>4. CASE UNCHANGED <<netlink, carrier, evtLink>>
  BY <1>1, <1>4 DEF LinkKnown, About
<1>5. CASE Around
  BY <1>2, <1>3, <1>4, <1>5 DEF Around, Update, NoNews, CheckInitialized, Ppsi, World, ReadBmcr,
     MinCalibOver, PllChange, PollSfp, PhyChange, RpcLock, RpcReset, RpcMode, events, world
<1>6. ASSUME NEW p \in Ports, MainStep(p) \/ TxStep(p) \/ RxStep(p) \/ PllStep(p)
      PROVE  UNCHANGED <<netlink, carrier, evtLink>>
  BY <1>6, MainEffect, TxEffect, RxEffect, PllEffect DEF IInv, events
<1> QED
  BY <1>4, <1>5, <1>6, Steps DEF vars, events, world

LEMMA InitIInv == Init => IInv
<1> SUFFICES ASSUME Init PROVE IInv
  OBVIOUS
<1>1. TypeOK
  BY InitTypes
<1>2. \A p \in Ports : /\ main[p] = Fire("none") /\ tx[p] = Stay(Fire("none"))
                       /\ ~locked[p] /\ p # turn
  BY HalConstants DEF Init, Ports
<1>3. \A p \in Ports : main[p].at = "none" /\ main[p].new /\ tx[p].at = "none"
  BY <1>2 DEF Fire, Stay
<1>4. CallInv /\ SetupInv /\ LockInv
  BY <1>2, <1>3 DEF CallInv, SetupInv, LockInv
<1>5. BarrierInv /\ FileInv
  BY <1>3, HalConstants DEF Init, BarrierInv, FileInv
<1>6. LinkKnown
  BY DEF Init, LinkKnown, About
<1> QED
  BY <1>1, <1>4, <1>5, <1>6 DEF IInv

LEMMA StepIInv == ASSUME IInv, [Next]_vars PROVE IInv'
<1>1. TypeOK'
  BY TypeStep DEF IInv
<1> QED
  BY <1>1, CallStep, SetupStep, BarrierStep, FileStep, LockStep, LinkStep DEF IInv

THEOREM HalInvariant == Spec => []IInv
BY InitIInv, StepIInv, PTL DEF Spec

-----------------------------------------------------------------------------
(* What follows from it                                                    *)

\* The ports wait for each other: none leaves the TX setup before all are calibrated.
THEOREM BarrierHolds == Spec => []TxBarrier
<1>1. IInv => TxBarrier
  BY DEF IInv, BarrierInv, TxBarrier
<1> QED
  BY <1>1, HalInvariant, PTL

\* The START handler of the RX setup is right that the TX setup is over.
THEOREM RxComesAfterTx == Spec => []RxAfterTx
<1>1. IInv => RxAfterTx
  BY DEF IInv, CallInv, SetupInv, RxAfterTx, Runs
<1> QED
  BY <1>1, HalInvariant, PTL

\* When all ports are set up, the phases of all LPDC ports are saved.
THEOREM CalibrationIsSaved == Spec => []CalibrationSaved
<1>1. Lpdc # {} => FirstLpdc \in Lpdc
  <2>1. Lpdc \subseteq Nat
    BY HalConstants DEF Ports
  <2>2. Lpdc # {} => \E p \in Lpdc : \A q \in Lpdc : p <= q
    BY <2>1, LeastNumber
  <2> QED
    BY <2>2 DEF FirstLpdc
<1>2. IInv => CalibrationSaved
  BY <1>1, HalConstants DEF IInv, FileInv, CalibrationSaved
<1> QED
  BY <1>2, HalInvariant, PTL

\* A port at rest that reports itself locked is up, and its PLL machine locked.
THEOREM LockedIsUp == Spec => []LockedWhenUp
<1>1. IInv => LockedWhenUp
  BY DEF IInv, LockInv, LockedWhenUp
<1> QED
  BY <1>1, HalInvariant, PTL

\* The daemon does not miss what the kernel says of a link.
THEOREM LinkIsKnown == Spec => []LinkKnown
<1>1. IInv => LinkKnown
  BY DEF IInv
<1> QED
  BY <1>1, HalInvariant, PTL

\* The turn of a port ends in the state its events call for.
LEMMA AgreesStep ==
    ASSUME IInv, [Next]_vars
    PROVE  \A p \in Ports : turn = p /\ turn' # p => Agrees(p)'
<1> SUFFICES ASSUME NEW p \in Ports, turn = p, turn' # p PROVE Agrees(p)'
  OBVIOUS
<1>1. /\ TypeOK /\ CallInv /\ SetupInv
      /\ main \in [Ports -> Fsms(MainStates)] /\ rx \in [Ports -> Fsms(RxStates)]
      /\ sfp \in [Ports -> BOOLEAN] /\ pdown \in [Ports -> BOOLEAN]
  BY DEF IInv, TypeOK
<1>2. CASE TxStep(p)
  <2>1. main[p].at = "INIT"
    BY <1>1, <1>2, TxEffect DEF CallInv
  <2>2. main' = main
    BY <1>1, <1>2, TxEffect DEF Returns, Fires
  <2> QED
    BY <2>1, <2>2 DEF Agrees
<1>3. CASE RxStep(p)
  <2>1. main[p].at = "LINK_DOWN" /\ Usable(p)
    BY <1>1, <1>3, RxEffect DEF CallInv
  <2>2. main' = main /\ sfp' = sfp /\ pdown' = pdown
    BY <1>1, <1>3, RxEffect DEF Returns, Fires, events
  <2> QED
    BY <2>1, <2>2 DEF Agrees, Usable
<1>4. CASE PllStep(p)
  <2>1. main' = main /\ sfp' = sfp /\ pdown' = pdown /\ evtLink' = evtLink /\ rx' = rx
    BY <1>1, <1>4, PllEffect DEF Returns
  <2>2. ~main[p].new
    BY <1>1, <1>4, PllEffect DEF Returns
  <2>3. main[p].at = "LINK_UP" /\ Usable(p) /\ evtLink[p] /\ rx[p].at = "DONE"
    BY <1>1, <1>4, <2>2, PllEffect DEF CallInv, SetupInv
  <2> QED
    BY <2>1, <2>3 DEF Agrees, Usable
<1>5. CASE MainStep(p)
  <2>1. ASSUME NEW s \in MainStates, Continue(p, Fire(s)) PROVE FALSE
    BY <1>1, <2>1, FiresStep DEF Fires
  <2>2. CASE MainDisabled(p)
    <3>1. ~Usable(p) /\ Continue(p, Stay(main[p]))
      BY <2>1, <2>2 DEF MainDisabled, MainStates
    <3>2. main'[p].at = "DISABLED" /\ sfp' = sfp /\ pdown' = pdown
      BY <1>1, <2>2, <3>1 DEF MainDisabled, Continue, Stay
    <3> QED
      BY <3>1, <3>2 DEF Agrees, Usable
  <2>3. ~MainInit(p) /\ ~MainLinkDown(p) /\ ~MainLinkUp(p)
    BY <2>1 DEF MainInit, MainLinkDown, MainLinkUp, MainStates
  <2> QED
    BY <1>5, <2>2, <2>3 DEF MainStep
<1>6. CASE Around
  BY <1>1, <1>6, AroundEffect
<1>7. CASE UNCHANGED vars
  BY <1>7 DEF vars, control
<1>8. ASSUME NEW q \in Ports, MainStep(q) \/ TxStep(q) \/ RxStep(q) \/ PllStep(q)
      PROVE  q = p
  BY <1>1, <1>8, MainEffect, TxEffect, RxEffect, PllEffect
<1> QED
  BY <1>2, <1>3, <1>4, <1>5, <1>6, <1>7, <1>8, Steps

THEOREM TurnsEndInAgreement == Spec => RunAgrees
<1>1. IInv /\ [Next]_vars => [\A p \in Ports : turn = p /\ turn' # p => Agrees(p)']_vars
  BY AgreesStep
<1> QED
  BY <1>1, HalInvariant, PTL DEF Spec, RunAgrees

=============================================================================
