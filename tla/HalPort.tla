------------------------------ MODULE HalPort ------------------------------
(***************************************************************************)
(* The port state machines of the hardware abstraction layer daemon,       *)
(* userspace/wrsw_hal: the main machine of a port (hal_port_fsm.c) and the *)
(* three it runs inside its handlers, TX setup (hal_port_fsm_tx.c), RX     *)
(* setup (hal_port_fsm_rx.c) and PLL (hal_port_fsm_pll.c), on the engine   *)
(* of libwr/generic_fsm.c.                                                 *)
(*                                                                         *)
(* The daemon has one thread.  A step of it is one call of a handler,      *)
(* because the engine builds the events, hence reads the hardware, before  *)
(* each; the hardware and the kernel change between any two of them.  The  *)
(* main loop runs the machines of all ports in turn and serves requests in *)
(* between.  A timer or a measurement that only delays a handler is a      *)
(* parameter that says whether it has come.                                *)
(***************************************************************************)
EXTENDS Integers, Sequences

CONSTANTS
    NPorts,        \* ports in use, in the order of their index
    Lpdc,          \* those with low phase drift calibration
    BcPorts,       \* bound: ports PPSi may lock to
    PowerDowns,    \* bound: ports whose PHY may be powered down
    Resets,        \* bound: ports PPSi may reset
    Flapping,      \* bound: ports whose link, SFP and PHY flags change; the
                   \* others have a good link from the start
    RtsFails,      \* bound: whether a call to the real-time subsystem may fail
    MaxNews        \* bound: netlink messages waiting

Ports == 1 .. NPorts

ASSUME HalConstants ==
    /\ NPorts \in Nat \ {0}
    /\ Lpdc \subseteq Ports
    /\ BcPorts \subseteq Ports
    /\ PowerDowns \subseteq Ports
    /\ Resets \subseteq Ports
    /\ Flapping \subseteq Ports
    /\ RtsFails \in BOOLEAN
    /\ MaxNews \in Nat

\* fsm_t: the state, and whether its handler has yet to run for the first
\* time.  A fired state is consumed before anything else looks at it, but for
\* the first one: until then the state is -1, "none".
MainStates == {"none", "INIT", "DISABLED", "LINK_DOWN", "LINK_UP"}
TxStates == {"none", "START", "RESET_PCS", "WAIT_LOCK", "MEASURE_PHASE", "VALIDATE",
             "WAIT_OTHER_PORTS", "DONE"}
RxStates == {"none", "INIT", "START", "RESET_PCS", "WAIT_LOCK", "VALIDATE", "DONE"}
PllStates == {"none", "UNLOCKED", "LOCKING", "LOCKED"}
Fire(s) == [at |-> s, new |-> TRUE]
Stay(f) == [at |-> f.at, new |-> FALSE]

\* LPDC_MDIO_STAT: the early link and the aligned flag.
Phys == {"dark", "early", "aligned"}

\* The state of the SoftPLL and what rts_get_state() returned of it.
Plls == [mode : {"FREE_MASTER", "BC"}, ref : Ports, locked : BOOLEAN]
Invalid == [mode |-> "invalid"]

VARIABLES
    phase,      \* main loop: "loop", or in hal_port_state_fsm_run_all() "netlink", "ports"
    turn,       \* the port whose machines run, 0 for none
    call,       \* what runs next for it: "bmcr", "main", "tx", "rx" or "pll"
    main, tx, rx, pll,  \* [Ports -> the machine]
    done,       \* maskTxSetupDonePorts
    calFile,    \* ports whose phase is in the calibration file, {} if it is of no use
    locked,     \* ps->locked
    evtLink, evtReset, evtLock, pdown, sfp,     \* the event flags of a port
    minCalib,   \* minCalibRx_timeout: what started it and whether it expired
    shm,        \* hal_shmem->shmemState
    rts,        \* the last state read from the SoftPLL, or Invalid
    hwPll,      \* the SoftPLL
    phy,        \* the flags of the PHY of an LPDC port
    carrier,    \* link state of the interface in the kernel
    netlink     \* RTM_NEWLINK messages not yet read

control == <<phase, turn, call>>
machines == <<main, tx, rx, pll>>
barrier == <<done, calFile>>
events == <<evtLink, evtReset, evtLock, pdown, sfp>>
timing == <<rts, hwPll>>
world == <<phy, carrier, netlink>>
vars == <<control, machines, barrier, locked, events, minCalib, shm, timing, world>>

Init ==
    /\ phase = "loop" /\ turn = 0 /\ call = "bmcr"
    /\ main = [p \in Ports |-> Fire("none")]
    /\ tx = [p \in Ports |-> Stay(Fire("none"))]
    /\ rx = tx /\ pll = tx
    /\ done = {}
    /\ calFile \in {{}, Lpdc}
    /\ locked = [p \in Ports |-> FALSE]
    /\ carrier \in [Ports -> BOOLEAN] /\ \A p \in Ports \ Flapping : carrier[p]
    /\ evtLink = carrier
    /\ evtReset = [p \in Ports |-> FALSE] /\ evtLock = evtReset
    /\ pdown = evtReset /\ sfp = evtReset
    /\ minCalib = [p \in Ports |-> [since |-> "init", expired |-> FALSE]]
    /\ shm = "INITIALIZING"
    /\ hwPll = [mode |-> "FREE_MASTER", ref |-> 1, locked |-> FALSE]
    /\ rts = hwPll
    /\ phy \in [Ports -> Phys]
    /\ \A p \in Ports \ Lpdc : phy[p] = "dark"
    /\ \A p \in Lpdc \ Flapping : phy[p] = "aligned"
    /\ netlink = <<>>

-----------------------------------------------------------------------------
(* The engine                                                              *)

Runs(p, what) == turn = p /\ call = what

\* The main machine's handler returns, leaving machine m: fsm_generic_run()
\* calls it again if a state was fired, otherwise the port has had its turn.
Continue_OneTooFar(p, m) ==     \* fault: the loop over the ports ends too late
    /\ main' = [main EXCEPT ![p] = m]
    /\ IF m.new THEN call' = "main" /\ UNCHANGED <<phase, turn>>
       ELSE turn' = p + 1 /\ call' = "bmcr" /\ UNCHANGED phase

Continue(p, m) ==
    /\ main' = [main EXCEPT ![p] = m]
    /\ IF m.new THEN call' = "main" /\ UNCHANGED <<phase, turn>>
       ELSE IF phase = "ports" /\ p < NPorts
       THEN turn' = p + 1 /\ call' = "bmcr" /\ UNCHANGED phase
       ELSE /\ turn' = 0 /\ call' = "bmcr"
            /\ phase' = IF phase = "ports" THEN "loop" ELSE phase

\* A handler of an inner machine leaves it as f.
Inner_IgnoresResult(p, f) ==    \* fault: INIT does not wait for the TX setup
    IF f.new THEN UNCHANGED <<main, control>>
    ELSE Continue(p, IF main[p].at = "INIT" THEN Fire("DISABLED") ELSE main[p])
Inner(p, f) ==
    IF f.new THEN UNCHANGED <<main, control>> ELSE Continue(p, main[p])

StepTx(p, f) == tx' = [tx EXCEPT ![p] = f] /\ Inner(p, f) /\ UNCHANGED <<rx, pll>>
StepRx(p, f) == rx' = [rx EXCEPT ![p] = f] /\ Inner(p, f) /\ UNCHANGED <<tx, pll>>
StepPll(p, f) == pll' = [pll EXCEPT ![p] = f] /\ Inner(p, f) /\ UNCHANGED <<tx, rx>>

\* rts_get_state() into the copy the daemon works with.
PollRts(state) == rts' \in {state} \cup (IF RtsFails THEN {Invalid} ELSE {})

-----------------------------------------------------------------------------
(* TX setup: hal_port_fsm_tx.c                                             *)

\* Fault: the port counts as calibrated from the start.
TxStart_Counted(p) ==
    /\ Runs(p, "tx") /\ tx[p].at = "START"
    /\ StepTx(p, Fire(IF p \in Lpdc THEN "RESET_PCS" ELSE "WAIT_OTHER_PORTS"))
    /\ locked' = [locked EXCEPT ![p] = FALSE]
    /\ done' = done \cup {p}
    /\ UNCHANGED <<timing, calFile, events, minCalib, shm, world>>

TxStart(p) ==
    /\ Runs(p, "tx") /\ tx[p].at = "START"
    /\ StepTx(p, Fire(IF p \in Lpdc THEN "RESET_PCS" ELSE "WAIT_OTHER_PORTS"))
    /\ locked' = [locked EXCEPT ![p] = FALSE]
    /\ done' = done \ {p}
    /\ IF rts.mode = "FREE_MASTER" THEN UNCHANGED timing
       ELSE /\ hwPll' \in {[hwPll EXCEPT !.mode = "FREE_MASTER"]}
                          \cup (IF RtsFails THEN {hwPll} ELSE {})
            /\ PollRts(hwPll')
    /\ UNCHANGED <<calFile, events, minCalib, shm, world>>

TxResetPcs(p) ==
    /\ Runs(p, "tx") /\ tx[p].at = "RESET_PCS"
    /\ StepTx(p, Fire("WAIT_LOCK"))
    /\ UNCHANGED <<barrier, locked, events, minCalib, shm, timing, world>>

\* reset: the transmitter is out of reset.
TxWaitLock(p, reset) ==
    /\ Runs(p, "tx") /\ tx[p].at = "WAIT_LOCK"
    /\ StepTx(p, IF reset THEN Fire("MEASURE_PHASE") ELSE Stay(tx[p]))
    /\ UNCHANGED <<barrier, locked, events, minCalib, shm, timing, world>>

\* measured: not measured yet; out of the range aimed at, or not measured for a
\* second; in the range.
TxMeasurePhase(p, measured) ==
    /\ Runs(p, "tx") /\ tx[p].at = "MEASURE_PHASE"
    /\ StepTx(p, CASE measured = "no" -> Stay(tx[p])
                   [] measured = "retry" -> Fire("RESET_PCS")
                   [] measured = "in range" -> Fire("VALIDATE"))
    /\ UNCHANGED <<barrier, locked, events, minCalib, shm, timing, world>>

TxValidate(p, ready) ==
    /\ Runs(p, "tx") /\ tx[p].at = "VALIDATE"
    /\ StepTx(p, IF ready THEN Fire("WAIT_OTHER_PORTS") ELSE Stay(tx[p]))
    /\ UNCHANGED <<barrier, locked, events, minCalib, shm, timing, world>>

\* _write_tx_calibration_file(): the first LPDC port writes the phases of all.
FirstLpdc == CHOOSE p \in Lpdc : \A q \in Lpdc : p <= q
CalibrationFile_OwnPort(p) ==   \* fault: the loop ends at its first port
    IF Lpdc # {} /\ p = FirstLpdc /\ calFile = {} THEN {p} ELSE calFile
CalibrationFile(p) ==
    IF Lpdc # {} /\ p = FirstLpdc /\ calFile = {} THEN Lpdc ELSE calFile

\* txSetupDone(), on entry of the state.
MarkDone_Lpdc(p) == IF tx[p].new /\ p \in Lpdc THEN done \cup {p} ELSE done  \* fault
MarkDone(p) == IF tx[p].new THEN done \cup {p} ELSE done

TxWaitOtherPorts(p) ==
    /\ Runs(p, "tx") /\ tx[p].at = "WAIT_OTHER_PORTS"
    /\ done' = MarkDone(p)
    /\ IF done' = Ports
       THEN StepTx(p, Fire("DONE")) /\ calFile' = CalibrationFile(p)
       ELSE StepTx(p, Stay(tx[p])) /\ UNCHANGED calFile
    /\ UNCHANGED <<locked, events, minCalib, shm, timing, world>>

\* Final state: the main machine's INIT handler fires DISABLED.
TxDone(p) ==
    /\ Runs(p, "tx") /\ tx[p].at = "DONE"
    /\ tx' = [tx EXCEPT ![p] = Stay(@)]
    /\ Continue(p, Fire("DISABLED"))
    /\ UNCHANGED <<rx, pll, barrier, locked, events, minCalib, shm, timing, world>>

-----------------------------------------------------------------------------
(* RX setup: hal_port_fsm_rx.c                                             *)

Early(p) == phy[p] # "dark"
Aligned(p) == phy[p] = "aligned"

RestartMinCalib(p, since) ==
    minCalib' = [minCalib EXCEPT ![p] = [since |-> since, expired |-> FALSE]]

\* Both branches go on to START, with or without a link.
RxInit(p) ==
    /\ Runs(p, "rx") /\ rx[p].at = "INIT"
    /\ IF Lpdc # {} /\ (IF p \in Lpdc THEN Early(p) ELSE evtLink[p])
       THEN RestartMinCalib(p, "link") ELSE UNCHANGED minCalib
    /\ StepRx(p, Fire("START"))
    /\ UNCHANGED <<barrier, locked, events, shm, timing, world>>

\* waited: earlyup_timeout has expired.  Here and below the call that enters a
\* state restarts its timers, and does not find them expired.
RxStart(p, waited) ==
    /\ Runs(p, "rx") /\ rx[p].at = "START" /\ ~(waited /\ rx[p].new)
    /\ StepRx(p, IF tx[p].at # "DONE" THEN Stay(rx[p])
                 ELSE IF p \notin Lpdc THEN Fire("DONE")
                 ELSE IF waited /\ Early(p) THEN Fire("RESET_PCS") ELSE Stay(rx[p]))
    /\ UNCHANGED <<barrier, locked, events, minCalib, shm, timing, world>>

\* gone: link_timeout has expired.
RxResetPcs(p, gone) ==
    /\ Runs(p, "rx") /\ rx[p].at = "RESET_PCS" /\ ~(gone /\ rx[p].new)
    /\ StepRx(p, IF Early(p) THEN Fire("WAIT_LOCK")
                 ELSE IF gone THEN Fire("INIT") ELSE Stay(rx[p]))
    /\ UNCHANGED <<barrier, locked, events, minCalib, shm, timing, world>>

\* waited: align_timeout has expired, when the link is there; link_timeout,
\* when it is not.
RxWaitLock(p, waited) ==
    /\ Runs(p, "rx") /\ rx[p].at = "WAIT_LOCK" /\ ~(waited /\ rx[p].new)
    /\ StepRx(p, IF ~waited THEN Stay(rx[p])
                 ELSE IF ~Early(p) THEN Fire("INIT")
                 ELSE IF Aligned(p) THEN Fire("VALIDATE")
                 ELSE IF minCalib[p].expired THEN Fire("INIT") ELSE Fire("RESET_PCS"))
    /\ UNCHANGED <<barrier, locked, events, minCalib, shm, timing, world>>

RxValidate(p, ready) ==
    /\ Runs(p, "rx") /\ rx[p].at = "VALIDATE"
    /\ StepRx(p, IF ready THEN Fire("DONE")
                 ELSE IF ~Early(p) \/ minCalib[p].expired THEN Fire("INIT")
                 ELSE Stay(rx[p]))
    /\ UNCHANGED <<barrier, locked, events, minCalib, shm, timing, world>>

\* The last state returns 1 when the link is up and the minimum time over; the
\* main machine's LINK_DOWN handler then fires LINK_UP, if it can read the
\* bitslide.
RxComplete(p) == evtLink[p] /\ (Lpdc = {} \/ minCalib[p].expired)

RxDone(p, bitslide) ==
    /\ Runs(p, "rx") /\ rx[p].at = "DONE"
    /\ IF p \in Lpdc /\ ~Aligned(p)
       THEN StepRx(p, Fire("INIT"))
       ELSE /\ rx' = [rx EXCEPT ![p] = Stay(@)]
            /\ Continue(p, IF RxComplete(p) /\ bitslide THEN Fire("LINK_UP") ELSE main[p])
            /\ UNCHANGED <<tx, pll>>
    /\ UNCHANGED <<barrier, locked, events, minCalib, shm, timing, world>>

-----------------------------------------------------------------------------
(* PLL: hal_port_fsm_pll.c                                                 *)

\* port_pll_fsm_build_events(), which consumes evt_lock in timing mode BC.
TakesLock(p) == rts.mode = "BC" /\ evtLock[p]
PllEvent(p) ==
    IF TakesLock(p) THEN "lock"
    ELSE IF rts.mode = "BC" /\ rts.ref = p
    THEN IF rts.locked THEN "locked" ELSE "unlocked"
    ELSE "disable"

ConsumeLock_Never(p) == UNCHANGED evtLock       \* fault
ConsumeLock(p) == evtLock' = [evtLock EXCEPT ![p] = @ /\ ~TakesLock(p)]

\* A handler in state s; the entry of UNLOCKED and LOCKING clears ps->locked,
\* that of LOCKED sets it.
PllHandler(p, s, f) ==
    /\ Runs(p, "pll") /\ pll[p].at = s
    /\ StepPll(p, f)
    /\ ConsumeLock(p)
    /\ locked' = [locked EXCEPT ![p] = IF pll[p].new THEN s = "LOCKED" ELSE @]
    /\ UNCHANGED <<barrier, evtLink, evtReset, pdown, sfp, minCalib, shm, timing, world>>

PllUnlocked(p) ==
    PllHandler(p, "UNLOCKED", CASE PllEvent(p) = "locked" -> Fire("LOCKED")
                                [] PllEvent(p) = "lock" -> Fire("LOCKING")
                                [] OTHER -> Stay(pll[p]))
PllLocking(p) ==
    PllHandler(p, "LOCKING", CASE PllEvent(p) = "locked" -> Fire("LOCKED")
                               [] PllEvent(p) = "disable" -> Fire("UNLOCKED")
                               [] OTHER -> Stay(pll[p]))
PllLocked(p) ==
    PllHandler(p, "LOCKED", CASE PllEvent(p) = "unlocked" -> Fire("LOCKING")
                              [] PllEvent(p) = "disable" -> Fire("UNLOCKED")
                              [] OTHER -> Stay(pll[p]))

-----------------------------------------------------------------------------
(* The main machine: hal_port_fsm.c                                        *)

\* Every call of a handler builds the events first, which consumes evt_reset.
BuildEvents_Keeps(p) == UNCHANGED evtReset      \* fault: the event is not consumed
BuildEvents(p) == evtReset' = [evtReset EXCEPT ![p] = FALSE]
Reset_KeepsLocked(p) == UNCHANGED locked                \* fault
Reset(p) == locked' = [locked EXCEPT ![p] = FALSE]      \* reset_port()

Entering(p) == main[p].new

MainInit(p) ==
    /\ Runs(p, "main") /\ main[p].at \in {"none", "INIT"}
    /\ BuildEvents(p)
    /\ IF Entering(p)
       THEN Reset(p) /\ tx' = [tx EXCEPT ![p] = Fire("START")]
       ELSE UNCHANGED <<locked, tx>>
    /\ main' = [main EXCEPT ![p] = [at |-> "INIT", new |-> FALSE]]
    /\ call' = "tx"
    /\ UNCHANGED <<phase, turn, rx, pll, barrier, evtLink, evtLock, pdown, sfp,
                   minCalib, shm, timing, world>>

Usable_IgnoresPowerDown(p) == sfp[p]    \* fault
Usable(p) == sfp[p] /\ ~pdown[p]

MainDisabled(p) ==
    /\ Runs(p, "main") /\ main[p].at = "DISABLED"
    /\ BuildEvents(p)
    /\ IF Entering(p) THEN Reset(p) ELSE UNCHANGED locked
    /\ Continue(p, IF Usable(p) THEN Fire("LINK_DOWN") ELSE Stay(main[p]))
    /\ UNCHANGED <<tx, rx, pll, barrier, evtLink, evtLock, pdown, sfp,
                   minCalib, shm, timing, world>>

MainLinkDown(p) ==
    /\ Runs(p, "main") /\ main[p].at = "LINK_DOWN"
    /\ BuildEvents(p)
    /\ IF ~Usable(p)
       THEN Continue(p, Fire("DISABLED")) /\ UNCHANGED <<locked, rx, minCalib>>
       ELSE /\ main' = [main EXCEPT ![p] = Stay(@)]
            /\ call' = "rx" /\ UNCHANGED <<phase, turn>>
            /\ IF Entering(p)
               THEN /\ Reset(p)
                    /\ rx' = [rx EXCEPT ![p] = Fire("INIT")]
                    /\ RestartMinCalib(p, "init")
               ELSE UNCHANGED <<locked, rx, minCalib>>
    /\ UNCHANGED <<tx, pll, barrier, evtLink, evtLock, pdown, sfp, shm, timing, world>>

\* Losing the early link or the alignment fires LINK_DOWN and goes on.
MainLinkUp(p) ==
    LET lost == p \in Lpdc /\ ~Aligned(p)
    IN  /\ Runs(p, "main") /\ main[p].at = "LINK_UP"
        /\ BuildEvents(p)
        /\ IF ~Usable(p) THEN Continue(p, Fire("DISABLED")) /\ UNCHANGED pll
           ELSE IF evtReset[p] \/ ~evtLink[p]
           THEN Continue(p, Fire("LINK_DOWN")) /\ UNCHANGED pll
           ELSE /\ main' = [main EXCEPT ![p] = IF lost THEN Fire("LINK_DOWN") ELSE Stay(@)]
                /\ call' = "pll" /\ UNCHANGED <<phase, turn>>
                /\ pll' = IF Entering(p) THEN [pll EXCEPT ![p] = Fire("UNLOCKED")] ELSE pll
        /\ UNCHANGED <<tx, rx, barrier, locked, evtLink, evtLock, pdown, sfp,
                       minCalib, shm, timing, world>>

-----------------------------------------------------------------------------
(* The main loop: hal_main.c, hal_ports.c, hal_port_fsm.c, hal_exports.c   *)

Idle == phase = "loop" /\ turn = 0

\* hal_port_state_fsm_run_all(): poll the SoftPLL, then the netlink socket ...
Update ==
    /\ Idle
    /\ PollRts(hwPll)
    /\ phase' = "netlink"
    /\ UNCHANGED <<turn, call, machines, barrier, locked, events, minCalib, shm, hwPll, world>>

\* Fault: news of a port that is still being set up are skipped.
Newlink_SkipsInit ==
    /\ phase = "netlink" /\ turn = 0 /\ netlink # <<>>
    /\ LET m == Head(netlink) IN
        IF evtLink[m.port] = m.up \/ main[m.port].at = "INIT"
        THEN UNCHANGED <<turn, call, evtLink>>
        ELSE /\ evtLink' = [evtLink EXCEPT ![m.port] = m.up]
             /\ turn' = m.port /\ call' = "main"
    /\ netlink' = Tail(netlink)
    /\ UNCHANGED <<phase, machines, barrier, locked, evtReset, evtLock, pdown, sfp,
                   minCalib, shm, timing, phy, carrier>>

\* ... a message that changes the state of a port runs its machine at once ...
Newlink ==
    /\ phase = "netlink" /\ turn = 0 /\ netlink # <<>>
    /\ LET m == Head(netlink) IN
        /\ evtLink' = [evtLink EXCEPT ![m.port] = m.up]
        /\ IF evtLink[m.port] = m.up THEN UNCHANGED <<turn, call>>
           ELSE turn' = m.port /\ call' = "main"
    /\ netlink' = Tail(netlink)
    /\ UNCHANGED <<phase, machines, barrier, locked, evtReset, evtLock, pdown, sfp,
                   minCalib, shm, timing, phy, carrier>>

NoNews ==
    /\ phase = "netlink" /\ turn = 0 /\ netlink = <<>>
    /\ phase' = "ports" /\ turn' = 1 /\ call' = "bmcr"
    /\ UNCHANGED <<machines, barrier, locked, events, minCalib, shm, timing, world>>

\* ... then every port, whose control register is read first.
ReadBmcr(p, down) ==
    /\ phase = "ports" /\ Runs(p, "bmcr")
    /\ down => p \in PowerDowns
    /\ pdown' = [pdown EXCEPT ![p] = down]
    /\ call' = "main"
    /\ UNCHANGED <<phase, turn, machines, barrier, locked, evtLink, evtReset, evtLock, sfp,
                   minCalib, shm, timing, world>>

\* hal_port_all_ports_initialized()
CheckInitialized ==
    /\ Idle /\ shm = "INITIALIZING"
    /\ \A p \in Ports : main[p].at # "INIT"
    /\ shm' = "INITIALIZED"
    /\ UNCHANGED <<control, machines, barrier, locked, events, minCalib, timing, world>>

\* hal_port_poll_sfp(): an SFP was inserted or removed.
PollSfp(p) ==
    /\ Idle /\ (p \in Flapping \/ ~sfp[p])
    /\ sfp' = [sfp EXCEPT ![p] = ~@]
    /\ UNCHANGED <<control, machines, barrier, locked, evtLink, evtReset, evtLock, pdown,
                   minCalib, shm, timing, world>>

\* hal_port_start_lock(), hal_port_reset(), hal_tmg_set_mode() on behalf of PPSi.
RpcLock(p) ==
    /\ Idle /\ p \in BcPorts
    /\ evtLock' = [evtLock EXCEPT ![p] = TRUE]
    /\ hwPll' = [hwPll EXCEPT !.ref = p, !.locked = FALSE]
    /\ UNCHANGED <<control, machines, barrier, locked, evtLink, evtReset, pdown, sfp,
                   minCalib, shm, rts, world>>

RpcReset(p) ==
    /\ Idle /\ p \in Resets
    /\ evtReset' = [evtReset EXCEPT ![p] = TRUE]
    /\ UNCHANGED <<control, machines, barrier, locked, evtLink, evtLock, pdown, sfp,
                   minCalib, shm, timing, world>>

RpcMode(mode) ==
    /\ Idle /\ BcPorts # {}
    /\ hwPll' = [hwPll EXCEPT !.mode = mode, !.locked = FALSE]
    /\ PollRts(hwPll')
    /\ UNCHANGED <<control, machines, barrier, locked, events, minCalib, shm, world>>

-----------------------------------------------------------------------------
(* The world around the daemon                                             *)

\* minCalibRx_timeout, which only LINK_DOWN looks at, runs out.
MinCalibOver(p) ==
    /\ Lpdc # {} /\ main[p].at = "LINK_DOWN" /\ ~minCalib[p].expired
    /\ minCalib' = [minCalib EXCEPT ![p].expired = TRUE]
    /\ UNCHANGED <<control, machines, barrier, locked, events, shm, timing, world>>

PhyChange(p, v) ==
    /\ p \in Lpdc \cap Flapping /\ v # phy[p]
    /\ phy' = [phy EXCEPT ![p] = v]
    /\ UNCHANGED <<control, machines, barrier, locked, events, minCalib, shm, timing,
                   carrier, netlink>>

\* The kernel sees the link of a port change and sends a message.
CarrierChange(p) ==
    /\ p \in Flapping /\ Len(netlink) < MaxNews
    /\ carrier' = [carrier EXCEPT ![p] = ~@]
    /\ netlink' = Append(netlink, [port |-> p, up |-> carrier'[p]])
    /\ UNCHANGED <<control, machines, barrier, locked, events, minCalib, shm, timing, phy>>

\* The SoftPLL locks to its reference, or loses it.
PllChange ==
    /\ BcPorts # {} /\ hwPll.mode = "BC"
    /\ hwPll' = [hwPll EXCEPT !.locked = ~@]
    /\ UNCHANGED <<control, machines, barrier, locked, events, minCalib, shm, rts, world>>

-----------------------------------------------------------------------------
TxStep(p) ==
    \/ TxStart(p) \/ TxResetPcs(p)
    \/ \E ok \in BOOLEAN : TxWaitLock(p, ok) \/ TxValidate(p, ok)
    \/ \E m \in {"no", "retry", "in range"} : TxMeasurePhase(p, m)
    \/ TxWaitOtherPorts(p) \/ TxDone(p)
RxStep(p) ==
    \/ RxInit(p)
    \/ \E ok \in BOOLEAN : \/ RxStart(p, ok) \/ RxResetPcs(p, ok) \/ RxWaitLock(p, ok)
                           \/ RxValidate(p, ok) \/ RxDone(p, ok)
PllStep(p) == PllUnlocked(p) \/ PllLocking(p) \/ PllLocked(p)
MainStep(p) == MainInit(p) \/ MainDisabled(p) \/ MainLinkDown(p) \/ MainLinkUp(p)

\* What the daemon does whether or not anything is asked of it.
Daemon ==
    \/ Update \/ Newlink \/ NoNews
    \/ \E p \in Ports, down \in BOOLEAN : ReadBmcr(p, down)
    \/ \E p \in Ports : MainStep(p) \/ TxStep(p) \/ RxStep(p) \/ PllStep(p)

Ppsi == \E p \in Ports : RpcLock(p) \/ RpcReset(p) \/ \E m \in {"FREE_MASTER", "BC"} : RpcMode(m)

World ==
    \/ PllChange
    \/ \E p \in Ports : \/ PollSfp(p) \/ CarrierChange(p) \/ \E v \in Phys : PhyChange(p, v)

Next == Daemon \/ CheckInitialized \/ Ppsi \/ World \/ \E p \in Ports : MinCalibOver(p)

Spec == Init /\ [][Next]_vars

\* The daemon runs, its main loop checks for the end of the initialization in
\* every iteration, and time passes.
FairSpec ==
    /\ Spec
    /\ WF_vars(Daemon)
    /\ SF_vars(CheckInitialized)
    /\ \A p \in Ports : WF_vars(MinCalibOver(p))

-----------------------------------------------------------------------------
(* Properties                                                              *)

Fsms(states) == [at : states, new : BOOLEAN]

\* Every variable stays in its range; in particular the loop of
\* hal_port_state_fsm_run_all() never runs a machine beyond the last port, and
\* a machine never leaves the states of its table.
TypeOK ==
    /\ phase \in {"loop", "netlink", "ports"}
    /\ turn \in 0 .. NPorts
    /\ call \in {"bmcr", "main", "tx", "rx", "pll"}
    /\ main \in [Ports -> Fsms(MainStates)]
    /\ tx \in [Ports -> Fsms(TxStates)]
    /\ rx \in [Ports -> Fsms(RxStates)]
    /\ pll \in [Ports -> Fsms(PllStates)]
    /\ done \subseteq Ports
    /\ calFile \subseteq Lpdc
    /\ {locked, evtLink, evtReset, evtLock, pdown, sfp, carrier} \subseteq [Ports -> BOOLEAN]
    /\ minCalib \in [Ports -> [since : {"init", "link"}, expired : BOOLEAN]]
    /\ shm \in {"INITIALIZING", "INITIALIZED"}
    /\ hwPll \in Plls
    /\ rts \in Plls \cup {Invalid}
    /\ phy \in [Ports -> Phys]
    /\ netlink \in Seq([port : Ports, up : BOOLEAN]) /\ Len(netlink) <= MaxNews

Calibrated(p) == tx[p].at \in {"WAIT_OTHER_PORTS", "DONE"}

\* No port leaves the TX setup before every port has finished calibrating: the
\* mask of ports done stands for what their machines have done.
TxBarrier ==
    \A p \in Ports : tx[p].at = "DONE" => done = Ports /\ \A q \in Ports : Calibrated(q)

\* The RX machine of a port never runs before its TX machine is done: what its
\* START handler warns "should never happen, in theory".
RxAfterTx == \A p \in Ports : Runs(p, "rx") => tx[p].at = "DONE"

\* Once all ports are set up the file holds the phase of every LPDC port.
CalibrationSaved == (\A p \in Ports : tx[p].at = "DONE") => calFile = Lpdc

\* A port reports itself locked only while it is up and its PLL machine locked,
\* however it came down.
LockedWhenUp ==
    \A p \in Ports : locked[p] /\ turn # p => main[p].at = "LINK_UP" /\ pll[p].at = "LOCKED"

\* A run of a port's machines leaves it in the state its events call for.
Agrees(p) ==
    /\ main[p].at = "LINK_UP" => sfp[p] /\ ~pdown[p] /\ evtLink[p] /\ rx[p].at = "DONE"
    /\ main[p].at = "LINK_DOWN" => sfp[p] /\ ~pdown[p]
    /\ main[p].at = "DISABLED" => ~sfp[p] \/ pdown[p]
RunAgrees == [][\A p \in Ports : turn = p /\ turn' # p => Agrees(p)']_vars

\* The daemon's view of a link, with the messages it has not read, is the
\* kernel's: the last message about a port tells the state of its link.
About(p) == {i \in DOMAIN netlink : netlink[i].port = p}
LinkKnown ==
    \A p \in Ports :
        /\ About(p) = {} => carrier[p] = evtLink[p]
        /\ \A i \in About(p) :
              (\A j \in About(p) : j <= i) => carrier[p] = netlink[i].up

\* The hardware keeps the daemon waiting: an answer that the state of the link
\* allows, and that would take the machine further, does not come.
Waits(p) ==
    \/ \E m \in {"no", "retry"} : TxMeasurePhase(p, m)
    \/ TxWaitLock(p, FALSE) \/ TxValidate(p, FALSE)
    \/ ~rx[p].new /\ p \in Lpdc /\ Early(p) /\ RxStart(p, FALSE)
    \/ ~rx[p].new /\ RxWaitLock(p, FALSE)
    \/ Aligned(p) /\ RxValidate(p, FALSE)
    \/ (p \in Lpdc => Aligned(p)) /\ RxComplete(p) /\ RxDone(p, FALSE)
Prompt == <>[][\A p \in Ports : ~Waits(p)]_vars

\* Links stop changing, so that the netlink socket, which the daemon reads
\* until it is empty, runs dry.
Calm == <>[][\A p \in Ports : ~CarrierChange(p)]_vars

\* The TX setup of all ports ends, and HAL says so in shared memory.
AllCalibrated ==
    Prompt /\ Calm => <>(shm = "INITIALIZED" /\ \A p \in Ports : main[p].at \notin {"none", "INIT"})

\* PPSi asks for no more resets.
Quiet == <>[][\A p \in Ports : ~RpcReset(p)]_vars

\* A port whose link is good comes up and stays up, whatever resets, carrier
\* changes and power downs came before: each is acted on once.
Healthy(p) == sfp[p] /\ ~pdown[p] /\ carrier[p] /\ (p \in Lpdc => Aligned(p))
LinkComesUp ==
    Prompt /\ Calm /\ Quiet =>
        \A p \in Ports : <>[]Healthy(p) => <>[](main[p].at = "LINK_UP")

\* When PPSi asks for nothing more, only the reference of the SoftPLL in mode BC
\* stays locked, whatever lock events were left from before.
ReferenceSettles ==
    Prompt /\ Calm /\ <>[][~Ppsi]_vars =>
        <>[](\A p \in Ports : locked[p] => hwPll.mode = "BC" /\ hwPll.ref = p)

\* hal_main.c: "Check if all ports have been initialized".
InitializedMeansReady ==
    shm = "INITIALIZED" => \A p \in Ports : main[p].at \notin {"none", "INIT"}

\* hal_port_fsm_rx.c: "impose the same minimum of RX calibration time on all
\* ports": a port comes up after a minimum time that its link began.
MinimumCalibration ==
    [][\A p \in Ports : Lpdc # {} /\ main[p].at = "LINK_DOWN" /\ main'[p].at = "LINK_UP"
          => minCalib[p].since = "link"]_vars
=============================================================================
