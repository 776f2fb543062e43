------------------------------- MODULE Parts -------------------------------
(***************************************************************************)
(* The modules that stand for themselves: parts of the switch that share   *)
(* no state and do not call one another.  A behaviour is a behaviour of    *)
(* one of them, `subject', chosen at the beginning; the variables of the   *)
(* others keep one of their initial values.                                *)
(*                                                                         *)
(* Fairness is a premise of each liveness property, since each part runs   *)
(* under its own scheduler.                                                *)
(*                                                                         *)
(* Every part is here for all values of its constants.                     *)
(***************************************************************************)
EXTENDS Integers, Sequences, FiniteSets

CONSTANTS
    TxPlain, TxPtp, TxNDesc, TxIdSpace, TxMaxRefused,
    RxNDesc, RxFrames,
    MdioOthers, MdioRetries,
    StampQuarter, StampMaxSec,
    PstatsLow, PstatsWide, PstatsBuf, PstatsMaxTotal,
    RpcConns, RpcMaxClients, RpcMaxCalls,
    VlanPorts, VlanHosts, VlanServerList, VlanDead, VlanVerdict, VlanAuthVlan,
    VlanMaxNews, VlanMaxErrors,
    DogPortNum, DogFsms, DogRstThr, DogMaxTools,
    SnmpTimeout,
    IrqSize,
    ClockFreq, ClockBack, ClockWide,
    FdThreads, FdKeys, FdMasks, FdNodes,
    HashDegree, HashExtra, HashRowBits, HashLength,
    LedPorts, LedPatience,
    TimerPeriods, TimerMaxLate

VARIABLES
    subject,
    ring, slot, head, tail, nextId, hw, tcomp, irq, stamps, xmit, held, freed, refused,
    rxd, rxHw, arrived, nextRx, rcomp, rxTlet, rx, handled,
    phyUp, aneg, submap, addr, latch, opened, timer, carrier, io, polled,
    sec, cnt, job,
    total, wrapped, ovf, irqsHead, irqsTail, cntr, zeros, proc, base, mixed,
    conn, backlog, slots, fdset, srv,
    dev, kid, order, vlan, link, news, frame, errors, again, lost,
    frozen, sel, stuckCnt, dog, lister, tools, seen,
    ufifo, irqOff, learner,
    ticksCounter, cs, out, idle, jumped, borrowed,
    servo, slave, beat, ptpCopy, spllCopy, timing, sick, others,
    tab, hwTab, mutex, hw_req_list, req, inUse, thr, torn,
    poly, message, done, remainder, bit,
    want, shown, gpio, blink, state, lpdc, info,
    age, index, ticks, called

Tx == INSTANCE WrNicTx WITH
    Plain <- TxPlain, Ptp <- TxPtp, NDesc <- TxNDesc, IdSpace <- TxIdSpace,
    MaxRefused <- TxMaxRefused
Rx == INSTANCE WrNicRx WITH NDesc <- RxNDesc, Frames <- RxFrames
Mdio == INSTANCE WrnMdio WITH Others <- MdioOthers, Retries <- MdioRetries
Stamp == INSTANCE WrnStamp WITH Quarter <- StampQuarter, MaxSec <- StampMaxSec
Pstats == INSTANCE WrPstats WITH
    Low <- PstatsLow, Wide <- PstatsWide, Buf <- PstatsBuf, MaxTotal <- PstatsMaxTotal
Rpc == INSTANCE MiniRpc WITH
    Conns <- RpcConns, MaxClients <- RpcMaxClients, MaxCalls <- RpcMaxCalls
Vlan == INSTANCE RadiusVlan WITH
    Ports <- VlanPorts, Hosts <- VlanHosts, ServerList <- VlanServerList,
    Dead <- VlanDead, Verdict <- VlanVerdict, AuthVlan <- VlanAuthVlan,
    MaxNews <- VlanMaxNews, MaxErrors <- VlanMaxErrors
Dog == INSTANCE Watchdog WITH
    PortNum <- DogPortNum, Fsms <- DogFsms, RstThr <- DogRstThr, MaxTools <- DogMaxTools
Irq == INSTANCE RtuIrq WITH Size <- IrqSize
Clock == INSTANCE WrClock WITH Freq <- ClockFreq, Back <- ClockBack, Wide <- ClockWide
Snmp == INSTANCE SnmpTiming WITH Timeout <- SnmpTimeout
Fd == INSTANCE FdRequests WITH
    Threads <- FdThreads, Serialized <- TRUE, Keys <- FdKeys, Masks <- FdMasks,
    Nodes <- FdNodes
Hash == INSTANCE RtuHash WITH
    Degree <- HashDegree, Extra <- HashExtra, RowBits <- HashRowBits, Length <- HashLength
Leds == INSTANCE HalLeds WITH Ports <- LedPorts, Patience <- LedPatience
Timer == INSTANCE HalTimers WITH Periods <- TimerPeriods, MaxLate <- TimerMaxLate

ASSUME PartsConstants ==
    /\ Tx!ConstantsOK /\ Rx!ConstantsOK /\ Mdio!ConstantsOK
    /\ Stamp!ConstantsOK /\ Pstats!ConstantsOK /\ Rpc!ConstantsOK
    /\ Vlan!ConstantsOK /\ Dog!ConstantsOK /\ Snmp!ConstantsOK
    /\ Irq!ConstantsOK /\ Clock!ConstantsOK
    /\ Fd!ConstantsOK /\ Hash!ConstantsOK /\ Leds!ConstantsOK /\ Timer!ConstantsOK

\* A part that is not the subject is given one initial state.
Init ==
    /\ subject \in {"tx", "rx", "mdio", "stamp", "pstats", "rpc", "vlan", "dog", "snmp",
                     "irq", "clock", "fd", "hash", "leds", "timer"}
    /\ Tx!Init /\ Rx!Init /\ Rpc!Init /\ Dog!Init /\ Irq!Init /\ Fd!Init /\ Timer!Init
    /\ Mdio!Init /\ (subject # "mdio" => ~phyUp)
    /\ Stamp!Init /\ (subject # "stamp" => cnt = 0)
    /\ Pstats!Init /\ (subject # "pstats" => total = 0)
    /\ Vlan!Init /\ (subject # "vlan" => \A p \in VlanPorts : link[p] = Vlan!Nobody
                                                       /\ vlan[p] = VlanAuthVlan)
    /\ Clock!Init /\ (subject # "clock" => ticksCounter = 0)
    /\ Snmp!Init /\ (subject # "snmp" => ~servo.updates /\ ~servo.errors /\ ~slave)
    /\ Hash!Init /\ (subject # "hash" => poly = {} /\ \A n \in 1 .. HashLength : message[n] = {})
    /\ Leds!Init /\ (subject # "leds" => lpdc = {})

txVars == <<ring, slot, head, tail, nextId, hw, tcomp, irq, stamps, xmit, held, freed, refused>>
rxVars == <<rxd, rxHw, arrived, nextRx, rcomp, rxTlet, rx, handled>>
mdioVars == <<phyUp, aneg, submap, addr, latch, opened, timer, carrier, io, polled>>
stampVars == <<sec, cnt, job>>
pstatsVars == <<total, wrapped, ovf, irqsHead, irqsTail, cntr, zeros, proc, base, mixed>>
rpcVars == <<conn, backlog, slots, fdset, srv>>
vlanVars == <<dev, kid, order, vlan, link, news, frame, errors, again, lost>>
dogVars == <<frozen, sel, stuckCnt, dog, lister, tools, seen>>
irqVars == <<ufifo, irqOff, learner>>
clockVars == <<ticksCounter, cs, out, idle, jumped, borrowed>>
snmpVars == <<servo, slave, beat, ptpCopy, spllCopy, timing, sick, others>>
fdVars == <<tab, hwTab, mutex, hw_req_list, req, inUse, thr, torn>>
hashVars == <<poly, message, done, remainder, bit>>
ledVars == <<want, shown, gpio, blink, state, lpdc, info>>
timerVars == <<age, index, ticks, called>>

Next ==
    /\ UNCHANGED subject
    /\ IF subject = "tx" THEN Tx!Next ELSE UNCHANGED txVars
    /\ IF subject = "rx" THEN Rx!Next ELSE UNCHANGED rxVars
    /\ IF subject = "mdio" THEN Mdio!Next ELSE UNCHANGED mdioVars
    /\ IF subject = "stamp" THEN Stamp!Next ELSE UNCHANGED stampVars
    /\ IF subject = "pstats" THEN Pstats!Next ELSE UNCHANGED pstatsVars
    /\ IF subject = "rpc" THEN Rpc!Next ELSE UNCHANGED rpcVars
    /\ IF subject = "vlan" THEN Vlan!Next ELSE UNCHANGED vlanVars
    /\ IF subject = "dog" THEN Dog!Next ELSE UNCHANGED dogVars
    /\ IF subject = "irq" THEN Irq!Next ELSE UNCHANGED irqVars
    /\ IF subject = "clock" THEN Clock!Next ELSE UNCHANGED clockVars
    /\ IF subject = "snmp" THEN Snmp!Next ELSE UNCHANGED snmpVars
    /\ IF subject = "fd" THEN Fd!Next ELSE UNCHANGED fdVars
    /\ IF subject = "hash" THEN Hash!Next ELSE UNCHANGED hashVars
    /\ IF subject = "leds" THEN Leds!Next ELSE UNCHANGED ledVars
    /\ IF subject = "timer" THEN Timer!Next ELSE UNCHANGED timerVars

vars == <<subject, txVars, rxVars, mdioVars, stampVars, pstatsVars, rpcVars, vlanVars,
          dogVars, irqVars, clockVars, snmpVars, fdVars, hashVars, ledVars,
          timerVars>>

Spec == Init /\ [][Next]_vars

\* In the first state and hence in all.
Is(part) == subject = part

-----------------------------------------------------------------------------
TypeOK ==
    /\ Tx!TypeOK /\ Rx!TypeOK /\ Mdio!TypeOK /\ Stamp!TypeOK /\ Pstats!TypeOK
    /\ Rpc!TypeOK /\ Vlan!TypeOK /\ Dog!TypeOK /\ Snmp!TypeOK
    /\ Irq!TypeOK /\ Clock!TypeOK
    /\ Fd!TypeOK /\ Hash!TypeOK /\ Leds!TypeOK /\ Timer!TypeOK

\* The driver's ring and its buffers.  Frames leave in the order they were
\* accepted, since the descriptors that wait are those between the NIC's and the
\* driver's (SendOrder: __wrn_alloc_tx_desc() looks at READY, not at the tail);
\* wrn_start_xmit() does not copy from a buffer that an interrupt has freed
\* meanwhile (NoUseAfterFree), and none is leaked (NoLeak); a time stamp is given
\* to the frame it was taken for, however far ids have come round (StampRight:
\* record_tstamp()).  A buffer that asks for a time stamp goes back to the kernel,
\* whatever completions, time stamps and interrupts were missed: at the latest
\* when its slot is used again.
BuffersReturned ==
    /\ [](Tx!SendOrder /\ Tx!NoUseAfterFree /\ Tx!NoLeak /\ Tx!StampRight)
    /\ Is("tx") /\ Tx!Fairness => \A s \in TxPtp : Tx!ReleasedSkb(s)

\* wrn_poll(): frames are passed on in the order of arrival, none twice and none
\* left out, however the NIC fills descriptors while the tasklet frees them; none
\* is left in the ring, although an interrupt may come for a frame that the
\* tasklet has handled already.
FramesPassedOn ==
    /\ Rx!InOrder
    /\ Is("rx") /\ Rx!Fairness => Rx!Delivered

\* wrn_phy_read(): "be sure we read value from requested register", whatever the
\* link timer reads in between, unless the retries run out; an interface that is
\* closed has no carrier and gets none from a timer that is still armed.  The timer
\* reads the PHY through whatever submap an ioctl has selected and may take the
\* link for up or down at random: once the link is there and the ioctls have
\* stopped, the carrier comes and stays.
PhyFollowed ==
    /\ [](Mdio!ReadRight /\ Mdio!ClosedIsOff)
    /\ Is("mdio") /\ Mdio!Fairness => Mdio!Settles

\* A time stamp has the second in which the frame was stamped, wherever the
\* beginning of a second falls between the frame and the reads of
\* wrn_ppsg_read_time().
SecondRight == Stamp!SecondRight

\* Every overflow is in the counter, in the ring or in the flag, once,
\* whichever of interrupt, tasklet, reading and clearing comes when; unless
\* the tasklet has run inside an update, or the counter was cleared when its
\* low bits were not 0.
Exact == Pstats!Exact

\* Only the type of an answer is compared with the call.  It is the answer to
\* this call if none has timed out on the connection; after time-outs it may
\* belong to an earlier call, by no more calls than have timed out, and never
\* to one that was answered before.
AnswerIsFor == Rpc!AnswerIsFor

\* minipc_server_action() serves all its clients: places are neither lost nor used
\* twice, select() looks at all of them, and what it reported of a descriptor is
\* still true of whoever has it when its turn comes, so that recv() never hangs.
\* A client that calls is answered, or finds its connection closed, unless it
\* stops waiting.
Answered ==
    /\ [](Rpc!PlacesOfClients /\ Rpc!NeverBlocks)
    /\ Is("rpc") /\ Rpc!Fairness => Rpc!AnsweredOn(1)

\* A configured port is in the VLAN of the station that is connected now, and a
\* port that is DOWN in the authentication VLAN, however links, answers of
\* radclient, failing commands and signals follow each other.  "but if we kill our
\* child we must reap it": no child is forgotten, unless SIGUSR2 came during its
\* query.  A port whose link stays up is configured in the end, when one of the
\* servers answers and signals have stopped.
OwnVlan ==
    /\ [](Vlan!OwnVlan /\ Vlan!DownIsAuth /\ Vlan!ChildrenReaped)
    /\ Is("vlan") /\ Vlan!Fairness => Vlan!Configured

\* The daemon resets the core only for a machine that it has found stuck in
\* RST_THR successive looks at its port, each of the machine when it was
\* frozen, or of a wrong port because the tool had moved the selection; and a
\* machine that is frozen for good does not stay so, although counts are lost when
\* the tool is used and when another machine is over the threshold first.
StuckIsReset ==
    /\ []Dog!ResetJustified
    /\ Is("dog") /\ Dog!Fairness => Dog!StuckIsReset

\* The PTP status of the agent.  A servo that is updated every second and counts no
\* error is never reported as faulty: counters are not compared with themselves,
\* whoever refreshed the copies and when.  One that has an error is reported, as
\* long as no second ends within a query, so that the copies are refreshed together.
StatusIsHonest ==
    /\ []Snmp!NoFalseError
    /\ Is("snmp") /\ Snmp!Fairness => Snmp!ErrorReportedInPhase

\* IRQWAIT answers EAGAIN only when there is a request to be read, even when the
\* thread's predecessor died with the interrupt switched off; and a thread that
\* stays alive comes to every request, although the interrupt may come at any point
\* between its look at the FIFO and its sleep.
RequestsLearned ==
    /\ []Irq!NoSpin
    /\ Is("irq") /\ Irq!Fairness => Irq!Learned

\* Between two reads the clock advances by the ticks that have passed, through
\* ends of seconds, negative counters and the overflow of the 32 bits, unless
\* the counter was adjusted, or was so far below 0 that the unsigned sum of
\* the former read borrowed 2^32.
Steady == Clock!Steady

\* "this list no longer needed": nobody looks at a request of hw_req_list that
\* was freed, as long as the operations do not overlap; and the table is a "mirror of
\* ZBT SRAM memory MAC address table" when no operation is under way, except for the
\* entries that a daemon died over.
MirrorsTable == Fd!RequestsAlive /\ Fd!MirrorsTable

\* The row of a station is that of the remainder of its key divided by the
\* polynomial, as the gateware computes it, whatever polynomial was chosen.
HashIsRemainder == Hash!HashIsRemainder

\* What will not be written again is what the lights of a port show, although
\* the TX setup switches them off behind the cache of hal_port_leds.c.  "always
\* update to blink": the light of a port that goes on calibrating goes on and off.
\* The light that says "synchronized" goes out when PPSi says no more of the port.
LightsTellState ==
    /\ []Leds!LedsShown
    /\ Is("leds") /\ Leds!Fairness =>
           \A p \in LedPorts : Leds!Blinks(p) /\ Leds!SyncGoesOut(p)

\* However late the scans are, a timer of the HAL is called once in each of its
\* periods: never twice to make up for a call that was missed.
OncePerPeriod == Timer!OncePerPeriod
=============================================================================
