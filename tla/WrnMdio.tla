------------------------------ MODULE WrnMdio ------------------------------
(***************************************************************************)
(* Access to the registers of a PHY in the network driver,                 *)
(* kernel/wr_nic/endpoint.c and wrn_ioctl() of nic-core.c: one MDIO        *)
(* controller with a register address, a data latch and a submap, used by  *)
(* a process (open, close and ioctl, one at a time under the rtnl lock)    *)
(* and by the timer that polls the link.                                   *)
(*                                                                         *)
(* The timer interrupts the process between any two accesses and runs to   *)
(* its end: the process does not take the endpoint's lock.  An operation   *)
(* of the controller is over when the process looks for READY.             *)
(***************************************************************************)
EXTENDS Integers

CONSTANTS
    Others,    \* registers other than BMSR, BMCR and LPA
    Retries    \* 100 in the code

ConstantsOK == Retries \in Nat \ {0}

VARIABLES
    phyUp,     \* BMSR_LSTATUS of the PHY
    aneg,      \* BMSR_ANEGCOMPLETE of the PHY
    submap,    \* "phy" or "lpdc", what MDIO_ASR selects
    addr,      \* the address in MDIO_CR
    latch,     \* the register that the data in MDIO_ASR come from: [map, reg]
    opened,    \* the interface is up
    timer,     \* ep_link_timer is armed
    carrier,   \* netif_carrier_ok()
    io,        \* the process: [pc, map, reg, data, left]
    polled     \* the timer has fired since the process wrote the address

vars == <<phyUp, aneg, submap, addr, latch, opened, timer, carrier, io, polled>>

Regs == {"BMSR", "BMCR", "LPA"} \cup Others
Maps == {"phy", "lpdc"}
Nothing == [map |-> "phy", reg |-> "BMCR"]
NoIo == [pc |-> "idle", map |-> "phy", reg |-> "BMCR", data |-> Nothing, left |-> 0]

Init ==
    /\ phyUp \in BOOLEAN /\ aneg = FALSE
    /\ submap = "phy" /\ addr = "BMCR" /\ latch = Nothing
    /\ opened = FALSE /\ timer = FALSE /\ carrier = FALSE
    /\ io = NoIo /\ polled = FALSE

Step(from, to) == io.pc = from /\ io' = [io EXCEPT !.pc = to]

-----------------------------------------------------------------------------
(* The process                                                             *)

\* PRIV_IOCPHYREG reads a register.
IoctlPhy(r) ==
    /\ opened /\ io.pc = "idle"
    /\ io' = [NoIo EXCEPT !.pc = "address", !.reg = r, !.left = Retries]
    /\ UNCHANGED <<phyUp, aneg, submap, addr, latch, opened, timer, carrier, polled>>

\* PRIV_IOCLPDCREG reads one: wrn_lpdc_read() selects the submap first.
IoctlLpdc(r) ==
    /\ opened /\ io.pc = "idle"
    /\ submap' = "lpdc"
    /\ io' = [NoIo EXCEPT !.pc = "address", !.map = "lpdc", !.reg = r, !.left = Retries]
    /\ UNCHANGED <<phyUp, aneg, addr, latch, opened, timer, carrier, polled>>

\* Either ioctl with bit 31 set writes: wrn_phy_write(), wrn_lpdc_write().
IoctlWrite(m, r) ==
    /\ opened /\ io.pc = "idle"
    /\ submap' = m
    /\ io' = [NoIo EXCEPT !.pc = "write", !.map = m, !.reg = r]
    /\ UNCHANGED <<phyUp, aneg, addr, latch, opened, timer, carrier, polled>>

WriteRegister ==
    /\ Step("write", "result")
    /\ addr' = io.reg
    /\ UNCHANGED <<phyUp, aneg, submap, latch, opened, timer, carrier, polled>>

\* The controller starts to read when the address is written.
ReadReg(r) == addr' = r /\ latch' = [map |-> submap, reg |-> r]

\* wrn_phy_read() writes the address, ...
WriteAddress ==
    /\ Step("address", "data")
    /\ ReadReg(io.reg)
    /\ polled' = FALSE
    /\ UNCHANGED <<phyUp, aneg, submap, opened, timer, carrier>>

\* ... takes the data, ...
TakeData ==
    /\ io.pc = "data"
    /\ io' = [io EXCEPT !.pc = "check", !.data = latch]
    /\ UNCHANGED <<phyUp, aneg, submap, addr, latch, opened, timer, carrier, polled>>

\* Fault: the address is not looked at.
CheckAddress_Trusts ==
    /\ io.pc = "check"
    /\ io' = [io EXCEPT !.pc = "result"]
    /\ UNCHANGED <<phyUp, aneg, submap, addr, latch, opened, timer, carrier, polled>>

\* Fault: the retries are not counted to their end.
CheckAddress_NoEnd ==
    /\ io.pc = "check"
    /\ io' = IF addr = io.reg THEN [io EXCEPT !.pc = "result"]
             ELSE [io EXCEPT !.left = @ - 1, !.pc = "address"]
    /\ UNCHANGED <<phyUp, aneg, submap, addr, latch, opened, timer, carrier, polled>>

\* ... and looks whether the address is still its own: "there was a conflict,
\* retry the read".  After the last retry the data are returned as they are.
CheckAddress ==
    /\ io.pc = "check"
    /\ io' = IF addr = io.reg THEN [io EXCEPT !.pc = "result"]
             ELSE [io EXCEPT !.left = @ - 1,
                             !.pc = IF io.left = 1 THEN "result" ELSE "address"]
    /\ UNCHANGED <<phyUp, aneg, submap, addr, latch, opened, timer, carrier, polled>>

\* Fault: the submap stays selected.
Return_KeepsSubmap ==
    /\ Step("result", "idle")
    /\ UNCHANGED <<phyUp, aneg, submap, addr, latch, opened, timer, carrier, polled>>

\* "Deselect lpdc submap", and the end of the ioctl.
Return ==
    /\ Step("result", "idle")
    /\ submap' = "phy"
    /\ UNCHANGED <<phyUp, aneg, addr, latch, opened, timer, carrier, polled>>

\* wrn_open(), wrn_ep_open(): the writes to LPA and BMCR, then the timer.
Open ==
    /\ ~opened /\ io.pc = "idle"
    /\ opened' = TRUE /\ timer' = TRUE
    /\ addr' = "BMCR"
    /\ UNCHANGED <<phyUp, aneg, submap, latch, carrier, io, polled>>

\* wrn_ep_close(): BMCR is read and written ...
Close ==
    /\ opened
    /\ Step("idle", "closing")
    /\ addr' = "BMCR" /\ latch' = [map |-> submap, reg |-> "BMCR"]
    /\ UNCHANGED <<phyUp, aneg, submap, opened, timer, carrier, polled>>

\* Fault: the timer is left to run out.
DelTimer_Not ==
    /\ Step("closing", "down")
    /\ UNCHANGED <<phyUp, aneg, submap, addr, latch, opened, carrier, timer, polled>>

\* ... the timer is stopped, ...
DelTimer ==
    /\ Step("closing", "down")
    /\ timer' = FALSE
    /\ UNCHANGED <<phyUp, aneg, submap, addr, latch, opened, carrier, polled>>

\* ... and wrn_close() takes the carrier away.
CarrierOff ==
    /\ Step("down", "idle")
    /\ carrier' = FALSE /\ opened' = FALSE
    /\ UNCHANGED <<phyUp, aneg, submap, addr, latch, timer, polled>>

\* The lines of the process that are not the start of something new.
Continue ==
    \/ WriteAddress \/ TakeData \/ CheckAddress \/ WriteRegister \/ Return
    \/ DelTimer \/ CarrierOff

-----------------------------------------------------------------------------
\* A bit of a PHY register; a register of the LPDC submap may hold anything.
Bit(b) == IF submap = "phy" THEN {b} ELSE BOOLEAN

\* wrn_ep_check_link(): BMSR, BMCR, BMSR twice more in mii_link_ok(), and LPA
\* when the link comes up with autonegotiation.  The time between two polls
\* is WRN_LINK_POLL_INTERVAL, a fifth of a second: there is no second one
\* within an attempt of wrn_phy_read(), which would put the address back.
CheckLink ==
    /\ timer
    /\ io.pc \in {"data", "check"} => ~polled
    /\ polled' = TRUE
    /\ \E ok \in Bit(phyUp), complete \in Bit(aneg), enabled \in Bit(TRUE) :
        IF ok /\ ~carrier
        THEN /\ carrier' = (enabled => complete)
             /\ ReadReg(IF enabled /\ complete THEN "LPA" ELSE "BMSR")
        ELSE /\ carrier' = (ok /\ carrier)
             /\ ReadReg("BMSR")
    /\ UNCHANGED <<phyUp, aneg, submap, opened, timer, io>>

\* The link comes and goes; autonegotiation follows it.
PhyChange ==
    /\ \/ ~phyUp /\ phyUp' = TRUE /\ aneg' = aneg
       \/ phyUp /\ ~aneg /\ phyUp' = phyUp /\ aneg' = TRUE
       \/ phyUp /\ phyUp' = FALSE /\ aneg' = FALSE
    /\ UNCHANGED <<submap, addr, latch, opened, timer, carrier, io, polled>>

Ioctl ==
    \E r \in Regs :
        IoctlPhy(r) \/ IoctlLpdc(r) \/ \E m \in Maps : IoctlWrite(m, r)

Next == Ioctl \/ Open \/ Close \/ Continue \/ CheckLink \/ PhyChange

Spec == Init /\ [][Next]_vars

\* The process runs on and the timer fires.
Fairness == WF_vars(Continue) /\ WF_vars(CheckLink)

FairSpec == Spec /\ Fairness

-----------------------------------------------------------------------------
TypeOK ==
    /\ phyUp \in BOOLEAN /\ aneg \in BOOLEAN
    /\ submap \in Maps /\ addr \in Regs
    /\ latch \in [map : Maps, reg : Regs]
    /\ opened \in BOOLEAN /\ timer \in BOOLEAN /\ carrier \in BOOLEAN
    /\ polled \in BOOLEAN
    /\ io \in [pc : {"idle", "address", "data", "check", "write", "result",
                      "closing", "down"},
               map : Maps, reg : Regs, data : [map : Maps, reg : Regs], left : 0 .. Retries]

\* wrn_phy_read(): "be sure we read value from requested register".  Whatever
\* the timer reads in between, the data are those of the register asked for,
\* unless the retries ran out.
ReadRight ==
    (io.pc = "result" /\ io.left > 0) => io.data = [map |-> io.map, reg |-> io.reg]

\* An interface that is closed has no carrier and will not get one from a
\* timer that is still armed.
ClosedIsOff == ~opened => ~carrier /\ ~timer

\* The timer reads the PHY through whatever submap the process has selected
\* and may take the link for up or down at random; once the link is there and
\* the LPDC accesses have stopped, the carrier comes and stays.
Settles ==
    (<>[](phyUp /\ aneg /\ opened /\ io.map = "phy") /\ <>[][~Close]_vars) => <>[]carrier
=============================================================================
