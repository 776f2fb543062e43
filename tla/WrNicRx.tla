------------------------------ MODULE WrNicRx ------------------------------
(***************************************************************************)
(* Reception in the network driver, kernel/wr_nic/nic-core.c: the ring of  *)
(* receive descriptors, the interrupt that schedules the tasklet, and the  *)
(* tasklet that empties the ring.  The NIC works on between any two steps  *)
(* of the driver.                                                          *)
(*                                                                         *)
(* The driver means to disable the interrupt while the tasklet runs, but   *)
(* writes the mask to EIC_IER, where a 0 has no effect: the interrupt      *)
(* stays enabled here.                                                     *)
(***************************************************************************)
EXTENDS Integers

CONSTANTS
    NDesc,    \* WRN_NR_DESC, 8 in the code
    Frames    \* bound: frames are numbered modulo Frames

ConstantsOK ==
    /\ NDesc \in Nat \ {0}
    /\ Frames \in Nat /\ Frames > NDesc + 1

VARIABLES
    rxd,       \* [Desc -> frame, or NoFrame for NIC_RX1_D1_EMPTY]
    rxHw,      \* the descriptor that the NIC fills next
    arrived,   \* number of the next frame
    nextRx,    \* next_rx
    rcomp,     \* the bit RCOMP of the NIC's EIC_ISR
    rxTlet,    \* rx_tlet is scheduled
    rx,        \* wrn_rx_interrupt(): [pc, skb]
    handled    \* number of the last frame that the tasklet has finished

vars == <<rxd, rxHw, arrived, nextRx, rcomp, rxTlet, rx, handled>>

Desc == 0 .. NDesc - 1
Number == 0 .. Frames - 1
NoFrame == -1

NextDesc(i) == (i + 1) % NDesc
NextFrame(f) == (f + 1) % Frames

Init ==
    /\ rxd = [d \in Desc |-> NoFrame]
    /\ rxHw = 0 /\ arrived = 0 /\ nextRx = 0
    /\ rcomp = FALSE /\ rxTlet = FALSE
    /\ rx = [pc |-> "idle", skb |-> NoFrame]
    /\ handled = Frames - 1

\* A frame that finds no empty descriptor is dropped in the gateware.
Receive ==
    /\ rxd[rxHw] = NoFrame
    /\ rxd' = [rxd EXCEPT ![rxHw] = arrived]
    /\ rxHw' = NextDesc(rxHw)
    /\ arrived' = NextFrame(arrived)
    /\ rcomp' = TRUE
    /\ UNCHANGED <<nextRx, rxTlet, rx, handled>>

\* Fault: a tasklet that is running is not scheduled again.
RxInterrupt_OnlyIdle ==
    /\ rcomp
    /\ rcomp' = FALSE
    /\ rxTlet' = (rx.pc = "idle")
    /\ UNCHANGED <<rxd, rxHw, arrived, nextRx, rx, handled>>

\* wrn_interrupt(), the part for RCOMP.
RxInterrupt ==
    /\ rcomp
    /\ rcomp' = FALSE
    /\ rxTlet' = TRUE
    /\ UNCHANGED <<rxd, rxHw, arrived, nextRx, rx, handled>>

(* wrn_rx_interrupt(), the tasklet                                         *)

Start ==
    /\ rx.pc = "idle" /\ rxTlet
    /\ rxTlet' = FALSE
    /\ rx' = [rx EXCEPT !.pc = "look"]
    /\ UNCHANGED <<rxd, rxHw, arrived, nextRx, rcomp, handled>>

\* The next descriptor is empty.
LookEmpty ==
    /\ rx.pc = "look" /\ rxd[nextRx] = NoFrame
    /\ rx' = [rx EXCEPT !.pc = "end"]
    /\ UNCHANGED <<rxd, rxHw, arrived, nextRx, rcomp, rxTlet, handled>>

\* The write to EIC_IER enables what is enabled.
End ==
    /\ rx.pc = "end"
    /\ rx' = [rx EXCEPT !.pc = "idle"]
    /\ UNCHANGED <<rxd, rxHw, arrived, nextRx, rcomp, rxTlet, handled>>

\* __wrn_rx_descriptor(): copy the frame.
CopyIn ==
    /\ rx.pc = "look" /\ rxd[nextRx] # NoFrame
    /\ rx' = [pc |-> "free", skb |-> rxd[nextRx]]
    /\ UNCHANGED <<rxd, rxHw, arrived, nextRx, rcomp, rxTlet, handled>>

\* "mark it free ASAP", a frame with an error as well.
MarkFree ==
    /\ rx.pc = "free"
    /\ rxd' = [rxd EXCEPT ![nextRx] = NoFrame]
    /\ rx' = [rx EXCEPT !.pc = "pass"]
    /\ UNCHANGED <<rxHw, arrived, nextRx, rcomp, rxTlet, handled>>

\* Fault: the data are taken from the descriptor after it was freed.
Pass_CopiesLate ==
    /\ rx.pc = "pass"
    /\ handled' = IF rxd[nextRx] = NoFrame THEN rx.skb ELSE rxd[nextRx]
    /\ nextRx' = NextDesc(nextRx)
    /\ rx' = [pc |-> "look", skb |-> NoFrame]
    /\ UNCHANGED <<rxd, rxHw, arrived, rcomp, rxTlet>>

\* The frame is passed on, or counted as an error.
Pass ==
    /\ rx.pc = "pass"
    /\ handled' = rx.skb
    /\ nextRx' = NextDesc(nextRx)
    /\ rx' = [pc |-> "look", skb |-> NoFrame]
    /\ UNCHANGED <<rxd, rxHw, arrived, rcomp, rxTlet>>

RxTasklet == Start \/ LookEmpty \/ End \/ CopyIn \/ MarkFree \/ Pass

Next == Receive \/ RxInterrupt \/ RxTasklet

Spec == Init /\ [][Next]_vars

\* Interrupts and tasklets run.
Fairness == WF_vars(RxInterrupt) /\ WF_vars(RxTasklet)

FairSpec == Spec /\ Fairness

-----------------------------------------------------------------------------
TypeOK ==
    /\ rxd \in [Desc -> Number \cup {NoFrame}]
    /\ rxHw \in Desc /\ nextRx \in Desc
    /\ arrived \in Number /\ handled \in Number
    /\ rcomp \in BOOLEAN /\ rxTlet \in BOOLEAN
    /\ rx \in [pc : {"idle", "look", "end", "free", "pass"}, skb : Number \cup {NoFrame}]

\* Frames are passed on in the order of arrival, none twice and none left
\* out, however the NIC fills descriptors while the tasklet frees them.
InOrder == [][handled' # handled => handled' = NextFrame(handled)]_vars

\* No frame is left in the ring: the interrupt may come for a frame that the
\* tasklet has handled already, but none is missed.
Delivered == (rxd[nextRx] # NoFrame) ~> (rx.pc = "pass")
=============================================================================
