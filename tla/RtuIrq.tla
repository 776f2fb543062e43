------------------------------- MODULE RtuIrq -------------------------------
(***************************************************************************)
(* How the learning thread of the RTU daemon (rtu_read_learning_queue() in *)
(* userspace/wrsw_rtud/rtu_drv.c) waits for the FIFO of unrecognised       *)
(* requests by means of kernel/wr_rtu/wr_rtu.c.  The interrupt switches    *)
(* itself off when it finds a request, and the thread switches it on again *)
(* after each request it has read.                                         *)
(*                                                                         *)
(* What the thread does with a request is in RtuFd.  The mask in the       *)
(* gateware and WR_FLAG_IRQDISABLE change together, under a lock.          *)
(***************************************************************************)
EXTENDS Integers

CONSTANT Size   \* of the FIFO, 128 in the gateware

ConstantsOK == Size \in Nat \ {0}

VARIABLES
    ufifo,     \* requests in the FIFO
    irqOff,    \* WR_FLAG_IRQDISABLE
    learner    \* the learning thread: [pc, irq_disabled]

vars == <<ufifo, irqOff, learner>>

\* A daemon that starts does not know what the one before it left.
Fresh == [pc |-> "begin", irq_disabled |-> TRUE]

\* wr_rtu_init(), then the daemon.
Init == ufifo = 0 /\ irqOff = FALSE /\ learner = Fresh

At(pc) == learner.pc = pc
Go(pc) == learner' = [learner EXCEPT !.pc = pc]

-----------------------------------------------------------------------------
\* A frame is not recognised; when the FIFO is full the request is lost.
Request ==
    /\ ufifo < Size /\ ufifo' = ufifo + 1
    /\ UNCHANGED <<irqOff, learner>>

\* wr_rtu_interrupt(): it wakes the thread, which looks again.
Interrupt ==
    /\ ~irqOff /\ ufifo > 0
    /\ irqOff' = TRUE
    /\ IF At("asleep") THEN Go("condition") ELSE UNCHANGED learner
    /\ UNCHANGED ufifo

-----------------------------------------------------------------------------
(* rtu_read_learning_queue()                                               *)

\* WR_RTU_IRQENA, the first time; it fails when the interrupt is on.
EnableFirst ==
    /\ At("begin")
    /\ learner' = [pc |-> "look", irq_disabled |-> FALSE]
    /\ irqOff' = IF learner.irq_disabled THEN FALSE ELSE irqOff
    /\ UNCHANGED ufifo

Look ==
    /\ At("look")
    /\ Go(IF ufifo = 0 THEN "wait" ELSE "pop")
    /\ UNCHANGED <<ufifo, irqOff>>

\* WR_RTU_IRQWAIT: EAGAIN, or wait_event_interruptible().
Wait ==
    /\ At("wait")
    /\ Go(IF irqOff THEN "begin" ELSE "condition")
    /\ UNCHANGED <<ufifo, irqOff>>

\* Fault: the thread sleeps without looking at the FIFO again.
Condition_Sleeps ==
    /\ At("condition")
    /\ Go("asleep")
    /\ UNCHANGED <<ufifo, irqOff>>

\* The condition is evaluated when the thread is in the wait queue already.
Condition ==
    /\ At("condition")
    /\ Go(IF ufifo = 0 THEN "asleep" ELSE "pop")
    /\ UNCHANGED <<ufifo, irqOff>>

\* ERESTARTSYS: the daemon tries again.
Signal ==
    /\ At("asleep") \/ At("condition")
    /\ Go("begin")
    /\ UNCHANGED <<ufifo, irqOff>>

\* R0 to R4
Pop ==
    /\ At("pop")
    /\ ufifo' = ufifo - 1
    /\ Go("enable")
    /\ UNCHANGED irqOff

\* WR_RTU_IRQENA
Enable ==
    /\ At("enable")
    /\ irqOff' = FALSE
    /\ Go("begin")
    /\ UNCHANGED ufifo

\* Fault: the new daemon takes the interrupt to be on.
Restart_TakesOn ==
    /\ learner' = [Fresh EXCEPT !.irq_disabled = FALSE]
    /\ UNCHANGED <<ufifo, irqOff>>

\* The daemon ends anywhere and is started again.
Restart ==
    /\ learner' = Fresh
    /\ UNCHANGED <<ufifo, irqOff>>

Learn == EnableFirst \/ Look \/ Wait \/ Condition \/ Pop \/ Enable

Next == Request \/ Interrupt \/ Learn \/ Signal \/ Restart

Spec == Init /\ [][Next]_vars

\* The thread runs, and an interrupt that is on is served.
Fairness == WF_vars(Learn) /\ WF_vars(Interrupt)

FairSpec == Spec /\ Fairness

-----------------------------------------------------------------------------
TypeOK ==
    /\ ufifo \in 0 .. Size /\ irqOff \in BOOLEAN
    /\ learner \in [pc : {"begin", "look", "wait", "condition", "asleep", "pop", "enable"},
                    irq_disabled : BOOLEAN]

\* IRQWAIT answers EAGAIN only when there is a request to be read: the thread
\* does not go round its loop for nothing, even when its predecessor died with
\* the interrupt switched off.
NoSpin == (At("wait") /\ irqOff) => ufifo > 0

\* A thread that stays alive comes to every request, although the interrupt
\* may come at any point between its looking at the FIFO and its sleep.
Learned ==
    <>[][~(Restart \/ Signal)]_vars => [](ufifo > 0 => <>At("enable"))
=============================================================================
