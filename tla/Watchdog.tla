------------------------------ MODULE Watchdog ------------------------------
(***************************************************************************)
(* The switching core watchdog, userspace/wrs_watchdog/wrs_watchdog.c: a   *)
(* daemon that looks at the state machines of all ports once a second and  *)
(* resets the core when one of them is stuck.  The machines of a port are  *)
(* read through a register that selects the port; the tool's other uses,   *)
(* "-l" and "-r", write the same register from another process.            *)
(*                                                                         *)
(* A machine is free or frozen.  A frozen one is not idle and shows no     *)
(* activity; a free one that is not idle shows activity.  A machine does   *)
(* not change between the two registers that make up a sample.             *)
(***************************************************************************)
EXTENDS Integers

CONSTANTS
    PortNum,   \* port_num; there is one more port, the NIC's
    Fsms,      \* FSMS_NO
    RstThr,    \* RST_THR
    MaxTools   \* bound: uses of the tool beside the daemon

ConstantsOK ==
    /\ PortNum \in Nat /\ Fsms \in Nat \ {0}
    /\ RstThr \in Nat \ {0} /\ MaxTools \in Nat

VARIABLES
    frozen,    \* [Machines -> BOOLEAN]
    sel,       \* the port selected in CR
    stuckCnt,  \* [Machines -> 0 .. RstThr], stuck_cnt
    dog,       \* the daemon: [pc, port_it, from, busy]
    lister,    \* port that list_fsms() is at, or NoList
    tools,     \* bound: uses of the tool so far
    seen       \* [Machines -> successive samples that were of the frozen
               \*  machine, or of another port because of the tool]

vars == <<frozen, sel, stuckCnt, dog, lister, tools, seen>>

Ports == 0 .. PortNum
Fsm == 1 .. Fsms
Machines == Ports \X Fsm
NoList == PortNum + 1
Zero == [m \in Machines |-> 0]
NoSample == [pc |-> "select", port_it |-> 0, from |-> 0, busy |-> {}]

Init ==
    /\ frozen = [m \in Machines |-> FALSE]
    /\ sel = 0
    /\ stuckCnt = Zero
    /\ dog = NoSample
    /\ lister = NoList /\ tools = 0
    /\ seen = Zero

-----------------------------------------------------------------------------
\* A sample is not split by a change of a machine.
Between == dog.pc = "act"

Freeze(m) ==
    /\ ~Between /\ ~frozen[m]
    /\ frozen' = [frozen EXCEPT ![m] = TRUE]
    /\ UNCHANGED <<sel, stuckCnt, dog, lister, tools, seen>>

\* It was only held up for a while.
Thaw(m) ==
    /\ ~Between /\ frozen[m]
    /\ frozen' = [frozen EXCEPT ![m] = FALSE]
    /\ UNCHANGED <<sel, stuckCnt, dog, lister, tools, seen>>

(* read_port()                                                             *)

Select ==
    /\ dog.pc = "select"
    /\ sel' = dog.port_it
    /\ dog' = [dog EXCEPT !.pc = "fsm"]
    /\ UNCHANGED <<frozen, stuckCnt, lister, tools, seen>>

\* The machines that are not in their idle state.
ReadFsm ==
    /\ dog.pc = "fsm"
    /\ \E free \in SUBSET {f \in Fsm : ~frozen[<<sel, f>>]} :
        dog' = [dog EXCEPT !.pc = "act", !.from = sel,
                           !.busy = free \cup {f \in Fsm : frozen[<<sel, f>>]}]
    /\ UNCHANGED <<frozen, sel, stuckCnt, lister, tools, seen>>

\* The machines whose activity bit may be clear.
Quiet(f) == frozen[<<sel, f>>] \/ sel # dog.from \/ f \notin dog.busy

\* Fault: a counter is not cleared when its machine is found moving.
Count_Kept(old, stuck) == [f \in Fsm |-> IF f \in stuck THEN old[f] + 1 ELSE old[f]]

\* The loop of update_stuck(), as far as it counts.
Count(old, stuck) == [f \in Fsm |-> IF f \in stuck THEN old[f] + 1 ELSE 0]

\* Fault: the last port, the NIC, is left out.
LastPort_NotNic == PortNum - 1

\* port_it <= port_num
LastPort == PortNum

\* ACT and update_stuck(), which returns 1 at the first machine over the
\* threshold: the counters of those after it are left alone.
ReadAct ==
    /\ dog.pc = "act"
    /\ \E quiet \in SUBSET {f \in Fsm : Quiet(f)} :
        LET p == dog.port_it
            count == Count([f \in Fsm |-> stuckCnt[<<p, f>>]], dog.busy \cap quiet)
            over == {f \in Fsm : count[f] >= RstThr}
            passed == {f \in Fsm : \A g \in over : f <= g}
            right == dog.from = p /\ sel = p
        IN  /\ {f \in Fsm : frozen[<<sel, f>>]} \subseteq quiet
            /\ stuckCnt' = [m \in Machines |->
                               IF m[1] = p /\ m[2] \in passed THEN count[m[2]]
                               ELSE stuckCnt[m]]
            /\ dog' = [NoSample EXCEPT
                          !.pc = IF over # {} THEN "reset" ELSE "select",
                          !.port_it = IF over # {} THEN p ELSE IF p >= LastPort THEN 0 ELSE p + 1]
            /\ seen' = [m \in Machines |->
                           IF m[1] # p THEN seen[m]
                           ELSE IF right /\ ~frozen[m] THEN 0
                           ELSE IF seen[m] < RstThr THEN seen[m] + 1 ELSE RstThr]
    /\ UNCHANGED <<frozen, sel, lister, tools>>

\* Writing RST to CR selects port 0.
Rst == frozen' = [m \in Machines |-> FALSE] /\ sel' = 0

\* force_rst() and clear_stuck(); endless_watchdog() begins at the first port.
Reset ==
    /\ dog.pc = "reset"
    /\ Rst
    /\ stuckCnt' = Zero
    /\ dog' = NoSample
    /\ UNCHANGED <<lister, tools, seen>>

Watch == Select \/ ReadFsm \/ ReadAct \/ Reset

-----------------------------------------------------------------------------
(* The tool                                                                *)

\* "-l" begins.
StartList ==
    /\ lister = NoList /\ tools < MaxTools
    /\ lister' = 0 /\ tools' = tools + 1
    /\ UNCHANGED <<frozen, sel, stuckCnt, dog, seen>>

\* list_fsms() reads a port: it uses nothing of what the daemon has.
ListPort ==
    /\ lister # NoList
    /\ sel' = lister /\ lister' = lister + 1
    /\ UNCHANGED <<frozen, stuckCnt, dog, tools, seen>>

\* "-r"
ForceReset ==
    /\ ~Between /\ tools < MaxTools
    /\ tools' = tools + 1
    /\ Rst
    /\ UNCHANGED <<stuckCnt, dog, lister, seen>>

Next ==
    \/ \E m \in Machines : Freeze(m) \/ Thaw(m)
    \/ Watch
    \/ StartList \/ ListPort \/ ForceReset

Spec == Init /\ [][Next]_vars

\* The daemon runs on.
Fairness == WF_vars(Watch)

FairSpec == Spec /\ Fairness

-----------------------------------------------------------------------------
TypeOK ==
    /\ frozen \in [Machines -> BOOLEAN]
    /\ sel \in Ports
    /\ stuckCnt \in [Machines -> 0 .. RstThr]
    /\ dog \in [pc : {"select", "fsm", "act", "reset"}, port_it : Ports, from : Ports,
                busy : SUBSET Fsm]
    /\ lister \in Ports \cup {NoList} /\ tools \in 0 .. MaxTools
    /\ seen \in [Machines -> 0 .. RstThr]

\* The daemon resets the core only for a machine that it has found stuck in
\* RST_THR successive looks at its port, each of the machine when it was
\* frozen, or of a wrong port because the tool had moved the selection.
ResetJustified ==
    dog.pc = "reset" => \E m \in Machines : m[1] = dog.port_it /\ seen[m] >= RstThr

\* A machine that is frozen for good does not stay so: the core is reset,
\* although counts are lost when the tool is used and when another machine of
\* its port is over the threshold first.
StuckIsReset == \A m \in Machines : ~<>[]frozen[m]
=============================================================================
