------------------------------ MODULE HalLeds ------------------------------
(***************************************************************************)
(* The lights of the ports (userspace/wrsw_hal/hal_port_leds.c).  The port *)
(* machines say what they want to be shown; two timers write it to the     *)
(* lights, over a slow bus and only where it has changed.  The lights of a *)
(* port share a register with the switch of its laser, which the TX setup  *)
(* and the insertion of an SFP write at once (libwr/i2c_sfp.c).            *)
(*                                                                         *)
(* The machines are those of HalPort, reduced to what they do to lights.   *)
(* The daemon has one thread: a handler or an update is one step.          *)
(***************************************************************************)
EXTENDS Integers

CONSTANTS
    Ports,
    Patience    \* runs of LINK_UP without news of PPSi: 50

ConstantsOK == Patience \in Nat

Off == "off"     Slave == "slave"     Other == "other"     Master == "master"
Calib == "calib"
Unset == "unset"      \* what memset() leaves in the maps

VARIABLES
    want,       \* link_leds_map_to_update, sync_leds_map_to_update: [link, sync]
    shown,      \* link_leds_map, sync_leds_map: [link, sync]
    gpio,       \* [Ports -> SUBSET Pins], the outputs of the port
    blink,      \* led_blink_state
    state,      \* where the machines of a port are
    lpdc,       \* ports that are found to have low phase drift calibration
    info        \* portMode, synchronized, portInfoUpdated: [mode, synchronized, updated]

vars == <<want, shown, gpio, blink, state, lpdc, info>>

Pins == {"mode1", "mode2", "synced", "tx_disable"}
NoInfo == [mode |-> Other, synchronized |-> FALSE, updated |-> 0]

\* led_clear_all_ports()
Init ==
    /\ want = [p \in Ports |-> [link |-> Unset, sync |-> FALSE]] /\ shown = want
    /\ gpio = [p \in Ports |-> {}]
    /\ blink = FALSE
    /\ state = [p \in Ports |-> "boot"]
    /\ lpdc \in SUBSET Ports
    /\ info = [p \in Ports |-> NoInfo]

-----------------------------------------------------------------------------
(* The register                                                            *)

\* shw_sfp_set_generic()
Set(bits, on, pins) == IF on THEN bits \cup pins ELSE bits \ pins

Modes == {"mode1", "mode2"}

\* Fault: green is only switched on, and remains mixed with what was on.
Pattern_OneCall(bits, value) ==
    CASE value = Slave -> Set(bits, TRUE, {"mode1"})
      [] value = Other -> Set(Set(bits, FALSE, {"mode1"}), TRUE, {"mode2"})
      [] value = Master -> Set(bits, TRUE, Modes)
      [] value = Calib /\ blink -> Set(Set(bits, FALSE, {"mode1"}), TRUE, {"mode2"})
      [] value = Calib /\ ~blink -> Set(bits, FALSE, Modes)
      [] value = Off -> Set(bits, FALSE, Modes)
      [] value = Unset -> bits

\* What led_link_update() does for a value, in one or two calls.
Pattern(bits, value) ==
    CASE value = Slave -> Set(Set(bits, TRUE, {"mode1"}), FALSE, {"mode2"})
      [] value = Other -> Set(Set(bits, FALSE, {"mode1"}), TRUE, {"mode2"})
      [] value = Master -> Set(bits, TRUE, Modes)
      [] value = Calib /\ blink -> Set(Set(bits, FALSE, {"mode1"}), TRUE, {"mode2"})
      [] value = Calib /\ ~blink -> Set(bits, FALSE, Modes)
      [] value = Off -> Set(bits, FALSE, Modes)
      [] value = Unset -> bits

-----------------------------------------------------------------------------
(* The timers: _cb_port_update_link_leds(), _cb_port_update_sync_leds()    *)

\* Fault: a calibrating port is written when it has changed, as the others.
Outdated_OnChange(p) == want[p].link # shown[p].link

Outdated(p) == want[p].link # shown[p].link \/ want[p].link = Calib

LinkUpdate ==
    /\ gpio' = [p \in Ports |->
                  IF Outdated(p) THEN Pattern(gpio[p], want[p].link) ELSE gpio[p]]
    /\ shown' = [p \in Ports |-> [shown[p] EXCEPT !.link = want[p].link]]
    /\ blink' = ~blink
    /\ UNCHANGED <<want, state, info>>

SyncUpdate ==
    /\ gpio' = [p \in Ports |-> IF want[p].sync = shown[p].sync THEN gpio[p]
                                ELSE Set(gpio[p], want[p].sync, {"synced"})]
    /\ shown' = [p \in Ports |-> [shown[p] EXCEPT !.sync = want[p].sync]]
    /\ UNCHANGED <<want, blink, state, info>>

-----------------------------------------------------------------------------
(* The port machines                                                       *)

Go(p, from, to) == state[p] = from /\ state' = [state EXCEPT ![p] = to]

WantLink(p, value) == want' = [want EXCEPT ![p].link = value]

\* reset_port()
Reset(p) ==
    /\ want' = [want EXCEPT ![p] = [link |-> Off, sync |-> FALSE]]
    /\ info' = [info EXCEPT ![p] = NoInfo]

\* port_tx_setup_fsm_state_start(): all lights and the laser go off at once.
TxStart(p) ==
    /\ Go(p, "boot", IF p \in lpdc THEN "calib" ELSE "ready")
    /\ gpio' = [gpio EXCEPT ![p] = {"tx_disable"}]
    /\ want' = [want EXCEPT ![p] = [link |-> IF p \in lpdc THEN Calib ELSE Off, sync |-> FALSE]]
    /\ info' = [info EXCEPT ![p] = NoInfo]
    /\ UNCHANGED <<shown, blink>>

\* port_tx_setup_fsm_state_validate()
Validate(p) ==
    /\ Go(p, "calib", "ready")
    /\ WantLink(p, Off)
    /\ UNCHANGED <<shown, gpio, blink, info>>

\* port_tx_setup_fsm_state_wait_other_ports(), DONE and DISABLED.
TxDone(p) ==
    /\ \A q \in Ports : state[q] \notin {"boot", "calib"}
    /\ Go(p, "ready", "disabled")
    /\ gpio' = [gpio EXCEPT ![p] = {}]
    /\ Reset(p)
    /\ UNCHANGED <<shown, blink>>

\* port_fsm_state_link_down(), entered.
LinkDown(p) ==
    /\ Go(p, "disabled", "down") \/ Go(p, "up", "down")
    /\ Reset(p)
    /\ UNCHANGED <<shown, gpio, blink>>

Disable(p) ==
    /\ Go(p, "down", "disabled") \/ Go(p, "rx", "disabled") \/ Go(p, "up", "disabled")
    /\ Reset(p)
    /\ UNCHANGED <<shown, gpio, blink>>

\* _hal_port_rx_setup_state_start(), on an early link.
RxStart(p) ==
    /\ p \in lpdc
    /\ Go(p, "down", "rx")
    /\ WantLink(p, Calib)
    /\ UNCHANGED <<shown, gpio, blink, info>>

\* _hal_port_rx_setup_state_init(), as a fall-back.
RxInit(p) ==
    /\ Go(p, "rx", "down")
    /\ WantLink(p, Off)
    /\ UNCHANGED <<shown, gpio, blink, info>>

LinkUp(p) ==
    /\ Go(p, IF p \in lpdc THEN "rx" ELSE "down", "up")
    /\ WantLink(p, Off)
    /\ UNCHANGED <<shown, gpio, blink, info>>

Recent(p) == info[p].synchronized /\ info[p].updated > -Patience

\* Fault: the runs are not counted.
Run_NotCounted(p) ==
    /\ state[p] = "up"
    /\ want' = [want EXCEPT ![p] = [link |-> info[p].mode, sync |-> Recent(p)]]
    /\ UNCHANGED <<info, shown, gpio, blink, state>>

\* port_fsm_state_link_up(): "5seconds".  Bound: the count ends where it no
\* longer matters.
Run(p) ==
    /\ state[p] = "up"
    /\ want' = [want EXCEPT ![p] = [link |-> info[p].mode, sync |-> Recent(p)]]
    /\ info' = [info EXCEPT ![p].updated = IF Recent(p) THEN @ - 1 ELSE @]
    /\ UNCHANGED <<shown, gpio, blink, state>>

-----------------------------------------------------------------------------
(* PPSi, SFPs and tools                                                    *)

\* hal_port_update_info()
UpdateInfo(p, mode, synchronized) ==
    /\ info' = [info EXCEPT ![p] = [mode |-> mode, synchronized |-> synchronized,
                                    updated |-> 1]]
    /\ UNCHANGED <<want, shown, gpio, blink, state>>

\* hal_port_insert_sfp() switches the laser on, halexp_sfp_tx_cmd() as it is told.
SetTxDisable(p, on) ==
    /\ gpio' = [gpio EXCEPT ![p] = Set(@, on, {"tx_disable"})]
    /\ UNCHANGED <<want, shown, blink, state, info>>

Machine(p) ==
    \/ TxStart(p) \/ Validate(p) \/ TxDone(p) \/ LinkDown(p) \/ Disable(p)
    \/ RxStart(p) \/ RxInit(p) \/ LinkUp(p) \/ Run(p)

World(p) ==
    \/ \E mode \in {Slave, Other, Master}, s \in BOOLEAN : UpdateInfo(p, mode, s)
    \/ \E on \in BOOLEAN : SetTxDisable(p, on)

Next ==
    /\ LinkUpdate \/ SyncUpdate \/ \E p \in Ports : Machine(p) \/ World(p)
    /\ UNCHANGED lpdc

Spec == Init /\ [][Next]_vars

\* The timers of the main loop, which also runs the machine of a port that is up.
Fairness ==
    /\ WF_vars(LinkUpdate /\ UNCHANGED lpdc)
    /\ WF_vars(SyncUpdate /\ UNCHANGED lpdc)
    /\ \A p \in Ports : WF_vars(Run(p) /\ UNCHANGED lpdc)

-----------------------------------------------------------------------------
Links == {Unset, Off, Slave, Other, Master, Calib}

TypeOK ==
    /\ want \in [Ports -> [link : Links, sync : BOOLEAN]]
    /\ shown \in [Ports -> [link : Links, sync : BOOLEAN]]
    /\ gpio \in [Ports -> SUBSET Pins]
    /\ blink \in BOOLEAN /\ lpdc \subseteq Ports
    /\ state \in [Ports -> {"boot", "calib", "ready", "disabled", "down", "rx", "up"}]
    /\ info \in [Ports -> [mode : {Slave, Other, Master}, synchronized : BOOLEAN,
                           updated : -Patience .. 1]]

\* "to avoid i2c transfers to set the link LEDs, cache their state": what will
\* not be written again is what the lights show, although the TX setup switches
\* them off behind the cache.
LedsShown ==
    \A p \in Ports :
        /\ ~Outdated(p) /\ shown[p].link # Unset
              => gpio[p] \cap Modes = Pattern({}, shown[p].link)
        /\ want[p].sync = shown[p].sync => (("synced" \in gpio[p]) <=> shown[p].sync)

\* "always update to blink": the light of a port that goes on calibrating goes
\* on and off.
Blinks(p) ==
    <>[](want[p].link = Calib)
        => []<>("mode2" \in gpio[p]) /\ []<>("mode2" \notin gpio[p])

\* The light that says "synchronized" goes out when PPSi, which has stopped or
\* died, says no more of the port, though nobody resets the port.
SyncGoesOut(p) ==
    <>[][\A mode \in {Slave, Other, Master}, s \in BOOLEAN : ~UpdateInfo(p, mode, s)]_vars
        => <>[]("synced" \notin gpio[p])
=============================================================================
