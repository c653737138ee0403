------------------------------ MODULE UhciPipe ------------------------------
(***************************************************************************)
(* The interrupt pipes of USB boot keyboards: drivers/usb/uhci/hid_kbd.c   *)
(* and the interrupt handler of uhci_isr.c, with the host controller and   *)
(* the keyboards (external) running beside them.  Each pipe has one        *)
(* transfer descriptor (TD) and a queue head (QH) the controller reads     *)
(* from the slots of the frame list that hold it; what else the boot puts  *)
(* into the list is in UhciBus.  The controller is the only one running.   *)
(*                                                                         *)
(* The reports of a keyboard are numbered 1, 2, 3 ... in the order it      *)
(* makes them; 0 is what a buffer holds that no transfer has filled.       *)
(***************************************************************************)
EXTENDS Integers, Sequences

CONSTANTS Pipes,            \* UHCI_MAX_KBD_PIPES, or how many keyboards there are
          FrameCount,       \* 1024
          Intervals,        \* p->interval: the polling intervals of the keyboards
          KeysDuringOpen,   \* keys are typed while the boot opens further pipes
          MaxReports,       \* bound: reports per keyboard
          MaxFaults         \* bound: transfers that fail

ASSUME PipesAssumption == Pipes \in Nat \ {0}
ASSUME FrameAssumption == FrameCount \in Nat \ {0} /\ Intervals \subseteq Nat \ {0}
ASSUME BoundAssumption == MaxReports \in Nat /\ MaxFaults \in Nat
ASSUME KeysAssumption == KeysDuringOpen \in BOOLEAN

VARIABLES
    main,        \* the boot still enumerates devices, or runs the shell
    frame_list,  \* the pipe whose QH a slot points at, or 0
    phase,       \* how far uhci_kbd_open_interrupt_in has got with a pipe
    toggle,      \* p->toggle
    td,          \* the TD: active, how it ended, the toggle of its token
    linked,      \* the QH points at the TD (the controller ends it on success)
    buf,         \* p->buf
    delivered,   \* what keyboard_usb_on_boot_report was given, in order
    made, acked, \* reports a keyboard has made, and has seen acknowledged
    faults,      \* failures so far
    ioc,         \* a TD with IOC completed in this frame
    usbint, usberrint,       \* USBSTS
    pc, st_err, cur, passes  \* the handler: where, USBERRINT seen, loop index

pipeVars == <<phase, toggle, td, linked, buf, delivered>>
hcVars == <<made, acked, faults, ioc>>
statusVars == <<usbint, usberrint>>
isrVars == <<pc, st_err, cur, passes>>
vars == <<main, frame_list, pipeVars, hcVars, statusVars, isrVars>>

Pipe == 1 .. Pipes
Slot == 0 .. FrameCount - 1
TD == [active : BOOLEAN, status : {"ok", "nak", "bad"}, toggle : 0 .. 1]
NoTD == [active |-> FALSE, status |-> "ok", toggle |-> 0]

Init == /\ main = "enumerate"
        /\ frame_list = [s \in Slot |-> 0]
        /\ phase = [p \in Pipe |-> "closed"]
        /\ toggle = [p \in Pipe |-> 0]
        /\ td = [p \in Pipe |-> NoTD]
        /\ linked = [p \in Pipe |-> FALSE]
        /\ buf = [p \in Pipe |-> 0]
        /\ delivered = [p \in Pipe |-> << >>]
        /\ made = [p \in Pipe |-> 0]
        /\ acked = [p \in Pipe |-> 0]
        /\ faults = 0 /\ ioc = FALSE
        /\ usbint = FALSE /\ usberrint = FALSE
        /\ pc = "idle" /\ st_err = FALSE /\ cur = 1 /\ passes = 0

(***************************************************************************)
(* uhci_kbd_open_interrupt_in, called by the boot for one keyboard after   *)
(* the other.  It runs only while no handler does, and may be interrupted  *)
(* between its steps.  The pipe is in use before it has a TD.              *)
(***************************************************************************)
Booting == main = "enumerate" /\ pc = "idle"

Opening(p, from, to) == /\ Booting
                        /\ phase[p] = from
                        /\ phase' = [phase EXCEPT ![p] = to]

\* The first slot not in use is claimed.
open_claim(p) == /\ Opening(p, "closed", "claimed")
                 /\ \A q \in Pipe : IF q < p THEN phase[q] = "open" ELSE phase[q] = "closed"
                 /\ toggle' = [toggle EXCEPT ![p] = 0]
                 /\ UNCHANGED <<main, frame_list, td, linked, buf, delivered, hcVars, statusVars, isrVars>>

\* The buffer, the TD and the QH are allocated and zeroed.
open_zero(p) == /\ Opening(p, "claimed", "zeroed")
                /\ td' = [td EXCEPT ![p] = NoTD]
                /\ linked' = [linked EXCEPT ![p] = FALSE]
                /\ buf' = [buf EXCEPT ![p] = 0]
                /\ UNCHANGED <<main, frame_list, toggle, delivered, hcVars, statusVars, isrVars>>

Armed(p) == [active |-> TRUE, status |-> "ok", toggle |-> toggle[p]]

\* uhci_kbd_rearm_td(p, false), and the QH is pointed at the TD.
open_arm(p) == /\ Opening(p, "zeroed", "armed")
               /\ td' = [td EXCEPT ![p] = Armed(p)]
               /\ linked' = [linked EXCEPT ![p] = TRUE]
               /\ UNCHANGED <<main, frame_list, toggle, buf, delivered, hcVars, statusVars, isrVars>>

Link(p, slots) == [s \in Slot |-> IF s \in slots THEN p ELSE frame_list[s]]

\* Every interval-th slot from the next frame's on, around the list.
IntervalSlots(start, interval) == {(start + k * interval) % FrameCount : k \in Slot}

\* place_qh_every_interval: the controller sees the QH from here on, and in the
\* slots it is put in no longer the QH of an earlier keyboard.
open_place(p) == /\ Opening(p, "armed", "open")
                 /\ \E start \in Slot, interval \in Intervals :
                      frame_list' = Link(p, IntervalSlots(start, interval))
                 /\ UNCHANGED <<main, toggle, td, linked, buf, delivered, hcVars,
                                statusVars, isrVars>>

\* An allocation fails: what there is of the pipe is freed and zeroed.
open_fails(p) == /\ Opening(p, "claimed", "closed")
                 /\ toggle' = [toggle EXCEPT ![p] = 0]
                 /\ UNCHANGED <<main, frame_list, td, linked, buf, delivered, hcVars,
                                statusVars, isrVars>>

\* With every pipe in use it returns -1 and leaves all as it was; the caller
\* goes on in both cases.
open(p) == open_claim(p) \/ open_zero(p) \/ open_arm(p) \/ open_place(p) \/ open_fails(p)

NoneHalfOpen == \A p \in Pipe : phase[p] \in {"closed", "open"}

\* A control transfer of a port that is enumerated later takes the slots of one
\* or two frames, and does not give them back.
take_slots == /\ Booting /\ NoneHalfOpen
              /\ \E s \in Slot, next \in 0 .. 1 :
                   frame_list' = Link(0, {s, (s + next) % FrameCount})
              /\ UNCHANGED <<main, pipeVars, hcVars, statusVars, isrVars>>

\* usb_enumerate_devices returns.
enumerated == /\ Booting /\ NoneHalfOpen
              /\ main' = "shell"
              /\ UNCHANGED <<frame_list, pipeVars, hcVars, statusVars, isrVars>>

(***************************************************************************)
(* The keyboards and the controller (external).  A keyboard repeats a      *)
(* report, with the same data toggle, until it sees it acknowledged.       *)
(***************************************************************************)
make_report(p) == /\ phase[p] = "open"
                  /\ KeysDuringOpen \/ main = "shell"
                  /\ made[p] < MaxReports
                  /\ made' = [made EXCEPT ![p] = @ + 1]
                  /\ UNCHANGED <<main, frame_list, pipeVars, acked, faults, ioc, statusVars, isrVars>>

Scheduled(p) == \E s \in Slot : frame_list[s] = p
Polled(p) == Scheduled(p) /\ linked[p] /\ td[p].active
Pending(p) == acked[p] < made[p]
InStep(p) == acked[p] % 2 = td[p].toggle
Ended(p, status) == [active |-> FALSE, status |-> status, toggle |-> td[p].toggle]

\* Nothing to send: the TD stays active.
hc_nak(p) == /\ Polled(p) /\ ~Pending(p)
             /\ td' = [td EXCEPT ![p].status = "nak"]
             /\ UNCHANGED <<main, frame_list, phase, toggle, linked, buf, delivered, hcVars,
                            statusVars, isrVars>>

\* The report is received; the keyboard may miss the acknowledgement.
hc_data(p) == /\ Polled(p) /\ Pending(p) /\ InStep(p)
              /\ buf' = [buf EXCEPT ![p] = acked[p] + 1]
              /\ td' = [td EXCEPT ![p] = Ended(p, "ok")]
              /\ linked' = [linked EXCEPT ![p] = FALSE]
              /\ ioc' = TRUE
              /\ \/ acked' = [acked EXCEPT ![p] = @ + 1] /\ UNCHANGED faults
                 \/ faults < MaxFaults /\ faults' = faults + 1 /\ UNCHANGED acked
              /\ UNCHANGED <<main, frame_list, phase, toggle, delivered, made, statusVars, isrVars>>

\* The toggle is not the expected one: a report already received, which the
\* controller acknowledges and drops.
hc_repeat(p) == /\ Polled(p) /\ Pending(p) /\ ~InStep(p)
                /\ acked' = [acked EXCEPT ![p] = @ + 1]
                /\ UNCHANGED <<main, frame_list, pipeVars, made, faults, ioc, statusVars, isrVars>>

\* Babble or a data buffer error ends the TD without an acknowledgement.
hc_fault(p) == /\ Polled(p) /\ Pending(p)
               /\ faults < MaxFaults
               /\ faults' = faults + 1
               /\ td' = [td EXCEPT ![p] = Ended(p, "bad")]
               /\ usberrint' = TRUE
               /\ ioc' = TRUE
               /\ UNCHANGED <<main, frame_list, phase, toggle, linked, buf, delivered, made, acked,
                              usbint, isrVars>>

\* USBINT is raised at the end of a frame in which a TD with IOC completed.
hc_frame_end == /\ ioc
                /\ ioc' = FALSE /\ usbint' = TRUE
                /\ UNCHANGED <<main, frame_list, pipeVars, made, acked, faults, usberrint, isrVars>>

(***************************************************************************)
(* uhci_irq_top and uhci_kbd_service.  The line is shared and level        *)
(* triggered; only USBINT raises it (USBINTR is 0x0006), an interrupt of   *)
(* another device on the line finds USBERRINT alone.                       *)
(***************************************************************************)
irq_read == /\ pc = "idle"
            /\ usbint \/ usberrint
            /\ pc' = "ack"
            /\ st_err' = usberrint
            /\ passes' = IF usbint /\ usberrint THEN 2 ELSE 1
            /\ UNCHANGED <<main, frame_list, pipeVars, hcVars, statusVars, cur>>

\* The causes seen are cleared, and then the pipes are looked at: once for
\* each of USBINT and USBERRINT.
irq_ack == /\ pc = "ack"
           /\ usbint' = IF passes = 2 \/ ~st_err THEN FALSE ELSE usbint
           /\ usberrint' = IF st_err THEN FALSE ELSE usberrint
           /\ pc' = "poll" /\ cur' = 1
           /\ UNCHANGED <<main, frame_list, pipeVars, hcVars, st_err, passes>>

\* On to the next pipe, the next pass, or out of the handler.
next_pipe == \/ /\ cur < Pipes
                /\ cur' = cur + 1 /\ pc' = "poll"
                /\ UNCHANGED passes
             \/ /\ cur = Pipes
                /\ cur' = 1 /\ passes' = passes - 1
                /\ pc' = IF passes > 1 THEN "poll" ELSE "idle"

\* What td->control_status may read as: a claimed pipe has a null TD.
StatusRead(p) == IF phase[p] = "claimed" THEN {NoTD, [NoTD EXCEPT !.active = TRUE]}
                                         ELSE {td[p]}

poll_skip == /\ pc = "poll"
             /\ phase[cur] = "closed" \/ \E cs \in StatusRead(cur) : cs.active
             /\ next_pipe
             /\ UNCHANGED <<main, frame_list, pipeVars, hcVars, statusVars, st_err>>

\* Mutant of poll_error: the toggle is advanced after a failed transfer too.
poll_error_toggle == /\ pc = "poll" /\ phase[cur] # "closed"
                     /\ \E cs \in StatusRead(cur) : ~cs.active /\ cs.status # "ok"
                     /\ toggle' = [toggle EXCEPT ![cur] = 1 - @]
                     /\ pc' = "arm"
                     /\ UNCHANGED <<main, frame_list, phase, td, linked, buf, delivered, hcVars,
                                    statusVars, st_err, cur, passes>>

\* NAK or an error: rearmed without consuming data, with the same toggle.
poll_error == /\ pc = "poll" /\ phase[cur] # "closed"
              /\ \E cs \in StatusRead(cur) : ~cs.active /\ cs.status # "ok"
              /\ pc' = "arm"
              /\ UNCHANGED <<main, frame_list, pipeVars, hcVars, statusVars, st_err, cur, passes>>

\* A report is handed over, and the TD will expect the other toggle.
poll_data == /\ pc = "poll" /\ phase[cur] # "closed"
             /\ \E cs \in StatusRead(cur) : ~cs.active /\ cs.status = "ok"
             /\ delivered' = [delivered EXCEPT ![cur] = Append(@, buf[cur])]
             /\ toggle' = [toggle EXCEPT ![cur] = 1 - @]
             /\ pc' = "arm"
             /\ UNCHANGED <<main, frame_list, phase, td, linked, buf, hcVars, statusVars,
                            st_err, cur, passes>>

\* uhci_kbd_rearm_td: the TD is active before the QH points at it again.
rearm_td == /\ pc = "arm"
            /\ td' = [td EXCEPT ![cur] = Armed(cur)]
            /\ pc' = "link"
            /\ UNCHANGED <<main, frame_list, phase, toggle, linked, buf, delivered, hcVars,
                           statusVars, st_err, cur, passes>>

\* Mutant of rearm_link: the QH is left as the controller left it.
rearm_nolink == /\ pc = "link"
                /\ next_pipe
                /\ UNCHANGED <<main, frame_list, pipeVars, hcVars, statusVars, st_err>>

rearm_link == /\ pc = "link"
              /\ linked' = [linked EXCEPT ![cur] = TRUE]
              /\ next_pipe
              /\ UNCHANGED <<main, frame_list, phase, toggle, td, buf, delivered, hcVars,
                             statusVars, st_err>>

uhci_irq_top == \/ irq_ack \/ poll_skip \/ poll_error \/ poll_data
                \/ rearm_td \/ rearm_link

Next == \/ \E p \in Pipe : \/ open(p) \/ make_report(p) \/ hc_nak(p) \/ hc_data(p)
                           \/ hc_repeat(p) \/ hc_fault(p)
        \/ take_slots \/ enumerated \/ hc_frame_end \/ irq_read \/ uhci_irq_top

Spec == Init /\ [][Next]_vars

\* An interrupt that is raised is taken and its handler runs to the end, and the
\* controller keeps walking the frame list: it comes to every slot of it again.
FairSpec == /\ Spec
            /\ WF_vars(irq_read /\ usbint) /\ WF_vars(uhci_irq_top) /\ WF_vars(hc_frame_end)
            /\ \A p \in Pipe : WF_vars(hc_data(p)) /\ WF_vars(hc_repeat(p))

-----------------------------------------------------------------------------
TypeOK == /\ main \in {"enumerate", "shell"}
          /\ frame_list \in [Slot -> 0 .. Pipes]
          /\ phase \in [Pipe -> {"closed", "claimed", "zeroed", "armed", "open"}]
          /\ toggle \in [Pipe -> 0 .. 1]
          /\ td \in [Pipe -> TD]
          /\ linked \in [Pipe -> BOOLEAN]
          /\ buf \in [Pipe -> Nat]
          /\ delivered \in [Pipe -> Seq(Nat)]
          /\ made \in [Pipe -> Nat] /\ acked \in [Pipe -> Nat]
          /\ faults \in Nat /\ ioc \in BOOLEAN
          /\ usbint \in BOOLEAN /\ usberrint \in BOOLEAN
          /\ pc \in {"idle", "ack", "poll", "arm", "link"}
          /\ st_err \in BOOLEAN /\ cur \in Pipe /\ passes \in 0 .. 2

\* The keyboard layer is given each report once and in the order the keyboard
\* made them, whatever is repeated on the bus, fails, or completes while the
\* handler runs.
InOrder == \A p \in Pipe : /\ Len(delivered[p]) <= made[p]
                           /\ \A k \in 1 .. Len(delivered[p]) : delivered[p][k] = k

Live(p) == phase[p] \in {"armed", "open"}

\* The TD brought a report that is not handed over yet.
Full(p) == /\ Live(p) /\ ~td[p].active /\ td[p].status = "ok"
           /\ ~(pc = "arm" /\ cur = p)

\* The toggle follows what was handed over, and the TD in use the toggle.
ToggleOK(p) == /\ toggle[p] = Len(delivered[p]) % 2
               /\ Live(p) /\ (td[p].active \/ Full(p)) => td[p].toggle = toggle[p]

\* The keyboard is at most one acknowledgement behind the controller.
StepOK(p) == /\ Full(p) => /\ acked[p] = Len(delivered[p]) \/ acked[p] = Len(delivered[p]) + 1
                           /\ Len(delivered[p]) < made[p]
                           /\ buf[p] = Len(delivered[p]) + 1
             /\ ~Full(p) => /\ acked[p] = Len(delivered[p]) \/ acked[p] + 1 = Len(delivered[p])
                            /\ Len(delivered[p]) <= made[p]
             /\ \A k \in 1 .. Len(delivered[p]) : delivered[p][k] = k

\* Nothing interrupts the boot; the handler finds no pipe half open, and rearms
\* only a TD that has ended.
BootOK == /\ main = "enumerate" => /\ pc = "idle" /\ ~usbint /\ ~usberrint /\ ~ioc
                                   /\ \A p \in Pipe : made[p] = 0
          /\ main = "shell" => NoneHalfOpen
          /\ pc # "idle" => passes > 0
          /\ pc = "arm" => ~td[cur].active

\* The controller finds open pipes only.
ListOK == \A p \in Pipe : Scheduled(p) => phase[p] = "open"

\* Controller, handler and keyboard stay in step: the data toggles on both
\* sides, the TD and the buffer agree on which report comes next, after every
\* step of the boot, the handler, the controller and the keyboards.
PipeInv == /\ TypeOK
           /\ BootOK
           /\ ListOK
           /\ \A p \in Pipe : ToggleOK(p) /\ StepOK(p)

\* Every report of a keyboard that still has a slot of the frame list reaches the
\* keyboard layer: no completion is missed between the acknowledge of the
\* interrupt and the look at the TD, and no pipe is left unarmed or out of step
\* with its keyboard.  A keyboard whose slots a later one or the transfers of later
\* ports have all taken is not polled any more.
EveryReportArrives ==
    \A p \in Pipe, n \in 1 .. MaxReports :
        (Scheduled(p) /\ made[p] >= n) ~> (Len(delivered[p]) >= n)

\* "If a TD completed, it hands the 8-byte report to the keyboard layer": what
\* is handed over was received from the keyboard.
HandedWasReceived == \A p \in Pipe : \A k \in 1 .. Len(delivered[p]) :
                        delivered[p][k] \in 1 .. made[p]
=============================================================================
