------------------------------- MODULE Shell -------------------------------
(***************************************************************************)
(* kernel/shell/shell.c: shell_main_loop, called for ever by kernel_main,  *)
(* between the event ring that the keyboard interrupts fill (a bounded     *)
(* queue, see KeyRing) and the line editor of CommandLine.  The command    *)
(* usb_scan runs pci_scan_for_usb_controllers of drivers/usb/usb.c again.  *)
(***************************************************************************)
EXTENDS CommandLine

CONSTANTS QueueSize,   \* KEYBUF_CAP - 1
          MaxEvents,   \* bound: key events typed
          ScanCmd,     \* the text "usb_scan"
          Answer,      \* what is printed for a command
          Found,       \* USB controllers among the PCI devices
          MaxControllers   \* the length of usb_controllers

ASSUME ShellAssumption == {Answer, <<"newline">>} \subseteq Messages

VARIABLES evq,              \* the event ring
          start, end_command,
          pc,               \* the loop is at its top, or drains the ring
          usb_controller_count,
          typed,            \* events typed so far
          owed              \* the last press accepted is an Enter not yet run

shellVars == <<evq, start, end_command, pc, usb_controller_count, typed, owed>>
vars == <<lineVars, shellVars>>

Events == [type : {"PRESS", "RELEASE"}, code : Codes]
Press(e) == e.type = "PRESS"
Line == Text(0, cmd_len)

\* pci_scan_for_usb_controllers has run once when the shell starts.
Init == /\ LineInit
        /\ evq = << >>
        /\ start = TRUE /\ end_command = FALSE
        /\ pc = "top"
        /\ usb_controller_count = Found
        /\ typed = 0
        /\ owed = FALSE

\* A keyboard interrupt: the event is queued, or dropped by a full ring.
key_irq(e) ==
    /\ typed < MaxEvents
    /\ typed' = typed + 1
    /\ evq' = IF Len(evq) < QueueSize THEN Append(evq, e) ELSE evq
    /\ owed' = IF Len(evq) < QueueSize /\ Press(e) THEN e.code = "ENTER" ELSE owed
    /\ UNCHANGED <<lineVars, start, end_command, pc, usb_controller_count>>

\* The first pass prints the welcome and the first prompt.
welcome == /\ pc = "top" /\ start
           /\ prompt(<<"newline">>)
           /\ start' = FALSE
           /\ UNCHANGED <<evq, end_command, pc, usb_controller_count, typed, owed>>

\* The scan appends every controller it finds to the ones already listed.
scan == usb_controller_count' = usb_controller_count + Found

run_command == /\ pc = "top" /\ ~start /\ end_command
               /\ prompt(Answer)
               /\ IF Line = ScanCmd THEN scan ELSE UNCHANGED usb_controller_count
               /\ end_command' = FALSE
               /\ pc' = "drain"
               /\ owed' = (owed /\ \E i \in DOMAIN evq : Press(evq[i]))
               /\ UNCHANGED <<evq, start, typed>>

no_command == /\ pc = "top" /\ ~start /\ ~end_command
              /\ pc' = "drain"
              /\ UNCHANGED <<lineVars, evq, start, end_command, usb_controller_count,
                             typed, owed>>

\* Mutant of drain_key: releases are handed to the editor too.
drain_any == /\ pc = "drain" /\ evq # << >>
             /\ evq' = Tail(evq)
             /\ handle_command_line(Head(evq).code)
             /\ end_command' = (Head(evq).code = "ENTER")
             /\ UNCHANGED <<start, pc, usb_controller_count, typed, owed>>

\* kbd_read_event gives an event: a press goes to the editor, and what it
\* returns for this key replaces what it returned for the one before.
drain_key == /\ pc = "drain" /\ evq # << >>
             /\ evq' = Tail(evq)
             /\ IF Press(Head(evq))
                  THEN /\ handle_command_line(Head(evq).code)
                       /\ end_command' = (Head(evq).code = "ENTER")
                  ELSE UNCHANGED <<lineVars, end_command>>
             /\ UNCHANGED <<start, pc, usb_controller_count, typed, owed>>

drain_done == /\ pc = "drain" /\ evq = << >>
              /\ pc' = "top"
              /\ UNCHANGED <<lineVars, evq, start, end_command, usb_controller_count,
                             typed, owed>>

shell_main_loop == \/ welcome \/ run_command \/ no_command
                   \/ drain_key \/ drain_done

Next == (\E e \in Events : key_irq(e)) \/ shell_main_loop

loopVars == <<pc, start, evq>>

\* The control of a step of the loop: of the steps of Next, exactly those of
\* shell_main_loop have it, and one of them is always enabled.
loop_control ==
    \/ pc = "top" /\ start /\ start' = FALSE /\ UNCHANGED <<pc, evq>>
    \/ pc = "top" /\ ~start /\ pc' = "drain" /\ UNCHANGED <<start, evq>>
    \/ pc = "drain" /\ evq # << >> /\ evq' = Tail(evq) /\ UNCHANGED <<start, pc>>
    \/ pc = "drain" /\ evq = << >> /\ pc' = "top" /\ UNCHANGED <<start, evq>>

\* kernel_main calls the loop for ever, and every interrupt returns to it.
Spec == Init /\ [][Next]_vars /\ WF_loopVars(loop_control)

-----------------------------------------------------------------------------
\* An Enter that no other press followed is never lost: it is the last press
\* in the ring, or the loop has taken it and no later event has replaced it.
EnterKept ==
    owed => \/ end_command /\ \A i \in DOMAIN evq : ~Press(evq[i])
            \/ \E i \in DOMAIN evq : /\ Press(evq[i]) /\ evq[i].code = "ENTER"
                                    /\ \A j \in i + 1 .. Len(evq) : ~Press(evq[j])

\* The Enter that ends what was typed is run: it is lost neither between the
\* ring and the loop nor by the releases that follow it.
LastEnterRuns == owed ~> ~owed

\* "Support up to 16 controllers": the table of USB controllers never holds
\* more than it has room for.
ControllersFit == usb_controller_count <= MaxControllers
=============================================================================
