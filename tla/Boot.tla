--------------------------------- MODULE Boot ---------------------------------
(***************************************************************************)
(* From the firmware to the shell: the UEFI loader of UefiLoader (or the   *)
(* BIOS one), then kernel_main of kernel/kernel.c with the PCI scan of     *)
(* PciScan, the console's choice of framebuffer_console.c, and the way of  *)
(* interrupts through cpu/isr.c to uhci_irq_top of uhci_isr.c.             *)
(*                                                                         *)
(* The interrupts of PCI are level-triggered: while a controller's status  *)
(* is not acknowledged its line stays asserted, and kernel_main does not   *)
(* get on.  Enumeration and keyboards are UhciBus and UhciPipe; here they  *)
(* only wait for the timer and have a keyboard polled or not.              *)
(***************************************************************************)
EXTENDS UefiLoader, PciScan

CONSTANTS MaxIrqs       \* bound: interrupts of the controllers

VARIABLES
    kernel_bootinfo, fb_ready, screen_available,
    interrupt_handlers,
    current,        \* the controller usb_enumerate_devices is at
    running,        \* I/O addresses of the controllers that run
    mastering,      \* functions that may access memory
    polled,         \* a keyboard's TD is in the frame list they all share
    g_uhci_ctx,
    last,           \* what uhci_install_isr was called for last
    pending,        \* I/O addresses of the controllers that want service
    irqs

consoleVars == <<kernel_bootinfo, fb_ready, screen_available>>
usbVars == <<current, running, mastering, polled, g_uhci_ctx, last>>
irqVars == <<pending, irqs>>
bootVars == <<consoleVars, interrupt_handlers, usbVars, irqVars>>
vars == <<loaderVars, pciVars, bootVars>>

Line == 0 .. 15
NoContext == [io_base |-> 0, irq_line |-> 255]

Init == /\ LoaderInit
        /\ stage \in {"uefi", "bios"}
        /\ hw = << >> /\ pci_devices = << >> /\ usb_controllers = << >>
        /\ kernel_bootinfo = NoInfo /\ fb_ready = FALSE /\ screen_available = TRUE
        /\ interrupt_handlers = [l \in Line |-> "none"]
        /\ current = 1 /\ running = {} /\ mastering = {} /\ polled = FALSE
        /\ g_uhci_ctx = NoContext /\ last = NoContext
        /\ pending = {} /\ irqs = 0

load == stage = "uefi" /\ LoaderNext /\ UNCHANGED <<pciVars, bootVars>>

\* No loader runs any more, and what it had is gone; gop is kept, as the record
\* of what the firmware had answered.
LoaderGone ==
    /\ lpc' = "gone" /\ message' = "exiting" /\ UNCHANGED gop
    /\ handle_count' = 0 /\ vol' = 0 /\ faults' = {} /\ pool' = {} /\ pages' = {}
    /\ image' = NoImage /\ remaining' = 0 /\ boot_info' = NoInfo /\ stack_base' = -1
    /\ map_size' = 0 /\ map_cap' = 0 /\ map' = 0 /\ buffer_split' = 0
    /\ key_fresh' = FALSE /\ changes' = 0

\* kernel_uefi_entry copies the block out of the image.
kernel_uefi_entry ==
    /\ stage = "uefi" /\ lpc = "kernel"
    /\ kernel_bootinfo' = boot_info
    /\ stage' = "console"
    /\ LoaderGone
    /\ UNCHANGED <<hw, pci_devices, usb_controllers, fb_ready, screen_available,
                   interrupt_handlers, usbVars, irqVars>>

\* The BIOS loader leaves the block as the image has it.
start_kernel ==
    /\ stage = "bios"
    /\ stage' = "console"
    /\ LoaderGone
    /\ UNCHANGED <<hw, pci_devices, usb_controllers, bootVars>>

-----------------------------------------------------------------------------
\* Mutant of UsableMode: the length of a scan line is not looked at.
UsableModeStride(info) == /\ info.framebuffer
                          /\ "base" \in info.mode /\ "width" \in info.mode
                          /\ "height" \in info.mode

\* The flag alone is not believed.
UsableMode(info) == /\ info.framebuffer
                    /\ "base" \in info.mode /\ "width" \in info.mode
                    /\ "height" \in info.mode /\ "stride" \in info.mode

\* framebuffer_console_init; without a framebuffer, VGA text memory is used.
framebuffer_console_init ==
    /\ stage = "console"
    /\ fb_ready' = UsableMode(kernel_bootinfo)
    /\ screen_available' = ~fb_ready'
    /\ stage' = "irq"
    /\ UNCHANGED <<loaderVars, hw, pci_devices, usb_controllers, kernel_bootinfo,
                   interrupt_handlers, usbVars, irqVars>>

register_interrupt_handler(line, handler) ==
    interrupt_handlers' = [interrupt_handlers EXCEPT ![line] = handler]

irq_install ==
    /\ stage = "irq"
    /\ register_interrupt_handler(0, "timer")
    /\ stage' = "pci"
    /\ UNCHANGED <<loaderVars, hw, pci_devices, usb_controllers, consoleVars, usbVars, irqVars>>

\* The lines that are asserted (external): the timer, the keyboard and the
\* second PIC have lines 0, 1 and 2, and PCI functions get none of these.
Wired(line) == line \in 3 .. 15
Asserted == {l \in Line : \E n \in DOMAIN hw : /\ hw[n].class = "usb" /\ hw[n].io \in pending
                                               /\ hw[n].line = l /\ Wired(l)}
NoInterrupt == Asserted = {}
Ticking == interrupt_handlers[0] = "timer"

scan == /\ NoInterrupt
        /\ pci_scan \/ pci_scan_for_usb_controllers
        /\ UNCHANGED <<loaderVars, bootVars>>

Here == usb_controllers[current]

pci_enable_bus_mastering(device) == mastering' = mastering \cup {device.fn}

\* Mutant of uhci_install_isr: the context of the first controller is kept.
uhci_install_isr_first(ctx) ==
    IF ctx.irq_line < 16 /\ g_uhci_ctx = NoContext
      THEN g_uhci_ctx' = ctx /\ register_interrupt_handler(ctx.irq_line, "uhci")
      ELSE UNCHANGED <<g_uhci_ctx, interrupt_handlers>>

\* The context is overwritten even when the line is then found to be invalid.
uhci_install_isr(ctx) ==
    /\ g_uhci_ctx' = ctx
    /\ IF ctx.irq_line >= 16 THEN UNCHANGED interrupt_handlers
       ELSE register_interrupt_handler(ctx.irq_line, "uhci")

\* usb_enumerate_devices initialises a UHCI controller.  The reset sleeps, and
\* takes back what the controller asserts; a controller that does not halt, or
\* does not take the address of the frame list, is left stopped.
uhci_initialize_controller ==
    /\ stage = "enumerate" /\ current <= Len(usb_controllers) /\ IsUhci(Here)
    /\ NoInterrupt /\ Ticking
    /\ pci_enable_bus_mastering(Device(Here))
    /\ LET ctx == [io_base |-> Here.base_address, irq_line |-> Device(Here).interrupt_line]
       IN \/ /\ polled' = FALSE
             /\ running' = running \cup {ctx.io_base}
             /\ uhci_install_isr(ctx)
             /\ last' = ctx
          \/ /\ polled' \in {polled, FALSE}
             /\ running' = running \ {ctx.io_base}
             /\ UNCHANGED <<interrupt_handlers, g_uhci_ctx, last>>
    /\ pending' = pending \ {Here.base_address}
    /\ stage' = "ports"
    /\ UNCHANGED <<loaderVars, hw, pci_devices, usb_controllers, consoleVars, current, irqs>>

\* uhci_enumerate_devices resets the ports, with sleeps, and may open the pipe
\* of a keyboard.
uhci_enumerate_devices ==
    /\ stage = "ports" /\ NoInterrupt /\ Ticking
    /\ polled' \in {polled, TRUE}
    /\ current' = current + 1 /\ stage' = "enumerate"
    /\ UNCHANGED <<loaderVars, hw, pci_devices, usb_controllers, consoleVars,
                   interrupt_handlers, running, mastering, g_uhci_ctx, last, irqVars>>

\* There is no driver for the other kinds of controller.
other_controller ==
    /\ stage = "enumerate" /\ current <= Len(usb_controllers) /\ ~IsUhci(Here)
    /\ NoInterrupt
    /\ current' = current + 1
    /\ UNCHANGED <<loaderVars, pciVars, consoleVars, interrupt_handlers, running, mastering,
                   polled, g_uhci_ctx, last, irqVars>>

\* kbd_subsystem_init registers the PS/2 keyboard; the shell follows.
kbd_subsystem_init ==
    /\ stage = "enumerate" /\ current > Len(usb_controllers) /\ NoInterrupt
    /\ register_interrupt_handler(1, "ps2")
    /\ stage' = "shell"
    /\ UNCHANGED <<loaderVars, hw, pci_devices, usb_controllers, consoleVars, usbVars, irqVars>>

-----------------------------------------------------------------------------
\* A keyboard's TD completes on a controller (external).  All that run walk the
\* same frame list, whichever controller the keyboard is at.
td_completes ==
    /\ irqs < MaxIrqs /\ polled
    /\ \E n \in mastering : /\ hw[n].io \in running \ (pending \cup {0})
                            /\ pending' = pending \cup {hw[n].io}
    /\ irqs' = irqs + 1
    /\ UNCHANGED <<loaderVars, pciVars, consoleVars, interrupt_handlers, usbVars>>

\* uhci_irq_top reads and acknowledges the status of the one controller that
\* is in g_uhci_ctx, whoever interrupted.
uhci_irq_top == pending' = pending \ {g_uhci_ctx.io_base}

\* irq_handler: the end of interrupt, and the handler if there is one.
irq_handler ==
    /\ \E l \in Asserted : IF interrupt_handlers[l] = "uhci" THEN uhci_irq_top
                           ELSE UNCHANGED pending
    /\ UNCHANGED <<loaderVars, pciVars, consoleVars, interrupt_handlers, usbVars, irqs>>

kernel_main == \/ framebuffer_console_init \/ irq_install \/ scan
               \/ uhci_initialize_controller \/ uhci_enumerate_devices \/ other_controller
               \/ kbd_subsystem_init

Next == \/ load \/ kernel_uefi_entry \/ start_kernel
        \/ kernel_main \/ td_completes \/ irq_handler

\* The firmware's services return, the processor goes on, and takes the
\* interrupts that are asserted.
Spec == Init /\ [][Next]_vars /\ WF_vars(Next)

-----------------------------------------------------------------------------
\* What the firmware answered decides the console, through the loader's block, the
\* handover and the kernel: the framebuffer is drawn on exactly when the display
\* had an interface whose mode could be queried and has an address, a size and a
\* scan line, and the text memory exactly when it is not.  locate_gop may report
\* success without an interface; after a BIOS start there is no display to ask.
ConsoleReal ==
    stage \notin {"uefi", "bios", "console"} =>
        /\ fb_ready <=> gop.mode = Fields
        /\ screen_available <=> gop.mode # Fields

\* A controller whose line register says 0 takes the timer's handler, and of
\* two controllers only one has its interrupts acknowledged.
Clash ==
    \E i, j \in DOMAIN usb_controllers :
        /\ IsUhci(usb_controllers[i]) /\ IsUhci(usb_controllers[j])
        /\ \/ Device(usb_controllers[i]).interrupt_line = 0
           \/ usb_controllers[i].base_address # usb_controllers[j].base_address

\* Unless controllers clash the boot ends: the loader returns to the firmware,
\* whatever its services answer, or the shell starts, whenever interrupts come,
\* provided the memory map stops changing (MaxChanges): exit_boot_services has no
\* limit on its retries.
BootEnds == <>(stage = "shell" \/ lpc = "returned" \/ Clash)

\* An interrupt of the controller initialised last is acknowledged, even while
\* another one, that nobody acknowledges, keeps its line asserted.
LastServed == \A n \in 1 .. Functions :
    (IoAddress[n] \in pending /\ last.io_base = IoAddress[n] /\ Wired(last.irq_line))
        ~> (IoAddress[n] \notin pending \/ last.io_base # IoAddress[n])
=============================================================================
