------------------------------- MODULE PciScan -------------------------------
(***************************************************************************)
(* drivers/pci.c: the scan of the configuration space into pci_devices,    *)
(* and pci_scan_for_usb_controllers of drivers/usb/usb.c, which makes the  *)
(* table of USB controllers from it.                                       *)
(*                                                                         *)
(* A function of a device (external) has a layout, the kind of each of its *)
(* base address registers, which are integers; what a function is, is      *)
(* chosen when the scan reads it.                                          *)
(***************************************************************************)
EXTENDS Integers, Sequences, FiniteSetsExt

CONSTANTS Functions,      \* functions on the buses
          MaxPciDevices,  \* MAX_PCI_DEVICES
          BarCount,       \* 6
          Layouts,        \* the kinds of the registers of UHCI functions
          IoAddress,      \* the port of a function's I/O range
          MemAddress,     \* the lower half of the address of its memory range
          UpperHalf,      \* the upper half of the addresses above 4 GiB
          Lines           \* values of the interrupt line register

Bars == 1 .. BarCount
Kinds == {"none", "io", "mem32", "mem64", "upper"}

ASSUME PciAssumption == /\ Functions \in Nat \ {0} /\ MaxPciDevices \in Nat /\ BarCount \in Nat
                        /\ UpperHalf \in Nat

\* A 64-bit address has its upper half in the register after the lower one.
ASSUME LayoutAssumption ==
    \A layout \in Layouts :
        /\ layout \in [Bars -> Kinds]
        /\ \A i \in Bars : layout[i] = "upper" <=> i > 1 /\ layout[i - 1] = "mem64"

\* A port is a number of 16 bits other than 0; ranges are aligned.
ASSUME AddressAssumption ==
    \A n \in 1 .. Functions :
        /\ IoAddress[n] \in Nat \ {0} /\ IoAddress[n] < 65536 /\ IoAddress[n] % 4 = 0
        /\ MemAddress[n] \in Nat /\ MemAddress[n] % 16 = 0

VARIABLES
    stage,           \* where kernel_main is
    hw,              \* the functions as the hardware has them, as far as read
    pci_devices,
    usb_controllers

pciVars == <<stage, hw, pci_devices, usb_controllers>>

UHCI == 0
EHCI == 32
Absent == [class |-> "absent"]

(***************************************************************************)
(* The hardware (external).  A register of an I/O range has bit 0 set; one *)
(* of a memory range says in bits 1 and 2 that the range has a 64-bit      *)
(* address, whose upper half is in the next register.                      *)
(***************************************************************************)
Register(kind, n) == CASE kind = "none" -> 0
                       [] kind = "io" -> IoAddress[n] + 1
                       [] kind = "mem32" -> MemAddress[n]
                       [] kind = "mem64" -> MemAddress[n] + 4
                       [] kind = "upper" -> UpperHalf

UsbFunction(n, layout, prog_if, line) ==
    [class |-> "usb", prog_if |-> prog_if, line |-> line,
     raw |-> [i \in Bars |-> Register(layout[i], n)],
     io |-> IF \E i \in Bars : layout[i] = "io" THEN IoAddress[n] ELSE 0]

EhciLayout == [i \in Bars |-> IF i = 1 THEN "mem64" ELSE IF i = 2 THEN "upper" ELSE "none"]

\* A device with a single function may answer for the next function too.
Function(n) ==
    {Absent, [class |-> "other"]}
    \cup {UsbFunction(n, layout, UHCI, line) : layout \in Layouts, line \in Lines}
    \cup {UsbFunction(n, EhciLayout, EHCI, 255)}
    \cup (IF n > 1 THEN {hw[n - 1]} ELSE {})

-----------------------------------------------------------------------------
\* Mutant of Skipped: the upper half is taken for a register of its own.
SkippedNone(raw) == [i \in Bars |-> FALSE]

Is64Bit(value) == value % 2 = 0 /\ (value \div 2) % 4 = 2

\* The registers that pci_read_bars passes over, after a 64-bit one.
Skipped(raw) ==
    LET skipped[i \in Bars] == i > 1 /\ ~skipped[i - 1] /\ Is64Bit(raw[i - 1])
    IN skipped

\* pci_read_bars.  An entry passed over keeps the zeroes the table has before
\* its only scan.
pci_read_bars(raw) ==
    LET skipped == Skipped(raw)
    IN [i \in Bars |->
          IF raw[i] = 0 \/ skipped[i] THEN [bar |-> 0, is_memory_mapped |-> FALSE]
          ELSE IF raw[i] % 2 = 1
            THEN [bar |-> 4 * (raw[i] \div 4), is_memory_mapped |-> FALSE]
            ELSE [bar |-> 16 * (raw[i] \div 16), is_memory_mapped |-> TRUE]]

\* The entry that pci_scan makes of function n.
Entry(f, n) == IF f.class = "usb"
                 THEN [fn |-> n, class |-> f.class, prog_if |-> f.prog_if,
                       bars |-> pci_read_bars(f.raw), interrupt_line |-> f.line]
                 ELSE [fn |-> n, class |-> f.class]

\* pci_scan reads one function.  A function more than the table holds, or the
\* last one, ends it.
pci_scan ==
    /\ stage = "pci"
    /\ \E f \in Function(Len(hw) + 1) :
         LET full == f # Absent /\ Len(pci_devices) >= MaxPciDevices
             n == Len(hw) + 1
         IN /\ hw' = Append(hw, f)
            /\ pci_devices' = IF f = Absent \/ full THEN pci_devices
                              ELSE Append(pci_devices, Entry(f, n))
            /\ stage' = IF full \/ n = Functions THEN "usb" ELSE stage
    /\ UNCHANGED usb_controllers

\* The first I/O range, cut to the 16 bits of a port number.
find_uhci_io_base(device) ==
    LET io == {i \in Bars : device.bars[i].bar # 0 /\ ~device.bars[i].is_memory_mapped}
    IN IF io = {} THEN 0 ELSE device.bars[Min(io)].bar % 65536

\* The entry for device i of pci_devices.
Controller(i) ==
    [pci_device |-> i,
     base_address |-> IF pci_devices[i].prog_if = UHCI THEN find_uhci_io_base(pci_devices[i])
                      ELSE pci_devices[i].bars[1].bar]

add_controller(table, i) == IF pci_devices[i].class = "usb" THEN Append(table, Controller(i))
                            ELSE table

pci_scan_for_usb_controllers ==
    /\ stage = "usb"
    /\ LET table[i \in 0 .. Len(pci_devices)] == IF i = 0 THEN usb_controllers
                                                ELSE add_controller(table[i - 1], i)
       IN usb_controllers' = table[Len(pci_devices)]
    /\ stage' = "enumerate"
    /\ UNCHANGED <<hw, pci_devices>>

Device(controller) == pci_devices[controller.pci_device]
IsUhci(controller) == Device(controller).prog_if = UHCI

-----------------------------------------------------------------------------
\* The base address of a UHCI controller is the I/O range of its function, and
\* zero only for a function that has none: neither half of an address in memory
\* is taken for one.
IoBaseReal ==
    \A i \in DOMAIN usb_controllers :
        IsUhci(usb_controllers[i]) =>
            usb_controllers[i].base_address = hw[Device(usb_controllers[i]).fn].io
=============================================================================
