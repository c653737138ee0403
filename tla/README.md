# CasseOS: a TLA+ verification of its boot, input path, USB stack, shell and allocator

CasseOS is a small 64-bit kernel, loaded by a BIOS or a UEFI loader of its own. Once booted it does
one thing: it takes keys from PS/2 and USB keyboards to a shell that shows a line, edits it and runs
a command. Almost everything that can go wrong there is between two actors: an interrupt handler and
the main loop, the host controller and the driver, two keyboards and one modifier state; or, before
that, between the loader and a firmware whose services fail and whose memory map changes. This
project models those parts, checks them with TLC and proves the central ones with TLAPS.

## 1. Inventory

| Component | State | Operations | Hard behaviour |
|---|---|---|---|
| Keyboard rings (`drivers/keyboard/keyboard_common.c`) | `ev_*`, `ascii_*`: buffer, head, tail | push (interrupt), polled and blocking reads, reset | push between any two accesses of a read; full and wrapped rings; key between empty test and `hlt`; reset while interrupts arrive |
| Unified keyboard layer (`keyboard_common.c`, `keyboard_usb.c`) | `g_mods`, `g_layout`, `g_ps2_e0`, `g_kbds`, `g_usb_next_id` | dispatcher, PS/2 handler, USB report diffing, register, enable, unregister, lock state | several keyboards share `g_mods`; press and release codes differ; reports missed while disabled |
| Line editor (`kernel/shell/command_line.c`) | `command`, `cmd_cursor`, `cmd_len`, `cmd_start_offset` | eight kinds of key, redraw, init, flush | in-place shifts; full line; redraw after a scroll |
| Console (`drivers/screen/`) | cells, cursor; VGA memory or framebuffer | `print_char`, `kprint_at`, `kprint`, scroll, cursor | positions off the screen, end of screen |
| Shell loop (`kernel/shell/shell.c`) | `start`, `end_command` | welcome, run a command, drain the ring | keys arrive at any step; an Enter is overwritten by a later key |
| Allocator (`libc/mem.c`) | `allocator_offset`, `free_list` | `aligned_alloc`, `aligned_free` | reuse with another padding; alignment |
| UHCI keyboard pipes (`drivers/usb/uhci/hid_kbd.c`, `uhci_isr.c`) | `g_kbd_pipes`: toggle, TD, QH, buffer; USBSTS | open, service, rearm, interrupt handler | controller runs beside the driver; lost acknowledgements; failures; half-open pipes |
| UHCI enumeration (`controller.c`, `enumerate.c`, `transfer.c`, `usb.c`) | `frame_list`, `usb_devices`, memory held | controller start, port reset, five control transfers, parse of the configuration, pipe opening | timeouts; failures that leave a request in the frame list; slots shared with keyboards; controllers that share the list |
| USB controller table (`usb.c`) | `usb_controllers`, count | `pci_scan_for_usb_controllers` | repeated scans |
| PCI scan (`drivers/pci.c`) | `pci_devices` | scan, base address registers, bus mastering | 64-bit registers take two places; a full table |
| Interrupt entry (`cpu/isr.c`, `uhci_isr.c`) | `interrupt_handlers`, `g_uhci_ctx` | register, `irq_handler`, `uhci_irq_top` | level-triggered lines; one context for all controllers; a line of 0 |
| Timer (`cpu/timer.c`) | `tick` | tick, sleep | ends a `hlt`, bounds a wait |
| UEFI loader (`bootloader/uefi/`) | the image, its pages, the stack, the memory map and its key | `locate_gop`, search of the volumes, `load_kernel`, `find_kernel_bootinfo`, `exit_boot_services` | every service may fail; short reads; the map changes between the call that reads it and the one that needs it |
| Kernel start-up (`kernel/kernel.c`) | `kernel_bootinfo`, the console in use | `kernel_main` | a framebuffer that is announced and not there |
| BIOS loader, long mode, string library, mappers | | | not modelled, see section 8 |

How they interact. A loader puts the kernel in memory and enters it, the UEFI one with a bootinfo
block that says whether there is a framebuffer. `kernel_main` chooses a console, starts the timer,
scans PCI, makes the table of USB controllers, enumerates USB devices, then calls
`kbd_subsystem_init`, then calls `shell_main_loop` for ever. Interrupt gates keep interrupts off, so
handlers run one at a time, between any two instructions of the main loop. The UHCI handler finds
completed transfers and calls `keyboard_usb_on_boot_report`; the PS/2 handler decodes scancodes;
both end in `kbd_dispatch_event`, which fills the rings. The shell drains the event ring into the
line editor, which draws on the console. Every descriptor the controller reads comes from the
allocator.

What makes each part correct: a ring is a bounded queue and never strands a reader; no modifier or
key stays down that nobody holds; the edited buffer is the typed text and the screen shows it; an
Enter that ends the input is run; blocks are disjoint, large enough and aligned; each report is
handed over once, in order, and eventually as long as its keyboard is polled; enumeration always ends and leaves the schedule clean;
the kernel is entered only when it is complete, and the boot ends.

## 2. Modules

| Module | Models | Notes |
|---|---|---|
| `BoundedFifo` | what a ring promises | abstract specification |
| `KeyRing` | one ring, its interrupted reader, `hlt` and the timer | implements `BoundedFifo` (`FifoSpec`) |
| `KeyRingProofs` | | proofs about `KeyRing` |
| `Keyboard`, `MCKeyboard` | dispatcher, PS/2 handler, USB keyboards | uses the rings as bounded queues |
| `KeyboardProofs` | | proofs about `Keyboard` |
| `LineEdit` | what the line editor promises | abstract specification: text before and after the cursor |
| `CommandLine`, `MCCommandLine` | line editor and console | implements `LineEdit` (`EditSpec`) |
| `CommandLineProofs` | | proofs about `CommandLine` |
| `Shell`, `MCShell` | the loop, composed with `CommandLine` and an event queue; the controller count | extends `CommandLine` |
| `ShellProofs` | | proofs about `Shell`, on top of `CommandLineProofs` |
| `Heap` | `aligned_alloc`, `aligned_free` | |
| `HeapProofs` | | proofs about `Heap` |
| `UhciPipe` | keyboard pipes, interrupt handler, controller, keyboards | |
| `UhciPipeProofs` | | proofs about `UhciPipe` |
| `ConfigParse` | the parse of a configuration blob, byte by byte | beside `Meant`, what the parse is for |
| `UhciBus`, `MCUhciBus` | controllers, control transfers, frame list, devices | extends `ConfigParse` |
| `UhciBusProofs` | | proofs about `UhciBus` |
| `UefiLoader` | the UEFI loader and the firmware | |
| `PciScan` | the PCI scan and the controller table | |
| `Boot`, `MCBoot` | `kernel_main` and interrupts, from either loader to the shell | extends `UefiLoader` and `PciScan` |
| `BootProofs` | | proofs about `Boot` and the loader and the PCI scan in it |

Correspondence. Variables and actions carry the names of the code; `PROJECT.json` maps every
definition to its lines. What is abstracted:

* `KeyRing`. A push is one step, as it runs with interrupts off. A read is split at its memory
  accesses (test, load, store of the tail). `kbd_subsystem_init` stores the tail and then the head,
  with pushes between. `pc = "hlt"` is the halted processor; any interrupt ends it (`Awake`). In
  `BoundedFifo` the queue is emptied once, when it gets ready (`phase`), and read only after that.
* `Keyboard`. Key codes are pairs (side and kind of a modifier, lock, character below 0x80,
  extended). A PS/2 key goes down, repeats while it is held (typematic) and goes up; Enter, Backspace,
  Tab and Esc have codes of their own. The layout tables are constants; the model check gives them a letter, the AZERTY comma
  (no shifted character), CapsLock and a usage without a code. A report is the set of modifier keys
  and the sequence of its non-empty positions. `down`, `odd`, `ps2_seen` and `orphaned` are
  histories for the properties. A handler is one step; its three loops are recursive functions over
  the passes (`emit_delta`, `emit_release`, `emit_press`). The lock keys NumLock and ScrollLock exist
  in the dispatcher only.
* `CommandLine`. Screen positions are cells. `Framebuffer` selects the console: VGA prints an `E`
  for a position off the screen and takes any 16-bit cursor; the framebuffer draws nothing there,
  scrolls, and clamps the cursor. `lost` says that drawing the line scrolled the screen (the code
  then keeps a stale `cmd_start_offset`), `fresh` that nothing was below the prompt. The loops of
  `kprint_at` and of the blanking are recursive functions over the characters.
* `Shell`. `owed` is a history: the last press accepted is an Enter that has not run. The message
  texts are reduced to their newlines. Nothing is said about the entries of
  `usb_controllers` but their number.
* `Heap`. A block is the address of its header and the size stored there. Addresses are exact.
  A request that finds no room returns NULL and changes nothing.
* `UhciPipe`. Reports are numbered. The TD keeps its active bit, its toggle and how it ended. The
  controller's actions are external: it clears the NAK bit when a TD completes, raises USBINT at the
  end of the frame, repeats nothing itself (the TDs have no error limit, C_ERR = 0), and a keyboard
  repeats a report with the same toggle until it sees the acknowledgement. `frame_list` says which
  pipe's queue head each slot holds: opening a pipe overwrites the slots of earlier ones
  (`place_qh_every_interval`), the control transfers of later ports take one or two slots at a time
  (`take_slots`), and a pipe without a slot is not polled. An allocation that fails closes the pipe
  again. Pipes and interrupts are those of one controller. `uhci_kbd_close` has no caller and is left
  out.
* `UhciBus`. Time is counted in frames and passes in `sleep_ms` only; the controller's visit of a
  queue head in a frame is one step that runs any number of stages. The three sleeps of a port
  reset are one. The branches after a successful wait that look for a stall again
  (`transfer.c:100`, `158`, `311`) cannot be reached: a transfer whose earlier stage stalled never
  completes its last one. A TD that completes in the last millisecond counts as timed out, as in the
  code. All controllers walk the one `frame_list`, so a request for a device of one is also carried
  out on the bus of the other. What a device's configuration is, is chosen when it has been fetched
  (`blob`, as its interfaces and as its bytes); `opened` remembers for each keyboard the slots it was
  given and whether a controller was started since. A controller that comes to a queue head that was
  freed sets `wild`. The block may hold anything by then, also other descriptors, so what it does next
  is not modelled: the properties of the bus are stated up to that point, and `WildOnlyAfterFailure`
  says what must have happened before it.
* `ConfigParse`. The two walks visit the same places (`Walk`); the first pass is the choice over
  them, the second the first endpoint inside the chosen block. `Meant` says the same of a list of
  interfaces, without bytes.
* `UefiLoader`. Memory is counted in pages above the load address, the memory map in descriptors.
  Each service either succeeds or fails; the file, the mode of the display and the volumes are chosen
  when they are asked for. `pool` and `pages` are what the loader has allocated, `faults` the volumes
  at which a service failed. The mode of a display is the set of those of its fields (address, width,
  height, stride) that are not zero, and `boot_info` what `efi_main` makes of it. The display's
  temporary buffers and the handle of the kernel file, which every path releases, are left out, and so
  is the handle of each volume's `root`, which no path closes (`main.c:211`, `237`). A firmware that
  refuses a key it has just given is one whose map changed in between. `AllocatePool` for the map may itself lengthen the map by up to two
  descriptors (`buffer_split`).
* `PciScan`. A function has a layout, the kind of each base address register, and addresses; the
  registers hold integers, so that the tests of bit 0 and of the 64-bit type are the code's. Bus,
  device and function are one number.
* `Boot`. Enumeration is two steps per controller, each of which needs the timer; whether a keyboard
  is polled decides whether a controller can raise its line. A line stays asserted until the status
  of its controller is acknowledged, and `kernel_main` does not get on while one is.

## 3. Runs

| Run | Module, config | Result |
|---|---|---|
| `key_ring` | `KeyRing` | `RingInv`, refinement of `BoundedFifo`, `WaiterServed` hold |
| `keyboard` | `MCKeyboard` | no stuck modifier and no stuck key, with PS/2 and USB keyboards together |
| `caps_lock_ps2` | `MCKeyboard`, `MCCapsLock.cfg` | violated: a PS/2 CapsLock press toggles twice |
| `command_line` | `MCCommandLine` | buffer invariant, refinement of `LineEdit`, visible line (VGA, also wrapped) hold |
| `shell` | `MCShell` | a final Enter is kept and runs; visible line (framebuffer) holds |
| `usb_scan_again` | `MCShell`, `MCUsbScan.cfg` | violated: the second `usb_scan` overflows sixteen entries |
| `heap` | `Heap` | disjoint, contained, aligned for alignment 16 |
| `heap_align_32` | `Heap`, `HeapAlign32.cfg` | violated: the header is aligned, not the user data |
| `uhci_pipe` | `UhciPipe` | toggles in step, reports in order, each arrives if its keyboard is polled |
| `uhci_open_race` | `UhciPipe`, `UhciOpenRace.cfg` | violated: a half-open pipe is serviced |
| `uhci_bus` | `MCUhciBus` | clean schedule, distinct addresses, right endpoint, keyboards configured, polled and robbed of few slots, enumeration ends |
| `boot` | `MCBoot` | safe hand-over, memory map fits, no pool memory kept on a return, no kernel missed, real I/O base, the framebuffer used exactly when there is one; the boot ends, the last controller is served |

The four violated runs each state a comment of the source; `PROJECT.json` quotes it under
`findings`. `heap_align_32` does not affect the kernel as it is: every caller asks for 16.

Properties that hold only under a condition say so in their formula, because the code does not do
better: `AddressesDistinct` as long as no SET_ADDRESS failed (the device then stays at address 0);
`WildOnlyAfterFailure` and `ScheduleClean` except after a failed fetch of the configuration (the
queue head is freed while linked), and all properties of `UhciBus` but `WildOnlyAfterFailure` until a
controller follows such a queue head; `EveryReportArrives` for a keyboard that has a slot of the frame
list left when the boot is over (a second keyboard may have overwritten all slots of the first, an
open point of `docs/drivers/usb/uhci_todo.md:5` and `:8`, and so may control transfers);
`KeyboardPolled` except for a keyboard all of whose slots a later
one was given, or after which a controller was started (which terminates the shared list), and
`SlotsKept` likewise;
`KeyboardConfigured` as long as one controller runs and no SET_ADDRESS failed (another device may
otherwise have answered); `BootEnds` unless controllers clash: with a line register of 0 the UHCI
handler replaces the timer's and the next sleep does not end, and with two controllers the
interrupts of the first are acknowledged at the second, so that its line stays asserted for ever; and
provided the memory map stops changing, as `exit_boot_services` retries without limit;
`ReturnsClean` for pool memory (pages are kept, and each volume's `root` stays open);
`LastServed` for the controller initialised last, for the same reason; `KernelNotMissed` except when
a failed load has left its pages at the fixed address; `NoStuckModifier` except for a keyboard
unregistered with keys down; `LineVisible` until drawing scrolls; `EnterKept` and `LastEnterRuns` for
an Enter with no later press behind it.

## 4. Bounds

* `KeyRing`: `Cap = 4` slots, two elements. The ring fills, wraps and is lapped if the full test is
  wrong. Nothing else is unbounded.
* `Keyboard`: rings of one element, two USB slots, two registrations (`MaxId`), five reports, five
  PS/2 keys. Two keyboards are enough for one to clear what the other holds. `MCView` leaves out the
  contents of the queues, which influence no later step; their lengths are kept. It leaves out `odd`
  too, which only `caps_lock_ps2` is about.
* `CommandLine`: lines of up to three characters on four rows of three cells. The prompts end in cell 7,
  from where a full line goes on in the last row and is edited on both sides of the row end without
  scrolling, and in cell 10, from where the second character scrolls. No bound on keys.
* `Shell`: six key events (`MaxEvents`), a ring of two, eight controllers.
* `Heap`: 260 bytes, sizes 8, 16 and 34: three or four blocks, reuse of larger blocks for smaller
  requests, sizes that are and are not multiples of the alignment. No bound on the calls.
* `UhciPipe`: two keyboards, two reports each (`MaxReports`), two failures (`MaxFaults`), a list of two
  slots and intervals of 1 and 2: the second keyboard leaves the first one slot or none, or transfers
  take the slots of either. A boot may end with no keyboard polled, so deadlock is not checked.
* `UhciBus`: a list of 8 frames for 1024, two ports, on one controller or on two, a wait of 19
  frames for 3000: a request is visited as often before the wait ends as in the code, twice when it
  has one slot and six times when it has two. The intervals are 0, which becomes 1, and 6, which
  gives a keyboard every other slot, as 1024 gives it. Six configurations: none, one and two
  interfaces, two settings of one, two keyboards, endpoints of other kinds before the one to poll;
  followed by nothing or by a descriptor cut short. One allocation fails (`MaxAllocFails`).
* `Boot`: two volumes, files of no bytes and of one page and a quarter (`PageSize = 4`), with the
  block at every place, a window of four bytes that does not reach all of the file, memory of four
  pages, three changes of the memory map (`MaxChanges`), so that a retry meets a map that has shrunk
  and grown again; three PCI functions for a table of two; lines 0, 11 and 255; two interrupts.

## 5. Fairness

* `KeyRing!FairSpec`: weak fairness of the reader's steps (every handler returns) and of the timer
  while the processor is halted (the PIT is periodic). None of `push` or of new calls.
* `Shell!Spec`: weak fairness of the loop, which `kernel_main` calls for ever. It is stated over the
  control of the loop (`loop_control`, `loopVars`), which is a cheaper formula for the same steps.
* `UhciPipe!FairSpec`: a raised interrupt is taken and its handler ends, the controller walks its
  list and comes to every slot of it again, so to every pipe that still has one. Nothing is assumed of
  the boot or of the keys. A fault or a lost acknowledgement is never fair, and is bounded.
* `UhciBus!Spec`: time passes and the boot goes on. Devices may stay silent for ever.
* `Boot!Spec`: weak fairness of the whole next-state relation: services return, the processor goes
  on, and takes asserted interrupts. Changes of the map and completions are bounded, not fair: a
  firmware whose map changes for ever is not covered by `BootEnds`.

## 6. Proofs

`KeyRingProofs`, for every `Cap > 1` and every set of elements:

* `RingInvariant`: `Spec => []RingInv`. The invariant is inductive: besides the types it says that
  every slot between tail and head was pushed, that a read past its test still has an element at the
  tail, equal to what was loaded, and that the tail is 0 until initialisation is done. The middle
  part is what makes it inductive: without it the reader could return an overwritten slot.
* `RingIsFifo`: `Spec => FifoSpec`. The mapping is `Content`, the slots from tail to head. Each step
  is an abstract Put, Get or GetNothing, the one Clear, or changes nothing; the lemmas on `Count` and `Slot`
  show what a push and an advance do to the sequence.

`KeyboardProofs`, for any number of keyboards, any reports, rings, layouts and PS/2 keys:

* `KeyboardInvariant`: `KeyboardInv` is inductive. `ModsOK` and `KeysOK` are `NoStuckModifier` and
  `NoStuckKey`, element by element. They are not inductive alone: `IdsDiffer` says that no two
  keyboards share an id and that no event has carried an id that is not given out yet, so that a
  report touches its own keys only and a new keyboard starts with none down; `WireOK` says that the
  bytes the PS/2 controller has still to deliver are a make or a break of one key.
* The loops of `keyboard_usb_on_boot_report` are proved pass by pass (`DeltaPass`, `ReleasePass`,
  `PressPass`) and then as a whole (`DeltasEffect`, `ReleasesEffect`, `PressesEffect`), by induction
  on the number of passes (`UpTo`). `ReleaseCode` is the point of `NoStuckKey`: the code of a release
  need not be that of the press, but belongs to the same key.
* `KeyboardTyped`, `ModifiersAreHeld` and `KeysAreHeld` follow: `[]TypeOK`, `[]NoStuckModifier` and
  `[]NoStuckKey`.

The assumptions on the tables are read off the code: the positions of a report never map to a
modifier (`CodeAssumption`); no usage has a shifted character and neither an unshifted character nor
an extended code, in either layout (`KeyAssumption`; otherwise its press would have no release).
`IdAssumption` keeps the registrations of one run below the 255 at which `g_usb_next_id` wraps around.

`UhciPipeProofs`, for every number of pipes, reports and faults, assuming `~KeysDuringOpen`:

* `PipeInvariant`: `Spec => []PipeInv`. `PipeInv` ties five things per pipe: the driver's toggle, the
  TD's toggle, the number of reports handed over, the number acknowledged, and the buffer. The
  keyboard is at most one acknowledgement behind; a full TD holds the next report. `BootOK` says
  that nothing interrupts the boot and that the handler rearms ended TDs only, `ListOK` that the frame
  list leads to open pipes only, whoever overwrites its slots.
* `ReportsInOrder`: `Spec => []InOrder`, from it.

The assumption `~KeysDuringOpen` (no key is typed before enumeration ends) is needed: the run
`uhci_open_race` shows what happens otherwise.

`HeapProofs`, for every buffer and every set of request sizes, assuming `OneAlignment`:

* `HeapInvariant`, `HeapIsSafe`, `HeapIsAligned`: `HeapSafe` and `UserAligned` are invariants.
  `HeapSafe` alone is not inductive: a block from the free list is used at the padding of its new
  owner, and is large enough only if that padding is the old one. `Placed` supplies the reason: all
  headers are on multiples of the alignment, so the padding is always zero.
* `OneAlignment` says that the alignments in use are at most 16 and the same once raised to the size
  of a pointer. The kernel asks for 16 everywhere. The condition is tight: with 8 and 16 mixed
  TLC finds overlapping blocks, with 32 the run `heap_align_32` a misaligned one.

`BootProofs`, for any number of volumes, any files, window, stack, memory size and changes of the map:

* `LoaderInvariant`: `LoaderInv` lists, for each place `efi_main` can be at, what it obtained on the
  way and has not given back: the pool blocks (`PoolInv`), that every volume already passed had a
  service fail (`VolumeInv`), that the image's pages are held and apart from the stack (`ImageInv`),
  that the map's buffer is as large as the size passed on (`MapInv`).
* `HandoverIsSafe`, `MapAlwaysFits`, `LoaderReturnsClean`, `NoKernelMissed` follow from it.
  `BytesInPages`, the rounding of a size to pages, is the arithmetic under the first.
* `ConsoleIsReal`: `ConsoleReal`. It goes from what the firmware answered, before the hand-over, to the
  console in use: `InfoInv` says that the bootinfo block is what `efi_main` made of that answer,
  `NoGopInfo` that a failed search or a BIOS boot leaves zeroes, and `TestsDecide` that the tests of
  `framebuffer_console_init` accept a block exactly when all fields of the mode are there.
* `IoBaseIsReal`: `IoBaseReal`, for any number of functions, any layouts and addresses of their
  registers and any size of `pci_devices`. `PciInv` says that every function read is one the hardware
  can have, and that every entry of either table is the reading of the function it names, also when a
  device answers for its next function. The point is `SkippedUpper`: the loop passes over exactly the
  upper halves, by induction over the registers, though it sees values and not kinds, and an upper half
  may look like an I/O range. `TableInv` is the induction over the loop that makes the table.

`CommandLineProofs`, for every buffer length, character set and console:

* `LineInvariant`: `LineInv` is inductive. Every key is, to the text, an erasure, a move of the
  cursor, an insertion or a clearing (`TextSteps`), whatever it draws.
* `LineIsEditor`: the specification implements `LineEdit`. `ErasedAt` and `InsertedAt` say what the
  shifting loops leave in the buffer; the refinement compares the two halves element by element.
* `LineIsVisible`: `LineVisible`, on VGA and on the framebuffer, for every size of the console and
  every place where the shell starts. `VisibleInv` adds to it that the screen is a grid and that the
  cursor and the prompt are numbers; nothing bounds the prompt's place, and nothing need: a line that does
  not fit scrolls. The lemmas on the console say what a printed message leaves: as long as it did not
  scroll, its characters in the cells from its first one on, and every other cell as it was, by
  induction over the characters; the blanking likewise, cell by cell.

`ShellProofs`, for every capacity of the ring, every number of events and every command:

* `ShellImplementsLine`: `Spec => LineSpec`. Whatever is queued or dropped between two steps of
  `shell_main_loop`, the line changes only by steps of the editor, so `ShellLineInvariant` and
  `ShellLineVisible` follow from the theorems about it.
* `EnterIsKept`: `EnterKept`, the safety half of `LastEnterRuns`. It is inductive with `RingInv`, that
  the ring holds key events: a release may follow the Enter through the loop without replacing
  `end_command`, and a press that arrives ends the debt.

`UhciBusProofs`, for any number of controllers, ports, slots, devices, any wait and any allocations
that fail:

* `BusInvariant`: besides types, `WaitInv` says that the transfer waited for is the last one started,
  is whole and is for the port being enumerated; `SchedInv` that each link in the frame list leads to
  a transfer that failed, or to that one, which then knows the slot. The last clause is what makes
  `ScheduleClean` inductive: unlinking goes by the slots that were remembered.
* `ScheduleIsClean` and `WildAfterFailure` follow, the latter for a fetch that was in the list (`linked`):
  an allocation that failed before leaves nothing there.
* `DeviceInvariant`: as long as no SET_ADDRESS failed, an enabled device is at a port that was passed
  and has its address, or is the one being told and has it or 0 (`Reached`); the table has no more
  entries than there are enabled devices at passed ports. Requests that failed earlier stay in the list
  and are carried out again on any bus: the proof shows that none of them can be a SET_ADDRESS.
* `AddressesAreDistinct` follows, with the injectivity of `Address` on a bus.
* `KeyboardIsConfigured`: with one controller, SET_CONFIGURATION reaches the device at the address of
  the port and no other, and only a reset of the port, which is never visited again, undoes it.
* `KeyboardKeepsSlots`: `SlotsKept`. It is inductive with `OpenedInv`, that open keyboards are on ports
  already left, so that every new transfer is for a later port; and with `LinkInv`, that the transfer
  waited for still is in all of its slots, so that its end terminates none that it had not taken.
* `KeyboardStaysPolled` follows: a keyboard with more slots of its own than two for each transfer of a
  later port is polled. `KeyboardPolled` without that condition is not a theorem: a keyboard with
  an interval of 128 has eight slots of 1024, and the ten transfers of two later ports can take all.

A frame is a recursive function over the controllers. What every visit keeps, a frame keeps
(`FrameKeeps`); the induction is by the least controller that would be an exception (`LeastNumber`,
from the library's theorem that `<` is well founded, which takes a set and not an operator). That
the recursion defines a function at all is `AfterExists`.

The other assumptions are those of the modules (`CapAssumption`, `ZeroAssumption`,
`PipesAssumption`, `BoundAssumption`, `KeysAssumption`, `HeapAssumption`, `LoaderAssumption`,
`MaxLenAssumption`, `CharAssumption`, `ScreenAssumption`, `MessagesAssumption`, `ShellAssumption`,
`PciAssumption`, `FrameAssumption`, `PortAssumption`, `RingAssumption`,
`KindsAssumption`, `ReportAssumption`, `Ps2Assumption`), which say that sizes are
numbers, that messages are sequences, and that marks differ from what they mark; and two about PCI
hardware: the upper half of a 64-bit address follows its lower half and occurs nowhere else
(`LayoutAssumption`), ports are non-zero numbers of 16 bits and ranges are aligned
(`AddressAssumption`).

Only model-checked:

* everything about liveness (`WaiterServed`, `LastEnterRuns`, `EveryReportArrives`,
  `EnumerationEnds`, `BootEnds`, `LastServed`), which is out of the prover's reach;
* `ParseRight`: what two walks over the bytes of a blob compute, against a definition over lists of
  interfaces. It holds of configurations whose interfaces differ in number or setting, followed by
  nothing the walk would take for a descriptor; a theorem would have to build the places of the walk
  from the lengths of every interface and endpoint before them, an induction over data;
* `KeyboardPolled`, which is true of the lists, intervals and ports of the run and not of all: see
  `KeyboardStaysPolled` for what is true in general.

## 7. Plan

Done, in this order of importance: the rings, the keyboard layer, the line editor and console, the
shell, the allocator, the pipes, the bus with several controllers and the parse of configurations,
and the boot from the firmware to the shell. Every invariant that a passing run checks is a theorem, but for
`KeyboardPolled` as above. What could be added:

1. The console used from an interrupt handler, at the level of port accesses.
2. Two controllers in `UhciPipe`, with the pipes of one serviced for the interrupts of the other.
3. `ParseRight` for every configuration.

## 8. Not modelled

IDT and PIC set-up, the PIT, the FPU, the BIOS loader and the switch to long mode are straight-line
hardware programming that runs once. Pixels, font and attributes, `printf` and number formatting,
and log messages say nothing a property here is about. The kernel's `.bss` is not part of the file
that the loader reads, and the loader reserves no pages for it: what the firmware put there, or
whether it places the stack there, is outside `UefiLoader`. `kmalloc`, `uhci_kbd_close`,
`kbd_set_layout`, `kbd_enable_auto_echo`, `kbd_has_char`, `pci_get_device`, the standalone mappers and
the deprecated files have no caller in the kernel. Neither have `keyboard_usb_unregister`,
`keyboard_usb_set_enabled`, `kbd_set_lock_leds`, `kbd_read_char` and `kbd_getchar_blocking`, which are
modelled all the same: they are the interface of the keyboard layer.

## 9. Running

    tlc -workers 2 -config MCUhciBus.cfg MCUhciBus
    tlapm KeyRingProofs.tla

and so for the other modules named `...Proofs`; `UhciBusProofs`, `KeyboardProofs`
and `CommandLineProofs` take two to four minutes each.

The longest runs are `boot`, `uhci_bus` and `keyboard`, two to three minutes each.
