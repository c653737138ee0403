------------------------------- MODULE UhciBus -------------------------------
(***************************************************************************)
(* Bringing up the UHCI controllers, one after the other, and the devices  *)
(* on their ports: drivers/usb/uhci/controller.c, enumerate.c (its parse   *)
(* is ConfigParse) and transfer.c, with the controllers walking the one    *)
(* frame list they share and the devices answering (external).             *)
(*                                                                         *)
(* Time is counted in frames of one millisecond, and passes only in        *)
(* sleep_ms: the code between two sleeps is one step.  In each frame a     *)
(* controller visits one slot of the frame list.  The transfers are        *)
(* numbered in the order they are started; a device's configuration is     *)
(* chosen when it has been fetched.                                        *)
(***************************************************************************)
EXTENDS Integers, FiniteSets, ConfigParse

CONSTANTS FrameCount,    \* 1024
          Ports,         \* ports with a connector, on all controllers
          Controllers,   \* bound: controllers
          MaxWait,       \* the 3000 ms of uhci_wait_for_transfer_complete
          SleepMs,       \* the sleeps of the enumeration
          MaxDevices,    \* MAX_USB_DEVICES
          Configs,       \* configurations that devices have
          Tails,         \* bytes that may follow one in the blob
          MaxAllocFails  \* bound: allocations that fail

ASSUME FrameAssumption == FrameCount \in Nat \ {0} /\ MaxWait \in Nat \ {0}
ASSUME PortAssumption == Ports \in Nat \ {0} /\ Controllers \in Nat \ {0}

VARIABLES
    pc, port, step, left,  \* uhci_enumerate_device: its place, its port, the
                           \* transfer it is at, and what is left of a wait
    bus,                   \* the controller that each port belongs to
    running,               \* controllers whose Run/Stop bit is set
    frame_list,
    frnum,                 \* their FRNUM, modulo the length of the list
    xfer,                  \* the control transfers so far
    dev,                   \* the devices on the ports
    usb_device_count,
    blob,                  \* the configuration just fetched
    parsed,                \* what the parse has made of it
    opened,                \* the keyboards whose pipe is open, in order
    alloc_fails,
    wild                   \* the controller has followed a freed queue head

vars == <<pc, port, step, left, bus, running, frame_list, frnum, xfer, dev,
          usb_device_count, blob, parsed, opened, alloc_fails, wild>>

Slot == 0 .. FrameCount - 1
Kinds == <<"SET_ADDRESS", "GET_DEVICE", "GET_CONFIG", "GET_FULL", "SET_CONFIG">>
Config == {"GET_CONFIG", "GET_FULL"}
Blocks == {"sp", "td", "qh"}
Term == <<"term", 0>>
Unset == <<"unset", 0>>
Xfer(n) == <<"xfer", n>>
Kbd(p) == <<"kbd", p>>
NoBlob == [config |-> << >>, bytes |-> << >>]
\* A configuration as its device sends it, with what follows it in the buffer.
Blobs == {[config |-> c, bytes |-> Bytes(c) \o t] : c \in Configs, t \in Tails}

Controller == 1 .. Controllers
\* The address that the device on a port is given: its number on its bus.
Address(p) == Cardinality({q \in 1 .. p : bus[q] = bus[p]})

\* The transfer descriptors of a transfer, and the one that is waited for.
Stages(kind) == IF kind \in {"SET_ADDRESS", "SET_CONFIG"} THEN 2 ELSE 3

\* Mutant of Waited: the first one is.
WaitedFirst(kind) == 1

Waited(kind) == IF kind \in {"GET_DEVICE"} THEN 3 ELSE 2

\* The slots a transfer is put in: the two frames to come, or this frame's.
Now == frnum[bus[port]]
SlotsFor(kind) == IF kind \in Config THEN {Now}
                  ELSE {(Now + 1) % FrameCount, (Now + 2) % FrameCount}

Init == /\ pc = "init" /\ port = 1 /\ step = 1 /\ left = 0
        /\ bus \in {b \in [1 .. Ports -> Controller] :
                     b[1] = 1 /\ \A p \in 2 .. Ports : b[p] \in {b[p - 1], b[p - 1] + 1}}
        /\ running = {}
        /\ frame_list = [s \in Slot |-> Unset] /\ frnum = [c \in Controller |-> 0]
        /\ xfer = << >>
        /\ dev \in [1 .. Ports -> [present : BOOLEAN, enabled : {FALSE}, addr : {0},
                                   configured : {FALSE}]]
        /\ usb_device_count = 0
        /\ blob = NoBlob /\ parsed = None
        /\ opened = << >>
        /\ alloc_fails = 0 /\ wild = FALSE

Current == Len(xfer)
Link(entry, slots) == [s \in Slot |-> IF s \in slots THEN entry ELSE frame_list[s]]

\* uhci_initialize_controller, after the sleep of its reset.  A controller that
\* does not halt, or does not take the address of the list, is left stopped;
\* usb_enumerate_devices goes on with its ports all the same.  The list that is
\* terminated is the one all controllers use.
initialize ==
    /\ pc = "init" /\ left = 0
    /\ frnum' = [frnum EXCEPT ![bus[port]] = 0]
    /\ \/ /\ frame_list' = [s \in Slot |-> Term]
          /\ running' \in {running, running \cup {bus[port]}}
          /\ opened' = [i \in DOMAIN opened |-> [opened[i] EXCEPT !.dropped = TRUE]]
       \/ UNCHANGED <<frame_list, running, opened>>
    /\ pc' = "reset"
    /\ UNCHANGED <<port, step, left, bus, xfer, dev, usb_device_count, blob, parsed,
                   alloc_fails, wild>>

\* On to the next port, or to the next controller, or out.
NextPort == /\ step' = 1
            /\ parsed' = None
            /\ left' = IF port < Ports /\ bus[port + 1] # bus[port] THEN SleepMs ELSE 0
            /\ IF port = Ports THEN port' = port /\ pc' = "done"
               ELSE /\ port' = port + 1
                    /\ pc' = IF bus[port + 1] = bus[port] THEN "reset" ELSE "init"

\* uhci_reset_port, unless the device table is full.
reset_port == /\ pc = "reset"
              /\ IF usb_device_count >= MaxDevices
                   THEN NextPort /\ UNCHANGED dev
                   ELSE /\ dev' = [dev EXCEPT ![port].enabled = dev[port].present,
                                             ![port].addr = 0, ![port].configured = FALSE]
                        /\ pc' = "sleep" /\ left' = SleepMs
                        /\ UNCHANGED <<port, step, parsed>>
              /\ UNCHANGED <<bus, running, frame_list, frnum, xfer, usb_device_count, blob,
                             opened, alloc_fails, wild>>

\* The port does not say that a device is connected and enabled.
no_device == /\ pc = "sleep" /\ left = 0 /\ ~dev[port].enabled
             /\ NextPort
             /\ UNCHANGED <<bus, running, frame_list, frnum, xfer, dev, usb_device_count, blob,
                            opened, alloc_fails, wild>>

(***************************************************************************)
(* The controller and the devices (external).                              *)
(***************************************************************************)
Answering(c, d, a) == {p \in 1 .. Ports : bus[p] = c /\ d[p].enabled /\ d[p].addr = a}

\* What the devices on bus c have done when all stages of t are through there.
Obeyed(c, d, t) ==
    [p \in 1 .. Ports |->
        IF p \notin Answering(c, d, t.addr) THEN d[p]
        ELSE IF t.kind = "SET_ADDRESS" THEN [d[p] EXCEPT !.addr = Address(t.port)]
        ELSE IF t.kind = "SET_CONFIG" THEN [d[p] EXCEPT !.configured = TRUE]
        ELSE d[p]]

\* A visit of transfer n by controller c runs any number of its stages, and the
\* next one may then stall.  Nothing happens when no device has its address: the
\* TDs set no error limit, and stay active.
Run(c, x, n) ==
    LET t == x.xfer[n]
        end == Stages(t.kind)
    IN IF t.stalled \/ t.done = end \/ Answering(c, x.dev, t.addr) = {} THEN {x}
       ELSE {[x EXCEPT !.xfer[n].done = e[1], !.xfer[n].stalled = e[2],
                       !.dev = IF e[1] = end THEN Obeyed(c, x.dev, t) ELSE x.dev] :
               e \in {e \in (t.done .. end) \X BOOLEAN : e[2] => e[1] < end}}

\* One frame of a controller: the entry is terminated, a keyboard's (see
\* UhciPipe) or a transfer's, whose queue head may have been freed.  The block may
\* have been given out again, and what the controller then does is not modelled:
\* no property says anything of a state that is wild.
Visit(c, x) ==
    LET entry == frame_list[(frnum[c] + 1) % FrameCount]
    IN IF c \notin running \/ entry[1] # "xfer" THEN {x}
       ELSE IF "qh" \notin x.xfer[entry[2]].held THEN {[x EXCEPT !.wild = TRUE]}
       ELSE Run(c, x, entry[2])

\* A millisecond: each controller that runs has its frame.
Frame ==
    LET after[c \in 0 .. Controllers] ==
          IF c = 0 THEN {[xfer |-> xfer, dev |-> dev, wild |-> wild]}
          ELSE UNION {Visit(c, x) : x \in after[c - 1]}
    IN /\ \E x \in after[Controllers] : xfer' = x.xfer /\ dev' = x.dev /\ wild' = x.wild
       /\ frnum' = [c \in Controller |-> IF c \in running THEN (frnum[c] + 1) % FrameCount
                                        ELSE frnum[c]]

(***************************************************************************)
(* The five control transfers, each as three steps: begin, wait, end.      *)
(***************************************************************************)
sleep_ms == /\ pc \in {"sleep", "init"} /\ left > 0
            /\ left' = left - 1
            /\ Frame
            /\ UNCHANGED <<pc, port, step, bus, running, frame_list, usb_device_count, blob,
                           parsed, opened, alloc_fails>>

\* The next transfer starts: the sleeps are over and there is a device.
Ready == pc = "sleep" /\ left = 0 /\ dev[port].enabled

NewTransfer(slots, held) ==
    [kind |-> Kinds[step], port |-> port, addr |-> IF step = 1 THEN 0 ELSE Address(port),
     slots |-> slots, held |-> held, linked |-> slots # {}, done |-> 0, stalled |-> FALSE,
     failed |-> FALSE]

\* The descriptors are allocated and linked into the frame list.
begin == /\ Ready /\ bus[port] \in running
         /\ xfer' = Append(xfer, NewTransfer(SlotsFor(Kinds[step]), Blocks))
         /\ frame_list' = Link(Xfer(Current + 1), SlotsFor(Kinds[step]))
         /\ pc' = "wait" /\ left' = MaxWait
         /\ UNCHANGED <<port, step, bus, running, frnum, dev, usb_device_count, blob, parsed,
                        opened, alloc_fails, wild>>

\* SET_ADDRESS finds the controller stopped after it has linked the transfer.
not_running == /\ Ready /\ bus[port] \notin running
               /\ xfer' = Append(xfer, [NewTransfer(SlotsFor(Kinds[step]), Blocks)
                                         EXCEPT !.failed = TRUE])
               /\ frame_list' = Link(Xfer(Current + 1), SlotsFor(Kinds[step]))
               /\ NextPort
               /\ UNCHANGED <<bus, running, frnum, dev, usb_device_count, blob, opened,
                              alloc_fails, wild>>

\* An allocation fails: what was allocated before it is not given back, and the
\* transfer never gets into the frame list.
begin_fails == /\ Ready
               /\ alloc_fails < MaxAllocFails
               /\ alloc_fails' = alloc_fails + 1
               /\ xfer' = Append(xfer, [NewTransfer({}, {"sp"}) EXCEPT !.failed = TRUE])
               /\ NextPort
               /\ UNCHANGED <<bus, running, frame_list, frnum, dev, usb_device_count, blob,
                              opened, wild>>

\* uhci_wait_for_transfer_complete looks at one TD.
WaitedEnded(t) == t.done >= Waited(t.kind) \/ (t.stalled /\ t.done + 1 = Waited(t.kind))

\* Mutant of wait_ms: the wait is not counted down.
wait_ms_forever == /\ pc = "wait" /\ left > 0 /\ ~WaitedEnded(xfer[Current])
                   /\ Frame
                   /\ UNCHANGED <<pc, port, step, left, bus, running, frame_list,
                                  usb_device_count, blob, parsed, opened, alloc_fails>>

wait_ms == /\ pc = "wait" /\ left > 0 /\ ~WaitedEnded(xfer[Current])
           /\ left' = left - 1
           /\ Frame
           /\ UNCHANGED <<pc, port, step, bus, running, frame_list, usb_device_count, blob,
                          parsed, opened, alloc_fails>>

\* Mutant of Succeeded: the stall of the TD is not looked at.
SucceededStalled(t) == left > 0 /\ WaitedEnded(t)

\* A TD that ends in the last millisecond counts as timed out.
Succeeded(t) == left > 0 /\ t.done >= Waited(t.kind)

\* Mutant of Unlink: the frame list is left alone.
UnlinkNothing(t) == UNCHANGED frame_list

\* Mutant of Unlink: the whole frame list is initialised again.
UnlinkAll(t) == frame_list' = [s \in Slot |-> Term]

Unlink(t) == frame_list' = Link(Term, t.slots)

\* What each of the five functions frees before it returns 1.
KeptOnSuccess(kind) == IF kind \in {"SET_ADDRESS", "GET_FULL"} THEN {} ELSE {"sp"}

\* What is freed is forgotten with its contents.
Freed(t, held) == IF "qh" \in held THEN t
                  ELSE [t EXCEPT !.held = held, !.slots = {}, !.done = 0, !.stalled = FALSE]

\* How uhci_enumerate_device goes on when transfer t has returned 1.  The device
\* gets its entry in the table after SET_ADDRESS; the blob is there after
\* GET_FULL; only a boot keyboard is opened.
uhci_enumerate_device(t) ==
    /\ usb_device_count' = usb_device_count + (IF step = 1 THEN 1 ELSE 0)
    /\ \/ /\ t.kind = "GET_FULL"
          /\ blob' \in Blobs
          /\ pc' = "parse" /\ UNCHANGED <<port, step, left, parsed>>
       \/ /\ t.kind \notin {"GET_FULL", "SET_CONFIG"}
          /\ step' = step + 1
          /\ pc' = "sleep" /\ left' = (IF step = 1 THEN SleepMs ELSE 0)
          /\ UNCHANGED <<port, blob, parsed>>
       \/ /\ t.kind = "SET_CONFIG" /\ ~parsed.keyboard
          /\ NextPort /\ UNCHANGED blob
       \/ /\ t.kind = "SET_CONFIG" /\ parsed.keyboard
          /\ pc' = "open" /\ left' = 0 /\ UNCHANGED <<port, step, blob, parsed>>

\* The transfer is through: it leaves the frame list and is freed.
complete == LET t == xfer[Current]
            IN /\ pc = "wait" /\ Succeeded(t)
               /\ Unlink(t)
               /\ xfer' = [xfer EXCEPT ![Current] = Freed(t, KeptOnSuccess(t.kind))]
               /\ uhci_enumerate_device(t)
               /\ UNCHANGED <<bus, running, frnum, dev, opened, alloc_fails, wild>>

\* The blob is parsed and freed.
parse == /\ pc = "parse"
         /\ blob' = NoBlob
         /\ \E result \in {usb_parse_config_blob_into_device(blob.bytes)} :
              IF ~result.found THEN NextPort
              ELSE /\ parsed' = result
                   /\ step' = step + 1 /\ pc' = "sleep" /\ left' = 0 /\ UNCHANGED port
         /\ UNCHANGED <<bus, running, frame_list, frnum, xfer, dev, usb_device_count, opened,
                        alloc_fails, wild>>

\* Mutant of KeptOnFailure: GET_DEVICE frees its descriptors, still linked.
KeptOnFailureFree(kind) == IF kind \in {"GET_CONFIG", "GET_DEVICE"} THEN {"sp"}
                           ELSE IF kind = "GET_FULL" THEN {} ELSE Blocks

\* What stays allocated when the wait fails: the functions that fetch the
\* configuration free the queue head, the others free nothing; none unlinks it.
KeptOnFailure(kind) == IF kind = "GET_CONFIG" THEN {"sp"}
                       ELSE IF kind = "GET_FULL" THEN {} ELSE Blocks

fail == LET t == xfer[Current]
        IN /\ pc = "wait" /\ ~Succeeded(t)
           /\ left = 0 \/ WaitedEnded(t)
           /\ xfer' = [xfer EXCEPT ![Current] =
                          [Freed(t, KeptOnFailure(t.kind)) EXCEPT !.failed = TRUE]]
           /\ NextPort
           /\ UNCHANGED <<bus, running, frame_list, frnum, dev, usb_device_count, blob, opened,
                          alloc_fails, wild>>

\* place_qh_every_interval: from the next frame on, every interval-th slot, on
\* around the list until the first slot comes up again.
IntervalSlots(interval) ==
    LET frames == IF interval = 0 THEN 1 ELSE interval
    IN {(Now + 1 + k * frames) % FrameCount : k \in 0 .. FrameCount - 1}

\* uhci_kbd_open_interrupt_in, which may fail.
open_pipe == /\ pc = "open"
             /\ LET slots == IntervalSlots(parsed.interval)
                IN \/ /\ frame_list' = Link(Kbd(port), slots)
                      /\ opened' = Append(opened, [port |-> port, slots |-> slots,
                                                   dropped |-> FALSE])
                      /\ UNCHANGED alloc_fails
                   \/ /\ alloc_fails < MaxAllocFails
                      /\ alloc_fails' = alloc_fails + 1
                      /\ UNCHANGED <<frame_list, opened>>
             /\ NextPort
             /\ UNCHANGED <<bus, running, frnum, xfer, dev, usb_device_count, blob, wild>>

Next == \/ initialize \/ reset_port \/ no_device \/ sleep_ms \/ begin \/ not_running \/ begin_fails
        \/ wait_ms \/ complete \/ parse \/ fail \/ open_pipe

\* The timer ticks and the boot goes on.
Spec == Init /\ [][Next]_vars /\ WF_vars(Next)

-----------------------------------------------------------------------------
\* A transfer failed, be it for want of memory before it got into the frame list.
Failed(kinds) == \E n \in 1 .. Current : xfer[n].failed /\ xfer[n].kind \in kinds

\* A fetch of the configuration failed after it was linked into the frame list.
AbandonedFetch == \E n \in 1 .. Current : /\ xfer[n].failed /\ xfer[n].linked
                                          /\ xfer[n].kind \in Config

\* A transfer that is over and did not fail is nowhere in the frame list, and
\* only a failed fetch of the configuration leaves a freed queue head in it.
ScheduleClean ==
    ~wild => \A s \in Slot : frame_list[s][1] = "xfer" =>
        LET t == xfer[frame_list[s][2]]
        IN /\ t.failed \/ (pc = "wait" /\ frame_list[s] = Xfer(Current))
           /\ "qh" \in t.held \/ t.kind \in Config

\* The controller follows a freed queue head only after such a failure.
WildOnlyAfterFailure == wild => AbandonedFetch

\* As long as no SET_ADDRESS failed no two devices on a bus share an address, and
\* every device in the table answers at the address the table gives.
AddressesDistinct ==
    ~wild /\ ~Failed({"SET_ADDRESS"}) =>
        /\ \A p, q \in 1 .. Ports :
             p # q /\ bus[p] = bus[q] /\ dev[p].enabled /\ dev[q].enabled
                => dev[p].addr # dev[q].addr
        /\ usb_device_count <= Cardinality({p \in 1 .. Ports : dev[p].enabled
                                                              /\ dev[p].addr = Address(p)})

\* A keyboard that was opened keeps being polled: the transfers of the ports that
\* follow take some of its slots, never all.  Two things take all of them: a later
\* keyboard that is polled in every slot it has, and the start of a controller.
KeyboardPolled ==
    ~wild => \A i \in DOMAIN opened :
        \/ \E s \in Slot : frame_list[s] = Kbd(opened[i].port)
        \/ \E j \in DOMAIN opened : j > i /\ opened[i].slots \subseteq opened[j].slots
        \/ opened[i].dropped

\* Slots of keyboard i that no longer poll it, and that no later keyboard took.
LostSlots(i) == {s \in Slot :
                   /\ s \in opened[i].slots /\ frame_list[s] # Kbd(opened[i].port)
                   /\ \A j \in DOMAIN opened : j > i => s \notin opened[j].slots}

\* At most two slots for each transfer of a later port.
SlotsBound ==
    \A i \in DOMAIN opened : ~opened[i].dropped =>
        Cardinality(LostSlots(i)) <=
            2 * Cardinality({n \in 1 .. Current : xfer[n].port > opened[i].port})

\* The code takes slots from an open keyboard without asking and never gives them
\* back: each transfer of a later port overwrites one or two, and its end
\* terminates them.  It costs the keyboard no more than that, unless the start of a
\* controller terminates the whole list.
SlotsKept == ~wild => SlotsBound

\* A keyboard that was opened has been configured.  With two controllers on the
\* same list, or two devices at one address, another device may have been told.
KeyboardConfigured ==
    ~wild => \A i \in DOMAIN opened :
        \/ dev[opened[i].port].configured
        \/ Cardinality(running) > 1 \/ Failed({"SET_ADDRESS"})

\* The parse of a blob chooses the interface and the endpoint that are meant,
\* whatever bytes follow the configuration.
ParseRight == [][~wild /\ blob # NoBlob => parsed' = Meant(blob.config)]_vars

\* The boot gets past the enumeration, whatever the devices do or do not answer,
\* unless the controller follows freed memory.
EnumerationEnds == <>(pc = "done" \/ wild)
=============================================================================
