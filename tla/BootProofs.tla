----------------------------- MODULE BootProofs -----------------------------
(***************************************************************************)
(* The safety of the UEFI loader's handover and of the console's choice,   *)
(* for any number of volumes, any file, window, stack and memory map, and  *)
(* any number of changes the firmware makes to that map; and that of the   *)
(* PCI scan's base addresses, for any functions with any layout of their   *)
(* registers.                                                              *)
(*                                                                         *)
(* LoaderInv says, for each place efi_main can be at, what was obtained on *)
(* the way there and not given back: which pool blocks are held (PoolInv), *)
(* that every volume passed failed (VolumeInv), that the pages of the      *)
(* image are held and apart from the stack (ImageInv), and how large the   *)
(* memory map's buffer is (MapInv).  PciInv says that every entry of the   *)
(* two tables is the reading of the function it names.                     *)
(***************************************************************************)
EXTENDS Boot, SequenceTheorems, WellFoundedInduction, TLAPS

\* The places where a memory map's buffer may be held, and after a handover.
Leaving == {"map", "exit", "kernel"}
Searching == {"volume", "open", "read"}

PoolInv == /\ pool \subseteq {"handles", "map"}
           /\ "handles" \in pool => lpc \in Searching
           /\ "map" \in pool => lpc \in Leaving

VolumeInv ==
    /\ handle_count \in Nat /\ vol \in Nat
    /\ lpc \in {"gop", "volumes", "fallback"} => handle_count = 0 /\ vol = 0
    /\ lpc \in Searching => /\ vol <= handle_count
                            /\ pages = {} => 1 .. vol - 1 \subseteq faults
    /\ lpc = "returned" /\ message = "no kernel" =>
         pages # {} \/ 1 .. handle_count \subseteq faults

OutOfReach == image.info = -1 \/ image.info < image.size - Window

ImageInv ==
    /\ image \in Files \cup {NoImage}
    /\ remaining \in Nat
    /\ lpc \in {"read", "info"} => kernel_pages(image.size) \subseteq pages
    /\ lpc \in {"info"} \cup Leaving => remaining = 0
    /\ lpc \in Leaving =>
         /\ image.info >= 0
         /\ kernel_pages(image.size) \cap stack_base .. stack_base + StackPages - 1 = {}
    /\ lpc = "returned" /\ message = "no bootinfo" => OutOfReach

MapInv == /\ map_size \in Int /\ map_cap \in Int /\ map \in Int /\ buffer_split \in Int
          /\ lpc \in {"gop", "volumes", "fallback", "info"} \cup Searching =>
               map_size = 0 /\ map_cap = 0
          /\ lpc \in {"map", "exit"} => map_size <= map_cap

LoaderInv == /\ lpc \in {"gop", "volumes", "fallback", "info", "returned", "gone"}
                         \cup Searching \cup Leaving
             /\ lpc \in Leaving => message = "exiting"
             /\ PoolInv /\ VolumeInv /\ ImageInv /\ MapInv

\* Every byte of an image lies in the pages that load_kernel reserves for it.
LEMMA BytesInPages ==
    ASSUME NEW size \in Nat, NEW byte \in 0 .. size - 1
    PROVE  byte \div PageSize \in kernel_pages(size)
<1> DEFINE q == byte \div PageSize
           r == (size + PageSize - 1) \div PageSize
<1>1. PageSize \in Nat /\ PageSize > 0
  BY LoaderAssumption
<1>2. q \in Nat /\ q * PageSize <= byte
  BY <1>1
<1>3. r \in Nat /\ size <= r * PageSize
  BY <1>1
<1>4. q < r
  <2>1. q * PageSize < r * PageSize
    BY <1>1, <1>2, <1>3
  <2> HIDE DEF q, r
  <2> QED
    BY <2>1, <1>1, <1>2, <1>3
<1> QED
  BY <1>2, <1>3, <1>4 DEF kernel_pages

\* A kernel file has a size, and its block, if any, lies in it.
LEMMA FileFacts ==
    ASSUME NEW file \in Files \cup {NoImage}
    PROVE  /\ file.size \in Nat /\ file.info \in Int /\ file.info >= -1
           /\ file.info = -1 \/ file.info + InfoSize <= file.size
<1>1. CASE file = NoImage
  BY <1>1 DEF NoImage
<1>2. CASE file \in Files
  <2> DEFINE Places == -1 .. MemPages * PageSize
  <2>1. \A i \in Places : i \in Int /\ i >= -1
    OBVIOUS
  <2>2. file \in [size : FileSizes, info : Places]
    BY <1>2 DEF Files
  <2>3. file.info = -1 \/ file.info + InfoSize <= file.size
    BY <1>2 DEF Files
  <2> HIDE DEF Places
  <2> QED
    BY <2>1, <2>2, <2>3, LoaderAssumption
<1> QED
  BY <1>1, <1>2

\* LoaderInv holds at the start.
LEMMA LoaderInitInv == LoaderInit => LoaderInv
  BY DEF LoaderInit, LoaderInv, PoolInv, VolumeInv, ImageInv, MapInv, OutOfReach, Searching,
         Leaving, NoImage

-----------------------------------------------------------------------------
\* The volumes are gone through in order, and one is passed only after a fault
\* or when pages of an earlier one are in the way (efi_main's loop).
LEMMA GiveUpInv ==
    ASSUME LoaderInv, lpc \in Searching, NEW fault \in BOOLEAN, GiveUp(fault),
           fault \/ pages # {},
           UNCHANGED <<gop, handle_count, pages, image, remaining, boot_info, stack_base, mapVars>>
    PROVE  LoaderInv'
<1> USE DEF LoaderInv
<1>1. pages = {} => faults' = faults \cup {vol} /\ 1 .. vol - 1 \subseteq faults
  BY DEF GiveUp, VolumeInv
<1>2. vol \in Nat /\ handle_count \in Nat /\ vol <= handle_count
  BY DEF VolumeInv
<1>3. CASE vol < handle_count
  <2>1. /\ vol' = vol + 1 /\ lpc' = "volume" /\ pool' = pool /\ message' = message
        /\ faults' = IF fault THEN faults \cup {vol} ELSE faults
    BY <1>3 DEF GiveUp
  <2>2. VolumeInv'
    <3>1. ASSUME pages = {}, NEW v \in 1 .. vol' - 1 PROVE v \in faults'
      <4>1. v = vol \/ v \in 1 .. vol - 1
        BY <2>1, <1>2
      <4> QED
        BY <4>1, <3>1, <1>1
    <3>2. vol' \in Nat /\ vol' <= handle_count
      BY <1>2, <1>3, <2>1
    <3> QED
      BY <2>1, <3>1, <3>2 DEF VolumeInv, Searching
  <2>3. PoolInv' /\ ImageInv' /\ MapInv' /\ lpc' \notin Leaving /\ lpc' \in Searching
    BY <2>1 DEF PoolInv, ImageInv, MapInv, mapVars, Searching, Leaving
  <2> QED
    BY <2>2, <2>3
<1>4. CASE ~(vol < handle_count)
  <2>1. /\ vol' = vol /\ lpc' = "returned" /\ pool' = pool \ {"handles"}
        /\ message' = IF handle_count = 0 THEN "no kernel on boot volume" ELSE "no kernel"
        /\ faults' = IF fault THEN faults \cup {vol} ELSE faults
    BY <1>4 DEF GiveUp, Return
  <2>2. VolumeInv'
    <3>1. ASSUME pages = {}, NEW v \in 1 .. handle_count PROVE v \in faults'
      <4>1. v = vol \/ v \in 1 .. vol - 1
        BY <1>4, <1>2
      <4> QED
        BY <4>1, <3>1, <1>1
    <3> QED
      BY <2>1, <3>1 DEF VolumeInv, Searching
  <2>3. PoolInv' /\ ImageInv' /\ MapInv' /\ lpc' \notin Leaving
    BY <2>1 DEF PoolInv, ImageInv, MapInv, mapVars, Searching, Leaving
  <2> QED
    BY <2>1, <2>2, <2>3
<1> QED
  BY <1>3, <1>4

\* Up to the list of volumes nothing is held.
LEMMA LocateInv ==
    ASSUME LoaderInv, locate_gop \/ locate_volumes \/ loaded_image
    PROVE  LoaderInv'
<1> USE DEF LoaderInv, Searching, Leaving, volumeVars, mapVars
<1>1. CASE locate_gop
  BY <1>1 DEF locate_gop, PoolInv, VolumeInv, ImageInv, MapInv
<1>2. CASE locate_volumes
  <2>1. PoolInv' /\ MapInv' /\ ImageInv'
    BY <1>2 DEF locate_volumes, PoolInv, ImageInv, MapInv
  <2>2. VolumeInv'
    <3>1. CASE lpc' = "fallback" /\ UNCHANGED <<handle_count, vol>>
      BY <1>2, <3>1 DEF locate_volumes, VolumeInv
    <3>2. CASE handle_count' \in 1 .. MaxVolumes /\ vol' = 1 /\ lpc' = "volume"
      <4>1. handle_count' \in Nat /\ handle_count' >= 1
        BY <3>2
      <4>2. 1 .. vol' - 1 = {}
        BY <3>2
      <4> QED
        BY <3>2, <4>1, <4>2 DEF VolumeInv
    <3> QED
      BY <1>2, <3>1, <3>2 DEF locate_volumes
  <2> QED
    BY <1>2, <2>1, <2>2 DEF locate_volumes
<1>3. CASE loaded_image
  <2>1. PoolInv' /\ MapInv' /\ lpc' \in {"returned", "open"}
    BY <1>3 DEF loaded_image, Return, PoolInv, MapInv
  <2>2. VolumeInv'
    <3>1. /\ vol = 0 /\ handle_count = 0
          /\ UNCHANGED <<handle_count, vol, faults, pages>>
      BY <1>3 DEF loaded_image, VolumeInv
    <3>2. vol' \in Nat /\ handle_count' \in Nat /\ vol' <= handle_count' /\ 1 .. vol' - 1 = {}
      BY <3>1
    <3>3. lpc' = "open" \/ (lpc' = "returned" /\ message' # "no kernel")
      BY <1>3 DEF loaded_image, Return
    <3> QED
      BY <3>1, <3>2, <3>3 DEF VolumeInv
  <2>3. ImageInv'
    BY <1>3 DEF loaded_image, Return, ImageInv
  <2> QED
    BY <2>1, <2>2, <2>3
<1> QED
  BY <1>1, <1>2, <1>3

\* load_kernel: the pages that the image needs are held while it is read.
LEMMA LoadInv ==
    ASSUME LoaderInv, open_volume \/ load_kernel \/ read_chunk \/ kernel_loaded
    PROVE  LoaderInv'
<1> USE DEF LoaderInv, volumeVars
<1>1. CASE open_volume
  <2>1. CASE GiveUp(TRUE)
    BY <1>1, <2>1, GiveUpInv DEF open_volume, Searching
  <2>2. CASE lpc' = "open" /\ UNCHANGED <<vol, pool, message, faults>>
    BY <1>1, <2>2 DEF open_volume, PoolInv, VolumeInv, ImageInv, MapInv, mapVars, Searching, Leaving
  <2> QED
    BY <1>1, <2>1, <2>2 DEF open_volume
<1>2. CASE load_kernel
  <2>1. ASSUME NEW fault \in BOOLEAN, fault \/ pages # {}, GiveUp(fault),
               UNCHANGED <<pages, image, remaining>>
        PROVE  LoaderInv'
    BY <1>2, <2>1, GiveUpInv DEF load_kernel, Searching
  <2>2. ASSUME NEW file \in Files,
               pages' = pages \cup kernel_pages(file.size),
               image' = file, remaining' = file.size, lpc' = "read",
               UNCHANGED <<vol, pool, message, faults>>
        PROVE  LoaderInv'
    <3>1. file.size \in Nat
      BY LoaderAssumption DEF Files
    <3>2. ImageInv'
      BY <3>1, <2>2 DEF ImageInv, Leaving
    <3>3. VolumeInv'
      BY <1>2, <2>2 DEF load_kernel, VolumeInv, Searching
    <3>4. PoolInv' /\ MapInv'
      BY <1>2, <2>2 DEF load_kernel, PoolInv, MapInv, mapVars, Searching, Leaving
    <3> QED
      BY <2>2, <3>2, <3>3, <3>4 DEF Searching, Leaving
  <2> QED
    BY <1>2, <2>1, <2>2 DEF load_kernel
<1>3. CASE read_chunk
  <2>1. CASE GiveUp(TRUE) /\ UNCHANGED remaining
    BY <1>3, <2>1, GiveUpInv DEF read_chunk, Searching
  <2>2. ASSUME NEW chunk \in 1 .. remaining, remaining' = remaining - chunk,
               UNCHANGED <<lpc, vol, pool, message, faults>>
        PROVE  LoaderInv'
    <3>1. ImageInv'
      BY <1>3, <2>2 DEF read_chunk, ImageInv, Leaving
    <3> QED
      BY <1>3, <2>2, <3>1 DEF read_chunk, PoolInv, VolumeInv, MapInv, mapVars, Searching, Leaving
  <2> QED
    BY <1>3, <2>1, <2>2 DEF read_chunk
<1>4. CASE kernel_loaded
  BY <1>4 DEF kernel_loaded, PoolInv, VolumeInv, ImageInv, MapInv, mapVars, Searching, Leaving
<1> QED
  BY <1>1, <1>2, <1>3, <1>4

\* The search of find_kernel_bootinfo finds a block within its window, and
\* nothing else.
LEMMA SearchComplete ==
    ASSUME NEW file \in Files \cup {NoImage}
    PROVE  /\ find_kernel_bootinfo(file) = {} =>
                file.info = -1 \/ file.info < file.size - Window
           /\ find_kernel_bootinfo(file) # {} => file.info >= 0
<1>1. /\ file.size \in Nat /\ file.info \in Int /\ file.info >= -1
      /\ file.info = -1 \/ file.info + InfoSize <= file.size
  BY FileFacts
<1>2. InfoSize \in Nat /\ Window \in Nat /\ InfoSize <= Window
  BY LoaderAssumption
<1>3. ASSUME find_kernel_bootinfo(file) # {} PROVE file.info >= 0
  BY <1>3, <1>1, <1>2 DEF find_kernel_bootinfo
<1>4. ASSUME file.info >= 0, file.info >= file.size - Window
      PROVE  file.info \in find_kernel_bootinfo(file)
  BY <1>4, <1>1, <1>2 DEF find_kernel_bootinfo
<1> QED
  BY <1>1, <1>2, <1>3, <1>4

\* The stack is taken from pages that are still free, so not from the image.
LEMMA PrepareInv ==
    ASSUME LoaderInv, prepare
    PROVE  LoaderInv'
<1> USE DEF LoaderInv, volumeVars, Searching, Leaving
<1>0. /\ lpc = "info"
      /\ UNCHANGED <<gop, volumeVars, pool, image, remaining, mapVars>>
  BY DEF prepare
<1>1. PoolInv' /\ MapInv' /\ lpc' \in {"returned", "map"} /\ (lpc' = "map" => message' = "exiting")
  <2>1. lpc' \in {"returned", "map"} /\ (lpc' = "map" => message' = "exiting")
    BY DEF prepare, Return
  <2>2. PoolInv'
    BY <1>0, <2>1 DEF PoolInv
  <2>3. MapInv'
    BY <1>0, <2>1 DEF MapInv, mapVars
  <2> QED
    BY <2>1, <2>2, <2>3
<1>2. VolumeInv'
  BY DEF prepare, Return, VolumeInv
<1>3. ImageInv'
  <2> DEFINE found == find_kernel_bootinfo(image)
  <2> image \in Files \cup {NoImage}
    BY DEF ImageInv
  <2>1. CASE found = {} /\ Return("no bootinfo")
    <3>1. OutOfReach'
      BY <2>1, <1>0, SearchComplete DEF OutOfReach
    <3> QED
      BY <2>1, <3>1, <1>0 DEF ImageInv, Return
  <2>2. CASE Return("no stack")
    BY <2>2, <1>0 DEF ImageInv, Return
  <2>3. ASSUME NEW base \in 0 .. MemPages - StackPages, found # {},
               base .. base + StackPages - 1 \cap pages = {},
               stack_base' = base, lpc' = "map", message' = "exiting"
        PROVE  ImageInv'
    <3>1. image.info >= 0
      BY <2>3, SearchComplete
    <3>2. kernel_pages(image.size) \subseteq pages /\ remaining = 0
      BY <1>0 DEF ImageInv
    <3> QED
      BY <3>1, <3>2, <2>3, <1>0 DEF ImageInv
  <2> QED
    BY <2>1, <2>2, <2>3 DEF prepare
<1> QED
  BY <1>1, <1>2, <1>3

\* exit_boot_services: the size passed to GetMemoryMap is that of the buffer,
\* or of what was last written into it.
LEMMA ExitInv ==
    ASSUME LoaderInv, grow_map \/ get_memory_map \/ exit_stale \/ exit_fails \/ exit_done
                      \/ firmware_event
    PROVE  LoaderInv'
<1> USE DEF LoaderInv, volumeVars, mapVars, Searching, Leaving
<1>0. /\ lpc \in {"map", "exit"} /\ lpc' \in {"returned"} \cup Leaving
      /\ UNCHANGED <<message, volumeVars, pages, image, remaining, stack_base>>
  BY DEF grow_map, get_memory_map, exit_stale, exit_fails, exit_done, firmware_event
<1>1. VolumeInv'
  BY <1>0 DEF VolumeInv
<1>2. ImageInv'
  BY <1>0 DEF ImageInv, OutOfReach
<1>3. PoolInv'
  <2>1. \/ lpc' \in Leaving /\ pool' \in {pool, pool \cup {"map"}}
        \/ lpc' = "returned" /\ pool' = pool \ {"map"}
    BY DEF grow_map, get_memory_map, exit_stale, exit_fails, exit_done, firmware_event
  <2> QED
    BY <1>0, <2>1 DEF PoolInv
<1>4. MapInv'
  <2>1. CASE grow_map
    BY <2>1 DEF grow_map, MapInv
  <2>2. CASE get_memory_map
    BY <2>2 DEF get_memory_map, MapInv
  <2>3. CASE exit_stale \/ exit_fails \/ exit_done
    BY <2>3 DEF exit_stale, exit_fails, exit_done, MapInv
  <2>4. CASE firmware_event
    BY <2>4 DEF firmware_event, MapInv
  <2> QED
    BY <2>1, <2>2, <2>3, <2>4
<1> QED
  BY <1>0, <1>1, <1>2, <1>3, <1>4

\* Every step of the loader and of the firmware keeps LoaderInv.
LEMMA LoaderStep ==
    ASSUME LoaderInv, LoaderNext
    PROVE  LoaderInv'
  BY LocateInv, LoadInv, PrepareInv, ExitInv DEF LoaderNext

\* Once no loader runs, nothing is left to hold.
LEMMA GoneInv ==
    ASSUME LoaderGone
    PROVE  LoaderInv'
  BY DEF LoaderGone, LoaderInv, PoolInv, VolumeInv, ImageInv, MapInv, Searching, Leaving, NoImage

-----------------------------------------------------------------------------
\* LoaderInv holds in every state of a boot.
THEOREM LoaderInvariant == Spec => []LoaderInv
<1>1. Init => LoaderInv
  BY LoaderInitInv DEF Init
<1>2. LoaderInv /\ [Next]_vars => LoaderInv'
  <2> SUFFICES ASSUME LoaderInv, [Next]_vars PROVE LoaderInv'
    OBVIOUS
  <2>1. CASE load
    BY <2>1, LoaderStep DEF load
  <2>2. CASE kernel_uefi_entry \/ start_kernel
    BY <2>2, GoneInv DEF kernel_uefi_entry, start_kernel
  <2>3. CASE UNCHANGED loaderVars
    <3>1. PoolInv' /\ MapInv'
      BY <2>3 DEF loaderVars, LoaderInv, PoolInv, MapInv
    <3>2. VolumeInv'
      BY <2>3 DEF loaderVars, LoaderInv, VolumeInv
    <3>3. ImageInv'
      BY <2>3 DEF loaderVars, LoaderInv, ImageInv, OutOfReach
    <3> QED
      BY <2>3, <3>1, <3>2, <3>3 DEF loaderVars, LoaderInv
  <2>4. CASE kernel_main
    BY <2>3, <2>4 DEF kernel_main, framebuffer_console_init, irq_install, scan,
       uhci_initialize_controller, uhci_enumerate_devices, other_controller, kbd_subsystem_init
  <2>5. CASE td_completes \/ irq_handler
    BY <2>3, <2>5 DEF td_completes, irq_handler
  <2> QED
    BY <2>1, <2>2, <2>3, <2>4, <2>5 DEF Next, vars
<1> QED
  BY <1>1, <1>2, PTL DEF Spec

\* uefi_enter_kernel jumps into a complete image that has its bootinfo block,
\* with a stack outside of it.
THEOREM HandoverIsSafe == Spec => []HandoverSafe
<1>1. LoaderInv => HandoverSafe
  <2> SUFFICES ASSUME LoaderInv, lpc = "kernel" PROVE
        /\ remaining = 0 /\ image.info >= 0
        /\ \A byte \in 0 .. image.size - 1 :
             byte \div PageSize \notin stack_base .. stack_base + StackPages - 1
    BY DEF HandoverSafe
  <2>1. /\ remaining = 0 /\ image.info >= 0
        /\ kernel_pages(image.size) \cap stack_base .. stack_base + StackPages - 1 = {}
    BY DEF LoaderInv, ImageInv, Leaving
  <2>2. image.size \in Nat
    BY FileFacts DEF LoaderInv, ImageInv
  <2>3. ASSUME NEW byte \in 0 .. image.size - 1
        PROVE byte \div PageSize \notin stack_base .. stack_base + StackPages - 1
    BY <2>1, <2>2, BytesInPages
  <2> QED
    BY <2>1, <2>3
<1> QED
  BY <1>1, LoaderInvariant, PTL

\* GetMemoryMap is never told that the buffer is larger than it is.
THEOREM MapAlwaysFits == Spec => []MapFits
<1>1. LoaderInv => MapFits
  BY DEF LoaderInv, MapInv, MapFits
<1> QED
  BY <1>1, LoaderInvariant, PTL

\* efi_main returns to the firmware with nothing of the pool left.
THEOREM LoaderReturnsClean == Spec => []ReturnsClean
<1>1. LoaderInv => ReturnsClean
  BY DEF LoaderInv, PoolInv, ReturnsClean, Searching, Leaving
<1> QED
  BY <1>1, LoaderInvariant, PTL

\* efi_main passes over no volume without a reason, and find_kernel_bootinfo
\* over no block.
THEOREM NoKernelMissed == Spec => []KernelNotMissed
<1>1. LoaderInv => KernelNotMissed
  BY DEF LoaderInv, VolumeInv, ImageInv, OutOfReach, KernelNotMissed
<1> QED
  BY <1>1, LoaderInvariant, PTL

\* What is known of the display at each stage: the block in the image, and then
\* the kernel's copy, say of it what locate_gop found.
InfoInv == /\ stage = "bios" => gop = NoGop /\ kernel_bootinfo = NoInfo
           /\ stage = "uefi" /\ lpc \in Leaving => boot_info = InfoFor(gop)
           /\ stage = "console" => kernel_bootinfo = InfoFor(gop)
           /\ ~gop.ok => gop.mode = {}
           /\ gop.mode \subseteq Fields
           /\ ConsoleReal

\* The block as the image has it describes a display nobody asked for.
LEMMA NoGopInfo == InfoFor(NoGop) = NoInfo
  BY DEF InfoFor, NoGop, NoInfo

\* The four tests of framebuffer_console_init, on what the loader copied, find out
\* whether the firmware had a display with all four fields.
LEMMA TestsDecide ==
    ASSUME InfoInv
    PROVE  UsableMode(InfoFor(gop)) <=> gop.mode = Fields
<1>1. InfoFor(gop).framebuffer <=> gop.ok
  BY DEF InfoFor
<1>2. CASE gop.ok
  <2>1. InfoFor(gop).mode = gop.mode
    BY <1>2 DEF InfoFor
  <2> QED
    BY <1>1, <1>2, <2>1 DEF UsableMode, InfoInv, Fields
<1>3. CASE ~gop.ok
  <2>1. gop.mode # Fields
    BY <1>3 DEF InfoInv, Fields
  <2> QED
    BY <1>1, <1>3, <2>1 DEF UsableMode
<1> QED
  BY <1>2, <1>3

\* A step of the loader that does not ask for the display keeps InfoInv.
LEMMA LoaderInfo ==
    ASSUME InfoInv, load
    PROVE  InfoInv'
<1>1. /\ stage = "uefi" /\ stage' = stage /\ UNCHANGED consoleVars
  BY DEF load, pciVars, bootVars
<1>2. CASE locate_gop
  <2>1. PICK located \in {"interface", "no interface", "no handles"}, queried \in BOOLEAN,
             mode \in Displays :
          gop' = [ok |-> located = "no interface" \/ (located = "interface" /\ queried),
                  mode |-> IF located = "interface" /\ queried THEN mode ELSE {}]
    BY <1>2 DEF locate_gop
  <2>2. mode \subseteq Fields
    BY LoaderAssumption
  <2>3. gop'.ok <=> (located = "no interface" \/ (located = "interface" /\ queried))
    BY <2>1
  <2>4. gop'.mode = IF located = "interface" /\ queried THEN mode ELSE {}
    BY <2>1
  <2>5. (~gop'.ok => gop'.mode = {}) /\ gop'.mode \subseteq Fields
    BY <2>2, <2>3, <2>4
  <2>6. lpc' \notin Leaving
    BY <1>2 DEF locate_gop, Leaving
  <2> QED
    BY <1>1, <2>5, <2>6 DEF InfoInv, ConsoleReal
<1>3. CASE prepare
  <2>1. gop' = gop /\ (lpc' \in Leaving => boot_info' = InfoFor(gop))
    BY <1>3 DEF prepare, Return, Leaving
  <2> QED
    BY <1>1, <2>1 DEF InfoInv, ConsoleReal, InfoFor
<1>4. CASE ~locate_gop /\ ~prepare
  <2>1. gop' = gop
    BY <1>4 DEF load, LoaderNext, locate_volumes, loaded_image, open_volume, load_kernel,
       read_chunk, kernel_loaded, grow_map, get_memory_map, exit_stale, exit_fails, exit_done,
       firmware_event
  <2>2. boot_info' = boot_info /\ (lpc' \in Leaving => lpc \in Leaving)
    BY <1>4 DEF load, LoaderNext, locate_volumes, loaded_image, open_volume, load_kernel,
       read_chunk, kernel_loaded, grow_map, get_memory_map, exit_stale, exit_fails, exit_done,
       firmware_event, GiveUp, Return, Leaving
  <2> QED
    BY <1>1, <2>1, <2>2 DEF InfoInv, ConsoleReal, InfoFor
<1> QED
  BY <1>2, <1>3, <1>4

\* The console is the one that the firmware's answers call for, through the
\* loader, the handover and framebuffer_console_init, whatever displays there are.
THEOREM ConsoleIsReal == Spec => []ConsoleReal
<1>1. Init => InfoInv
  BY DEF Init, LoaderInit, InfoInv, ConsoleReal, NoGop, NoInfo, Leaving
<1>2. InfoInv /\ [Next]_vars => InfoInv'
  <2> SUFFICES ASSUME InfoInv, [Next]_vars PROVE InfoInv'
    OBVIOUS
  <2>1. CASE framebuffer_console_init
    <3>1. /\ gop' = gop /\ stage = "console" /\ stage' = "irq"
          /\ fb_ready' <=> UsableMode(kernel_bootinfo)
          /\ screen_available' <=> ~fb_ready'
      BY <2>1 DEF framebuffer_console_init, loaderVars
    <3>2. fb_ready' <=> gop.mode = Fields
      BY <3>1, TestsDecide DEF InfoInv
    <3> QED
      BY <3>1, <3>2 DEF InfoInv, ConsoleReal
  <2>2. CASE kernel_uefi_entry
    BY <2>2 DEF kernel_uefi_entry, LoaderGone, InfoInv, ConsoleReal, Leaving, InfoFor
  <2>3. CASE start_kernel
    BY <2>3, NoGopInfo DEF start_kernel, LoaderGone, InfoInv, ConsoleReal, bootVars, consoleVars
  <2>4. CASE /\ stage' = stage \/ stage \in {"irq", "pci", "usb", "enumerate", "ports"}
             /\ stage' \notin {"uefi", "bios", "console"} \/ stage' = stage
             /\ UNCHANGED <<consoleVars, loaderVars>>
    <3>1. gop' = gop /\ lpc' = lpc /\ boot_info' = boot_info
      BY <2>4 DEF loaderVars
    <3> QED
      BY <2>4, <3>1 DEF consoleVars, InfoInv, ConsoleReal, InfoFor
  <2>5. CASE kernel_main
    BY <2>1, <2>4, <2>5 DEF kernel_main, irq_install, scan, pci_scan, bootVars, pciVars,
       pci_scan_for_usb_controllers, uhci_initialize_controller, uhci_enumerate_devices,
       other_controller, kbd_subsystem_init
  <2>6. CASE td_completes \/ irq_handler \/ UNCHANGED vars
    BY <2>4, <2>6 DEF td_completes, irq_handler, vars, bootVars, pciVars
  <2>7. CASE load
    BY <2>7, LoaderInfo
  <2> QED
    BY <2>2, <2>3, <2>5, <2>6, <2>7 DEF Next
<1>3. InfoInv => ConsoleReal
  BY DEF InfoInv
<1> QED
  BY <1>1, <1>2, <1>3, PTL DEF Spec

-----------------------------------------------------------------------------
(***************************************************************************)
(* The PCI scan.  What pci_read_bars passes over, and the table of USB     *)
(* controllers, are recursive functions; the induction over them is by the *)
(* least place that would be an exception.                                 *)
(***************************************************************************)

\* Every set of numbers that is not empty has a least one.
LEMMA LeastNumber ==
    ASSUME NEW T, T \subseteq Nat, T # {}
    PROVE  \E m \in T : \A k \in T : m <= k
<1>1. PICK m \in T : \A k \in T : ~(<<k, m>> \in OpToRel(<, Nat))
  BY NatLessThanWellFounded, WFMin, Zenon
<1>2. ASSUME NEW k \in T PROVE m <= k
  <2>1. ~(<<k, m>> \in OpToRel(<, Nat))
    BY <1>1, Zenon
  <2>2. ~(<<k, m>> \in {ss \in Nat \X Nat : ss[1] < ss[2]})
    BY <2>1, Zenon DEF OpToRel
  <2> QED
    BY <2>2
<1> QED
  BY <1>2

\* What holds at 0 and from each number to the next, holds at n.
LEMMA UpTo ==
    ASSUME NEW n \in Nat, NEW T, 0 \in T, \A j \in 1 .. n : j - 1 \in T => j \in T
    PROVE  n \in T
<1> DEFINE Bad == {j \in 0 .. n : j \notin T}
<1>1. SUFFICES ASSUME Bad # {} PROVE FALSE
  OBVIOUS
<1>2. Bad \subseteq Nat
  OBVIOUS
<1>3. PICK m \in Bad : \A i \in Bad : m <= i
  BY <1>1, <1>2, LeastNumber, Zenon
<1>4. m # 0 /\ m - 1 \in 0 .. n /\ m - 1 \notin Bad /\ m \in 1 .. n
  BY <1>3
<1> QED
  BY <1>3, <1>4

-----------------------------------------------------------------------------
\* The registers of a function with these kinds.
Raw(layout, n) == [i \in Bars |-> Register(layout[i], n)]

\* Which registers pci_read_bars takes for the lower half of a 64-bit address.
LEMMA WideRegister ==
    ASSUME NEW kind \in Kinds, kind # "upper", NEW n \in 1 .. Functions
    PROVE  Is64Bit(Register(kind, n)) <=> kind = "mem64"
<1>1. /\ IoAddress[n] \in Nat /\ IoAddress[n] % 4 = 0
      /\ MemAddress[n] \in Nat /\ MemAddress[n] % 16 = 0
  BY AddressAssumption
<1>2. CASE kind = "none"
  BY <1>2 DEF Register, Is64Bit
<1>3. CASE kind = "io"
  <2>1. (IoAddress[n] + 1) % 2 = 1
    BY <1>1
  <2> QED
    BY <1>3, <2>1 DEF Register, Is64Bit
<1>4. CASE kind = "mem32"
  <2>1. (MemAddress[n] \div 2) % 4 = 0
    BY <1>1
  <2> QED
    BY <1>4, <2>1 DEF Register, Is64Bit
<1>5. CASE kind = "mem64"
  <2>1. (MemAddress[n] + 4) % 2 = 0 /\ ((MemAddress[n] + 4) \div 2) % 4 = 2
    BY <1>1
  <2> QED
    BY <1>5, <2>1 DEF Register, Is64Bit
<1> QED
  BY <1>2, <1>3, <1>4, <1>5 DEF Kinds

Passing(raw, f) == f = [i \in Bars |-> i > 1 /\ ~f[i - 1] /\ Is64Bit(raw[i - 1])]

\* One register: passed over exactly when the one before it was a lower half
\* and was not passed over itself.
LEMMA PassedOne ==
    ASSUME NEW layout \in Layouts, NEW n \in 1 .. Functions, NEW i \in Bars, i > 1, NEW b,
           b = (layout[i - 1] = "upper")
    PROVE  (~b /\ Is64Bit(Raw(layout, n)[i - 1])) <=> layout[i] = "upper"
<1>1. i - 1 \in Bars
  BY PciAssumption DEF Bars
<1>2. layout[i - 1] \in Kinds /\ (layout[i] = "upper" <=> layout[i - 1] = "mem64")
  BY <1>1, LayoutAssumption
<1>3. Raw(layout, n)[i - 1] = Register(layout[i - 1], n)
  BY <1>1 DEF Raw
<1>4. CASE layout[i - 1] = "upper"
  BY <1>2, <1>4
<1>5. CASE layout[i - 1] # "upper"
  <2>1. Is64Bit(Raw(layout, n)[i - 1]) <=> layout[i - 1] = "mem64"
    BY <1>2, <1>3, <1>5, WideRegister
  <2>2. ~b
    BY <1>5
  <2> QED
    BY <2>1, <2>2, <1>2
<1> QED
  BY <1>4, <1>5

\* pci_read_bars passes over the upper halves of addresses and nothing else.
LEMMA SkippedUpper ==
    ASSUME NEW layout \in Layouts, NEW n \in 1 .. Functions, NEW i \in Bars
    PROVE  Skipped(Raw(layout, n))[i] <=> layout[i] = "upper"
<1> DEFINE raw == Raw(layout, n)
           g == [j \in Bars |-> layout[j] = "upper"]
           h == [j \in Bars |-> j > 1 /\ ~g[j - 1] /\ Is64Bit(raw[j - 1])]
           f == CHOOSE f : Passing(raw, f)
<1>0. BarCount \in Nat
  BY PciAssumption
<1>1. ASSUME NEW j \in Bars PROVE g[j] = h[j]
  <2>1. CASE j > 1
    <3>1. j - 1 \in Bars
      BY <1>0, <2>1 DEF Bars
    <3>2. g[j - 1] = (layout[j - 1] = "upper")
      BY <3>1
    <3>3. (~g[j - 1] /\ Is64Bit(raw[j - 1])) <=> layout[j] = "upper"
      BY <2>1, <3>2, PassedOne
    <3> QED
      BY <2>1, <3>3
  <2>2. CASE ~(j > 1)
    <3>1. ~(layout[j] = "upper")
      BY <2>2, LayoutAssumption
    <3> QED
      BY <2>2, <3>1
  <2> QED
    BY <2>1, <2>2
<1>2. g = h
  BY <1>1
<1>3. Passing(raw, g)
  BY <1>2, Zenon DEF Passing
<1>4. Passing(raw, f)
  BY <1>3, Zenon
<1>5. Skipped(raw) = f
  BY Zenon DEF Skipped, Passing
<1> HIDE DEF f, g, h
<1> DEFINE T == {j \in 0 .. BarCount : j = 0 \/ (f[j] <=> layout[j] = "upper")}
<1>6. ASSUME NEW j \in 1 .. BarCount, j - 1 \in T PROVE j \in T
  <2>1. j \in Bars /\ f[j] = (j > 1 /\ ~f[j - 1] /\ Is64Bit(raw[j - 1]))
    BY <1>4 DEF Passing, Bars
  <2>2. CASE j > 1
    <3>1. f[j - 1] <=> layout[j - 1] = "upper"
      BY <1>0, <1>6, <2>2
    <3>2. (~(layout[j - 1] = "upper") /\ Is64Bit(raw[j - 1])) <=> layout[j] = "upper"
      BY <2>1, <2>2, PassedOne
    <3>3. f[j] <=> layout[j] = "upper"
      BY <2>1, <2>2, <3>1, <3>2
    <3> QED
      BY <3>3
  <2>3. CASE ~(j > 1)
    <3>1. ~(layout[j] = "upper")
      BY <2>1, <2>3, LayoutAssumption
    <3>2. ~f[j]
      BY <2>1, <2>3
    <3> QED
      BY <3>1, <3>2
  <2> QED
    BY <2>2, <2>3
<1>7. 0 \in T
  BY <1>0
<1>8. i \in T
  <2> HIDE DEF T
  <2>1. i \in Nat /\ \A j \in 1 .. i : j \in 1 .. BarCount
    BY <1>0 DEF Bars
  <2> QED
    BY <1>6, <1>7, <2>1, UpTo
<1>9. f[i] <=> layout[i] = "upper"
  BY <1>8 DEF Bars
<1> QED
  BY <1>5, <1>9

\* What pci_read_bars makes of a register: an I/O range is found with its
\* address, and nothing else can be taken for one.
LEMMA BarRead ==
    ASSUME NEW layout \in Layouts, NEW n \in 1 .. Functions, NEW i \in Bars,
           NEW bars, bars = pci_read_bars(Raw(layout, n))
    PROVE  /\ layout[i] = "io" => bars[i].bar = IoAddress[n] /\ ~bars[i].is_memory_mapped
           /\ layout[i] # "io" => bars[i].bar = 0 \/ bars[i].is_memory_mapped
<1> DEFINE raw == Raw(layout, n)
           skipped == Skipped(raw)
<1>1. /\ IoAddress[n] \in Nat /\ IoAddress[n] # 0 /\ IoAddress[n] % 4 = 0
      /\ MemAddress[n] \in Nat /\ MemAddress[n] % 16 = 0
  BY AddressAssumption
<1>2. raw[i] = Register(layout[i], n) /\ layout[i] \in Kinds
  BY LayoutAssumption DEF Raw
<1>3. skipped[i] <=> layout[i] = "upper"
  BY SkippedUpper
<1>4. bars[i] = IF raw[i] = 0 \/ skipped[i] THEN [bar |-> 0, is_memory_mapped |-> FALSE]
                ELSE IF raw[i] % 2 = 1
                  THEN [bar |-> 4 * (raw[i] \div 4), is_memory_mapped |-> FALSE]
                  ELSE [bar |-> 16 * (raw[i] \div 16), is_memory_mapped |-> TRUE]
  BY DEF pci_read_bars
<1> HIDE DEF raw, skipped
<1>5. CASE layout[i] = "io"
  <2>1. raw[i] = IoAddress[n] + 1 /\ ~skipped[i]
    BY <1>2, <1>3, <1>5 DEF Register
  <2>2. raw[i] # 0 /\ raw[i] % 2 = 1 /\ 4 * (raw[i] \div 4) = IoAddress[n]
    BY <1>1, <2>1
  <2>3. bars[i] = [bar |-> IoAddress[n], is_memory_mapped |-> FALSE]
    BY <1>4, <2>1, <2>2
  <2> QED
    BY <1>5, <2>3
<1>6. CASE layout[i] = "upper" \/ layout[i] = "none"
  <2>1. raw[i] = 0 \/ skipped[i]
    BY <1>2, <1>3, <1>6 DEF Register
  <2>2. bars[i] = [bar |-> 0, is_memory_mapped |-> FALSE]
    BY <1>4, <2>1
  <2> QED
    BY <1>6, <2>2
<1>7. CASE layout[i] = "mem32" \/ layout[i] = "mem64"
  <2>1. raw[i] = MemAddress[n] \/ raw[i] = MemAddress[n] + 4
    BY <1>2, <1>7 DEF Register
  <2>2. raw[i] % 2 # 1
    BY <1>1, <2>1
  <2>3. bars[i] = [bar |-> 0, is_memory_mapped |-> FALSE]
        \/ bars[i] = [bar |-> 16 * (raw[i] \div 16), is_memory_mapped |-> TRUE]
    BY <1>4, <2>2
  <2> QED
    BY <1>7, <2>3
<1> QED
  BY <1>2, <1>5, <1>6, <1>7 DEF Kinds

\* The port of a function with this layout.
IoOf(layout, n) == IF \E i \in Bars : layout[i] = "io" THEN IoAddress[n] ELSE 0

\* find_uhci_io_base finds the I/O range wherever in the registers it is.
LEMMA BaseFound ==
    ASSUME NEW layout \in Layouts, NEW n \in 1 .. Functions, NEW d,
           d.bars = pci_read_bars(Raw(layout, n))
    PROVE  find_uhci_io_base(d) = IoOf(layout, n)
<1> DEFINE io == {i \in Bars : d.bars[i].bar # 0 /\ ~d.bars[i].is_memory_mapped}
<1>1. \A i \in Bars : /\ layout[i] = "io" => d.bars[i].bar = IoAddress[n] /\ ~d.bars[i].is_memory_mapped
                      /\ layout[i] # "io" => d.bars[i].bar = 0 \/ d.bars[i].is_memory_mapped
  BY BarRead
<1>2. IoAddress[n] \in Nat /\ IoAddress[n] # 0 /\ IoAddress[n] < 65536
  BY AddressAssumption
<1>3. io = {i \in Bars : layout[i] = "io"}
  BY <1>1, <1>2
<1>4. find_uhci_io_base(d) = IF io = {} THEN 0 ELSE d.bars[Min(io)].bar % 65536
  BY DEF find_uhci_io_base
<1> HIDE DEF io
<1>5. CASE io = {}
  BY <1>3, <1>4, <1>5 DEF IoOf
<1>6. CASE io # {}
  <2>1. io \subseteq Nat
    BY <1>3, PciAssumption DEF Bars
  <2>2. \E m \in io : \A k \in io : m <= k
    BY <1>6, <2>1, LeastNumber
  <2>3. Min(io) \in io
    BY <2>2, Zenon DEF Min
  <2>4. Min(io) \in Bars /\ layout[Min(io)] = "io"
    BY <1>3, <2>3
  <2>5. d.bars[Min(io)].bar = IoAddress[n]
    BY <1>1, <2>4
  <2>6. IoAddress[n] % 65536 = IoAddress[n]
    BY <1>2
  <2>7. IoOf(layout, n) = IoAddress[n]
    BY <2>4 DEF IoOf
  <2> QED
    BY <1>4, <1>6, <2>5, <2>6, <2>7
<1> QED
  BY <1>5, <1>6

-----------------------------------------------------------------------------
(***************************************************************************)
(* The inductive invariant of the scan: every function read is one the     *)
(* hardware can have, the tables hold what was read, and the controllers   *)
(* are made from the devices.                                              *)
(***************************************************************************)
Before == {"uefi", "bios", "console", "irq", "pci"}

Real(f) == f.class = "usb" /\ f.prog_if = UHCI =>
             \E n \in 1 .. Functions : \E layout \in Layouts :
                 f.raw = Raw(layout, n) /\ f.io = IoOf(layout, n)

Listed(d, fs) == /\ d.fn \in 1 .. Len(fs) /\ d.class = fs[d.fn].class
                 /\ d.class = "usb" => /\ d.prog_if = fs[d.fn].prog_if
                                       /\ d.bars = pci_read_bars(fs[d.fn].raw)

UsbDevices == {i \in 1 .. Len(pci_devices) : pci_devices[i].class = "usb"}

IsSeq(q) == \E S : q \in Seq(S)

PciInv == /\ IsSeq(hw) /\ Len(hw) <= Functions
          /\ stage \in Before => Len(hw) < Functions
          /\ \A n \in 1 .. Len(hw) : Real(hw[n])
          /\ IsSeq(pci_devices)
          /\ \A i \in 1 .. Len(pci_devices) : Listed(pci_devices[i], hw)
          /\ stage \in Before \cup {"usb"} => usb_controllers = << >>
          /\ usb_controllers \in Seq({Controller(i) : i \in UsbDevices})

\* A controller made from a function has the port of that function.
LEMMA PciInvReal ==
    ASSUME PciInv
    PROVE  IoBaseReal
<1>1. SUFFICES ASSUME NEW c \in DOMAIN usb_controllers, IsUhci(usb_controllers[c])
               PROVE  usb_controllers[c].base_address = hw[Device(usb_controllers[c]).fn].io
  BY DEF IoBaseReal
<1>2. PICK i \in UsbDevices : usb_controllers[c] = Controller(i)
  BY <1>1 DEF PciInv
<1> DEFINE d == pci_devices[i]
<1>3. usb_controllers[c].pci_device = i /\ Device(usb_controllers[c]) = d
  BY <1>2 DEF Controller, Device
<1>4. d.prog_if = UHCI /\ d.class = "usb"
  BY <1>1, <1>3 DEF IsUhci, UsbDevices
<1>5. usb_controllers[c].base_address = find_uhci_io_base(d)
  BY <1>2, <1>4 DEF Controller
<1>6. Listed(d, hw)
  BY DEF PciInv, UsbDevices
<1>7. /\ d.fn \in 1 .. Len(hw) /\ hw[d.fn].class = "usb" /\ hw[d.fn].prog_if = UHCI
      /\ d.bars = pci_read_bars(hw[d.fn].raw)
  BY <1>4, <1>6 DEF Listed
<1>8. Real(hw[d.fn])
  BY <1>7 DEF PciInv
<1>9. PICK n \in 1 .. Functions : \E layout \in Layouts :
          hw[d.fn].raw = Raw(layout, n) /\ hw[d.fn].io = IoOf(layout, n)
  BY <1>7, <1>8 DEF Real
<1>10. PICK layout \in Layouts : hw[d.fn].raw = Raw(layout, n) /\ hw[d.fn].io = IoOf(layout, n)
  BY <1>9
<1>11. d.bars = pci_read_bars(Raw(layout, n))
  BY <1>7, <1>10
<1>12. find_uhci_io_base(d) = IoOf(layout, n)
  BY <1>11, BaseFound
<1> QED
  BY <1>3, <1>5, <1>10, <1>12

\* Every function that the scan can read is a real one.
LEMMA ReadReal ==
    ASSUME PciInv, stage = "pci", NEW f \in Function(Len(hw) + 1)
    PROVE  Real(f)
<1> DEFINE n == Len(hw) + 1
<1>1. Len(hw) \in Nat /\ Functions \in Nat /\ n \in 1 .. Functions
  <2>1. Len(hw) \in Nat
    BY DEF PciInv, IsSeq
  <2> QED
    BY <2>1, PciAssumption DEF PciInv, Before
<1> HIDE DEF n
<1>2. CASE f = Absent \/ f = [class |-> "other"]
  BY <1>2 DEF Real, Absent
<1>3. ASSUME NEW layout \in Layouts, NEW line \in Lines, f = UsbFunction(n, layout, UHCI, line)
      PROVE  Real(f)
  <2>1. f.raw = Raw(layout, n) /\ f.io = IoOf(layout, n)
    BY <1>3 DEF UsbFunction, Raw, IoOf
  <2> QED
    BY <1>1, <2>1 DEF Real
<1>4. CASE f = UsbFunction(n, EhciLayout, EHCI, 255)
  <2>1. f.prog_if = 32
    BY <1>4 DEF UsbFunction, EHCI
  <2> QED
    BY <2>1 DEF Real, UHCI
<1>5. CASE n > 1 /\ f = hw[n - 1]
  <2>1. n - 1 \in 1 .. Len(hw)
    BY <1>1, <1>5 DEF n
  <2> QED
    BY <1>5, <2>1 DEF PciInv
<1> QED
  BY <1>2, <1>3, <1>4, <1>5 DEF Function, n

\* Reading a function keeps the invariant of the scan.
LEMMA ScanInv ==
    ASSUME PciInv, pci_scan
    PROVE  PciInv'
<1> DEFINE n == Len(hw) + 1
<1>1. PICK f \in Function(n) :
         LET full == f # Absent /\ Len(pci_devices) >= MaxPciDevices
         IN /\ hw' = Append(hw, f)
            /\ pci_devices' = IF f = Absent \/ full THEN pci_devices
                              ELSE Append(pci_devices, Entry(f, n))
            /\ stage' = IF full \/ n = Functions THEN "usb" ELSE stage
  BY DEF pci_scan
<1>2. stage = "pci" /\ usb_controllers' = usb_controllers /\ usb_controllers = << >>
  BY DEF pci_scan, PciInv, Before
<1>3. Real(f)
  BY <1>2, ReadReal
<1>4. PICK S : hw \in Seq(S)
  BY DEF PciInv, IsSeq
<1>5. PICK D : pci_devices \in Seq(D)
  BY DEF PciInv, IsSeq
<1>6. /\ hw' \in Seq(S \cup {f}) /\ Len(hw') = n /\ Len(hw) \in Nat /\ hw'[n] = f
      /\ \A i \in 1 .. Len(hw) : hw'[i] = hw[i]
  <2>1. hw' = Append(hw, f)
    BY <1>1
  <2>2. hw \in Seq(S \cup {f}) /\ f \in S \cup {f}
    BY <1>4
  <2> QED
    BY <2>1, <2>2, AppendProperties
<1>7. Len(hw) < Functions /\ Functions \in Nat
  BY <1>2, PciAssumption DEF PciInv, Before
<1>8. IsSeq(hw)' /\ Len(hw') <= Functions /\ (stage' \in Before => Len(hw') < Functions)
  BY <1>1, <1>6, <1>7 DEF IsSeq, Before
<1>9. ASSUME NEW i \in 1 .. Len(hw') PROVE Real(hw'[i])
  <2>1. CASE i = n
    BY <1>3, <1>6, <2>1
  <2>2. CASE i # n
    <3>1. i \in 1 .. Len(hw)
      BY <1>6, <2>2
    <3> QED
      BY <1>6, <3>1 DEF PciInv
  <2> QED
    BY <2>1, <2>2
<1>10. ASSUME NEW i \in 1 .. Len(pci_devices) PROVE Listed(pci_devices[i], hw')
  <2>1. Listed(pci_devices[i], hw)
    BY DEF PciInv
  <2>2. pci_devices[i].fn \in 1 .. Len(hw') /\ hw'[pci_devices[i].fn] = hw[pci_devices[i].fn]
    BY <1>6, <2>1 DEF Listed
  <2> QED
    BY <2>1, <2>2 DEF Listed
<1>11. Listed(Entry(f, n), hw')
  <2>1. n \in 1 .. Len(hw')
    BY <1>6
  <2>2. CASE f.class = "usb"
    <3>1. Entry(f, n) = [fn |-> n, class |-> f.class, prog_if |-> f.prog_if,
                         bars |-> pci_read_bars(f.raw), interrupt_line |-> f.line]
      BY <2>2 DEF Entry
    <3> QED
      BY <1>6, <2>1, <3>1 DEF Listed
  <2>3. CASE f.class # "usb"
    <3>1. Entry(f, n) = [fn |-> n, class |-> f.class]
      BY <2>3 DEF Entry
    <3> QED
      BY <1>6, <2>1, <2>3, <3>1 DEF Listed
  <2> QED
    BY <2>2, <2>3
<1>12. IsSeq(pci_devices)' /\ \A i \in 1 .. Len(pci_devices') : Listed(pci_devices'[i], hw')
  <2>1. CASE pci_devices' = pci_devices
    BY <1>5, <1>10, <2>1 DEF IsSeq
  <2>2. CASE pci_devices' = Append(pci_devices, Entry(f, n))
    <3> DEFINE e == Entry(f, n)
    <3>1. Listed(e, hw')
      BY <1>11
    <3> HIDE DEF e
    <3>2. pci_devices' = Append(pci_devices, e)
      BY <2>2 DEF e
    <3>3. pci_devices \in Seq(D \cup {e}) /\ e \in D \cup {e}
      BY <1>5
    <3>4. /\ pci_devices' \in Seq(D \cup {e}) /\ Len(pci_devices') = Len(pci_devices) + 1
          /\ Len(pci_devices) \in Nat /\ pci_devices'[Len(pci_devices) + 1] = e
          /\ \A i \in 1 .. Len(pci_devices) : pci_devices'[i] = pci_devices[i]
      BY <3>2, <3>3, AppendProperties
    <3>5. ASSUME NEW i \in 1 .. Len(pci_devices') PROVE Listed(pci_devices'[i], hw')
      <4>1. CASE i = Len(pci_devices) + 1
        BY <3>1, <3>4, <4>1
      <4>2. CASE i # Len(pci_devices) + 1
        <5>1. i \in 1 .. Len(pci_devices)
          BY <3>4, <4>2
        <5> QED
          BY <1>10, <3>4, <5>1
      <4> QED
        BY <4>1, <4>2
    <3> QED
      BY <3>4, <3>5 DEF IsSeq
  <2> QED
    BY <1>1, <2>1, <2>2
<1>13. usb_controllers' = << >>
       /\ usb_controllers' \in Seq({Controller(i) : i \in UsbDevices})'
  BY <1>2
<1> QED
  BY <1>8, <1>9, <1>12, <1>13 DEF PciInv

\* The passes of pci_scan_for_usb_controllers, as far as the n-th.
Tabling(t, n, f) ==
    f = [j \in 0 .. n |-> IF j = 0 THEN t ELSE add_controller(f[j - 1], j)]

\* The recursion of the loop defines a function.
LEMMA TablingExist ==
    ASSUME NEW t, NEW n \in Nat
    PROVE  \E f : Tabling(t, n, f)
<1> DEFINE Bad == {m \in Nat : \A f : ~Tabling(t, m, f)}
<1>1. SUFFICES ASSUME Bad # {} PROVE FALSE
  OBVIOUS
<1>2. PICK m \in Bad : \A i \in Bad : m <= i
  BY <1>1, LeastNumber
<1>3. CASE m = 0
  <2> DEFINE g == [j \in 0 .. 0 |-> t]
  <2>1. g = [j \in 0 .. 0 |-> IF j = 0 THEN t ELSE add_controller(g[j - 1], j)]
    OBVIOUS
  <2>2. Tabling(t, 0, g)
    BY <2>1, Zenon DEF Tabling
  <2> QED
    BY <1>2, <1>3, <2>2
<1>4. CASE m # 0
  <2>1. m - 1 \in Nat /\ m \in Nat /\ m - 1 \notin Bad
    BY <1>2, <1>4
  <2>2. PICK f : Tabling(t, m - 1, f)
    BY <2>1
  <2> DEFINE added == add_controller(f[m - 1], m)
             g == [j \in 0 .. m |-> IF j = m THEN added ELSE f[j]]
             h == [j \in 0 .. m |-> IF j = 0 THEN t ELSE add_controller(g[j - 1], j)]
  <2>3. \A j \in 0 .. m - 1 : f[j] = IF j = 0 THEN t ELSE add_controller(f[j - 1], j)
    BY <2>2 DEF Tabling
  <2>4. ASSUME NEW j \in 0 .. m PROVE g[j] = h[j]
    <3>1. CASE j = m
      <4>1. g[m - 1] = f[m - 1]
        BY <2>1
      <4> QED
        BY <3>1, <4>1, <1>4, <2>1
    <3>2. CASE j # m /\ j # 0
      <4>1. j \in 0 .. m - 1 /\ j - 1 \in 0 .. m /\ j - 1 # m
        BY <3>2, <2>1
      <4>2. g[j] = f[j] /\ g[j - 1] = f[j - 1]
        BY <3>2, <4>1
      <4> QED
        BY <3>2, <4>1, <4>2, <2>3
    <3>3. CASE j = 0
      <4>1. 0 \in 0 .. m - 1 /\ j # m
        BY <3>3, <2>1, <1>4
      <4> QED
        BY <3>3, <4>1, <2>3
    <3> QED
      BY <3>1, <3>2, <3>3
  <2>5. g = h
    BY <2>4
  <2>6. Tabling(t, m, g)
    BY <2>5, Zenon DEF Tabling
  <2> QED
    BY <1>2, <2>6
<1> QED
  BY <1>3, <1>4

\* The controllers that can be made are the same as long as the devices are.
LEMMA SameControllers ==
    ASSUME pci_devices' = pci_devices
    PROVE  {Controller(i) : i \in UsbDevices}' = {Controller(i) : i \in UsbDevices}
<1>1. UsbDevices' = UsbDevices
  BY DEF UsbDevices
<1>2. ASSUME NEW i \in UsbDevices PROVE Controller(i)' = Controller(i)
  BY DEF Controller
<1> QED
  BY <1>1, <1>2

\* The table is made of the devices that are USB controllers.
LEMMA TableInv ==
    ASSUME PciInv, pci_scan_for_usb_controllers
    PROVE  PciInv'
<1> DEFINE n == Len(pci_devices)
           f == CHOOSE f : Tabling(usb_controllers, n, f)
           Made == {Controller(i) : i \in UsbDevices}
<1>1. n \in Nat
  BY DEF PciInv, IsSeq
<1>2. Tabling(usb_controllers, n, f)
  BY <1>1, TablingExist, Zenon
<1>3. usb_controllers' = f[n]
  BY Zenon DEF pci_scan_for_usb_controllers, Tabling
<1> HIDE DEF f
<1>4. /\ stage = "usb" /\ stage' = "enumerate" /\ hw' = hw /\ pci_devices' = pci_devices
  BY DEF pci_scan_for_usb_controllers
<1> DEFINE T == {j \in 0 .. n : f[j] \in Seq(Made)}
<1>5. 0 \in T
  <2>1. f[0] = usb_controllers
    BY <1>1, <1>2 DEF Tabling
  <2>2. usb_controllers \in Seq(Made)
    BY DEF PciInv
  <2> QED
    BY <1>1, <2>1, <2>2
<1>6. ASSUME NEW j \in 1 .. n, j - 1 \in T PROVE j \in T
  <2>1. f[j] = add_controller(f[j - 1], j) /\ f[j - 1] \in Seq(Made)
    BY <1>1, <1>2, <1>6 DEF Tabling
  <2>2. CASE pci_devices[j].class = "usb"
    <3>1. f[j] = Append(f[j - 1], Controller(j))
      BY <2>1, <2>2 DEF add_controller
    <3>2. Controller(j) \in Made
      BY <2>2 DEF UsbDevices
    <3> HIDE DEF Made
    <3>3. f[j] \in Seq(Made)
      BY <2>1, <3>1, <3>2, AppendProperties
    <3> QED
      BY <3>3
  <2>3. CASE pci_devices[j].class # "usb"
    <3>1. f[j] = f[j - 1]
      BY <2>1, <2>3 DEF add_controller
    <3> QED
      BY <2>1, <3>1
  <2> QED
    BY <2>2, <2>3
<1> HIDE DEF T
<1>7. n \in T
  BY <1>1, <1>5, <1>6, UpTo
<1>8. usb_controllers' \in Seq(Made)
  BY <1>3, <1>7 DEF T
<1>9. usb_controllers' \in Seq({Controller(i) : i \in UsbDevices})'
  BY <1>4, <1>8, SameControllers
<1>10. /\ IsSeq(hw') /\ Len(hw') <= Functions
       /\ \A i \in 1 .. Len(hw') : Real(hw'[i])
       /\ IsSeq(pci_devices')
       /\ \A i \in 1 .. Len(pci_devices') : Listed(pci_devices'[i], hw')
  BY <1>4 DEF PciInv
<1> QED
  BY <1>4, <1>9, <1>10 DEF PciInv, Before, IsSeq

\* A step that leaves the tables alone, and does not go back to the scan.
LEMMA StayInv ==
    ASSUME PciInv, UNCHANGED <<hw, pci_devices, usb_controllers>>,
           stage' \in Before => stage \in Before,
           stage' \in Before \cup {"usb"} => stage \in Before \cup {"usb"}
    PROVE  PciInv'
<1>1. usb_controllers' \in Seq({Controller(i) : i \in UsbDevices})'
  BY SameControllers DEF PciInv
<1>2. /\ IsSeq(hw') /\ Len(hw') <= Functions
      /\ \A i \in 1 .. Len(hw') : Real(hw'[i])
      /\ IsSeq(pci_devices')
      /\ \A i \in 1 .. Len(pci_devices') : Listed(pci_devices'[i], hw')
      /\ stage' \in Before => Len(hw') < Functions
      /\ stage' \in Before \cup {"usb"} => usb_controllers' = << >>
  BY DEF PciInv
<1> QED
  BY <1>1, <1>2 DEF PciInv, IsSeq

\* The scan keeps its invariant through the whole boot.
LEMMA PciStep ==
    ASSUME PciInv, [Next]_vars
    PROVE  PciInv'
<1>1. CASE load
  BY <1>1, StayInv DEF load, pciVars
<1>2. CASE kernel_uefi_entry \/ start_kernel
  BY <1>2, StayInv DEF kernel_uefi_entry, start_kernel, Before
<1>3. CASE framebuffer_console_init
  BY <1>3, StayInv DEF framebuffer_console_init, Before
<1>4. CASE irq_install
  BY <1>4, StayInv DEF irq_install, Before
<1>5. CASE scan
  BY <1>5, ScanInv, TableInv DEF scan
<1>6. CASE uhci_initialize_controller
  BY <1>6, StayInv DEF uhci_initialize_controller, Before
<1>7. CASE uhci_enumerate_devices
  BY <1>7, StayInv DEF uhci_enumerate_devices, Before
<1>8. CASE other_controller
  BY <1>8, StayInv DEF other_controller, pciVars
<1>9. CASE kbd_subsystem_init
  BY <1>9, StayInv DEF kbd_subsystem_init, Before
<1>10. CASE td_completes \/ irq_handler
  BY <1>10, StayInv DEF td_completes, irq_handler, pciVars
<1>11. CASE UNCHANGED vars
  BY <1>11, StayInv DEF vars, pciVars
<1> QED
  BY <1>1, <1>2, <1>3, <1>4, <1>5, <1>6, <1>7, <1>8, <1>9, <1>10, <1>11 DEF Next, kernel_main

\* The base address of every UHCI controller that the kernel drives is the port
\* of its function, for any number of functions and registers, any well-formed
\* layout, any addresses, and functions that answer for their neighbours
\* (pci_read_bars, find_uhci_io_base, pci_scan_for_usb_controllers).
THEOREM IoBaseIsReal == Spec => []IoBaseReal
<1>1. Init => PciInv
  BY PciAssumption DEF Init, PciInv, IsSeq, Before
<1> QED
  BY <1>1, PciStep, PciInvReal, PTL DEF Spec
=============================================================================
