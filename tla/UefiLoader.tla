----------------------------- MODULE UefiLoader -----------------------------
(***************************************************************************)
(* bootloader/uefi: efi_main, load_kernel and exit_boot_services of        *)
(* main.c and locate_gop of gop.c, up to the jump into the kernel.         *)
(*                                                                         *)
(* The firmware is external: every service may fail, and what it answers   *)
(* (the file on a volume, the mode of the display) is chosen when it is    *)
(* first asked for.  Its memory map changes by itself, from its timer      *)
(* events, and with the loader's own allocations.  Memory is counted in    *)
(* pages from KERNEL_LOAD_ADDRESS on, the memory map in descriptors.       *)
(***************************************************************************)
EXTENDS Integers, FiniteSets

CONSTANTS MaxVolumes,   \* bound: volumes with a file system
          FileSizes,    \* sizes a kernel file may have, in bytes
          PageSize,     \* PAGE_SIZE
          InfoSize,     \* sizeof(kernel_bootinfo_t)
          Window,       \* the 0x8000 bytes that are searched for it
          StackPages,   \* KERNEL_STACK_PAGES
          MemPages,     \* bound: pages above the load address
          Displays,     \* what the modes of displays have that is not zero
          MaxChanges    \* bound: changes the firmware makes to its memory map

\* What gop_info and the bootinfo block say of the display, apart from the size.
Fields == {"base", "width", "height", "stride"}

ASSUME LoaderAssumption == /\ PageSize \in Nat \ {0} /\ InfoSize \in Nat \ {0}
                           /\ Window \in Nat /\ Window >= InfoSize /\ FileSizes \subseteq Nat
                           /\ Displays \subseteq SUBSET Fields

VARIABLES
    lpc,                  \* where efi_main is
    message,              \* what it printed last
    gop,                  \* gop_status, and gop_info
    handle_count, vol,    \* the volumes, and the one it is at
    pool,                 \* blocks of AllocatePool not yet freed
    pages,                \* pages of AllocatePages
    image, remaining,     \* the kernel file, and what of it is still to be read
    boot_info,            \* what is written into the image's kernel_bootinfo_t
    stack_base,
    map_size, map_cap,    \* the memory map's size as it is passed, and allocated
    map,                  \* the firmware's memory map: its length,
    buffer_split,         \* of which the buffer's block causes so much,
    key_fresh,            \* and whether map_key is still its key
    changes,
    faults                \* volumes at which a service reported an error

loaderVars == <<lpc, message, gop, handle_count, vol, pool, pages, image,
                remaining, boot_info, stack_base, map_size, map_cap, map, buffer_split,
                key_fresh, changes, faults>>
mapVars == <<map_size, map_cap, map, buffer_split, key_fresh, changes>>
volumeVars == <<handle_count, vol, faults>>

NoImage == [size |-> 0, info |-> -1]
\* A mode is the set of its fields that are not zero.
NoGop == [ok |-> FALSE, mode |-> {}]
NoInfo == [framebuffer |-> FALSE, mode |-> {}]

\* Kernel files: where the bootinfo block is, or -1 for a file without one.
Files == {f \in [size : FileSizes, info : -1 .. MemPages * PageSize] :
            f.info + InfoSize <= f.size \/ f.info = -1}

LoaderInit ==
    /\ lpc = "gop" /\ message = "starting"
    /\ gop = NoGop
    /\ handle_count = 0 /\ vol = 0 /\ faults = {}
    /\ pool = {} /\ pages = {}
    /\ image = NoImage /\ remaining = 0
    /\ boot_info = NoInfo /\ stack_base = -1
    /\ map_size = 0 /\ map_cap = 0
    /\ map = 2 /\ buffer_split = 0 /\ key_fresh = FALSE /\ changes = 0

\* locate_gop.  Its loop over the handles leaves the status of
\* LocateHandleBuffer alone when no handle has the interface: it then returns
\* success and a gop_info of zeroes.
locate_gop ==
    /\ lpc = "gop"
    /\ \E located \in {"interface", "no interface", "no handles"}, queried \in BOOLEAN,
          mode \in Displays :
         LET known == located = "interface" /\ queried
         IN gop' = [ok |-> located = "no interface" \/ known,
                    mode |-> IF known THEN mode ELSE {}]
    /\ lpc' = "volumes"
    /\ UNCHANGED <<message, volumeVars, pool, pages, image, remaining, boot_info, stack_base,
                   mapVars>>

-----------------------------------------------------------------------------
\* efi_main returns to the firmware.
Return(text) == lpc' = "returned" /\ message' = text

locate_volumes ==
    /\ lpc = "volumes"
    /\ \/ /\ handle_count' \in 1 .. MaxVolumes
          /\ pool' = pool \cup {"handles"}
          /\ vol' = 1 /\ lpc' = "volume"
       \/ lpc' = "fallback" /\ UNCHANGED <<handle_count, pool, vol>>
    /\ UNCHANGED <<message, gop, faults, pages, image, remaining, boot_info,
                   stack_base, mapVars>>

\* Without a list of volumes, the volume the loader was started from.
loaded_image ==
    /\ lpc = "fallback"
    /\ \/ \E text \in {"no loaded image", "no filesystem", "no volume"} : Return(text)
       \/ lpc' = "open" /\ UNCHANGED message
    /\ UNCHANGED <<gop, volumeVars, pool, pages, image, remaining, boot_info,
                   stack_base, mapVars>>

\* Mutant of GiveUp: a volume that fails ends the search.
GiveUpSearch(fault) ==
    /\ faults' = IF fault THEN faults \cup {vol} ELSE faults
    /\ pool' = pool \ {"handles"} /\ UNCHANGED vol
    /\ Return(IF handle_count = 0 THEN "no kernel on boot volume" ELSE "no kernel")

\* load_kernel fails, or the volume does not open: on to the next one.  After
\* the last, and without a list, the loader returns.
GiveUp(fault) ==
    /\ faults' = IF fault THEN faults \cup {vol} ELSE faults
    /\ IF vol < handle_count
         THEN vol' = vol + 1 /\ lpc' = "volume" /\ UNCHANGED <<pool, message>>
         ELSE /\ pool' = pool \ {"handles"} /\ UNCHANGED vol
              /\ Return(IF handle_count = 0 THEN "no kernel on boot volume" ELSE "no kernel")

open_volume ==
    /\ lpc = "volume"
    /\ \/ lpc' = "open" /\ UNCHANGED <<vol, pool, message, faults>>
       \/ GiveUp(TRUE)
    /\ UNCHANGED <<gop, handle_count, pages, image, remaining, boot_info, stack_base,
                   mapVars>>

\* Mutant of kernel_pages: a last page that is not full is not reserved.
kernel_pages_floor(size) == 0 .. (size \div PageSize) - 1

kernel_pages(size) == 0 .. ((size + PageSize - 1) \div PageSize) - 1

\* load_kernel up to its loop: Open, get_file_size and AllocatePages at the
\* fixed address, which is not free when an earlier volume's pages were left.
load_kernel ==
    /\ lpc = "open"
    /\ \/ \E file \in Files :
            /\ kernel_pages(file.size) \cap pages = {}
            /\ pages' = pages \cup kernel_pages(file.size)
            /\ image' = file /\ remaining' = file.size
            /\ lpc' = "read" /\ UNCHANGED <<vol, pool, message, faults>>
       \/ \E fault \in BOOLEAN :
            /\ fault \/ pages # {}
            /\ GiveUp(fault) /\ UNCHANGED <<pages, image, remaining>>
    /\ UNCHANGED <<gop, handle_count, boot_info, stack_base, mapVars>>

\* A pass of the loop.  An error, or an end of the file that comes early, fails
\* the load; the pages stay allocated.
read_chunk ==
    /\ lpc = "read" /\ remaining > 0
    /\ \/ \E chunk \in 1 .. remaining :
            remaining' = remaining - chunk /\ UNCHANGED <<lpc, vol, pool, message, faults>>
       \/ GiveUp(TRUE) /\ UNCHANGED remaining
    /\ UNCHANGED <<gop, handle_count, pages, image, boot_info, stack_base, mapVars>>

\* The whole file is read.
kernel_loaded ==
    /\ lpc = "read" /\ remaining = 0
    /\ pool' = pool \ {"handles"}
    /\ lpc' = "info"
    /\ UNCHANGED <<message, gop, volumeVars, pages, image, remaining, boot_info,
                   stack_base, mapVars>>

\* find_kernel_bootinfo: backwards from the last place where the block fits, as
\* many steps as the window leaves room for.
find_kernel_bootinfo(file) ==
    LET window == IF file.size < Window THEN file.size ELSE Window
        max_steps == IF window > InfoSize THEN window - InfoSize ELSE 0
        last == file.size - InfoSize
    IN {offset \in last - max_steps .. last :
          file.size >= InfoSize /\ offset >= 0 /\ offset = file.info}

\* The fields of gop_info are copied if its status is a success.
InfoFor(g) == [framebuffer |-> g.ok, mode |-> IF g.ok THEN g.mode ELSE {}]

\* The block is found and filled in, and the kernel gets a stack.
prepare ==
    /\ lpc = "info"
    /\ \/ /\ find_kernel_bootinfo(image) = {}
          /\ Return("no bootinfo") /\ UNCHANGED <<boot_info, stack_base, pages>>
       \/ /\ find_kernel_bootinfo(image) # {}
          /\ boot_info' = InfoFor(gop)
          /\ \/ \E base \in 0 .. MemPages - StackPages :
                  /\ base .. base + StackPages - 1 \cap pages = {}
                  /\ stack_base' = base
                  /\ pages' = pages \cup base .. base + StackPages - 1
                  /\ lpc' = "map" /\ message' = "exiting"
             \/ Return("no stack") /\ UNCHANGED <<stack_base, pages>>
    /\ UNCHANGED <<gop, volumeVars, pool, image, remaining, mapVars>>

(***************************************************************************)
(* exit_boot_services                                                      *)
(***************************************************************************)

\* Mutant of grow_map: a buffer that is there already is not replaced.
grow_map_once ==
    /\ lpc = "map" /\ map_size < map
    /\ map_size' = map + 2
    /\ \/ "map" \in pool /\ UNCHANGED <<lpc, pool, map_cap, map, buffer_split>>
       \/ "map" \notin pool /\ lpc' = "returned" /\ UNCHANGED <<pool, map_cap, map, buffer_split>>
       \/ /\ "map" \notin pool /\ pool' = pool \cup {"map"}
          /\ map_cap' = map_size'
          /\ buffer_split' \in 0 .. 2
          /\ map' = map + buffer_split'
          /\ UNCHANGED lpc
    /\ key_fresh' = FALSE
    /\ UNCHANGED <<message, gop, volumeVars, pages, image, remaining, boot_info, stack_base,
                   changes>>

\* GetMemoryMap says that the buffer is too small: it is replaced by one with
\* room for two more descriptors, as the allocation may itself split a range.
grow_map ==
    /\ lpc = "map" /\ map_size < map
    /\ map_size' = map + 2
    /\ \/ /\ lpc' = "returned" /\ pool' = pool \ {"map"}
          /\ map_cap' = 0 /\ buffer_split' = 0 /\ map' = map - buffer_split
       \/ /\ pool' = pool \cup {"map"}
          /\ map_cap' = map_size'
          /\ buffer_split' \in 0 .. 2
          /\ map' = map - buffer_split + buffer_split'
          /\ UNCHANGED lpc
    /\ key_fresh' = FALSE
    /\ UNCHANGED <<message, gop, volumeVars, pages, image, remaining, boot_info,
                   stack_base, changes>>

\* GetMemoryMap fills the buffer; map_size becomes the size of what it wrote,
\* not of the buffer.  Any other error ends the loader.
get_memory_map ==
    /\ lpc = "map" /\ map_size >= map
    /\ \/ lpc' = "exit" /\ map_size' = map /\ key_fresh' = TRUE /\ UNCHANGED pool
       \/ lpc' = "returned" /\ pool' = pool \ {"map"} /\ UNCHANGED <<map_size, key_fresh>>
    /\ UNCHANGED <<message, gop, volumeVars, pages, image, remaining, boot_info,
                   stack_base, map_cap, map, buffer_split, changes>>

\* Mutant of exit_stale: ExitBootServices is tried again with the same key.
exit_stale_again ==
    /\ lpc = "exit" /\ ~key_fresh
    /\ UNCHANGED loaderVars

\* ExitBootServices answers EFI_INVALID_PARAMETER, as it does for the key of a
\* map that has changed since: again.  A firmware that refuses a good key is one
\* whose map has changed just before the call (firmware_event).
exit_stale ==
    /\ lpc = "exit" /\ ~key_fresh
    /\ lpc' = "map"
    /\ UNCHANGED <<message, gop, volumeVars, pool, pages, image, remaining,
                   boot_info, stack_base, mapVars>>

\* Mutant of exit_fails: the buffer is not given back.
exit_fails_keeping ==
    /\ lpc = "exit" /\ key_fresh
    /\ lpc' = "returned"
    /\ UNCHANGED <<message, gop, volumeVars, pool, pages, image, remaining,
                   boot_info, stack_base, mapVars>>

\* Any other error ends the loader.
exit_fails ==
    /\ lpc = "exit" /\ key_fresh
    /\ lpc' = "returned" /\ pool' = pool \ {"map"}
    /\ UNCHANGED <<message, gop, volumeVars, pages, image, remaining, boot_info,
                   stack_base, mapVars>>

\* The firmware is gone; uefi_enter_kernel takes the new stack and jumps.
exit_done ==
    /\ lpc = "exit" /\ key_fresh
    /\ lpc' = "kernel"
    /\ UNCHANGED <<message, gop, volumeVars, pool, pages, image, remaining,
                   boot_info, stack_base, mapVars>>

\* The firmware changes its memory map (external).
firmware_event ==
    /\ lpc \in {"map", "exit"} /\ changes < MaxChanges
    /\ changes' = changes + 1
    /\ map' \in {map - 1, map, map + 1} /\ map' > buffer_split
    /\ key_fresh' = FALSE
    /\ UNCHANGED <<lpc, message, gop, volumeVars, pool, pages, image, remaining,
                   boot_info, stack_base, map_size, map_cap, buffer_split>>

LoaderNext == \/ locate_gop \/ locate_volumes \/ loaded_image \/ open_volume \/ load_kernel
              \/ read_chunk \/ kernel_loaded \/ prepare
              \/ grow_map \/ get_memory_map \/ exit_stale \/ exit_fails \/ exit_done
              \/ firmware_event

-----------------------------------------------------------------------------
\* When the kernel is entered its image is complete, its bootinfo block lies in
\* it, and its stack shares no page with it.
HandoverSafe ==
    lpc = "kernel" =>
        /\ remaining = 0 /\ image.info >= 0
        /\ \A byte \in 0 .. image.size - 1 :
             byte \div PageSize \notin stack_base .. stack_base + StackPages - 1

\* GetMemoryMap is never told that the buffer is larger than it is, through any
\* number of retries: the firmware would write past its end.
MapFits == lpc = "map" => map_size <= map_cap

\* A loader that returns to the firmware has given its pool memory back.
ReturnsClean == lpc = "returned" => pool = {}

\* The loader says that no volume has a kernel only when a service failed on
\* every one of them; but the pages of a load that failed keep the others from
\* being loaded.  A block within reach is always found.
KernelNotMissed ==
    lpc = "returned" =>
        /\ message = "no kernel" => pages # {} \/ 1 .. handle_count \subseteq faults
        /\ message = "no bootinfo" =>
             image.info = -1 \/ image.info < image.size - Window
=============================================================================
