------------------------------ MODULE Keyboard ------------------------------
(***************************************************************************)
(* The unified keyboard layer: the dispatcher, the PS/2 interrupt handler  *)
(* and the device table of drivers/keyboard/keyboard_common.c, and the USB *)
(* boot keyboards of drivers/keyboard/keyboard_usb.c.  All of them run in  *)
(* interrupt context, one handler at a time, and share g_mods and the two  *)
(* rings; KeyRing shows that a ring is the bounded queue used here.        *)
(*                                                                         *)
(* Key codes are pairs: <<"L", kind>> and <<"R", kind>> are the modifier   *)
(* keys of the two sides, <<"lock", n>> the lock keys, <<"char", c>> the   *)
(* codes below 0x80 and <<"ext", x>> the other extended keys.  The KM_     *)
(* flags are named the same way: <<"L", kind>> is KM_SHIFT, KM_CTRL, ...,  *)
(* both the left key's flag and the aggregate of its kind.                 *)
(***************************************************************************)
EXTENDS Integers, Sequences, FiniteSets, SequencesExt

CONSTANTS
    Cap,          \* KEYBUF_CAP
    Kinds,        \* the modifier kinds in emission order, a sequence
    LockNames,    \* the lock keys
    Slots,        \* the indices of g_kbds
    IdMod,        \* 2^8: g_usb_next_id is a uint8_t
    MaxId,        \* bound: ids handed out
    Layouts,      \* the layouts g_layout can select
    tbl,          \* tbl[layout][shifted][usage]: a "char" code or NoCode
    ext_kc,       \* hid_usage_to_ext_kc[usage]: a code or NoCode
    KeyOf(_),     \* the key a code belongs to: 'a' and 'A' are one key
    Reports,      \* the boot reports the USB keyboards send
    Ps2Keys,      \* the codes of the keys of the PS/2 keyboard
    NoCode        \* KC_NONE

VARIABLES
    phase,          \* how far kernel_main is in kbd_subsystem_init
    layout,         \* g_layout
    kb,             \* what the dispatcher owns: see Dispatch
    e0,             \* g_ps2_e0
    next_id,        \* g_usb_next_id
    kbds,           \* g_kbds
    wire,           \* bytes the PS/2 controller still has to deliver
    ps2_seen,       \* PS/2 keys whose last complete scancode was a make
    orphaned        \* flags of modifiers held on keyboards when unregistered

vars == <<phase, layout, kb, e0, next_id, kbds, wire, ps2_seen, orphaned>>

KindSet == Range(Kinds)
ModKeys == {"L", "R"} \X KindSet
CAPS == <<"lock", "CAPS">>
Locks == {"lock"} \X LockNames
Usages == DOMAIN ext_kc

ASSUME RingAssumption == Cap \in Nat \ {0}
\* MaxId registrations do not wrap g_usb_next_id around.
ASSUME IdAssumption == IdMod \in Nat /\ MaxId \in Nat /\ MaxId + 1 < IdMod
ASSUME KindsAssumption == Kinds \in Seq(KindSet)
\* The tables hold characters; no usage of the key positions is a modifier.
ASSUME CodeAssumption ==
    /\ \A l \in Layouts, s \in BOOLEAN, u \in Usages :
         tbl[l][s][u] = NoCode \/ tbl[l][s][u][1] = "char"
    /\ \A u \in Usages : ext_kc[u] \notin ModKeys
\* A usage with a shifted character has an unshifted one, or an extended code, and
\* all its codes are those of one key.
ASSUME KeyAssumption ==
    \A l \in Layouts, u \in Usages :
        LET codes == {ext_kc[u], tbl[l][TRUE][u], tbl[l][FALSE][u]} \ {NoCode}
        IN \A c \in codes : /\ ext_kc[u] # NoCode \/ tbl[l][FALSE][u] # NoCode
                            /\ \A d \in codes : KeyOf(c) = KeyOf(d)
\* A report has modifier keys and usages; a PS/2 key is of one of five kinds.
ASSUME ReportAssumption ==
    \A r \in Reports : r \in [mods : SUBSET ModKeys, keys : Seq(Usages)]
ASSUME Ps2Assumption ==
    \A k \in Ps2Keys : \/ k \in ModKeys \cup Locks \cup ({"print"} \X Usages)
                        \/ k[1] \in {"ext", "char"}

(***************************************************************************)
(* kbd_dispatch_event.  The record k holds g_mods, the two queues, and two *)
(* histories: which keys of USB keyboards a reader of every event takes    *)
(* to be down, and whether an odd number of CapsLock presses was seen.     *)
(***************************************************************************)
\* Mutant of Enqueue: the queue is not bounded.
EnqueueUnbounded(q, x) == Append(q, x)

Enqueue(q, x) == IF Len(q) < Cap - 1 THEN Append(q, x) ELSE q

ApplyLock(mods, type, code) ==
    IF type = "PRESS" /\ code \in Locks THEN SymDiff(mods, {code}) ELSE mods

\* Mutant of ApplySide: a release clears the aggregate and forgets the side.
ApplySideAggOnly(mods, type, code) ==
    IF code \notin ModKeys THEN mods
    ELSE IF type = "PRESS" THEN mods \cup {code, <<"L", code[2]>>}
    ELSE mods \ {<<"L", code[2]>>}

ApplySide(mods, type, code) ==
    IF code \notin ModKeys THEN mods
    ELSE IF type = "PRESS" THEN mods \cup {code, <<"L", code[2]>>}
    ELSE mods \ {code, <<"L", code[2]>>}

Dispatch(k, type, code, dev) ==
    LET m == ApplySide(ApplyLock(k.mods, type, code), type, code)
        key == <<dev, KeyOf(code)>>
    IN [mods  |-> m,
        evq   |-> Enqueue(k.evq, [type |-> type, code |-> code,
                                  mods |-> m, dev |-> dev]),
        chars |-> IF type = "PRESS" /\ code[1] = "char"
                    THEN Enqueue(k.chars, code) ELSE k.chars,
        down  |-> IF dev = 0 THEN k.down
                  ELSE IF type = "PRESS" THEN k.down \cup {key} ELSE k.down \ {key},
        odd   |-> IF type = "PRESS" /\ code = CAPS THEN ~k.odd ELSE k.odd]

\* tbl_norm and tbl_shift, as the layout selects them.
tables == tbl[layout]

\* kbd_layout_ascii_from_set1: the mask xor is non-zero with Caps, Shift or both.
layout_ascii(u, mods) == tables[(CAPS \in mods \/ <<"L", "SHIFT">> \in mods)][u]

Init == /\ phase = "boot"
        /\ layout \in Layouts
        /\ kb = [mods |-> {}, evq |-> << >>, chars |-> << >>,
                 down |-> {}, odd |-> FALSE]
        /\ e0 = FALSE
        /\ next_id = 1
        /\ kbds = [i \in Slots |-> [init |-> FALSE]]
        /\ wire = << >>
        /\ ps2_seen = {}
        /\ orphaned = {}

(***************************************************************************)
(* kbd_subsystem_init: it runs after the USB keyboards were enumerated, so *)
(* their reports arrive between its stores.                                *)
(***************************************************************************)
init_rings == /\ phase = "boot"
              /\ phase' = "rings"
              /\ kb' = [kb EXCEPT !.evq = << >>, !.chars = << >>]
              /\ UNCHANGED <<layout, e0, next_id, kbds, wire, ps2_seen, orphaned>>

\* The parity counts from here: the CapsLock state is reset with the rest.
init_mods == /\ phase = "rings"
             /\ phase' = "mods"
             /\ kb' = [kb EXCEPT !.mods = {}, !.odd = FALSE]
             /\ e0' = FALSE
             /\ UNCHANGED <<layout, next_id, kbds, wire, ps2_seen, orphaned>>

\* kbd_register_device(KDEV_SOURCE_PS2, 0) installs the IRQ1 handler.
init_ps2 == /\ phase = "mods"
            /\ phase' = "run"
            /\ UNCHANGED <<layout, kb, e0, next_id, kbds, wire, ps2_seen, orphaned>>

\* A lock state set from outside starts the count of presses anew.
kbd_set_lock_leds(S) ==
    /\ kb' = [kb EXCEPT !.mods = (@ \ Locks) \cup S, !.odd = CAPS \in S]
    /\ UNCHANGED <<phase, layout, e0, next_id, kbds, wire, ps2_seen, orphaned>>

\* kbd_read_event and kbd_read_char of a queue that is not empty.
kbd_read_event == /\ kb.evq # << >>
                  /\ kb' = [kb EXCEPT !.evq = Tail(@)]
                  /\ UNCHANGED <<phase, layout, e0, next_id, kbds, wire, ps2_seen,
                                 orphaned>>

kbd_read_char == /\ kb.chars # << >>
                 /\ kb' = [kb EXCEPT !.chars = Tail(@)]
                 /\ UNCHANGED <<phase, layout, e0, next_id, kbds, wire, ps2_seen,
                                orphaned>>

(***************************************************************************)
(* The PS/2 keyboard.  A byte is E0 or [raw, brk]; raw names a key, except *)
(* that the right Ctrl and Alt keys send their left twin's code after E0.  *)
(* <<"char", c>> is a key with a code of its own: Enter, Backspace, Tab or *)
(* Esc; the character of a <<"print", u>> key is looked up in the tables.  *)
(***************************************************************************)
E0Key(k) == k[1] = "ext" \/ (k[1] = "R" /\ k[2] # "SHIFT")
RawOf(k) == IF k[1] = "R" /\ k[2] # "SHIFT" THEN <<"L", k[2]>> ELSE k

\* A key goes down, repeats while it is held, or goes up; the controller delivers
\* its bytes in order.
ps2_key(k, brk) ==
    LET code == [e0 |-> FALSE, raw |-> RawOf(k), brk |-> brk, key |-> k]
    IN /\ phase = "run"
       /\ wire = << >>
       /\ brk => k \in ps2_seen
       /\ wire' = IF E0Key(k) THEN <<[e0 |-> TRUE], code>> ELSE <<code>>
       /\ UNCHANGED <<phase, layout, kb, e0, next_id, kbds, ps2_seen, orphaned>>

\* emit_ps2_event, after the handler has updated g_mods (k.mods).
emit_ps2_event(k, raw, make) ==
    LET ch == layout_ascii(raw[2], k.mods)
    IN IF raw[1] = "print"
         THEN IF make /\ ch # NoCode THEN Dispatch(k, "PRESS", ch, 0) ELSE k
       ELSE IF raw[1] = "ext" THEN k   \* a keypad code: no character
       ELSE Dispatch(k, IF make THEN "PRESS" ELSE "RELEASE", raw, 0)

ps2_irq1_handler ==
    LET b == Head(wire)
        type == IF b.brk THEN "RELEASE" ELSE "PRESS"
        early == ApplySide(ApplyLock(kb.mods, type, b.raw), type, b.raw)
    IN /\ wire # << >>
       /\ wire' = Tail(wire)
       /\ e0' = b.e0
       /\ IF b.e0 THEN UNCHANGED <<kb, ps2_seen>>
          ELSE /\ kb' = IF e0 /\ b.raw[1] = "ext"
                          THEN Dispatch(kb, type, b.raw, 0)
                          ELSE emit_ps2_event([kb EXCEPT !.mods = early], b.raw, ~b.brk)
               /\ ps2_seen' = IF b.brk THEN ps2_seen \ {b.key}
                                       ELSE ps2_seen \cup {b.key}
       /\ UNCHANGED <<phase, layout, next_id, kbds, orphaned>>

(***************************************************************************)
(* The USB boot keyboards.  A report is [mods, keys]: the modifier keys    *)
(* down and the usages in its six key positions, empty ones left out.      *)
(***************************************************************************)
Empty == [mods |-> {}, keys |-> << >>]

mods_from_hid(m) == m \cup {<<"L", c[2]>> : c \in m}

report_contains(keys, u) == u \in Range(keys)

\* A usage without a scancode is in neither table.
hid_usage_to_ascii(u, mods) == layout_ascii(u, mods)

hid_usage_to_ext_kc(u) == ext_kc[u]

\* The order of the map in emit_modifier_deltas.
ModOrder == [j \in 1 .. 2 * Len(Kinds) |->
               IF j <= Len(Kinds) THEN <<"L", Kinds[j]>>
                                  ELSE <<"R", Kinds[j - Len(Kinds)]>>]

\* The three loops of keyboard_usb_on_boot_report: what one pass does, and all.
emit_delta(k, f, prev, now, dev) ==
    IF f \in SymDiff(prev, now)
      THEN Dispatch(k, IF f \in now THEN "PRESS" ELSE "RELEASE", f, dev) ELSE k

emit_modifier_deltas(k, prev, now, dev) ==
    LET after[j \in 0 .. Len(ModOrder)] ==
          IF j = 0 THEN k ELSE emit_delta(after[j - 1], ModOrder[j], prev, now, dev)
    IN after[Len(ModOrder)]

\* Mutant of release_code: printable keys have no release.
release_code_ext_only(u) == hid_usage_to_ext_kc(u)

\* The code of a release: the extended code, else the unshifted character.
release_code(u) == IF hid_usage_to_ext_kc(u) # NoCode THEN hid_usage_to_ext_kc(u)
                   ELSE hid_usage_to_ascii(u, {})

\* The code of a press: the character under the current modifiers is preferred.
press_code(u, mods) == IF hid_usage_to_ascii(u, mods) # NoCode
                         THEN hid_usage_to_ascii(u, mods) ELSE hid_usage_to_ext_kc(u)

emit_release(k, u, now, dev) ==
    IF ~report_contains(now, u) /\ release_code(u) # NoCode
      THEN Dispatch(k, "RELEASE", release_code(u), dev) ELSE k

emit_releases(k, prev, now, dev) ==
    LET after[j \in 0 .. Len(prev)] ==
          IF j = 0 THEN k ELSE emit_release(after[j - 1], prev[j], now, dev)
    IN after[Len(prev)]

emit_press(k, u, prev, dev) ==
    IF ~report_contains(prev, u) /\ press_code(u, k.mods) # NoCode
      THEN Dispatch(k, "PRESS", press_code(u, k.mods), dev) ELSE k

emit_presses(k, prev, now, dev) ==
    LET after[j \in 0 .. Len(now)] ==
          IF j = 0 THEN k ELSE emit_press(after[j - 1], now[j], prev, dev)
    IN after[Len(now)]

\* The first free slot gets a fresh logical id; uhci_enumerate_device calls this.
register_usb_boot_keyboard ==
    \E i \in Slots :
       /\ phase = "boot"
       /\ next_id <= MaxId
       /\ ~kbds[i].init
       /\ \A j \in Slots : j < i => kbds[j].init
       /\ kbds' = [kbds EXCEPT ![i] = [init |-> TRUE, enabled |-> TRUE,
                                       last |-> Empty, dev_id |-> next_id]]
       /\ next_id' = (next_id + 1) % IdMod
       /\ UNCHANGED <<phase, layout, kb, e0, wire, ps2_seen, orphaned>>

usb_set_enabled(i, on) ==
    /\ kbds[i].init
    /\ kbds' = [kbds EXCEPT ![i].enabled = on]
    /\ UNCHANGED <<phase, layout, kb, e0, next_id, wire, ps2_seen, orphaned>>

\* The slot is wiped; no release is dispatched for what was down.
usb_unregister(i) ==
    /\ kbds[i].init
    /\ kbds' = [kbds EXCEPT ![i] = [init |-> FALSE]]
    /\ orphaned' = orphaned \cup mods_from_hid(kbds[i].last.mods)
    /\ kb' = [kb EXCEPT !.down = {p \in @ : p[1] # kbds[i].dev_id}]
    /\ UNCHANGED <<phase, layout, e0, next_id, wire, ps2_seen>>

usb_on_boot_report(i, r) ==
    LET d == kbds[i]
        k1 == emit_modifier_deltas(kb, mods_from_hid(d.last.mods),
                                   mods_from_hid(r.mods), d.dev_id)
        k2 == emit_releases(k1, d.last.keys, r.keys, d.dev_id)
    IN /\ d.init /\ d.enabled
       /\ kb' = emit_presses(k2, d.last.keys, r.keys, d.dev_id)
       /\ kbds' = [kbds EXCEPT ![i].last = r]
       /\ UNCHANGED <<phase, layout, e0, next_id, wire, ps2_seen, orphaned>>

Next == \/ init_rings \/ init_mods \/ init_ps2
        \/ \E S \in SUBSET Locks : kbd_set_lock_leds(S)
        \/ kbd_read_event \/ kbd_read_char
        \/ \E k \in Ps2Keys, brk \in BOOLEAN : ps2_key(k, brk)
        \/ ps2_irq1_handler
        \/ register_usb_boot_keyboard
        \/ \E i \in Slots, on \in BOOLEAN : usb_set_enabled(i, on)
        \/ \E i \in Slots : usb_unregister(i)
        \/ \E i \in Slots, r \in Reports : usb_on_boot_report(i, r)

Spec == Init /\ [][Next]_vars

-----------------------------------------------------------------------------
\* Type invariant: g_mods holds flags only, the rings never overflow, and a
\* registered keyboard has an id.
TypeOK == /\ kb.mods \subseteq ModKeys \cup Locks
          /\ Len(kb.evq) < Cap /\ Len(kb.chars) < Cap
          /\ e0 \in BOOLEAN /\ next_id \in 0 .. IdMod - 1
          /\ \A i \in Slots : kbds[i].init => kbds[i].dev_id \in 1 .. IdMod - 1

Registered == {i \in Slots : kbds[i].init}

\* Every modifier flag in g_mods belongs to a modifier key that some keyboard
\* holds down: whatever keyboards share g_mods, releasing everything leaves no
\* modifier stuck, unless a keyboard was unregistered while holding it.
NoStuckModifier ==
    kb.mods \ Locks \subseteq
        (UNION {mods_from_hid(kbds[i].last.mods) : i \in Registered})
        \cup mods_from_hid({RawOf(k) : k \in ps2_seen} \cap ModKeys)
        \cup orphaned

\* A key that the events of a USB keyboard leave down is in its last report:
\* each press that was dispatched is undone by a release of the same key, even
\* when the modifiers changed in between and the two codes differ.
NoStuckKey ==
    \A i \in Registered : \A key \in {p[2] : p \in {q \in kb.down : q[1] = kbds[i].dev_id}} :
       \/ \E c \in mods_from_hid(kbds[i].last.mods) : key = KeyOf(c)
       \/ \E u \in Range(kbds[i].last.keys) :
            key \in {KeyOf(c) : c \in {ext_kc[u], tables[TRUE][u], tables[FALSE][u]} \ {NoCode}}

\* "Lock toggles: on PRESS of lock keys": KM_CAPS says whether CapsLock was
\* pressed an odd number of times since the lock state was last set.
CapsLockToggles == CAPS \in kb.mods <=> kb.odd
=============================================================================
