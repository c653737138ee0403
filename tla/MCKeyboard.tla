----------------------------- MODULE MCKeyboard -----------------------------
(***************************************************************************)
(* A small keyboard: the Shift and Ctrl modifiers; a letter, the AZERTY    *)
(* comma (whose shifted character the table does not have), CapsLock and   *)
(* a usage that maps to nothing, as in a roll-over report.                 *)
(***************************************************************************)
EXTENDS Keyboard

MCKinds == <<"CTRL", "SHIFT">>
None == <<"none", "none">>

MCtbl == [l \in {"azerty"} |->
            [s \in BOOLEAN |->
               [u \in {"a", "comma", "caps", "roll"} |->
                  CASE u = "a" -> <<"char", IF s THEN "A" ELSE "a">>
                    [] u = "comma" /\ ~s -> <<"char", ",">>
                    [] OTHER -> None]]]

MCext == [u \in {"a", "comma", "caps", "roll"} |->
            IF u = "caps" THEN <<"lock", "CAPS">> ELSE None]

MCKeyOf(c) == IF c = <<"char", "A">> THEN <<"char", "a">> ELSE c

LShift == <<"L", "SHIFT">>
RShift == <<"R", "SHIFT">>

Report(m, k) == [mods |-> m, keys |-> k]
MCReports == {Report({}, << >>),
              Report({LShift, RShift}, <<"a">>), Report({}, <<"comma", "a">>),
              Report({RShift}, <<"comma">>), Report({}, <<"caps", "roll">>)}

\* A modifier of each kind, a printable key, Enter and an arrow key.
MCPs2Keys == {RShift, <<"R", "CTRL">>, <<"print", "a">>, <<"char", "ENTER">>, <<"ext", "UP">>}
\* The one key of the PS/2 CapsLock run.
CapsOnly == {CAPS}

\* What is queued influences nothing but what a reader gets, and the parity odd
\* nothing that this run checks: states that differ only there are checked once.
MCView == <<phase, layout, kb.mods, kb.down, Len(kb.evq), Len(kb.chars),
            e0, next_id, kbds, wire, ps2_seen, orphaned>>
=============================================================================
