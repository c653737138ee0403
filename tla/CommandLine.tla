----------------------------- MODULE CommandLine -----------------------------
(***************************************************************************)
(* kernel/shell/command_line.c: the buffer the shell edits, and what it    *)
(* shows of it on the console of drivers/screen/screen.c, which is VGA     *)
(* text memory or a framebuffer.  Screen positions are cells, not the byte *)
(* offsets of the code (a cell is two bytes); attributes and pixels are    *)
(* left out.                                                               *)
(***************************************************************************)
EXTENDS Integers, Sequences

CONSTANTS MaxLen,       \* MAX_COMMAND_LENGTH
          Char,         \* the codes 0x20 .. 0x7E
          Nul,          \* the terminator, and what a scroll leaves in a cell
          Blank,        \* the space character of the screen
          Framebuffer,  \* the console draws on a framebuffer
          Rows, Cols,   \* the size of the console, MAX_ROWS and MAX_COLS on VGA
          CurMod,       \* 2^16: the width of the hardware cursor register
          Home          \* cells where the cursor may be when the shell starts

ASSUME MaxLenAssumption == MaxLen \in Nat /\ MaxLen > 1
ASSUME CharAssumption == Nul \notin Char /\ "newline" \notin Char \cup {Blank}
ASSUME ScreenAssumption == /\ Framebuffer \in BOOLEAN
                           /\ Rows \in Nat \ {0} /\ Cols \in Nat \ {0}
                           /\ CurMod \in Nat /\ Rows * Cols < CurMod
                           /\ Home \subseteq Nat

VARIABLES command, cmd_cursor, cmd_len, cmd_start_offset,
          cells,       \* the characters on the screen: cells[p + 1] is at cell p
          vcur,        \* the cursor: a VGA register, or the framebuffer console's
          lost,        \* no prompt yet, or drawing the line scrolled the screen
          fresh        \* nothing was on the screen after the last prompt

textVars == <<command, cmd_cursor, cmd_len>>
lineVars == <<textVars, cmd_start_offset, cells, vcur, lost, fresh>>

Pos == 0 .. MaxLen - 1
Cells == Rows * Cols

(***************************************************************************)
(* The console.  A screen s is [cells, at, cur, scrolled].                 *)
(***************************************************************************)
get_offset(col, row) == row * Cols + col
get_vga_offset_row(p) == p \div Cols
get_vga_offset_col(p) == p % Cols

\* What a cleared screen shows, and what a scroll leaves in the last row.
clear_screen == [i \in 1 .. Cells |-> Blank]
Scrolled(c, fill) == SubSeq(c, Cols + 1, Cells) \o [i \in 1 .. Cols |-> fill]

\* A glyph that is not wholly on the screen is not drawn.
draw_glyph(c, ch, pos) == IF pos < Cells THEN [c EXCEPT ![pos + 1] = ch] ELSE c

After(ch, pos) == IF ch = "newline" THEN get_offset(0, get_vga_offset_row(pos) + 1)
                                    ELSE pos + 1

\* The framebuffer scrolls by one row and stays in the last one, wherever the
\* position was.
fb_console_print_char(s, ch, pos) ==
    LET next == After(ch, pos)
        drawn == IF ch = "newline" THEN s.cells ELSE draw_glyph(s.cells, ch, pos)
        last == get_offset(get_vga_offset_col(next), Rows - 1)
    IN IF next >= Cells
         THEN [cells |-> Scrolled(drawn, Blank), at |-> last, cur |-> last, scrolled |-> TRUE]
         ELSE [cells |-> drawn, at |-> next, cur |-> next, scrolled |-> s.scrolled]

\* print_char at cell pos.  On VGA a position off the screen prints an E in the
\* last cell and goes nowhere, and reaching the end of the screen scrolls it.
print_char(s, ch, pos) ==
    LET next == After(ch, pos)
        drawn == IF ch = "newline" THEN s.cells ELSE [s.cells EXCEPT ![pos + 1] = ch]
    IN IF Framebuffer
         THEN fb_console_print_char(s, ch, pos)
       ELSE IF pos >= Cells
         THEN [s EXCEPT !.cells[Cells] = "E", !.at = pos]
       ELSE IF next >= Cells
         THEN [cells |-> Scrolled(drawn, Nul), at |-> next - Cols, cur |-> next - Cols,
               scrolled |-> TRUE]
         ELSE [cells |-> drawn, at |-> next, cur |-> next, scrolled |-> s.scrolled]

\* kprint_at and kprint: every character goes where the previous one ended.
print_next(s, ch) == print_char(s, ch, s.at)

kprint_at(s, msg, pos) ==
    LET printed[j \in 0 .. Len(msg)] == IF j = 0 THEN [s EXCEPT !.at = pos]
                                        ELSE print_next(printed[j - 1], msg[j])
    IN printed[Len(msg)]

kprint(s, msg) == kprint_at(s, msg, s.cur)

Screen == [cells |-> cells, at |-> vcur, cur |-> vcur, scrolled |-> FALSE]

\* Where the cursor goes: the framebuffer keeps it on the screen, the VGA
\* register takes any 16 bits.
Cursor(p) == IF ~Framebuffer THEN p % CurMod
             ELSE IF p < Cells THEN p ELSE get_offset(get_vga_offset_col(p), Rows - 1)

Show(s) == /\ cells' = s.cells
           /\ vcur' = s.cur
           /\ lost' = (lost \/ s.scrolled)

\* The cells of what a shorter line left, from cell p on, are blanked one by one.
blank_cells(s, p, n) ==
    LET blanked[j \in 0 .. n] == IF j = 0 THEN s
                                 ELSE kprint_at(blanked[j - 1], <<Blank>>, p + j - 1)
    IN blanked[n]

\* Mutant of refresh_command_visual: what the shorter line left is not blanked.
refresh_unblanked(cmd, cur, len, prev) ==
    LET line == [i \in 1 .. len |-> cmd[i - 1]]
    IN Show([kprint_at(Screen, line, cmd_start_offset)
             EXCEPT !.cur = Cursor(cmd_start_offset + cur)])

\* refresh_command_visual, called when the text is already cmd[0 .. len - 1].
refresh_command_visual(cmd, cur, len, prev) ==
    LET line == [i \in 1 .. len |-> cmd[i - 1]]
        s1 == kprint_at(Screen, line, cmd_start_offset)
        s2 == IF prev > len THEN blank_cells(s1, cmd_start_offset + len, prev - len) ELSE s1
    IN Show([s2 EXCEPT !.cur = Cursor(cmd_start_offset + cur)])

set_cursor_offset(p) == vcur' = Cursor(p) /\ UNCHANGED <<cells, lost>>

(***************************************************************************)
(* handle_command_line: one action per key.                                *)
(***************************************************************************)
delete_at(p) == [i \in Pos |-> IF i >= p /\ i < cmd_len THEN command[i + 1]
                                                       ELSE command[i]]

\* Mutant of insert_at: the shift stops one character short.
insert_at_short(p, c) == [i \in Pos |-> IF i = p THEN c
                                        ELSE IF i > p /\ i < cmd_len THEN command[i - 1]
                                        ELSE command[i]]

insert_at(p, c) == [i \in Pos |-> IF i = p THEN c
                                  ELSE IF i > p /\ i <= cmd_len THEN command[i - 1]
                                  ELSE command[i]]

Erase(p) == /\ command' = delete_at(p)
            /\ cmd_len' = cmd_len - 1
            /\ cmd_cursor' = p
            /\ refresh_command_visual(delete_at(p), p, cmd_len - 1, cmd_len)

MoveTo(p) == /\ cmd_cursor' = p
             /\ set_cursor_offset(cmd_start_offset + p)
             /\ UNCHANGED <<command, cmd_len>>

key_enter == /\ command' = [command EXCEPT ![cmd_len] = Nul]
             /\ UNCHANGED <<cmd_cursor, cmd_len, cells, vcur, lost>>

key_backspace == IF cmd_cursor > 0 THEN Erase(cmd_cursor - 1)
                 ELSE UNCHANGED <<textVars, cells, vcur, lost>>

key_delete == IF cmd_cursor < cmd_len THEN Erase(cmd_cursor)
              ELSE UNCHANGED <<textVars, cells, vcur, lost>>

key_left == MoveTo(IF cmd_cursor > 0 THEN cmd_cursor - 1 ELSE 0)
key_right == MoveTo(IF cmd_cursor < cmd_len THEN cmd_cursor + 1 ELSE cmd_cursor)
key_home == MoveTo(0)
key_end == MoveTo(cmd_len)

\* Mutant of key_char: no room is kept for the terminator.
key_char_full(c) ==
    LET cmd == [insert_at(cmd_cursor, c) EXCEPT ![cmd_len + 1] = Nul]
    IN IF cmd_len >= MaxLen THEN UNCHANGED <<textVars, cells, vcur, lost>>
       ELSE /\ command' = cmd
            /\ cmd_len' = cmd_len + 1
            /\ cmd_cursor' = cmd_cursor + 1
            /\ refresh_command_visual(cmd, cmd_cursor + 1, cmd_len + 1, cmd_len)

key_char(c) ==
    LET cmd == [insert_at(cmd_cursor, c) EXCEPT ![cmd_len + 1] = Nul]
    IN IF cmd_len >= MaxLen - 1 THEN UNCHANGED <<textVars, cells, vcur, lost>>
       ELSE /\ command' = cmd
            /\ cmd_len' = cmd_len + 1
            /\ cmd_cursor' = cmd_cursor + 1
            /\ refresh_command_visual(cmd, cmd_cursor + 1, cmd_len + 1, cmd_len)

EditKeys == {"ENTER", "BACKSPACE", "DELETE", "LEFT", "RIGHT", "HOME", "END"}

\* Any other code (Tab, Esc, the arrows up and down, modifiers) does nothing.
handle_command_line(code) ==
    /\ \/ code = "ENTER" /\ key_enter
       \/ code = "BACKSPACE" /\ key_backspace
       \/ code = "DELETE" /\ key_delete
       \/ code = "LEFT" /\ key_left
       \/ code = "RIGHT" /\ key_right
       \/ code = "HOME" /\ key_home
       \/ code = "END" /\ key_end
       \/ code \in Char /\ key_char(code)
       \/ /\ code \notin EditKeys \cup Char
          /\ UNCHANGED <<textVars, cells, vcur, lost>>
    /\ UNCHANGED <<cmd_start_offset, fresh>>

Clean(c, from) == \A i \in from .. Cells - 1 : c[i + 1] \in {Blank, Nul}

init_command_line(start) == cmd_start_offset' = start

\* The cursor is set to cmd_start_offset, where it already is.
flush_command_line == /\ cmd_cursor' = 0 /\ cmd_len' = 0
                      /\ command' = [command EXCEPT ![0] = Nul]

\* The shell prints a message and the prompt, and starts a line where the
\* cursor then is.  With the cursor of VGA off the screen nothing is printed,
\* and the next line is lost with the prompt.
prompt(msg) ==
    LET s == kprint(Screen, Append(msg, ">"))
    IN /\ cells' = s.cells /\ vcur' = s.cur
       /\ lost' = (s.cur >= Cells)
       /\ fresh' = (s.cur < Cells /\ Clean(s.cells, s.cur))
       /\ init_command_line(s.cur)
       /\ flush_command_line

CONSTANTS Codes,      \* the key codes the shell is given
          Messages    \* what it may print before a prompt

ASSUME MessagesAssumption == \A msg \in Messages : msg \in Seq({msg[j] : j \in DOMAIN msg})

LineInit == /\ command = [i \in Pos |-> Nul]
            /\ cmd_cursor = 0 /\ cmd_len = 0
            /\ cmd_start_offset = 0
            /\ cells = clear_screen
            /\ vcur \in Home
            /\ lost = TRUE /\ fresh = FALSE

LineNext == \/ \E code \in Codes : handle_command_line(code)
            \/ \E msg \in Messages : prompt(msg)

LineSpec == LineInit /\ [][LineNext]_lineVars

-----------------------------------------------------------------------------
\* The buffer is always a terminated string: the cursor is within the text,
\* the text leaves room for its terminator, and no terminator is inside it.
LineInv == /\ command \in [Pos -> Char \cup {Nul}]
           /\ cmd_len \in Pos /\ cmd_cursor \in 0 .. cmd_len
           /\ command[cmd_len] = Nul
           /\ \A i \in 0 .. cmd_len - 1 : command[i] \in Char

Text(from, to) == [i \in 1 .. to - from |-> command[from + i - 1]]

\* The buffer with its cursor is a line editor over sequences: shifting the
\* bytes of the array in place loses, repeats and reorders nothing.
Edit == INSTANCE LineEdit WITH Limit <- MaxLen - 1,
                               before <- Text(0, cmd_cursor),
                               after <- Text(cmd_cursor, cmd_len)
EditSpec == Edit!Spec

\* The screen shows the line where the prompt left the cursor, nothing of what
\* was deleted is left after it, and the hardware cursor stands at the insertion
\* point, as long as drawing the line did not scroll the screen under it.
LineVisible ==
    ~lost => /\ cmd_start_offset + cmd_len < Cells
             /\ \A i \in 0 .. cmd_len - 1 : cells[cmd_start_offset + i + 1] = command[i]
             /\ fresh => Clean(cells, cmd_start_offset + cmd_len)
             /\ vcur = cmd_start_offset + cmd_cursor
=============================================================================
