-------------------------- MODULE CommandLineProofs --------------------------
(***************************************************************************)
(* LineInv is an inductive invariant of CommandLine, and the buffer of     *)
(* handle_command_line implements the editor over sequences of LineEdit,   *)
(* for every length of the buffer, every character set, and on any         *)
(* console: what is drawn never influences the text.  And what is drawn is *)
(* the text, on either console and of any size, until drawing the line     *)
(* scrolls the screen.                                                     *)
(***************************************************************************)
EXTENDS CommandLine, SequenceTheorems, WellFoundedInduction, TLAPS

\* A change to the text, with whatever it draws.
Erasing(p) == /\ command' = delete_at(p)
              /\ cmd_len' = cmd_len - 1
              /\ cmd_cursor' = p

Moving(p) == cmd_cursor' = p /\ UNCHANGED <<command, cmd_len>>

Inserting(c) == /\ cmd_len < MaxLen - 1
                /\ command' = [insert_at(cmd_cursor, c) EXCEPT ![cmd_len + 1] = Nul]
                /\ cmd_len' = cmd_len + 1
                /\ cmd_cursor' = cmd_cursor + 1

Clearing == cmd_cursor' = 0 /\ cmd_len' = 0 /\ command' = [command EXCEPT ![0] = Nul]

\* The cursor and the length are places in the buffer.
LEMMA Bounds ==
    ASSUME LineInv
    PROVE  /\ MaxLen \in Nat /\ MaxLen > 1 /\ Nul \notin Char
           /\ cmd_len \in Nat /\ cmd_cursor \in Nat
           /\ cmd_len < MaxLen /\ cmd_cursor <= cmd_len
           /\ command \in [0 .. MaxLen - 1 -> Char \cup {Nul}]
           /\ command[cmd_len] = Nul
           /\ \A i \in 0 .. cmd_len - 1 : command[i] \in Char
  BY MaxLenAssumption, CharAssumption DEF LineInv, Pos

\* Every key, and every prompt, is one of these to the text.
LEMMA TextSteps ==
    ASSUME LineInv, [LineNext]_lineVars
    PROVE  \/ cmd_cursor > 0 /\ Erasing(cmd_cursor - 1)
           \/ cmd_cursor < cmd_len /\ Erasing(cmd_cursor)
           \/ \E p \in 0 .. cmd_len : Moving(p)
           \/ \E c \in Char : Inserting(c)
           \/ Clearing
           \/ UNCHANGED textVars
<1>0. /\ cmd_len \in Nat /\ cmd_cursor \in Nat /\ cmd_cursor <= cmd_len
      /\ command[cmd_len] = Nul
  BY Bounds
<1>1. ASSUME NEW code \in Codes, handle_command_line(code) PROVE
           \/ cmd_cursor > 0 /\ Erasing(cmd_cursor - 1)
           \/ cmd_cursor < cmd_len /\ Erasing(cmd_cursor)
           \/ \E p \in 0 .. cmd_len : Moving(p)
           \/ \E c \in Char : Inserting(c)
           \/ UNCHANGED textVars
  <2>1. CASE key_enter
    <3>1. [command EXCEPT ![cmd_len] = Nul] = command
      BY <1>0 DEF LineInv
    <3> QED
      BY <2>1, <3>1 DEF key_enter, textVars
  <2>2. CASE key_backspace
    BY <2>2 DEF key_backspace, Erase, Erasing
  <2>3. CASE key_delete
    BY <2>3 DEF key_delete, Erase, Erasing
  <2>4. ASSUME NEW p \in 0 .. cmd_len, MoveTo(p) PROVE \E q \in 0 .. cmd_len : Moving(q)
    BY <2>4 DEF MoveTo, Moving
  <2>5. CASE key_left \/ key_right \/ key_home \/ key_end
    BY <2>4, <2>5, <1>0 DEF key_left, key_right, key_home, key_end
  <2>6. ASSUME code \in Char, key_char(code) PROVE Inserting(code) \/ UNCHANGED textVars
    <3>1. CASE cmd_len >= MaxLen - 1
      BY <3>1, <2>6 DEF key_char
    <3>2. CASE ~(cmd_len >= MaxLen - 1)
      BY <3>2, <2>6, <1>0, MaxLenAssumption DEF key_char, Inserting
    <3> QED
      BY <3>1, <3>2
  <2> QED
    BY <1>1, <2>1, <2>2, <2>3, <2>5, <2>6 DEF handle_command_line
<1>2. ASSUME NEW msg \in Messages, prompt(msg) PROVE Clearing
  BY <1>2 DEF prompt, flush_command_line, Clearing
<1>3. CASE UNCHANGED lineVars
  BY <1>3 DEF lineVars
<1> QED
  BY <1>1, <1>2, <1>3 DEF LineNext

-----------------------------------------------------------------------------
\* Taking a character out keeps LineInv.
LEMMA EraseInv ==
    ASSUME LineInv, NEW p \in 0 .. cmd_len - 1, Erasing(p)
    PROVE  LineInv'
<1> USE Bounds
<1>1. command' \in [Pos -> Char \cup {Nul}]
  BY DEF Erasing, delete_at, Pos
<1>2. command'[cmd_len'] = Nul
  BY DEF Erasing, delete_at, Pos
<1>3. ASSUME NEW i \in 0 .. cmd_len' - 1 PROVE command'[i] \in Char
  BY DEF Erasing, delete_at, Pos
<1>4. cmd_len' \in Pos /\ cmd_cursor' \in 0 .. cmd_len'
  BY DEF Erasing, Pos
<1> QED
  BY <1>1, <1>2, <1>3, <1>4 DEF LineInv

\* Putting a character in keeps LineInv.
LEMMA InsertInv ==
    ASSUME LineInv, NEW c \in Char, Inserting(c)
    PROVE  LineInv'
<1> USE Bounds
<1>1. command' \in [Pos -> Char \cup {Nul}]
  <2>1. ASSUME NEW i \in Pos PROVE insert_at(cmd_cursor, c)[i] \in Char \cup {Nul}
    BY DEF insert_at, Pos
  <2>2. insert_at(cmd_cursor, c) \in [Pos -> Char \cup {Nul}]
    BY <2>1 DEF insert_at
  <2> HIDE Bounds
  <2> QED
    BY <2>2 DEF Inserting
<1>2. command'[cmd_len'] = Nul
  BY DEF Inserting, insert_at, Pos
<1>3. ASSUME NEW i \in 0 .. cmd_len' - 1 PROVE command'[i] \in Char
  <2>1. i \in Pos /\ i <= cmd_len /\ i # cmd_len + 1 /\ i \in Nat
    BY DEF Inserting, Pos
  <2>2. command'[i] = insert_at(cmd_cursor, c)[i]
    BY <2>1 DEF Inserting, insert_at
  <2>3. command'[i] = IF i = cmd_cursor THEN c
                      ELSE IF i > cmd_cursor /\ i <= cmd_len THEN command[i - 1] ELSE command[i]
    BY <2>1, <2>2 DEF insert_at
  <2>4. CASE i > cmd_cursor
    <3>1. i - 1 \in 0 .. cmd_len - 1
      BY <2>1, <2>4
    <3> QED
      BY <2>1, <2>3, <2>4, <3>1
  <2>5. CASE i < cmd_cursor
    <3>1. i \in 0 .. cmd_len - 1
      BY <2>1, <2>5
    <3> QED
      BY <2>3, <2>5, <3>1
  <2> QED
    BY <2>1, <2>3, <2>4, <2>5
<1>4. cmd_len' \in Pos /\ cmd_cursor' \in 0 .. cmd_len'
  BY DEF Inserting, Pos
<1> QED
  BY <1>1, <1>2, <1>3, <1>4 DEF LineInv

\* Every key keeps LineInv.
LEMMA LineStep ==
    ASSUME LineInv, [LineNext]_lineVars
    PROVE  LineInv'
<1> USE Bounds
<1>1. CASE cmd_cursor > 0 /\ Erasing(cmd_cursor - 1)
  <2>1. cmd_cursor - 1 \in 0 .. cmd_len - 1
    BY <1>1
  <2> QED
    BY <1>1, <2>1, EraseInv
<1>2. CASE cmd_cursor < cmd_len /\ Erasing(cmd_cursor)
  <2>1. cmd_cursor \in 0 .. cmd_len - 1
    BY <1>2
  <2> QED
    BY <1>2, <2>1, EraseInv
<1>3. ASSUME NEW p \in 0 .. cmd_len, Moving(p) PROVE LineInv'
  BY <1>3 DEF Moving, LineInv
<1>4. ASSUME NEW c \in Char, Inserting(c) PROVE LineInv'
  BY <1>4, InsertInv
<1>5. CASE Clearing
  BY <1>5 DEF Clearing, LineInv, Pos
<1>6. CASE UNCHANGED textVars
  BY <1>6 DEF textVars, LineInv
<1> QED
  BY <1>1, <1>2, <1>3, <1>4, <1>5, <1>6, TextSteps

\* LineInv holds at the start.
LEMMA LineInitInv == LineInit => LineInv
  BY MaxLenAssumption DEF LineInit, LineInv, Pos

\* The buffer is a terminated string with the cursor in it, whatever is typed
\* (handle_command_line) and printed (init_command_line, flush_command_line).
THEOREM LineInvariant == LineSpec => []LineInv
  BY LineInitInv, LineStep, PTL DEF LineSpec

-----------------------------------------------------------------------------
(***************************************************************************)
(* The refinement: the text before the cursor and the text after it, read  *)
(* off the array, are the two sequences of LineEdit.                       *)
(***************************************************************************)

before == Text(0, cmd_cursor)
after == Text(cmd_cursor, cmd_len)

Piece(cmd, f, t) == [i \in 1 .. t - f |-> cmd[f + i - 1]]

\* A piece of a text is a sequence of characters.
LEMMA PieceIsSeq ==
    ASSUME NEW cmd, NEW len \in Nat, \A i \in 0 .. len - 1 : cmd[i] \in Char,
           NEW f \in Nat, NEW t \in Nat, f <= t, t <= len
    PROVE  /\ Piece(cmd, f, t) \in Seq(Char)
           /\ Len(Piece(cmd, f, t)) = t - f
           /\ \A i \in 1 .. t - f : Piece(cmd, f, t)[i] = cmd[f + i - 1]
<1>1. t - f \in Nat /\ \A i \in 1 .. t - f : f + i - 1 \in 0 .. len - 1
  OBVIOUS
<1>2. \A i \in 1 .. t - f : cmd[f + i - 1] \in Char
  BY <1>1
<1> QED
  BY <1>1, <1>2 DEF Piece

\* The same of a piece from the start.
LEMMA StartIsSeq ==
    ASSUME NEW cmd, NEW len \in Nat, \A i \in 0 .. len - 1 : cmd[i] \in Char,
           NEW cur \in Nat, cur <= len
    PROVE  /\ Piece(cmd, 0, cur) \in Seq(Char)
           /\ Len(Piece(cmd, 0, cur)) = cur
           /\ \A i \in 1 .. cur : Piece(cmd, 0, cur)[i] = cmd[i - 1]
<1>1. 0 \in Nat /\ 0 <= cur
  OBVIOUS
<1>2. /\ Piece(cmd, 0, cur) \in Seq(Char)
      /\ Len(Piece(cmd, 0, cur)) = cur - 0
      /\ \A i \in 1 .. cur - 0 : Piece(cmd, 0, cur)[i] = cmd[0 + i - 1]
  BY <1>1, PieceIsSeq
<1>3. ASSUME NEW i \in 1 .. cur PROVE Piece(cmd, 0, cur)[i] = cmd[i - 1]
  BY <1>2
<1> QED
  BY <1>2, <1>3

\* The two sequences.
LEMMA BeforeAfter ==
    ASSUME LineInv
    PROVE  /\ before \in Seq(Char) /\ Len(before) = cmd_cursor
           /\ \A i \in 1 .. cmd_cursor : before[i] = command[i - 1]
           /\ after \in Seq(Char) /\ Len(after) = cmd_len - cmd_cursor
           /\ \A i \in 1 .. cmd_len - cmd_cursor : after[i] = command[cmd_cursor + i - 1]
<1>1. before = Piece(command, 0, cmd_cursor) /\ after = Piece(command, cmd_cursor, cmd_len)
  BY DEF before, after, Text, Piece
<1>2. /\ cmd_len \in Nat /\ cmd_cursor \in Nat /\ cmd_cursor <= cmd_len
      /\ \A i \in 0 .. cmd_len - 1 : command[i] \in Char
  BY Bounds
<1>3. /\ Piece(command, 0, cmd_cursor) \in Seq(Char)
      /\ Len(Piece(command, 0, cmd_cursor)) = cmd_cursor
      /\ \A i \in 1 .. cmd_cursor : Piece(command, 0, cmd_cursor)[i] = command[i - 1]
  BY <1>2, StartIsSeq
<1>4. /\ Piece(command, cmd_cursor, cmd_len) \in Seq(Char)
      /\ Len(Piece(command, cmd_cursor, cmd_len)) = cmd_len - cmd_cursor
      /\ \A i \in 1 .. cmd_len - cmd_cursor :
            Piece(command, cmd_cursor, cmd_len)[i] = command[cmd_cursor + i - 1]
  <2>1. cmd_len <= cmd_len
    BY <1>2
  <2> QED
    BY <1>2, <2>1, PieceIsSeq
<1> QED
  BY <1>1, <1>3, <1>4

\* The two sequences after a step.
LEMMA BeforeAfterNext ==
    ASSUME LineInv'
    PROVE  /\ before' \in Seq(Char) /\ Len(before') = cmd_cursor'
           /\ \A i \in 1 .. cmd_cursor' : before'[i] = command'[i - 1]
           /\ after' \in Seq(Char) /\ Len(after') = cmd_len' - cmd_cursor'
           /\ \A i \in 1 .. cmd_len' - cmd_cursor' : after'[i] = command'[cmd_cursor' + i - 1]
<1>1. /\ before' = Piece(command', 0, cmd_cursor')
      /\ after' = Piece(command', cmd_cursor', cmd_len')
  BY DEF before, after, Text, Piece
<1>2. cmd_len' \in 0 .. MaxLen - 1 /\ cmd_cursor' \in 0 .. cmd_len'
  BY DEF LineInv, Pos
<1>3. cmd_len' \in Nat /\ cmd_cursor' \in Nat /\ cmd_cursor' <= cmd_len'
  BY <1>2, MaxLenAssumption
<1>4. \A i \in 0 .. cmd_len' - 1 : command'[i] \in Char
  BY DEF LineInv
<1>5. /\ Piece(command', 0, cmd_cursor') \in Seq(Char)
      /\ Len(Piece(command', 0, cmd_cursor')) = cmd_cursor'
      /\ \A i \in 1 .. cmd_cursor' : Piece(command', 0, cmd_cursor')[i] = command'[i - 1]
  BY <1>3, <1>4, StartIsSeq
<1>6. /\ Piece(command', cmd_cursor', cmd_len') \in Seq(Char)
      /\ Len(Piece(command', cmd_cursor', cmd_len')) = cmd_len' - cmd_cursor'
      /\ \A i \in 1 .. cmd_len' - cmd_cursor' :
            Piece(command', cmd_cursor', cmd_len')[i] = command'[cmd_cursor' + i - 1]
  <2>1. cmd_len' <= cmd_len'
    BY <1>3
  <2> QED
    BY <1>3, <1>4, <2>1, PieceIsSeq
<1> QED
  BY <1>1, <1>5, <1>6

\* What the loops of delete_at and insert_at leave at each place.
LEMMA ErasedAt ==
    ASSUME LineInv, NEW p \in 0 .. cmd_len - 1, Erasing(p)
    PROVE  /\ \A i \in 0 .. p - 1 : command'[i] = command[i]
           /\ \A i \in p .. cmd_len - 1 : command'[i] = command[i + 1]
  BY Bounds DEF Erasing, delete_at, Pos

\* What the buffer is after a character was put in.
LEMMA InsertedAt ==
    ASSUME LineInv, NEW c \in Char, Inserting(c)
    PROVE  /\ \A i \in 0 .. cmd_cursor - 1 : command'[i] = command[i]
           /\ command'[cmd_cursor] = c
           /\ \A i \in cmd_cursor + 1 .. cmd_len : command'[i] = command[i - 1]
<1> DEFINE new == insert_at(cmd_cursor, c)
<1>1. /\ cmd_cursor \in Nat /\ cmd_len \in Nat /\ cmd_cursor <= cmd_len
      /\ MaxLen \in Nat /\ cmd_len + 1 < MaxLen
  BY Bounds DEF Inserting
<1>2. /\ \A i \in 0 .. cmd_cursor - 1 : new[i] = command[i]
      /\ new[cmd_cursor] = c
      /\ \A i \in cmd_cursor + 1 .. cmd_len : new[i] = command[i - 1]
  <2>1. ASSUME NEW i \in 0 .. cmd_len
        PROVE  new[i] = IF i = cmd_cursor THEN c
                        ELSE IF i > cmd_cursor /\ i <= cmd_len THEN command[i - 1] ELSE command[i]
    BY <1>1 DEF insert_at, Pos
  <2> HIDE DEF new
  <2>2. ASSUME NEW i \in 0 .. cmd_cursor - 1 PROVE new[i] = command[i]
    BY <1>1, <2>1
  <2>3. new[cmd_cursor] = c
    BY <1>1, <2>1
  <2>4. ASSUME NEW i \in cmd_cursor + 1 .. cmd_len PROVE new[i] = command[i - 1]
    BY <1>1, <2>1
  <2> QED
    BY <2>2, <2>3, <2>4
<1>3. command' = [new EXCEPT ![cmd_len + 1] = Nul] /\ DOMAIN new = 0 .. MaxLen - 1
  BY DEF Inserting, insert_at, Pos
<1> HIDE DEF new
<1>4. \A i \in 0 .. cmd_len : command'[i] = new[i]
  BY <1>1, <1>3
<1>5. /\ \A i \in 0 .. cmd_cursor - 1 : i \in 0 .. cmd_len
      /\ cmd_cursor \in 0 .. cmd_len
      /\ \A i \in cmd_cursor + 1 .. cmd_len : i \in 0 .. cmd_len
  BY <1>1
<1> QED
  BY <1>2, <1>4, <1>5

\* Erasing the character before the cursor is Backspace.
LEMMA BackspaceRefines ==
    ASSUME LineInv, LineInv', cmd_cursor > 0, Erasing(cmd_cursor - 1)
    PROVE  Edit!Backspace
<1> DEFINE k == cmd_cursor - 1
           t == SubSeq(before, 1, Len(before) - 1)
<1>1. /\ cmd_len \in Nat /\ k \in 0 .. cmd_len - 1 /\ cmd_cursor = k + 1 /\ k \in Nat
      /\ cmd_cursor' = k /\ cmd_len' = cmd_len - 1
  BY Bounds DEF Erasing
<1>2. /\ \A i \in 0 .. k - 1 : command'[i] = command[i]
      /\ \A i \in k .. cmd_len - 1 : command'[i] = command[i + 1]
  BY <1>1, ErasedAt
<1>3. /\ t \in Seq(Char) /\ Len(t) = k
      /\ \A i \in 1 .. k : t[i] = before[i]
  BY <1>1, BeforeAfter
<1> HIDE DEF k, t
<1>4. before' = t
  <2>1. ASSUME NEW i \in 1 .. k PROVE before'[i] = t[i]
    <3>1. i - 1 \in 0 .. k - 1 /\ i \in 1 .. cmd_cursor
      BY <1>1
    <3>2. before'[i] = command'[i - 1] /\ before[i] = command[i - 1]
      BY <1>1, <3>1, BeforeAfter, BeforeAfterNext
    <3> QED
      BY <1>2, <1>3, <3>1, <3>2
  <2>2. before' \in Seq(Char) /\ Len(before') = k
    BY <1>1, BeforeAfterNext
  <2> QED
    BY <1>3, <2>1, <2>2, SeqEqual
<1>5. after' = after
  <2> DEFINE n == cmd_len - cmd_cursor
  <2>1. n \in Nat /\ cmd_len' - cmd_cursor' = n
    BY <1>1
  <2>2. /\ after \in Seq(Char) /\ Len(after) = n
        /\ \A i \in 1 .. n : after[i] = command[cmd_cursor + i - 1]
    BY BeforeAfter
  <2>3. /\ after' \in Seq(Char) /\ Len(after') = n
        /\ \A i \in 1 .. n : after'[i] = command'[cmd_cursor' + i - 1]
    BY <2>1, BeforeAfterNext
  <2>4. ASSUME NEW i \in 1 .. n PROVE after'[i] = after[i]
    <3>1. /\ k + i - 1 \in k .. cmd_len - 1
          /\ cmd_cursor + i - 1 = (k + i - 1) + 1
          /\ cmd_cursor' + i - 1 = k + i - 1
      BY <1>1
    <3> QED
      BY <1>2, <2>2, <2>3, <3>1
  <2> HIDE DEF n
  <2> QED
    BY <2>2, <2>3, <2>4, SeqEqual
<1>6. before # << >>
  BY <1>1, BeforeAfter
<1> QED
  BY <1>4, <1>5, <1>6 DEF Edit!Backspace, before, after, t

\* Erasing the one at it is Delete.
LEMMA DeleteRefines ==
    ASSUME LineInv, LineInv', cmd_cursor < cmd_len, Erasing(cmd_cursor)
    PROVE  Edit!Delete
<1> DEFINE k == cmd_cursor
           n == cmd_len - cmd_cursor
<1>1. /\ cmd_len \in Nat /\ k \in 0 .. cmd_len - 1 /\ k \in Nat /\ n \in Nat \ {0}
      /\ cmd_cursor' = k /\ cmd_len' = cmd_len - 1 /\ cmd_len' - cmd_cursor' = n - 1
  BY Bounds DEF Erasing
<1>2. /\ \A i \in 0 .. k - 1 : command'[i] = command[i]
      /\ \A i \in k .. cmd_len - 1 : command'[i] = command[i + 1]
  BY <1>1, ErasedAt
<1>3. before' = before
  <2>1. ASSUME NEW i \in 1 .. k PROVE before'[i] = before[i]
    <3>1. i - 1 \in 0 .. k - 1
      BY <1>1
    <3>2. before'[i] = command'[i - 1] /\ before[i] = command[i - 1]
      BY <1>1, BeforeAfter, BeforeAfterNext
    <3> QED
      BY <1>2, <3>1, <3>2
  <2>2. before \in Seq(Char) /\ before' \in Seq(Char) /\ Len(before) = k /\ Len(before') = k
    BY <1>1, BeforeAfter, BeforeAfterNext
  <2> QED
    BY <2>1, <2>2, SeqEqual
<1>4. after \in Seq(Char) /\ Len(after) = n /\ after # << >>
  BY <1>1, BeforeAfter
<1>5. /\ Tail(after) \in Seq(Char) /\ Len(Tail(after)) = n - 1
      /\ \A i \in 1 .. n - 1 : Tail(after)[i] = after[i + 1]
  BY <1>1, <1>4
<1>6. after' = Tail(after)
  <2>1. ASSUME NEW i \in 1 .. n - 1 PROVE after'[i] = Tail(after)[i]
    <3>1. /\ i + 1 \in 1 .. n /\ k + i - 1 \in k .. cmd_len - 1
          /\ k + (i + 1) - 1 = (k + i - 1) + 1
      BY <1>1
    <3>2. after[i + 1] = command[k + (i + 1) - 1]
      BY <3>1, BeforeAfter
    <3>3. after'[i] = command'[k + i - 1]
      BY <1>1, BeforeAfterNext
    <3> QED
      BY <1>2, <1>5, <3>1, <3>2, <3>3
  <2>2. after' \in Seq(Char) /\ Len(after') = n - 1
    BY <1>1, BeforeAfterNext
  <2> QED
    BY <1>5, <2>1, <2>2, SeqEqual
<1> QED
  BY <1>3, <1>4, <1>6 DEF Edit!Delete, before, after

\* Inserting a character at the cursor is Insert.
LEMMA InsertRefines ==
    ASSUME LineInv, LineInv', NEW c \in Char, Inserting(c)
    PROVE  Edit!Insert(c)
<1> DEFINE k == cmd_cursor
           n == cmd_len - cmd_cursor
           t == Append(before, c)
<1>1. /\ cmd_len \in Nat /\ MaxLen \in Nat /\ k \in Nat /\ n \in Nat /\ k + n = cmd_len
      /\ cmd_len < MaxLen - 1
      /\ cmd_cursor' = k + 1 /\ cmd_len' - cmd_cursor' = n
  BY Bounds DEF Inserting
<1>2. /\ \A i \in 0 .. k - 1 : command'[i] = command[i]
      /\ command'[k] = c
      /\ \A i \in k + 1 .. cmd_len : command'[i] = command[i - 1]
  BY <1>1, InsertedAt
<1>3. /\ before \in Seq(Char) /\ Len(before) = k /\ after \in Seq(Char) /\ Len(after) = n
  BY BeforeAfter
<1>4. /\ t \in Seq(Char) /\ Len(t) = k + 1 /\ t[k + 1] = c
      /\ \A i \in 1 .. k : t[i] = before[i]
  BY <1>1, <1>3
<1> HIDE DEF t
<1>5. before' = t
  <2>1. ASSUME NEW i \in 1 .. k + 1 PROVE before'[i] = t[i]
    <3>1. before'[i] = command'[i - 1]
      BY <1>1, BeforeAfterNext
    <3>2. CASE i = k + 1
      <4>1. i - 1 = k
        BY <3>2, <1>1
      <4> QED
        BY <3>1, <3>2, <4>1, <1>2, <1>4
    <3>3. CASE i # k + 1
      <4>1. i \in 1 .. k /\ i - 1 \in 0 .. k - 1
        BY <3>3, <1>1
      <4>2. before[i] = command[i - 1]
        BY <4>1, BeforeAfter
      <4> QED
        BY <3>1, <4>1, <4>2, <1>2, <1>4
    <3> QED
      BY <3>2, <3>3
  <2>2. before' \in Seq(Char) /\ Len(before') = k + 1
    BY <1>1, BeforeAfterNext
  <2> QED
    BY <1>4, <2>1, <2>2, SeqEqual
<1>6. after' = after
  <2>1. ASSUME NEW i \in 1 .. n PROVE after'[i] = after[i]
    <3>1. /\ k + i \in k + 1 .. cmd_len /\ (k + 1) + i - 1 = k + i
      BY <1>1
    <3>2. after'[i] = command'[k + i]
      BY <1>1, <3>1, BeforeAfterNext
    <3>3. after[i] = command[k + i - 1]
      BY BeforeAfter
    <3> QED
      BY <1>1, <1>2, <3>1, <3>2, <3>3
  <2>2. after' \in Seq(Char) /\ Len(after') = n
    BY <1>1, BeforeAfterNext
  <2> QED
    BY <1>3, <2>1, <2>2, SeqEqual
<1>7. Len(before) + Len(after) < MaxLen - 1
  BY <1>1, <1>3
<1> QED
  BY <1>5, <1>6, <1>7 DEF Edit!Insert, before, after, t

\* Moving the cursor splits the same text at another place.
LEMMA MoveRefines ==
    ASSUME LineInv, LineInv', NEW p \in 0 .. cmd_len, Moving(p)
    PROVE  Edit!Move
<1> DEFINE k == cmd_cursor
           len == cmd_len
           all == before \o after
<1>1. /\ len \in Nat /\ k \in Nat /\ k <= len /\ p \in Nat /\ p <= len
      /\ cmd_cursor' = p /\ command' = command /\ cmd_len' = len
  BY Bounds DEF Moving
<1>2. /\ before \in Seq(Char) /\ Len(before) = k /\ after \in Seq(Char) /\ Len(after) = len - k
  BY BeforeAfter
<1>3. Len(before) + Len(after) = len
  BY <1>1, <1>2
<1>4. /\ all \in Seq(Char) /\ Len(all) = len
      /\ \A i \in 1 .. len : all[i] = IF i <= k THEN before[i] ELSE after[i - k]
  BY <1>2, <1>3, ConcatProperties
<1> HIDE DEF all
<1>5. ASSUME NEW i \in 1 .. len PROVE all[i] = command[i - 1]
  <2>1. CASE i <= k
    <3>1. i \in 1 .. k
      BY <2>1, <1>1
    <3> QED
      BY <3>1, <2>1, <1>4, BeforeAfter
  <2>2. CASE ~(i <= k)
    <3>1. i - k \in 1 .. len - k /\ k + (i - k) - 1 = i - 1
      BY <2>2, <1>1
    <3>2. after[i - k] = command[k + (i - k) - 1]
      BY <3>1, BeforeAfter
    <3> QED
      BY <2>2, <3>1, <3>2, <1>4
  <2> QED
    BY <2>1, <2>2
<1>6. before' = SubSeq(all, 1, p)
  <2>1. /\ SubSeq(all, 1, p) \in Seq(Char) /\ Len(SubSeq(all, 1, p)) = p
        /\ \A i \in 1 .. p : SubSeq(all, 1, p)[i] = all[i]
    BY <1>1, <1>4
  <2>2. ASSUME NEW i \in 1 .. p PROVE before'[i] = SubSeq(all, 1, p)[i]
    <3>1. i \in 1 .. len
      BY <1>1
    <3>2. before'[i] = command[i - 1]
      BY <1>1, BeforeAfterNext
    <3> QED
      BY <3>1, <3>2, <2>1, <1>5
  <2>3. before' \in Seq(Char) /\ Len(before') = p
    BY <1>1, BeforeAfterNext
  <2> QED
    BY <2>1, <2>2, <2>3, SeqEqual
<1>7. after' = SubSeq(all, p + 1, len)
  <2>1. /\ SubSeq(all, p + 1, len) \in Seq(Char)
        /\ Len(SubSeq(all, p + 1, len)) = len - p
        /\ \A i \in 1 .. len - p : SubSeq(all, p + 1, len)[i] = all[p + i]
    BY <1>1, <1>4
  <2>2. ASSUME NEW i \in 1 .. len - p PROVE after'[i] = SubSeq(all, p + 1, len)[i]
    <3>1. p + i \in 1 .. len
      BY <1>1
    <3>2. after'[i] = command[p + i - 1]
      BY <1>1, BeforeAfterNext
    <3> QED
      BY <3>1, <3>2, <2>1, <1>5
  <2>3. after' \in Seq(Char) /\ Len(after') = len - p
    BY <1>1, BeforeAfterNext
  <2> QED
    BY <2>1, <2>2, <2>3, SeqEqual
<1>8. p \in 0 .. Len(before) + Len(after)
  BY <1>1, <1>3
<1> QED
  BY <1>3, <1>6, <1>7, <1>8 DEF Edit!Move, before, after, all

\* Shifting the bytes of the array in place (delete_at, insert_at)
\* and moving the cursor is the editing of a line: LineSpec implements
\* LineEdit, for every length of the buffer.
THEOREM LineIsEditor == LineSpec => EditSpec
<1>1. LineInit => Edit!Init
  BY DEF LineInit, Edit!Init, Text
<1>2. ASSUME LineInv, LineInv', [LineNext]_lineVars
      PROVE  [Edit!Next]_(Edit!editVars)
  <2>1. CASE cmd_cursor > 0 /\ Erasing(cmd_cursor - 1)
    BY <1>2, <2>1, BackspaceRefines DEF Edit!Next
  <2>2. CASE cmd_cursor < cmd_len /\ Erasing(cmd_cursor)
    BY <1>2, <2>2, DeleteRefines DEF Edit!Next
  <2>3. ASSUME NEW p \in 0 .. cmd_len, Moving(p) PROVE Edit!Next
    BY <1>2, <2>3, MoveRefines DEF Edit!Next
  <2>4. ASSUME NEW c \in Char, Inserting(c) PROVE Edit!Next
    BY <1>2, <2>4, InsertRefines DEF Edit!Next
  <2>5. CASE Clearing
    BY <2>5 DEF Clearing, Text, Edit!Clear, Edit!Next
  <2>6. CASE UNCHANGED textVars
    BY <2>6 DEF textVars, Text, Edit!editVars
  <2> QED
    BY <1>2, <2>1, <2>2, <2>3, <2>4, <2>5, <2>6, TextSteps
<1> QED
  BY <1>1, <1>2, LineInvariant, PTL DEF LineSpec, EditSpec, Edit!Spec

-----------------------------------------------------------------------------
(***************************************************************************)
(* The console.  The loops of kprint_at and of the blanking are recursive  *)
(* functions; the induction over their passes is by the least pass that    *)
(* would be an exception.                                                  *)
(***************************************************************************)

\* Every set of numbers that is not empty has a least one.
LEMMA LeastNumber ==
    ASSUME NEW T, T \subseteq Nat, T # {}
    PROVE  \E m \in T : \A k \in T : m <= k
<1>1. PICK m \in T : \A k \in T : ~(<<k, m>> \in OpToRel(<, Nat))
  BY NatLessThanWellFounded, WFMin, Zenon
<1>2. ASSUME NEW k \in T PROVE m <= k
  <2>1. ~(<<k, m>> \in OpToRel(<, Nat))
    BY <1>1, Zenon
  <2>2. ~(<<k, m>> \in {ss \in Nat \X Nat : ss[1] < ss[2]})
    BY <2>1, Zenon DEF OpToRel
  <2> QED
    BY <2>2
<1> QED
  BY <1>2

\* What holds at 0 and from each number to the next, holds at n.
LEMMA UpTo ==
    ASSUME NEW n \in Nat, NEW T, 0 \in T, \A j \in 1 .. n : j - 1 \in T => j \in T
    PROVE  n \in T
<1> DEFINE Bad == {j \in 0 .. n : j \notin T}
<1>1. SUFFICES ASSUME Bad # {} PROVE FALSE
  OBVIOUS
<1>2. Bad \subseteq Nat
  OBVIOUS
<1>3. PICK m \in Bad : \A i \in Bad : m <= i
  BY <1>1, <1>2, LeastNumber, Zenon
<1>4. m # 0 /\ m - 1 \in 0 .. n /\ m - 1 \notin Bad /\ m \in 1 .. n
  BY <1>3
<1> QED
  BY <1>3, <1>4

\* The passes of the loop of kprint_at, as far as the n-th.
Printed(s, msg, pos, n, f) ==
    f = [j \in 0 .. n |-> IF j = 0 THEN [s EXCEPT !.at = pos] ELSE print_next(f[j - 1], msg[j])]

\* The recursion of kprint_at defines a function.
LEMMA PrintedExist ==
    ASSUME NEW s, NEW msg, NEW pos, NEW n \in Nat
    PROVE  \E f : Printed(s, msg, pos, n, f)
<1> DEFINE Bad == {m \in Nat : \A f : ~Printed(s, msg, pos, m, f)}
<1>1. SUFFICES ASSUME Bad # {} PROVE FALSE
  OBVIOUS
<1>2. PICK m \in Bad : \A i \in Bad : m <= i
  BY <1>1, LeastNumber
<1>3. CASE m = 0
  <2> DEFINE g == [j \in 0 .. 0 |-> [s EXCEPT !.at = pos]]
  <2>1. g = [j \in 0 .. 0 |-> IF j = 0 THEN [s EXCEPT !.at = pos] ELSE print_next(g[j - 1], msg[j])]
    OBVIOUS
  <2>2. Printed(s, msg, pos, 0, g)
    BY <2>1, Zenon DEF Printed
  <2> QED
    BY <1>2, <1>3, <2>2
<1>4. CASE m # 0
  <2>1. m - 1 \in Nat /\ m \in Nat /\ m - 1 \notin Bad
    BY <1>2, <1>4
  <2>2. PICK f : Printed(s, msg, pos, m - 1, f)
    BY <2>1
  <2> DEFINE last == print_next(f[m - 1], msg[m])
             g == [j \in 0 .. m |-> IF j = m THEN last ELSE f[j]]
             h == [j \in 0 .. m |-> IF j = 0 THEN [s EXCEPT !.at = pos] ELSE print_next(g[j - 1], msg[j])]
  <2>3. \A j \in 0 .. m - 1 : f[j] = IF j = 0 THEN [s EXCEPT !.at = pos] ELSE print_next(f[j - 1], msg[j])
    BY <2>2 DEF Printed
  <2>4. ASSUME NEW j \in 0 .. m PROVE g[j] = h[j]
    <3>1. CASE j = m
      <4>1. g[m - 1] = f[m - 1]
        BY <2>1
      <4> QED
        BY <3>1, <4>1, <1>4, <2>1
    <3>2. CASE j # m /\ j # 0
      <4>1. j \in 0 .. m - 1 /\ j - 1 \in 0 .. m /\ j - 1 # m
        BY <3>2, <2>1
      <4>2. g[j] = f[j] /\ g[j - 1] = f[j - 1]
        BY <3>2, <4>1
      <4> QED
        BY <3>2, <4>1, <4>2, <2>3
    <3>3. CASE j = 0
      <4>1. 0 \in 0 .. m - 1 /\ j # m
        BY <3>3, <2>1, <1>4
      <4> QED
        BY <3>3, <4>1, <2>3
    <3> QED
      BY <3>1, <3>2, <3>3
  <2>5. g = h
    BY <2>4
  <2>6. Printed(s, msg, pos, m, g)
    BY <2>5, Zenon DEF Printed
  <2> QED
    BY <1>2, <2>6
<1> QED
  BY <1>3, <1>4

PrintLoop(s, msg, pos, f) ==
    /\ f[0] = [s EXCEPT !.at = pos] /\ f[Len(msg)] = kprint_at(s, msg, pos)
    /\ \A j \in 1 .. Len(msg) : f[j] = print_next(f[j - 1], msg[j])

\* kprint_at is the last of a series of passes.
LEMMA PrintedUnfold ==
    ASSUME NEW s, NEW msg, NEW pos, Len(msg) \in Nat
    PROVE  \E f : PrintLoop(s, msg, pos, f)
<1> DEFINE f == CHOOSE f : Printed(s, msg, pos, Len(msg), f)
<1>1. Printed(s, msg, pos, Len(msg), f)
  BY PrintedExist, Zenon
<1>2. f[Len(msg)] = kprint_at(s, msg, pos)
  BY Zenon DEF kprint_at, Printed
<1> HIDE DEF f
<1>3. f[0] = [s EXCEPT !.at = pos] /\ \A j \in 1 .. Len(msg) : f[j] = print_next(f[j - 1], msg[j])
  BY <1>1 DEF Printed
<1>4. PrintLoop(s, msg, pos, f)
  BY <1>2, <1>3 DEF PrintLoop
<1> QED
  BY <1>4, Zenon

\* The passes of the loop that blanks, as far as the n-th.
Blanking(s, p, n, f) ==
    f = [j \in 0 .. n |-> IF j = 0 THEN s ELSE kprint_at(f[j - 1], <<Blank>>, p + j - 1)]

\* The recursion of blank_cells defines a function.
LEMMA BlankingExist ==
    ASSUME NEW s, NEW p, NEW n \in Nat
    PROVE  \E f : Blanking(s, p, n, f)
<1> DEFINE Bad == {m \in Nat : \A f : ~Blanking(s, p, m, f)}
<1>1. SUFFICES ASSUME Bad # {} PROVE FALSE
  OBVIOUS
<1>2. PICK m \in Bad : \A i \in Bad : m <= i
  BY <1>1, LeastNumber
<1>3. CASE m = 0
  <2> DEFINE g == [j \in 0 .. 0 |-> s]
  <2>1. g = [j \in 0 .. 0 |-> IF j = 0 THEN s ELSE kprint_at(g[j - 1], <<Blank>>, p + j - 1)]
    OBVIOUS
  <2>2. Blanking(s, p, 0, g)
    BY <2>1, Zenon DEF Blanking
  <2> QED
    BY <1>2, <1>3, <2>2
<1>4. CASE m # 0
  <2>1. m - 1 \in Nat /\ m \in Nat /\ m - 1 \notin Bad
    BY <1>2, <1>4
  <2>2. PICK f : Blanking(s, p, m - 1, f)
    BY <2>1
  <2> DEFINE last == kprint_at(f[m - 1], <<Blank>>, p + m - 1)
             g == [j \in 0 .. m |-> IF j = m THEN last ELSE f[j]]
             h == [j \in 0 .. m |-> IF j = 0 THEN s ELSE kprint_at(g[j - 1], <<Blank>>, p + j - 1)]
  <2>3. \A j \in 0 .. m - 1 : f[j] = IF j = 0 THEN s ELSE kprint_at(f[j - 1], <<Blank>>, p + j - 1)
    BY <2>2 DEF Blanking
  <2>4. ASSUME NEW j \in 0 .. m PROVE g[j] = h[j]
    <3>1. CASE j = m
      <4>1. g[m - 1] = f[m - 1]
        BY <2>1
      <4> QED
        BY <3>1, <4>1, <1>4, <2>1
    <3>2. CASE j # m /\ j # 0
      <4>1. j \in 0 .. m - 1 /\ j - 1 \in 0 .. m /\ j - 1 # m
        BY <3>2, <2>1
      <4>2. g[j] = f[j] /\ g[j - 1] = f[j - 1]
        BY <3>2, <4>1
      <4> QED
        BY <3>2, <4>1, <4>2, <2>3
    <3>3. CASE j = 0
      <4>1. 0 \in 0 .. m - 1 /\ j # m
        BY <3>3, <2>1, <1>4
      <4> QED
        BY <3>3, <4>1, <2>3
    <3> QED
      BY <3>1, <3>2, <3>3
  <2>5. g = h
    BY <2>4
  <2>6. Blanking(s, p, m, g)
    BY <2>5, Zenon DEF Blanking
  <2> QED
    BY <1>2, <2>6
<1> QED
  BY <1>3, <1>4

BlankLoop(s, p, n, f) ==
    /\ f[0] = s /\ f[n] = blank_cells(s, p, n)
    /\ \A j \in 1 .. n : f[j] = kprint_at(f[j - 1], <<Blank>>, p + j - 1)

\* blank_cells is the last of a series of passes.
LEMMA BlankingUnfold ==
    ASSUME NEW s, NEW p, NEW n \in Nat
    PROVE  \E f : BlankLoop(s, p, n, f)
<1> DEFINE f == CHOOSE f : Blanking(s, p, n, f)
<1>1. Blanking(s, p, n, f)
  BY BlankingExist, Zenon
<1>2. f[n] = blank_cells(s, p, n)
  BY Zenon DEF blank_cells, Blanking
<1> HIDE DEF f
<1>3. f[0] = s /\ \A j \in 1 .. n : f[j] = kprint_at(f[j - 1], <<Blank>>, p + j - 1)
  BY <1>1 DEF Blanking
<1>4. BlankLoop(s, p, n, f)
  BY <1>2, <1>3 DEF BlankLoop
<1> QED
  BY <1>4, Zenon

-----------------------------------------------------------------------------
\* A character in every cell.
OnGrid(c) == c = [i \in 1 .. Cells |-> c[i]]

IsScreen(s) == /\ s = [cells |-> s.cells, at |-> s.at, cur |-> s.cur, scrolled |-> s.scrolled]
               /\ OnGrid(s.cells)
               /\ s.at \in Nat /\ s.cur \in Nat /\ s.scrolled \in BOOLEAN

\* The cells are at least one row.
LEMMA Geometry ==
    /\ Rows \in Nat /\ Cols \in Nat /\ Cells \in Nat
    /\ Cols > 0 /\ Cells >= Cols
<1>1. Rows \in Nat /\ Cols \in Nat /\ Rows >= 1 /\ Cols >= 1
  BY ScreenAssumption
<1>2. Rows * Cols \in Nat /\ Rows * Cols >= Cols
  BY <1>1
<1> QED
  BY <1>1, <1>2 DEF Cells

\* The rows and columns of a position are numbers.
LEMMA Places ==
    ASSUME NEW p \in Nat
    PROVE  /\ get_vga_offset_row(p) \in Nat /\ get_vga_offset_col(p) \in Nat
           /\ get_offset(get_vga_offset_col(p), Rows - 1) \in Nat
           /\ get_offset(0, get_vga_offset_row(p) + 1) \in Nat
<1>1. get_vga_offset_row(p) \in Nat /\ get_vga_offset_col(p) \in Nat
  BY Geometry DEF get_vga_offset_row, get_vga_offset_col
<1>2. ASSUME NEW a \in Nat, NEW b \in Nat PROVE a * b \in Nat
  OBVIOUS
<1>3. Rows - 1 \in Nat /\ get_vga_offset_row(p) + 1 \in Nat /\ Cols \in Nat
  BY <1>1, ScreenAssumption
<1>4. (Rows - 1) * Cols \in Nat /\ (get_vga_offset_row(p) + 1) * Cols \in Nat
  BY <1>2, <1>3
<1>5. get_offset(get_vga_offset_col(p), Rows - 1) \in Nat
  BY <1>1, <1>4 DEF get_offset
<1>6. get_offset(0, get_vga_offset_row(p) + 1) \in Nat
  BY <1>4 DEF get_offset
<1> QED
  BY <1>1, <1>5, <1>6

\* A scroll leaves a character in every cell.
LEMMA ScrolledGrid ==
    ASSUME NEW c, NEW fill, OnGrid(c)
    PROVE  OnGrid(Scrolled(c, fill))
<1> DEFINE S == {c[i] : i \in 1 .. Cells} \cup {fill}
           new == [i \in 1 .. Cols |-> fill]
           old == SubSeq(c, Cols + 1, Cells)
<1>1. c \in Seq(S) /\ Len(c) = Cells
  <2>1. c \in [1 .. Cells -> S]
    BY DEF OnGrid
  <2> QED
    BY <2>1, Geometry
<1>2. new \in Seq(S) /\ Len(new) = Cols
  <2>1. new \in [1 .. Cols -> S]
    OBVIOUS
  <2> QED
    BY <2>1, Geometry
<1>3. old \in Seq(S) /\ Len(old) = Cells - Cols
  <2>1. \A i \in (Cols + 1) .. Cells : i \in 1 .. Len(c)
    BY <1>1, Geometry
  <2> QED
    BY <1>1, <2>1, Geometry, SubSeqProperties
<1> HIDE DEF S, new, old
<1>4. old \o new \in Seq(S) /\ Len(old \o new) = Cells
  BY <1>2, <1>3, Geometry, ConcatProperties
<1>5. old \o new = [i \in 1 .. Cells |-> (old \o new)[i]]
  <2> DEFINE all == old \o new
  <2>1. all \in [1 .. Cells -> S]
    BY <1>4, LenProperties
  <2> HIDE DEF all
  <2>2. all = [i \in 1 .. Cells |-> all[i]]
    BY <2>1
  <2> QED
    BY <2>2 DEF all
<1> QED
  BY <1>5 DEF OnGrid, Scrolled, old, new

\* The position after a character is a number, at most one cell on unless the
\* character ends the row.
LEMMA AfterPlace ==
    ASSUME NEW ch, NEW pos \in Nat
    PROVE  After(ch, pos) \in Nat /\ (ch # "newline" => After(ch, pos) = pos + 1)
<1>1. CASE ch = "newline"
  BY <1>1, Places DEF After
<1>2. CASE ch # "newline"
  BY <1>2 DEF After
<1> QED
  BY <1>1, <1>2

\* d is c with ch in the q-th cell.
Written(c, q, ch, d) == /\ OnGrid(d)
                        /\ \A i \in 1 .. Cells : d[i] = IF i = q THEN ch ELSE c[i]

\* Writing one cell leaves a character in every cell.
LEMMA WriteGrid ==
    ASSUME NEW c, NEW ch, NEW q \in 1 .. Cells, OnGrid(c), NEW d, d = [c EXCEPT ![q] = ch]
    PROVE  Written(c, q, ch, d)
<1>1. DOMAIN c = 1 .. Cells
  BY DEF OnGrid
<1>2. d = [i \in 1 .. Cells |-> IF i = q THEN ch ELSE c[i]]
  BY <1>1, Zenon
<1>3. d = [i \in 1 .. Cells |-> d[i]]
  BY <1>2
<1>4. \A i \in 1 .. Cells : d[i] = IF i = q THEN ch ELSE c[i]
  BY <1>2
<1> QED
  BY <1>3, <1>4 DEF OnGrid, Written

\* What the framebuffer draws at pos, when it does not scroll, is the character
\* in its cell and nothing else.
Drawn(s, ch, pos, t) ==
    /\ IsScreen(t)
    /\ ~t.scrolled => /\ ~s.scrolled
                      /\ ch # "newline" /\ pos < Cells =>
                           /\ t.at = pos + 1 /\ pos + 1 < Cells
                           /\ \A i \in 1 .. Cells : t.cells[i] = IF i = pos + 1 THEN ch ELSE s.cells[i]

\* A screen put together from its parts.
LEMMA MakeScreen ==
    ASSUME NEW c, NEW a \in Nat, NEW u \in Nat, NEW b \in BOOLEAN, OnGrid(c), NEW t,
           t = [cells |-> c, at |-> a, cur |-> u, scrolled |-> b]
    PROVE  IsScreen(t) /\ t.cells = c /\ t.at = a /\ t.cur = u /\ t.scrolled = b
<1>1. t.cells = c /\ t.at = a /\ t.cur = u /\ t.scrolled = b
  OBVIOUS
<1> QED
  BY <1>1 DEF IsScreen

\* A screen that has just scrolled.
LEMMA MakeScrolled ==
    ASSUME NEW c, NEW a \in Nat, OnGrid(c), NEW t,
           t = [cells |-> c, at |-> a, cur |-> a, scrolled |-> TRUE]
    PROVE  IsScreen(t) /\ t.scrolled = TRUE
<1>1. t.cells = c /\ t.at = a /\ t.cur = a
  OBVIOUS
<1>2. t.scrolled = TRUE
  OBVIOUS
<1>3. t = [cells |-> t.cells, at |-> t.at, cur |-> t.cur, scrolled |-> t.scrolled]
  OBVIOUS
<1>4. t.scrolled \in BOOLEAN
  BY <1>2
<1> QED
  BY <1>1, <1>2, <1>3, <1>4 DEF IsScreen

\* The framebuffer's print_char.
LEMMA FbPrintChar ==
    ASSUME NEW s, NEW ch, NEW pos \in Nat, IsScreen(s), NEW t, t = fb_console_print_char(s, ch, pos)
    PROVE  Drawn(s, ch, pos, t)
<1> DEFINE next == After(ch, pos)
           drawn == IF ch = "newline" THEN s.cells ELSE draw_glyph(s.cells, ch, pos)
           last == get_offset(get_vga_offset_col(next), Rows - 1)
<1>1. next \in Nat /\ last \in Nat /\ (ch # "newline" => next = pos + 1)
  BY AfterPlace, Places
<1>2. OnGrid(s.cells) /\ s.scrolled \in BOOLEAN
  BY DEF IsScreen
<1>3. OnGrid(drawn)
  <2>1. CASE ch # "newline" /\ pos < Cells
    <3>1. drawn = [s.cells EXCEPT ![pos + 1] = ch] /\ pos + 1 \in 1 .. Cells
      BY <2>1, Geometry DEF draw_glyph
    <3> HIDE DEF drawn
    <3>2. Written(s.cells, pos + 1, ch, drawn)
      BY <3>1, <1>2, WriteGrid, Zenon
    <3> QED
      BY <3>2 DEF Written
  <2>2. CASE ~(ch # "newline" /\ pos < Cells)
    BY <2>2, <1>2 DEF draw_glyph
  <2> QED
    BY <2>1, <2>2
<1>4. ch # "newline" /\ pos < Cells => \A i \in 1 .. Cells : drawn[i] = IF i = pos + 1 THEN ch ELSE s.cells[i]
  <2>1. SUFFICES ASSUME ch # "newline", pos < Cells
                 PROVE  \A i \in 1 .. Cells : drawn[i] = IF i = pos + 1 THEN ch ELSE s.cells[i]
    OBVIOUS
  <2>2. drawn = [s.cells EXCEPT ![pos + 1] = ch] /\ pos + 1 \in 1 .. Cells
    BY <2>1, Geometry DEF draw_glyph
  <2> HIDE DEF drawn
  <2>3. Written(s.cells, pos + 1, ch, drawn)
    BY <2>2, <1>2, WriteGrid, Zenon
  <2> QED
    BY <2>3 DEF Written
<1>5. t = IF next >= Cells
            THEN [cells |-> Scrolled(drawn, Blank), at |-> last, cur |-> last, scrolled |-> TRUE]
            ELSE [cells |-> drawn, at |-> next, cur |-> next, scrolled |-> s.scrolled]
  BY DEF fb_console_print_char
<1> HIDE DEF next, drawn, last
<1>6. CASE next >= Cells
  <2>1. t = [cells |-> Scrolled(drawn, Blank), at |-> last, cur |-> last, scrolled |-> TRUE]
    BY <1>5, <1>6
  <2>2. OnGrid(Scrolled(drawn, Blank))
    BY <1>3, ScrolledGrid
  <2>3. IsScreen(t) /\ t.scrolled = TRUE
    BY <2>1, <2>2, <1>1, MakeScrolled, Zenon
  <2> QED
    BY <2>3 DEF Drawn
<1>7. CASE ~(next >= Cells)
  <2>1. t = [cells |-> drawn, at |-> next, cur |-> next, scrolled |-> s.scrolled]
    BY <1>5, <1>7
  <2>2. IsScreen(t) /\ t.cells = drawn /\ t.at = next /\ t.scrolled = s.scrolled
    BY <2>1, <1>1, <1>2, <1>3, MakeScreen
  <2>3. ch # "newline" => t.at = pos + 1 /\ pos + 1 < Cells
    BY <2>2, <1>1, <1>7, Geometry
  <2> QED
    BY <2>2, <2>3, <1>4 DEF Drawn
<1> QED
  BY <1>6, <1>7

\* print_char on both consoles.
LEMMA PrintChar ==
    ASSUME NEW s, NEW ch, NEW pos \in Nat, IsScreen(s), NEW t, t = print_char(s, ch, pos)
    PROVE  Drawn(s, ch, pos, t)
<1> DEFINE next == After(ch, pos)
           drawn == IF ch = "newline" THEN s.cells ELSE [s.cells EXCEPT ![pos + 1] = ch]
<1>1. next \in Nat /\ (ch # "newline" => next = pos + 1)
  BY AfterPlace
<1>2. OnGrid(s.cells) /\ s.scrolled \in BOOLEAN /\ s.cur \in Nat
  BY DEF IsScreen
<1>3. CASE Framebuffer
  <2>1. t = fb_console_print_char(s, ch, pos)
    BY <1>3 DEF print_char
  <2> QED
    BY <2>1, FbPrintChar
<1>4. CASE ~Framebuffer /\ pos >= Cells
  <2> DEFINE e == [s.cells EXCEPT ![Cells] = "E"]
  <2>1. t = [s EXCEPT !.cells[Cells] = "E", !.at = pos]
    BY <1>4 DEF print_char
  <2>2. t = [cells |-> e, at |-> pos, cur |-> s.cur, scrolled |-> s.scrolled]
    BY <2>1 DEF IsScreen
  <2>3. e = [s.cells EXCEPT ![Cells] = "E"] /\ Cells \in 1 .. Cells
    BY Geometry
  <2> HIDE DEF e
  <2>5. OnGrid(e)
    <3>1. Written(s.cells, Cells, "E", e)
      BY <1>2, <2>3, WriteGrid, Zenon
    <3> QED
      BY <3>1 DEF Written
  <2>4. IsScreen(t) /\ t.scrolled = s.scrolled
    BY <2>2, <2>5, <1>2, MakeScreen
  <2> QED
    BY <2>4, <1>4, Geometry DEF Drawn
<1>5. CASE ~Framebuffer /\ pos < Cells
  <2>1. pos + 1 \in 1 .. Cells
    BY <1>5, Geometry
  <2>2. OnGrid(drawn)
        /\ (ch # "newline" => \A i \in 1 .. Cells : drawn[i] = IF i = pos + 1 THEN ch ELSE s.cells[i])
    <3>1. CASE ch = "newline"
      BY <3>1, <1>2
    <3>2. CASE ch # "newline"
      <4>1. drawn = [s.cells EXCEPT ![pos + 1] = ch]
        BY <3>2
      <4> HIDE DEF drawn
      <4>2. Written(s.cells, pos + 1, ch, drawn)
        BY <4>1, <1>2, <2>1, WriteGrid, Zenon
      <4> QED
        BY <4>2 DEF Written
    <3> QED
      BY <3>1, <3>2
  <2>4. t = IF next >= Cells
              THEN [cells |-> Scrolled(drawn, Nul), at |-> next - Cols, cur |-> next - Cols,
                    scrolled |-> TRUE]
              ELSE [cells |-> drawn, at |-> next, cur |-> next, scrolled |-> s.scrolled]
    BY <1>5, Geometry DEF print_char
  <2> HIDE DEF next, drawn
  <2>5. CASE next >= Cells
    <3>1. t = [cells |-> Scrolled(drawn, Nul), at |-> next - Cols, cur |-> next - Cols,
               scrolled |-> TRUE]
      BY <2>4, <2>5
    <3>2. OnGrid(Scrolled(drawn, Nul)) /\ next - Cols \in Nat
      BY <2>2, <2>5, <1>1, Geometry, ScrolledGrid
    <3>3. IsScreen(t) /\ t.scrolled = TRUE
      BY <3>1, <3>2, MakeScrolled, Zenon
    <3> QED
      BY <3>3 DEF Drawn
  <2>6. CASE ~(next >= Cells)
    <3>1. t = [cells |-> drawn, at |-> next, cur |-> next, scrolled |-> s.scrolled]
      BY <2>4, <2>6
    <3>2. IsScreen(t) /\ t.cells = drawn /\ t.at = next /\ t.scrolled = s.scrolled
      BY <3>1, <1>1, <1>2, <2>2, MakeScreen
    <3>3. ch # "newline" => t.at = pos + 1 /\ pos + 1 < Cells
      BY <3>2, <1>1, <2>6, Geometry
    <3> QED
      BY <3>2, <3>3, <2>2 DEF Drawn
  <2> QED
    BY <2>5, <2>6
<1> QED
  BY <1>3, <1>4, <1>5, Geometry

-----------------------------------------------------------------------------
\* t is s after n characters of msg were printed from cell p on.
Wrote(s, msg, p, n, t) ==
    /\ IsScreen(t)
    /\ ~t.scrolled =>
         /\ ~s.scrolled
         /\ t.at = p + n /\ p + n < Cells
         /\ \A i \in 1 .. Cells : t.cells[i] = IF i > p /\ i <= p + n THEN msg[i - p] ELSE s.cells[i]

\* Setting the position changes nothing else of a screen.
LEMMA Positioned ==
    ASSUME NEW s, NEW p \in Nat, IsScreen(s), NEW t, t = [s EXCEPT !.at = p]
    PROVE  IsScreen(t) /\ t.cells = s.cells /\ t.at = p /\ t.cur = s.cur /\ t.scrolled = s.scrolled
<1>1. t = [cells |-> s.cells, at |-> p, cur |-> s.cur, scrolled |-> s.scrolled]
  BY DEF IsScreen
<1>2. OnGrid(s.cells) /\ s.cur \in Nat /\ s.scrolled \in BOOLEAN
  BY DEF IsScreen
<1>3. t.scrolled = s.scrolled
  BY <1>1
<1>4. t.cells = s.cells /\ t.at = p /\ t.cur = s.cur
  BY <1>1
<1>5. t = [cells |-> t.cells, at |-> t.at, cur |-> t.cur, scrolled |-> t.scrolled]
  BY <1>1
<1>6. t.scrolled \in BOOLEAN
  BY <1>2, <1>3
<1>7. IsScreen(t)
  BY <1>2, <1>4, <1>5, <1>6 DEF IsScreen
<1> QED
  BY <1>3, <1>4, <1>7, Zenon

\* One more character of msg.
LEMMA WroteNext ==
    ASSUME NEW s, NEW msg, NEW p \in Nat, NEW j \in Nat, j > 0, msg[j] # "newline",
           NEW r, Wrote(s, msg, p, j - 1, r), NEW t, t = print_next(r, msg[j])
    PROVE  Wrote(s, msg, p, j, t)
<1>1. IsScreen(r) /\ r.at \in Nat
  BY DEF Wrote, IsScreen
<1>2. t = print_char(r, msg[j], r.at)
  BY DEF print_next
<1>3. Drawn(r, msg[j], r.at, t)
  BY <1>1, <1>2, PrintChar, Zenon
<1>4. IsScreen(t)
  BY <1>3 DEF Drawn
<1>5. ASSUME ~t.scrolled
      PROVE  /\ ~s.scrolled
             /\ t.at = p + j /\ p + j < Cells
             /\ \A i \in 1 .. Cells : t.cells[i] = IF i > p /\ i <= p + j THEN msg[i - p] ELSE s.cells[i]
  <2>1. ~r.scrolled
    BY <1>3, <1>5 DEF Drawn
  <2>2. ~s.scrolled /\ r.at = p + (j - 1) /\ p + (j - 1) < Cells
    BY <2>1 DEF Wrote
  <2>3. \A i \in 1 .. Cells :
          r.cells[i] = IF i > p /\ i <= p + (j - 1) THEN msg[i - p] ELSE s.cells[i]
    BY <2>1 DEF Wrote
  <2>4. /\ t.at = r.at + 1 /\ r.at + 1 < Cells
        /\ \A i \in 1 .. Cells : t.cells[i] = IF i = r.at + 1 THEN msg[j] ELSE r.cells[i]
    BY <1>3, <1>5, <2>2 DEF Drawn
  <2>5. ASSUME NEW i \in 1 .. Cells
        PROVE  t.cells[i] = IF i > p /\ i <= p + j THEN msg[i - p] ELSE s.cells[i]
    <3>1. CASE i = p + j
      BY <3>1, <2>2, <2>4
    <3>2. CASE i # p + j
      BY <3>2, <2>2, <2>3, <2>4, Geometry
    <3> QED
      BY <3>1, <3>2
  <2> QED
    BY <2>2, <2>4, <2>5
<1> QED
  BY <1>4, <1>5 DEF Wrote

\* kprint_at on one row or many: as long as it does not scroll, the characters
\* of a line of n are in the n cells from p on, and no other cell changed.
LEMMA KprintAt ==
    ASSUME NEW s, NEW msg, NEW p \in Nat, IsScreen(s), p < Cells, Len(msg) \in Nat,
           \A j \in 1 .. Len(msg) : msg[j] # "newline",
           NEW t, t = kprint_at(s, msg, p)
    PROVE  Wrote(s, msg, p, Len(msg), t)
<1>0. PICK f : PrintLoop(s, msg, p, f)
  BY PrintedUnfold, Zenon
<1>1. /\ f[0] = [s EXCEPT !.at = p] /\ f[Len(msg)] = kprint_at(s, msg, p)
      /\ \A j \in 1 .. Len(msg) : f[j] = print_next(f[j - 1], msg[j])
  BY <1>0 DEF PrintLoop
<1> DEFINE T == {j \in 0 .. Len(msg) : Wrote(s, msg, p, j, f[j])}
<1>2. 0 \in T
  <2> DEFINE r == f[0]
  <2>1. IsScreen(r) /\ r.cells = s.cells /\ r.at = p /\ r.scrolled = s.scrolled
    BY <1>1, Positioned
  <2> HIDE DEF r
  <2>2. Wrote(s, msg, p, 0, r)
    BY <2>1 DEF Wrote
  <2> QED
    BY <2>2 DEF r
<1>3. ASSUME NEW j \in 1 .. Len(msg), j - 1 \in T PROVE j \in T
  <2>1. j \in Nat /\ j > 0 /\ msg[j] # "newline" /\ Wrote(s, msg, p, j - 1, f[j - 1])
    BY <1>3
  <2>2. f[j] = print_next(f[j - 1], msg[j])
    BY <1>1
  <2>3. Wrote(s, msg, p, j, f[j])
    BY <2>1, <2>2, WroteNext, Zenon
  <2> QED
    BY <2>3
<1> HIDE DEF T
<1>4. Len(msg) \in T
  BY <1>2, <1>3, UpTo
<1> QED
  BY <1>1, <1>4 DEF T

\* kprint_at leaves a screen, whatever it prints and wherever.
LEMMA KprintScreen ==
    ASSUME NEW s, NEW msg, NEW p \in Nat, IsScreen(s), Len(msg) \in Nat
    PROVE  IsScreen(kprint_at(s, msg, p))
<1>0. PICK f : PrintLoop(s, msg, p, f)
  BY PrintedUnfold, Zenon
<1>1. /\ f[0] = [s EXCEPT !.at = p] /\ f[Len(msg)] = kprint_at(s, msg, p)
      /\ \A j \in 1 .. Len(msg) : f[j] = print_next(f[j - 1], msg[j])
  BY <1>0 DEF PrintLoop
<1> DEFINE T == {j \in 0 .. Len(msg) : IsScreen(f[j])}
<1>2. 0 \in T
  BY <1>1, Positioned
<1>3. ASSUME NEW j \in 1 .. Len(msg), j - 1 \in T PROVE j \in T
  <2>1. IsScreen(f[j - 1]) /\ f[j - 1].at \in Nat
    BY <1>3 DEF IsScreen
  <2>2. f[j] = print_char(f[j - 1], msg[j], f[j - 1].at)
    BY <1>1 DEF print_next
  <2>3. Drawn(f[j - 1], msg[j], f[j - 1].at, f[j])
    BY <2>1, <2>2, PrintChar, Zenon
  <2> QED
    BY <2>3 DEF Drawn
<1> HIDE DEF T
<1>4. Len(msg) \in T
  BY <1>2, <1>3, UpTo
<1> QED
  BY <1>1, <1>4 DEF T

\* t is s with n cells blanked from p on.
Wiped(s, p, n, t) ==
    /\ IsScreen(t)
    /\ ~t.scrolled =>
         /\ ~s.scrolled
         /\ \A i \in 1 .. Cells : t.cells[i] = IF i > p /\ i <= p + n THEN Blank ELSE s.cells[i]

\* The loop of refresh_command_visual that blanks: as long as it does not
\* scroll, it changes the cells it names and no other.
LEMMA BlankCells ==
    ASSUME NEW s, NEW p \in Nat, NEW n \in Nat, IsScreen(s), p + n <= Cells,
           NEW t, t = blank_cells(s, p, n)
    PROVE  Wiped(s, p, n, t)
<1>0. PICK f : BlankLoop(s, p, n, f)
  BY BlankingUnfold, Zenon
<1>1. /\ f[0] = s /\ f[n] = blank_cells(s, p, n)
      /\ \A j \in 1 .. n : f[j] = kprint_at(f[j - 1], <<Blank>>, p + j - 1)
  BY <1>0 DEF BlankLoop
<1> DEFINE T == {j \in 0 .. n : Wiped(s, p, j, f[j])}
<1>2. 0 \in T
  BY <1>1 DEF Wiped
<1>3. ASSUME NEW j \in 1 .. n, j - 1 \in T PROVE j \in T
  <2> DEFINE r == f[j - 1]
             u == f[j]
             q == p + j - 1
             msg == <<Blank>>
  <2>1. Wiped(s, p, j - 1, r) /\ u = kprint_at(r, msg, q) /\ q = p + (j - 1)
    BY <1>1, <1>3
  <2>2. q \in Nat /\ q < Cells
    BY Geometry
  <2>3. Len(msg) = 1 /\ msg[1] = Blank /\ Blank # "newline"
    BY CharAssumption
  <2> HIDE DEF r, u, q, msg
  <2>4. IsScreen(r)
    BY <2>1 DEF Wiped
  <2>5. Len(msg) \in Nat /\ \A k \in 1 .. Len(msg) : msg[k] # "newline"
    BY <2>3
  <2>6. Wrote(r, msg, q, Len(msg), u)
    BY <2>1, <2>2, <2>4, <2>5, KprintAt, Zenon
  <2>7. IsScreen(u)
    BY <2>6 DEF Wrote
  <2>8. ASSUME ~u.scrolled
        PROVE  /\ ~s.scrolled
               /\ \A i \in 1 .. Cells : u.cells[i] = IF i > p /\ i <= p + j THEN Blank ELSE s.cells[i]
    <3>1. /\ ~r.scrolled
          /\ \A i \in 1 .. Cells : u.cells[i] = IF i > q /\ i <= q + 1 THEN msg[i - q] ELSE r.cells[i]
      BY <2>3, <2>6, <2>8 DEF Wrote
    <3>2. /\ ~s.scrolled
          /\ \A i \in 1 .. Cells :
               r.cells[i] = IF i > p /\ i <= p + (j - 1) THEN Blank ELSE s.cells[i]
      BY <2>1, <3>1 DEF Wiped
    <3>3. ASSUME NEW i \in 1 .. Cells
          PROVE  u.cells[i] = IF i > p /\ i <= p + j THEN Blank ELSE s.cells[i]
      <4>1. CASE i = q + 1
        BY <4>1, <2>1, <2>2, <2>3, <3>1
      <4>2. CASE i # q + 1
        BY <4>2, <2>1, <2>2, <3>1, <3>2, Geometry
      <4> QED
        BY <4>1, <4>2
    <3> QED
      BY <3>2, <3>3
  <2>9. Wiped(s, p, j, u)
    BY <2>7, <2>8 DEF Wiped
  <2> QED
    BY <2>9 DEF u
<1> HIDE DEF T
<1>4. n \in T
  BY <1>2, <1>3, UpTo
<1> QED
  BY <1>1, <1>4 DEF T

\* The loop that blanks leaves a screen, wherever the line starts.
LEMMA BlankScreen ==
    ASSUME NEW s, NEW p \in Nat, NEW n \in Nat, IsScreen(s)
    PROVE  IsScreen(blank_cells(s, p, n))
<1>0. PICK f : BlankLoop(s, p, n, f)
  BY BlankingUnfold, Zenon
<1>1. /\ f[0] = s /\ f[n] = blank_cells(s, p, n)
      /\ \A j \in 1 .. n : f[j] = kprint_at(f[j - 1], <<Blank>>, p + j - 1)
  BY <1>0 DEF BlankLoop
<1> DEFINE T == {j \in 0 .. n : IsScreen(f[j])}
<1>2. 0 \in T
  BY <1>1
<1>3. ASSUME NEW j \in 1 .. n, j - 1 \in T PROVE j \in T
  <2>1. IsScreen(f[j - 1]) /\ p + j - 1 \in Nat /\ Len(<<Blank>>) \in Nat
    BY <1>3
  <2>2. IsScreen(kprint_at(f[j - 1], <<Blank>>, p + j - 1))
    BY <2>1, KprintScreen, Zenon
  <2> QED
    BY <1>1, <2>2
<1> HIDE DEF T
<1>4. n \in T
  BY <1>2, <1>3, UpTo
<1> QED
  BY <1>1, <1>4 DEF T

\* set_cursor_offset: a cell of the screen is where the cursor then is.
LEMMA CursorPlace ==
    ASSUME NEW p \in Nat
    PROVE  Cursor(p) \in Nat /\ (p < Cells => Cursor(p) = p)
<1>1. CASE Framebuffer
  BY <1>1, Places, Geometry DEF Cursor
<1>2. CASE ~Framebuffer
  <2>1. CurMod \in Nat /\ CurMod > 0 /\ Cells < CurMod
    BY ScreenAssumption, Geometry DEF Cells
  <2>2. Cursor(p) = p % CurMod
    BY <1>2 DEF Cursor
  <2>3. p % CurMod \in Nat
    BY <2>1
  <2>4. ASSUME p < Cells PROVE p % CurMod = p
    BY <2>1, <2>4, Geometry
  <2> QED
    BY <2>2, <2>3, <2>4
<1> QED
  BY <1>1, <1>2

-----------------------------------------------------------------------------
(***************************************************************************)
(* The inductive invariant: the text is terminated, the line is visible,   *)
(* every cell holds a character and the cursor's places are numbers.       *)
(***************************************************************************)
VisibleInv == /\ LineInv /\ LineVisible
              /\ OnGrid(cells)
              /\ vcur \in Nat /\ cmd_start_offset \in Nat /\ lost \in BOOLEAN

\* The console as it is.
LEMMA ScreenIs ==
    ASSUME VisibleInv
    PROVE  /\ IsScreen(Screen) /\ Screen.cells = cells
           /\ Screen.cur = vcur /\ Screen.scrolled = FALSE
<1>1. Screen = [cells |-> cells, at |-> vcur, cur |-> vcur, scrolled |-> FALSE]
  BY DEF Screen
<1>2. Screen.cells = cells /\ Screen.at = vcur /\ Screen.cur = vcur
  BY <1>1
<1>3. Screen.scrolled = FALSE
  BY <1>1
<1>4. Screen = [cells |-> Screen.cells, at |-> Screen.at, cur |-> Screen.cur,
                scrolled |-> Screen.scrolled]
  BY <1>1
<1>5. Screen.scrolled \in BOOLEAN
  BY <1>3
<1>6. IsScreen(Screen)
  BY <1>2, <1>4, <1>5 DEF IsScreen, VisibleInv
<1> QED
  BY <1>2, <1>3, <1>6, Zenon

\* What the console shows of a line cmd of len characters with the cursor at cur.
Shows(cmd, cur, len) ==
    /\ OnGrid(cells)' /\ vcur' \in Nat /\ lost' \in BOOLEAN
    /\ ~lost' => /\ ~lost
                 /\ cmd_start_offset + len < Cells
                 /\ \A i \in 0 .. len - 1 : cells'[cmd_start_offset + i + 1] = cmd[i]
                 /\ fresh => Clean(cells', cmd_start_offset + len)
                 /\ vcur' = cmd_start_offset + cur

\* refresh_command_visual draws the line, wipes what was after it and puts the
\* cursor back, or the screen scrolled.
LEMMA RefreshShows ==
    ASSUME VisibleInv, NEW cmd, NEW cur \in Nat, NEW len \in Nat, NEW prev, prev = cmd_len,
           cur <= len, \A i \in 0 .. len - 1 : cmd[i] \in Char,
           refresh_command_visual(cmd, cur, len, prev)
    PROVE  Shows(cmd, cur, len)
<1> DEFINE line == [i \in 1 .. len |-> cmd[i - 1]]
           start == cmd_start_offset
           s1 == kprint_at(Screen, line, start)
           s2 == IF prev > len THEN blank_cells(s1, start + len, prev - len) ELSE s1
           s3 == [s2 EXCEPT !.cur = Cursor(start + cur)]
<1>1. start \in Nat /\ prev \in Nat /\ OnGrid(cells) /\ lost \in BOOLEAN
  BY Bounds DEF VisibleInv
<1>2. Len(line) = len /\ \A j \in 1 .. len : line[j] # "newline" /\ line[j] = cmd[j - 1]
  BY CharAssumption
<1>3. Show(s3)
  BY DEF refresh_command_visual
<1> HIDE DEF line, s1, s2
<1>4. IsScreen(s1)
  BY <1>1, <1>2, ScreenIs, KprintScreen, Zenon DEF s1
<1>5. IsScreen(s2)
  <2>1. CASE prev > len
    <3>1. start + len \in Nat /\ prev - len \in Nat
      BY <1>1, <2>1
    <3>2. IsScreen(blank_cells(s1, start + len, prev - len))
      BY <1>4, <3>1, BlankScreen, Zenon
    <3> QED
      BY <2>1, <3>2 DEF s2
  <2>2. CASE ~(prev > len)
    BY <2>2, <1>4 DEF s2
  <2> QED
    BY <2>1, <2>2
<1>6. cells' = s2.cells /\ vcur' = Cursor(start + cur)
  BY <1>3, <1>5 DEF Show, IsScreen
<1>7. lost' = (lost \/ s2.scrolled)
  <2>1. s3.scrolled = s2.scrolled
    BY <1>5 DEF IsScreen
  <2> QED
    BY <1>3, <2>1 DEF Show
<1>8. OnGrid(cells)' /\ vcur' \in Nat /\ lost' \in BOOLEAN
  <2>1. OnGrid(cells')
    BY <1>5, <1>6 DEF IsScreen
  <2>2. vcur' \in Nat
    BY <1>1, <1>6, CursorPlace
  <2>3. lost' \in BOOLEAN
    BY <1>7, <1>5, <1>1 DEF IsScreen
  <2> QED
    BY <2>1, <2>2, <2>3 DEF OnGrid
<1>9. ASSUME ~lost'
      PROVE  /\ ~lost
             /\ start + len < Cells
             /\ \A i \in 0 .. len - 1 : cells'[start + i + 1] = cmd[i]
             /\ fresh => Clean(cells', start + len)
             /\ vcur' = start + cur
  <2>1. ~lost /\ ~s2.scrolled
    BY <1>7, <1>9
  <2>2. /\ start + prev < Cells
        /\ fresh => Clean(cells, start + prev)
    BY <2>1 DEF VisibleInv, LineVisible
  <2>3. start < Cells
    BY <2>2, <1>1, Geometry
  <2>4. Wrote(Screen, line, start, len, s1)
    BY <1>1, <1>2, <2>3, ScreenIs, KprintAt, Zenon DEF s1
  <2>5. /\ ~s1.scrolled
        /\ \A i \in 1 .. Cells : cells'[i] = IF prev > len /\ i > start + len /\ i <= start + prev
                                               THEN Blank ELSE s1.cells[i]
    <3>1. CASE prev > len
      <4>1. start + len \in Nat /\ prev - len \in Nat /\ start + len + (prev - len) <= Cells
        BY <1>1, <2>2, <3>1, Geometry
      <4>2. s2 = blank_cells(s1, start + len, prev - len)
        BY <3>1 DEF s2
      <4>3. Wiped(s1, start + len, prev - len, s2)
        BY <4>1, <4>2, <1>4, BlankCells, Zenon
      <4>4. /\ ~s1.scrolled
            /\ \A i \in 1 .. Cells :
                 s2.cells[i] = IF i > start + len /\ i <= start + len + (prev - len)
                                 THEN Blank ELSE s1.cells[i]
        BY <4>3, <2>1 DEF Wiped
      <4>5. start + len + (prev - len) = start + prev
        BY <1>1
      <4> QED
        BY <3>1, <4>4, <4>5, <1>6
    <3>2. CASE ~(prev > len)
      BY <3>2, <2>1, <1>6 DEF s2
    <3> QED
      BY <3>1, <3>2
  <2>6. /\ start + len < Cells
        /\ \A i \in 1 .. Cells : s1.cells[i] = IF i > start /\ i <= start + len THEN line[i - start]
                                               ELSE Screen.cells[i]
    BY <2>4, <2>5 DEF Wrote
  <2>7. ASSUME NEW i \in 0 .. len - 1 PROVE cells'[start + i + 1] = cmd[i]
    <3>1. start + i + 1 \in 1 .. Cells /\ start + i + 1 > start /\ start + i + 1 <= start + len
      BY <1>1, <2>6, Geometry
    <3>2. cells'[start + i + 1] = s1.cells[start + i + 1]
      BY <3>1, <2>5, <1>1
    <3>3. (start + i + 1) - start = i + 1 /\ i + 1 \in 1 .. len /\ (i + 1) - 1 = i
      BY <1>1
    <3>4. s1.cells[start + i + 1] = line[i + 1]
      BY <3>1, <3>3, <2>6
    <3> QED
      BY <3>2, <3>3, <3>4, <1>2
  <2>8. ASSUME fresh PROVE Clean(cells', start + len)
    <3>1. SUFFICES ASSUME NEW i \in (start + len) .. (Cells - 1) PROVE cells'[i + 1] \in {Blank, Nul}
      BY DEF Clean
    <3>2. i + 1 \in 1 .. Cells /\ i + 1 > start + len
      BY <1>1, Geometry
    <3>3. s1.cells[i + 1] = cells[i + 1]
      BY <3>2, <2>6, <1>1, ScreenIs
    <3>4. CASE i + 1 <= start + prev
      BY <3>2, <3>4, <2>5, <1>1
    <3>5. CASE ~(i + 1 <= start + prev)
      <4>1. i \in (start + prev) .. (Cells - 1)
        BY <3>5, <1>1, Geometry
      <4>2. cells[i + 1] \in {Blank, Nul}
        BY <4>1, <2>2, <2>8 DEF Clean
      <4> QED
        BY <4>2, <3>2, <3>3, <3>5, <2>5
    <3> QED
      BY <3>4, <3>5
  <2>9. vcur' = start + cur
    BY <1>1, <1>6, <2>6, CursorPlace, Geometry
  <2> QED
    BY <2>1, <2>6, <2>7, <2>8, <2>9
<1> QED
  BY <1>8, <1>9 DEF Shows

\* A key that redrew the line left it visible.
LEMMA ShownVisible ==
    ASSUME LineInv', cmd_start_offset \in Nat, UNCHANGED <<cmd_start_offset, fresh>>,
           Shows(command', cmd_cursor', cmd_len')
    PROVE  VisibleInv'
<1>1. OnGrid(cells)' /\ vcur' \in Nat /\ lost' \in BOOLEAN /\ cmd_start_offset' \in Nat
  BY DEF Shows
<1>2. LineVisible'
  <2>1. SUFFICES ASSUME ~lost'
                 PROVE  /\ cmd_start_offset' + cmd_len' < Cells
                        /\ \A i \in 0 .. cmd_len' - 1 : cells'[cmd_start_offset' + i + 1] = command'[i]
                        /\ fresh' => Clean(cells', cmd_start_offset' + cmd_len')
                        /\ vcur' = cmd_start_offset' + cmd_cursor'
    BY DEF LineVisible, Clean, Cells
  <2> QED
    BY <2>1 DEF Shows
<1> QED
  BY <1>1, <1>2 DEF VisibleInv, OnGrid

\* Taking a character out keeps the line visible.
LEMMA EraseVisible ==
    ASSUME VisibleInv, NEW p \in 0 .. cmd_len - 1, Erase(p), UNCHANGED <<cmd_start_offset, fresh>>
    PROVE  VisibleInv'
<1>1. LineInv /\ cmd_start_offset \in Nat
  BY DEF VisibleInv
<1>2. LineInv'
  BY <1>1, EraseInv DEF Erase, Erasing
<1>3. /\ p \in Nat /\ cmd_len - 1 \in Nat /\ p <= cmd_len - 1
      /\ command' = delete_at(p) /\ cmd_len' = cmd_len - 1 /\ cmd_cursor' = p
  BY <1>1, Bounds DEF Erase
<1>4. \A i \in 0 .. cmd_len' - 1 : command'[i] \in Char
  BY <1>2 DEF LineInv
<1>5. refresh_command_visual(command', p, cmd_len - 1, cmd_len)
  BY <1>3 DEF Erase
<1>6. Shows(command', p, cmd_len - 1)
  BY <1>3, <1>4, <1>5, RefreshShows
<1> QED
  BY <1>1, <1>2, <1>3, <1>6, ShownVisible

\* Moving the cursor keeps the line visible.
LEMMA MoveVisible ==
    ASSUME VisibleInv, NEW p \in 0 .. cmd_len, MoveTo(p), UNCHANGED <<cmd_start_offset, fresh>>
    PROVE  VisibleInv'
<1>1. LineInv /\ cmd_start_offset \in Nat /\ OnGrid(cells) /\ lost \in BOOLEAN /\ cmd_len \in Nat
  BY Bounds DEF VisibleInv
<1>2. /\ cmd_cursor' = p /\ vcur' = Cursor(cmd_start_offset + p)
      /\ UNCHANGED <<command, cmd_len, cells, lost>>
  BY DEF MoveTo, set_cursor_offset
<1>3. LineInv'
  BY <1>1, <1>2 DEF LineInv
<1>4. vcur' \in Nat
  BY <1>1, <1>2, CursorPlace
<1>5. ASSUME ~lost
      PROVE  /\ cmd_start_offset + cmd_len < Cells
             /\ \A i \in 0 .. cmd_len - 1 : cells[cmd_start_offset + i + 1] = command[i]
             /\ fresh => Clean(cells, cmd_start_offset + cmd_len)
             /\ vcur' = cmd_start_offset + p
  <2>1. /\ cmd_start_offset + cmd_len < Cells
        /\ \A i \in 0 .. cmd_len - 1 : cells[cmd_start_offset + i + 1] = command[i]
        /\ fresh => Clean(cells, cmd_start_offset + cmd_len)
    BY <1>5 DEF VisibleInv, LineVisible
  <2>2. cmd_start_offset + p < Cells
    BY <1>1, <2>1, Geometry
  <2> QED
    BY <1>1, <1>2, <2>1, <2>2, CursorPlace
<1>6. Shows(command', cmd_cursor', cmd_len')
  BY <1>1, <1>2, <1>4, <1>5 DEF Shows, OnGrid
<1> QED
  BY <1>1, <1>3, <1>6, ShownVisible

\* Putting a character in keeps the line visible.
LEMMA CharVisible ==
    ASSUME VisibleInv, NEW c \in Char, key_char(c), cmd_len < MaxLen - 1,
           UNCHANGED <<cmd_start_offset, fresh>>
    PROVE  VisibleInv'
<1>1. LineInv /\ cmd_start_offset \in Nat /\ cmd_len \in Nat /\ cmd_cursor \in Nat
      /\ cmd_cursor <= cmd_len /\ MaxLen \in Nat
  BY Bounds DEF VisibleInv
<1>2. /\ Inserting(c)
      /\ refresh_command_visual([insert_at(cmd_cursor, c) EXCEPT ![cmd_len + 1] = Nul],
                                cmd_cursor + 1, cmd_len + 1, cmd_len)
  BY <1>1 DEF key_char, Inserting
<1>3. LineInv'
  BY <1>1, <1>2, InsertInv
<1>4. /\ command' = [insert_at(cmd_cursor, c) EXCEPT ![cmd_len + 1] = Nul]
      /\ cmd_len' = cmd_len + 1 /\ cmd_cursor' = cmd_cursor + 1
  BY <1>2 DEF Inserting
<1>5. refresh_command_visual(command', cmd_cursor + 1, cmd_len + 1, cmd_len)
  BY <1>2, <1>4, Zenon
<1>6. \A i \in 0 .. (cmd_len + 1) - 1 : command'[i] \in Char
  BY <1>3, <1>4 DEF LineInv
<1>7. cmd_cursor + 1 \in Nat /\ cmd_len + 1 \in Nat /\ cmd_cursor + 1 <= cmd_len + 1
  BY <1>1
<1>8. Shows(command', cmd_cursor + 1, cmd_len + 1)
  BY <1>5, <1>6, <1>7, RefreshShows, Zenon
<1>9. Shows(command', cmd_cursor', cmd_len')
  BY <1>4, <1>8, Zenon
<1> QED
  BY <1>1, <1>3, <1>9, ShownVisible

\* A step that touches neither the text nor the screen keeps the line visible.
LEMMA StillVisible ==
    ASSUME VisibleInv, UNCHANGED lineVars
    PROVE  VisibleInv'
  BY DEF VisibleInv, lineVars, textVars, LineInv, LineVisible, OnGrid, Clean

\* Every key keeps the line visible.
LEMMA KeyVisible ==
    ASSUME VisibleInv, NEW code, handle_command_line(code)
    PROVE  VisibleInv'
<1>0. /\ LineInv /\ cmd_len \in Nat /\ cmd_cursor \in Nat /\ cmd_cursor <= cmd_len
      /\ command[cmd_len] = Nul /\ MaxLen \in Nat
  BY Bounds DEF VisibleInv
<1>1. UNCHANGED <<cmd_start_offset, fresh>>
  BY DEF handle_command_line
<1>2. CASE UNCHANGED <<textVars, cells, vcur, lost>>
  BY <1>1, <1>2, StillVisible DEF lineVars
<1>3. CASE key_enter
  <2>1. [command EXCEPT ![cmd_len] = Nul] = command
    BY <1>0 DEF LineInv
  <2> QED
    BY <1>2, <1>3, <2>1 DEF key_enter, textVars
<1>4. CASE key_backspace
  <2>1. cmd_cursor > 0 => cmd_cursor - 1 \in 0 .. cmd_len - 1
    BY <1>0
  <2> QED
    BY <1>1, <1>2, <1>4, <2>1, EraseVisible DEF key_backspace
<1>5. CASE key_delete
  <2>1. cmd_cursor < cmd_len => cmd_cursor \in 0 .. cmd_len - 1
    BY <1>0
  <2> QED
    BY <1>1, <1>2, <1>5, <2>1, EraseVisible DEF key_delete
<1>6. CASE key_left \/ key_right \/ key_home \/ key_end
  <2>1. PICK p \in 0 .. cmd_len : MoveTo(p)
    BY <1>0, <1>6 DEF key_left, key_right, key_home, key_end
  <2> QED
    BY <1>1, <2>1, MoveVisible
<1>7. ASSUME code \in Char, key_char(code) PROVE VisibleInv'
  <2>1. CASE cmd_len >= MaxLen - 1
    BY <1>2, <1>7, <2>1 DEF key_char
  <2>2. CASE ~(cmd_len >= MaxLen - 1)
    BY <1>0, <1>1, <1>7, <2>2, CharVisible
  <2> QED
    BY <2>1, <2>2
<1> QED
  BY <1>2, <1>3, <1>4, <1>5, <1>6, <1>7 DEF handle_command_line

\* A prompt starts a visible line: the cursor is where the prompt left it.
LEMMA PromptVisible ==
    ASSUME VisibleInv, NEW msg \in Messages, prompt(msg)
    PROVE  VisibleInv'
<1> DEFINE said == Append(msg, ">")
           s == kprint(Screen, said)
<1>1. Len(said) \in Nat
  <2> DEFINE S == {msg[j] : j \in DOMAIN msg}
  <2>1. msg \in Seq(S)
    BY MessagesAssumption
  <2> HIDE DEF S
  <2>2. msg \in Seq(S \cup {">"}) /\ ">" \in S \cup {">"}
    BY <2>1
  <2>3. said \in Seq(S \cup {">"})
    BY <2>2
  <2> HIDE DEF said
  <2> QED
    BY <2>3
<1>2. LineInv /\ vcur \in Nat
  BY DEF VisibleInv
<1> HIDE DEF said
<1>3. IsScreen(s)
  BY <1>1, <1>2, ScreenIs, KprintScreen DEF kprint
<1>4. /\ cells' = s.cells /\ vcur' = s.cur
      /\ lost' = (s.cur >= Cells)
      /\ fresh' = (s.cur < Cells /\ Clean(s.cells, s.cur))
      /\ cmd_start_offset' = s.cur
      /\ Clearing
  BY DEF prompt, init_command_line, flush_command_line, Clearing, said
<1> HIDE DEF s
<1>5. LineInv'
  <2>1. command' \in [Pos -> Char \cup {Nul}] /\ 0 \in Pos /\ command'[0] = Nul
    BY <1>2, <1>4, MaxLenAssumption DEF Clearing, LineInv, Pos
  <2>2. cmd_len' = 0 /\ cmd_cursor' = 0
    BY <1>4 DEF Clearing
  <2> QED
    BY <2>1, <2>2 DEF LineInv
<1>6. OnGrid(cells)' /\ vcur' \in Nat /\ cmd_start_offset' \in Nat /\ lost' \in BOOLEAN
  BY <1>3, <1>4 DEF IsScreen, OnGrid
<1>7. ASSUME ~lost'
      PROVE  /\ cmd_start_offset' + cmd_len' < Cells
             /\ \A i \in 0 .. cmd_len' - 1 : cells'[cmd_start_offset' + i + 1] = command'[i]
             /\ fresh' => Clean(cells', cmd_start_offset' + cmd_len')
             /\ vcur' = cmd_start_offset' + cmd_cursor'
  <2>1. cmd_len' = 0 /\ cmd_cursor' = 0 /\ s.cur \in Nat /\ s.cur + 0 = s.cur
    BY <1>3, <1>4 DEF Clearing, IsScreen
  <2>2. s.cur < Cells
    <3>1. ~(s.cur >= Cells)
      BY <1>4, <1>7, Zenon
    <3> QED
      BY <3>1, <2>1, Geometry
  <2>3. fresh' => Clean(cells', s.cur)
    BY <1>4
  <2> QED
    BY <1>4, <2>1, <2>2, <2>3
<1>8. LineVisible'
  BY <1>7 DEF LineVisible, Clean, Cells
<1> QED
  BY <1>5, <1>6, <1>8 DEF VisibleInv, OnGrid

\* The invariant holds at the start, on a cleared screen.
LEMMA VisibleInit == LineInit => VisibleInv
<1>1. SUFFICES ASSUME LineInit PROVE VisibleInv
  OBVIOUS
<1>2. LineInv
  BY <1>1, LineInitInv
<1>3. OnGrid(cells)
  BY <1>1 DEF LineInit, OnGrid, clear_screen
<1>4. vcur \in Nat /\ cmd_start_offset \in Nat /\ lost = TRUE
  BY <1>1, ScreenAssumption DEF LineInit
<1> QED
  BY <1>2, <1>3, <1>4 DEF VisibleInv, LineVisible

\* What the editor shows is what it holds: on every console, of any size, with
\* lines of any length and any messages, the cells after the prompt are the text,
\* what was deleted is wiped and the cursor is at the insertion point, unless
\* drawing the line scrolled the screen (refresh_command_visual).
THEOREM LineIsVisible == LineSpec => []LineVisible
<1>1. LineInit => VisibleInv
  BY VisibleInit
<1>2. VisibleInv /\ [LineNext]_lineVars => VisibleInv'
  <2>1. SUFFICES ASSUME VisibleInv, [LineNext]_lineVars PROVE VisibleInv'
    OBVIOUS
  <2>2. CASE \E code \in Codes : handle_command_line(code)
    BY <2>1, <2>2, KeyVisible
  <2>3. CASE \E msg \in Messages : prompt(msg)
    BY <2>1, <2>3, PromptVisible
  <2>4. CASE UNCHANGED lineVars
    BY <2>1, <2>4, StillVisible
  <2> QED
    BY <2>1, <2>2, <2>3, <2>4 DEF LineNext
<1>3. VisibleInv => LineVisible
  BY DEF VisibleInv
<1> QED
  BY <1>1, <1>2, <1>3, PTL DEF LineSpec
=============================================================================
