------------------------------ MODULE LineEdit ------------------------------
(***************************************************************************)
(* What the shell's line editor promises: the text before and after the    *)
(* cursor, edited by the usual keys, never longer than Limit characters.   *)
(***************************************************************************)
EXTENDS Integers, Sequences

CONSTANTS Char, Limit

VARIABLES before, after

editVars == <<before, after>>

Init == before = << >> /\ after = << >>

Insert(c) == /\ Len(before) + Len(after) < Limit
             /\ before' = Append(before, c)
             /\ UNCHANGED after

Backspace == /\ before # << >>
             /\ before' = SubSeq(before, 1, Len(before) - 1)
             /\ UNCHANGED after

Delete == /\ after # << >>
          /\ after' = Tail(after)
          /\ UNCHANGED before

\* The cursor moves: the text is the same, split at another place.
Move == \E n \in 0 .. Len(before) + Len(after) :
           /\ before' = SubSeq(before \o after, 1, n)
           /\ after' = SubSeq(before \o after, n + 1, Len(before) + Len(after))

Clear == before' = << >> /\ after' = << >>

Next == (\E c \in Char : Insert(c)) \/ Backspace \/ Delete \/ Move \/ Clear

Spec == Init /\ [][Next]_editVars
=============================================================================
