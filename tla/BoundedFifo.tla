----------------------------- MODULE BoundedFifo -----------------------------
(***************************************************************************)
(* What the keyboard rings of drivers/keyboard/keyboard_common.c promise   *)
(* their reader: a queue of at most Size elements that drops the newest    *)
(* element when it is full, hands the oldest out first and each one once,  *)
(* and is emptied once, when the initialisation of the subsystem ends;     *)
(* nothing is read before that.                                            *)
(***************************************************************************)
EXTENDS Integers, Sequences

CONSTANTS Elem,    \* what is queued
          Size,    \* how many elements fit
          Nothing  \* what a read of the empty queue returns

VARIABLES phase,   \* the subsystem is "starting", or "ready"
          queue,   \* the elements accepted and not yet read, oldest first
          result   \* what the last completed read returned

fifoVars == <<phase, queue, result>>

Init == phase = "starting" /\ queue = << >> /\ result = Nothing

Put(e) == /\ queue' = IF Len(queue) < Size THEN Append(queue, e) ELSE queue
          /\ UNCHANGED <<phase, result>>

Get == /\ phase = "ready" /\ queue # << >>
       /\ result' = Head(queue)
       /\ queue' = Tail(queue)
       /\ UNCHANGED phase

GetNothing == /\ phase = "ready" /\ queue = << >>
              /\ result' = Nothing
              /\ UNCHANGED <<phase, queue>>

Clear == /\ phase = "starting" /\ phase' = "ready"
         /\ queue' = << >>
         /\ UNCHANGED result

Next == (\E e \in Elem : Put(e)) \/ Get \/ GetNothing \/ Clear

Spec == Init /\ [][Next]_fifoVars
=============================================================================
