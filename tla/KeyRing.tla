------------------------------- MODULE KeyRing -------------------------------
(***************************************************************************)
(* One ring of drivers/keyboard/keyboard_common.c.  The event ring (ev_...)  *)
(* and the character ring (ascii_...) are the same code over another element *)
(* type.  The writer is an interrupt handler: it runs with interrupts off, *)
(* so a push is one step, but it may come between any two instructions of  *)
(* the reader, which runs in the main loop.  The reader is therefore split *)
(* at its memory accesses, in the order the compiled code makes them.      *)
(***************************************************************************)
EXTENDS Integers, Sequences

CONSTANTS Cap,    \* KEYBUF_CAP
          Elem,   \* the non-zero characters, or the events
          Zero    \* the 0 an empty ring returns; push_ascii never queues it

ASSUME CapAssumption == Cap \in Nat /\ Cap > 1
ASSUME ZeroAssumption == Zero \notin Elem

VARIABLES buf, head, tail,
          pc,        \* where the reader is
          blocking,  \* the read was called from kbd_getchar_blocking
          got,       \* the register the slot was loaded into
          ret        \* what the last completed call returned

vars == <<buf, head, tail, pc, blocking, got, ret>>

Index == 0 .. Cap - 1

\* All of the rings' storage is zero when the kernel starts.
Init == /\ buf = [i \in Index |-> Zero]
        /\ head = 0 /\ tail = 0
        /\ pc = "boot"
        /\ blocking = FALSE
        /\ got = Zero /\ ret = Zero

(***************************************************************************)
(* The writer, in interrupt context.  An interrupt also ends a hlt.        *)
(***************************************************************************)
Awake == IF pc = "hlt" THEN "check" ELSE pc

\* Mutant of push: no test for a full ring.
push_unchecked(e) == /\ buf' = [buf EXCEPT ![head] = e]
                     /\ head' = (head + 1) % Cap
                     /\ pc' = Awake
                     /\ UNCHANGED <<tail, blocking, got, ret>>

\* Mutant of push: the head is advanced before the slot is written.
push_advance_first(e) ==
    LET n == (head + 1) % Cap
    IN /\ buf' = IF n # tail THEN [buf EXCEPT ![n] = e] ELSE buf
       /\ head' = IF n # tail THEN n ELSE head
       /\ pc' = Awake
       /\ UNCHANGED <<tail, blocking, got, ret>>

push(e) ==
    LET n == (head + 1) % Cap
    IN /\ buf' = IF n # tail THEN [buf EXCEPT ![head] = e] ELSE buf
       /\ head' = IF n # tail THEN n ELSE head
       /\ pc' = Awake
       /\ UNCHANGED <<tail, blocking, got, ret>>

\* Mutant of timer_irq: the timer is masked and never ends a hlt.
timer_irq_masked == /\ pc = "hlt"
                    /\ UNCHANGED vars

timer_irq == /\ pc = "hlt"
             /\ pc' = Awake
             /\ UNCHANGED <<buf, head, tail, blocking, got, ret>>

(***************************************************************************)
(* kbd_subsystem_init.  USB keyboards are enumerated before it runs, so    *)
(* pushes come before and between its stores to the two indices.           *)
(***************************************************************************)
init_tail == /\ pc = "boot"
             /\ tail' = 0
             /\ pc' = "init"
             /\ UNCHANGED <<buf, head, blocking, got, ret>>

init_head == /\ pc = "init"
             /\ head' = 0
             /\ pc' = "idle"
             /\ UNCHANGED <<buf, tail, blocking, got, ret>>

(***************************************************************************)
(* The reader: kbd_read_event and kbd_read_char poll, kbd_getchar_blocking *)
(* repeats the read and halts the processor while there is nothing.        *)
(***************************************************************************)
call(b) == /\ pc = "idle"
           /\ blocking' = b
           /\ pc' = "check"
           /\ UNCHANGED <<buf, head, tail, got, ret>>

read_empty == /\ pc = "check"
              /\ head = tail
              /\ IF blocking THEN pc' = "empty" /\ UNCHANGED ret
                             ELSE pc' = "idle" /\ ret' = Zero
              /\ UNCHANGED <<buf, head, tail, blocking, got>>

read_found == /\ pc = "check"
              /\ head # tail
              /\ pc' = "load"
              /\ UNCHANGED <<buf, head, tail, blocking, got, ret>>

read_load == /\ pc = "load"
             /\ got' = buf[tail]
             /\ pc' = "advance"
             /\ UNCHANGED <<buf, head, tail, blocking, ret>>

\* "if (c) return c": a blocking read of a zero would go back to the hlt.
read_advance == /\ pc = "advance"
                /\ tail' = (tail + 1) % Cap
                /\ IF blocking /\ got = Zero THEN pc' = "empty" /\ UNCHANGED ret
                                             ELSE pc' = "idle" /\ ret' = got
                /\ UNCHANGED <<buf, head, blocking, got>>

halt == /\ pc = "empty"
        /\ pc' = "hlt"
        /\ UNCHANGED <<buf, head, tail, blocking, got, ret>>

Reader == \/ init_tail \/ init_head
          \/ read_empty \/ read_found \/ read_load \/ read_advance \/ halt

Next == \/ \E e \in Elem : push(e)
        \/ timer_irq
        \/ \E b \in BOOLEAN : call(b)
        \/ Reader

Spec == Init /\ [][Next]_vars

\* Every handler returns, so the main loop goes on; the timer is periodic.
FairSpec == Spec /\ WF_vars(Reader) /\ WF_vars(timer_irq)

-----------------------------------------------------------------------------
PCs == {"boot", "init", "idle", "check", "load", "advance", "empty", "hlt"}

\* Type invariant: the indices stay inside the array.
TypeOK == /\ buf \in [Index -> Elem \cup {Zero}]
          /\ head \in Index /\ tail \in Index
          /\ pc \in PCs
          /\ blocking \in BOOLEAN
          /\ got \in Elem \cup {Zero}
          /\ ret \in Elem \cup {Zero}

\* The content of the ring, oldest element first.
Count == IF head >= tail THEN head - tail ELSE head - tail + Cap
Slot(i) == IF tail + i < Cap THEN tail + i ELSE tail + i - Cap
Content == [i \in 1 .. Count |-> buf[Slot(i - 1)]]

\* Every slot between tail and head holds an element, none the zero of the
\* storage: the full test of push never lets the writer lap the reader.
ContentIsElems == \A i \in 0 .. Count - 1 : buf[Slot(i)] \in Elem

\* The slot loaded by a read that has not yet advanced the tail is still the
\* oldest element, however many interrupts came in between.
LoadedSlotStable == /\ pc \in {"load", "advance"} => head # tail
                    /\ pc = "advance" => got = buf[tail]

\* Nobody reads before kbd_subsystem_init is done with the indices.
BootTail == pc \in {"boot", "init"} => tail = 0

RingInv == TypeOK /\ ContentIsElems /\ LoadedSlotStable /\ BootTail

\* kbd_subsystem_init has returned, or not yet.
Phase == IF pc \in {"boot", "init"} THEN "starting" ELSE "ready"

\* The ring is a bounded queue of Cap - 1 elements, emptied by the initialisation
\* alone, whatever comes between its accesses and those of the reader.
Fifo == INSTANCE BoundedFifo WITH Size <- Cap - 1, Nothing <- Zero, phase <- Phase,
                                  queue <- Content, result <- ret
FifoSpec == Fifo!Spec

\* A blocking read is never left asleep while a character waits for it: the
\* interrupt between the empty test and the hlt is made up for by the timer.
WaiterServed == (blocking /\ pc \in {"check", "empty", "hlt"} /\ head # tail)
                   ~> (pc = "idle")
=============================================================================
