---------------------------- MODULE ShellProofs ----------------------------
(***************************************************************************)
(* The shell's loop implements the editor it drives: whatever the keyboard *)
(* puts in the event ring and however its interrupts fall between the      *)
(* steps of the loop, the line changes only by the steps of CommandLine,   *)
(* so all that is proved of the line holds in the loop.  And an Enter that *)
(* ends what was typed is not lost on its way to the command.              *)
(***************************************************************************)
EXTENDS Shell, CommandLineProofs

\* What is in the ring are key events with the codes of the keyboard.
RingInv == evq \in Seq(Events)

\* Taking an event from the ring, or putting one in, leaves key events in it.
LEMMA RingStep ==
    ASSUME RingInv, [Next]_vars
    PROVE  RingInv'
<1>1. ASSUME NEW e \in Events, key_irq(e) PROVE RingInv'
  BY <1>1 DEF key_irq, RingInv
<1>2. CASE drain_key
  BY <1>2 DEF drain_key, RingInv
<1>3. CASE welcome \/ run_command \/ no_command \/ drain_done
  BY <1>3 DEF welcome, run_command, no_command, drain_done, RingInv
<1>4. CASE UNCHANGED vars
  BY <1>4 DEF vars, shellVars, RingInv
<1> QED
  BY <1>1, <1>2, <1>3, <1>4 DEF Next, shell_main_loop

LEMMA RingAlways == Spec => []RingInv
<1>1. Init => RingInv
  BY DEF Init, RingInv
<1> QED
  BY <1>1, RingStep, PTL DEF Spec

\* A step of the loop is a key or a prompt to the line, or nothing.
LEMMA LoopLineStep ==
    ASSUME RingInv, [Next]_vars
    PROVE  [LineNext]_lineVars
<1>1. ASSUME NEW e \in Events, key_irq(e) PROVE UNCHANGED lineVars
  BY <1>1 DEF key_irq
<1>2. CASE welcome
  <2>1. <<"newline">> \in Messages
    BY ShellAssumption
  <2> QED
    BY <1>2, <2>1 DEF welcome, LineNext
<1>3. CASE run_command
  <2>1. Answer \in Messages
    BY ShellAssumption
  <2> QED
    BY <1>3, <2>1 DEF run_command, LineNext
<1>4. CASE drain_key
  <2>1. Head(evq) \in Events /\ Head(evq).code \in Codes
    <3>1. evq \in Seq(Events) /\ evq # << >>
      BY <1>4 DEF drain_key, RingInv
    <3>2. Head(evq) \in Events
      BY <3>1, HeadTailProperties
    <3> QED
      BY <3>2 DEF Events
  <2>2. CASE Press(Head(evq))
    BY <1>4, <2>1, <2>2 DEF drain_key, LineNext
  <2>3. CASE ~Press(Head(evq))
    BY <1>4, <2>3 DEF drain_key
  <2> QED
    BY <2>2, <2>3
<1>5. CASE no_command \/ drain_done
  BY <1>5 DEF no_command, drain_done
<1>6. CASE UNCHANGED vars
  BY <1>6 DEF vars
<1> QED
  BY <1>1, <1>2, <1>3, <1>4, <1>5, <1>6 DEF Next, shell_main_loop

\* shell_main_loop, with the keyboard interrupts, implements the line editor:
\* it draws and edits the line in no other way.
THEOREM ShellImplementsLine == Spec => LineSpec
<1>1. Init => LineInit
  BY DEF Init
<1> QED
  BY <1>1, LoopLineStep, RingAlways, PTL DEF Spec, LineSpec

\* The buffer the shell edits is a terminated string at every point of the loop.
THEOREM ShellLineInvariant == Spec => []LineInv
  BY ShellImplementsLine, LineInvariant, PTL

\* The line is on the screen at every point of the loop.
THEOREM ShellLineVisible == Spec => []LineVisible
  BY ShellImplementsLine, LineIsVisible, PTL

-----------------------------------------------------------------------------
\* The event at place i of the ring is an Enter and the last press of it.
LastPress(q, i) == /\ i \in 1 .. Len(q)
                   /\ Press(q[i]) /\ q[i].code = "ENTER"
                   /\ \A j \in i + 1 .. Len(q) : ~Press(q[j])

NoPress(q) == \A i \in 1 .. Len(q) : ~Press(q[i])

\* EnterKept in these terms.
Kept(o, e, q) == o => (e /\ NoPress(q)) \/ \E i \in Nat : LastPress(q, i)

LEMMA KeptIs ==
    ASSUME RingInv
    PROVE  EnterKept <=> Kept(owed, end_command, evq)
<1>1. DOMAIN evq = 1 .. Len(evq) /\ Len(evq) \in Nat
  BY DEF RingInv
<1> QED
  BY <1>1 DEF EnterKept, Kept, NoPress, LastPress

\* A key event put in the ring keeps the Enter.
LEMMA IrqKept ==
    ASSUME RingInv, Kept(owed, end_command, evq), NEW e \in Events, key_irq(e)
    PROVE  Kept(owed', end_command', evq')
<1>1. evq \in Seq(Events) /\ Len(evq) \in Nat /\ end_command' = end_command
  BY DEF RingInv, key_irq
<1>2. CASE ~(Len(evq) < QueueSize)
  BY <1>1, <1>2 DEF key_irq
<1>3. CASE Len(evq) < QueueSize
  <2> DEFINE q == Append(evq, e)
  <2>1. evq' = q /\ Len(q) = Len(evq) + 1 /\ q[Len(evq) + 1] = e
        /\ \A i \in 1 .. Len(evq) : q[i] = evq[i]
    BY <1>1, <1>3 DEF key_irq
  <2> HIDE DEF q
  <2>2. CASE Press(e)
    <3>1. owed' = (e.code = "ENTER")
      BY <1>3, <2>2 DEF key_irq
    <3>2. e.code = "ENTER" => LastPress(q, Len(evq) + 1)
      BY <1>1, <2>1, <2>2 DEF LastPress
    <3>3. owed' => e.code = "ENTER"
      BY <3>1, Zenon
    <3>4. Len(evq) + 1 \in Nat
      BY <1>1
    <3>5. owed' => \E i \in Nat : LastPress(q, i)
      BY <3>2, <3>3, <3>4, Zenon
    <3> QED
      BY <2>1, <3>5 DEF Kept
  <2>3. CASE ~Press(e)
    <3>1. owed' = owed
      BY <2>3 DEF key_irq
    <3>2. NoPress(evq) => NoPress(q)
      BY <1>1, <2>1, <2>3 DEF NoPress
    <3>3. ASSUME NEW i \in Nat, LastPress(evq, i) PROVE LastPress(q, i)
      <4>1. i \in 1 .. Len(q) /\ q[i] = evq[i]
        BY <3>3, <1>1, <2>1 DEF LastPress
      <4>2. ASSUME NEW j \in i + 1 .. Len(q) PROVE ~Press(q[j])
        <5>1. CASE j = Len(evq) + 1
          BY <5>1, <2>1, <2>3
        <5>2. CASE j # Len(evq) + 1
          BY <5>2, <1>1, <2>1, <3>3 DEF LastPress
        <5> QED
          BY <5>1, <5>2
      <4> QED
        BY <3>3, <4>1, <4>2 DEF LastPress
    <3> QED
      BY <1>1, <2>1, <3>1, <3>2, <3>3 DEF Kept
  <2> QED
    BY <2>2, <2>3
<1> QED
  BY <1>2, <1>3

\* Draining one event keeps the Enter.
LEMMA DrainKept ==
    ASSUME RingInv, Kept(owed, end_command, evq), drain_key
    PROVE  Kept(owed', end_command', evq')
<1> DEFINE q == Tail(evq)
<1>1. /\ evq \in Seq(Events) /\ Len(evq) \in Nat /\ Len(evq) > 0
      /\ evq' = q /\ owed' = owed /\ Len(q) = Len(evq) - 1 /\ Head(evq) = evq[1]
      /\ \A i \in 1 .. Len(q) : q[i] = evq[i + 1]
  BY DEF RingInv, drain_key
<1> HIDE DEF q
<1>2. SUFFICES ASSUME owed PROVE (end_command' /\ NoPress(q)) \/ \E i \in Nat : LastPress(q, i)
  BY <1>1 DEF Kept
<1>3. CASE end_command /\ NoPress(evq)
  <2>1. ~Press(evq[1]) /\ NoPress(q)
    BY <1>1, <1>3 DEF NoPress
  <2>2. end_command' = end_command
    BY <1>1, <2>1 DEF drain_key
  <2> QED
    BY <1>3, <2>1, <2>2
<1>4. ASSUME NEW i \in Nat, LastPress(evq, i), i = 1 PROVE end_command' /\ NoPress(q)
  <2>1. Press(Head(evq)) /\ Head(evq).code = "ENTER"
    BY <1>1, <1>4 DEF LastPress
  <2>2. end_command' = (Head(evq).code = "ENTER")
    BY <2>1 DEF drain_key
  <2>3. NoPress(q)
    <3>1. ASSUME NEW j \in 1 .. Len(q) PROVE ~Press(q[j])
      BY <1>1, <1>4 DEF LastPress
    <3> QED
      BY <3>1 DEF NoPress
  <2> QED
    BY <2>1, <2>2, <2>3
<1>5. ASSUME NEW i \in Nat, LastPress(evq, i), i # 1 PROVE LastPress(q, i - 1) /\ i - 1 \in Nat
  <2>1. i - 1 \in 1 .. Len(q) /\ q[i - 1] = evq[i]
    BY <1>1, <1>5 DEF LastPress
  <2>2. ASSUME NEW j \in (i - 1) + 1 .. Len(q) PROVE ~Press(q[j])
    <3>1. j + 1 \in i + 1 .. Len(evq) /\ q[j] = evq[j + 1]
      BY <1>1, <2>1
    <3> QED
      BY <1>5, <3>1 DEF LastPress
  <2> QED
    BY <1>5, <2>1, <2>2 DEF LastPress
<1> QED
  BY <1>2, <1>3, <1>4, <1>5 DEF Kept

\* Running the command keeps an Enter typed behind it.
LEMMA RunKept ==
    ASSUME RingInv, Kept(owed, end_command, evq), run_command
    PROVE  Kept(owed', end_command', evq')
<1>1. DOMAIN evq = 1 .. Len(evq)
  BY DEF RingInv
<1>2. evq' = evq /\ owed' = (owed /\ \E i \in DOMAIN evq : Press(evq[i]))
  BY DEF run_command
<1>3. SUFFICES ASSUME owed' PROVE \E i \in Nat : LastPress(evq, i)
  BY <1>2 DEF Kept
<1>4. owed /\ ~NoPress(evq)
  BY <1>1, <1>2, <1>3 DEF NoPress
<1> QED
  BY <1>4 DEF Kept

\* The Enter that ends what was typed reaches the command: neither an interrupt
\* between two steps of shell_main_loop, nor the events drained after it, nor a
\* command still to be run makes the loop forget it.
THEOREM EnterIsKept == Spec => []EnterKept
<1>1. Init => RingInv /\ EnterKept
  BY DEF Init, RingInv, EnterKept
<1>2. RingInv /\ EnterKept /\ [Next]_vars => (RingInv /\ EnterKept)'
  <2>1. SUFFICES ASSUME RingInv, EnterKept, [Next]_vars PROVE (RingInv /\ EnterKept)'
    OBVIOUS
  <2>2. RingInv'
    BY <2>1, RingStep
  <2>3. Kept(owed, end_command, evq)
    BY <2>1, KeptIs
  <2>4. Kept(owed', end_command', evq')
    <3>1. ASSUME NEW e \in Events, key_irq(e) PROVE Kept(owed', end_command', evq')
      BY <2>1, <2>3, <3>1, IrqKept
    <3>2. CASE drain_key
      BY <2>1, <2>3, <3>2, DrainKept
    <3>3. CASE run_command
      BY <2>1, <2>3, <3>3, RunKept
    <3>4. CASE welcome \/ no_command \/ drain_done
      BY <2>3, <3>4 DEF welcome, no_command, drain_done
    <3>5. CASE UNCHANGED vars
      BY <2>3, <3>5 DEF vars, shellVars
    <3> QED
      BY <2>1, <3>1, <3>2, <3>3, <3>4, <3>5 DEF Next, shell_main_loop
  <2>5. EnterKept'
    <3>1. DOMAIN evq' = 1 .. Len(evq') /\ Len(evq') \in Nat
      BY <2>2 DEF RingInv
    <3> QED
      BY <2>4, <3>1 DEF EnterKept, Kept, NoPress, LastPress, Press
  <2> QED
    BY <2>2, <2>5
<1> QED
  BY <1>1, <1>2, PTL DEF Spec
=============================================================================
