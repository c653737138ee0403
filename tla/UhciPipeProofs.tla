--------------------------- MODULE UhciPipeProofs ---------------------------
(***************************************************************************)
(* PipeInv is an inductive invariant of UhciPipe when no key is typed      *)
(* before every pipe is open, for any number of pipes, reports and         *)
(* faults; InOrder follows from it.                                        *)
(***************************************************************************)
EXTENDS UhciPipe, TLAPS

PipeOK(p) == ToggleOK(p) /\ StepOK(p)

\* In step, the report on the bus is the next one to hand over: this is what
\* the data toggle is for (hc_data).
LEMMA NextReport ==
    ASSUME NEW a \in Nat, NEW n \in Nat, a = n \/ a + 1 = n, a % 2 = n % 2
    PROVE  a = n
  OBVIOUS

\* The other toggle is the parity of one more report (p->toggle ^= 1).
LEMMA OtherToggle ==
    ASSUME NEW n \in Nat
    PROVE  1 - (n % 2) = (n + 1) % 2
  OBVIOUS

\* PipeInv holds at the start.
LEMMA InitInv == Init => PipeInv
<1> SUFFICES ASSUME Init PROVE PipeInv
  OBVIOUS
<1>1. TypeOK
  <2>1. td \in [Pipe -> TD]
    BY DEF Init, TD, NoTD
  <2>2. cur \in Pipe
    BY PipesAssumption DEF Init, Pipe
  <2>3. delivered \in [Pipe -> Seq(Nat)]
    BY DEF Init
  <2>4. linked \in [Pipe -> BOOLEAN]
    BY DEF Init
  <2>5. /\ ioc \in BOOLEAN /\ usbint \in BOOLEAN /\ usberrint \in BOOLEAN /\ st_err \in BOOLEAN
    BY DEF Init
  <2>6. /\ toggle \in [Pipe -> 0 .. 1] /\ buf \in [Pipe -> Nat]
        /\ made \in [Pipe -> Nat] /\ acked \in [Pipe -> Nat]
        /\ faults \in Nat /\ passes \in 0 .. 2
    BY DEF Init
  <2>7. /\ main \in {"enumerate", "shell"}
        /\ phase \in [Pipe -> {"closed", "claimed", "zeroed", "armed", "open"}]
        /\ pc \in {"idle", "ack", "poll", "arm", "link"}
    BY DEF Init
  <2>8. frame_list \in [Slot -> 0 .. Pipes]
    BY PipesAssumption DEF Init
  <2> QED
    BY <2>1, <2>2, <2>3, <2>4, <2>5, <2>6, <2>7, <2>8 DEF TypeOK
<1>2. BootOK
  BY DEF Init, BootOK, NoneHalfOpen
<1>3. ASSUME NEW p \in Pipe PROVE ToggleOK(p) /\ StepOK(p)
  BY <1>3 DEF Init, ToggleOK, StepOK, Full, Live
<1>4. ListOK
  BY DEF Init, ListOK, Scheduled, Pipe
<1> QED
  BY <1>1, <1>2, <1>3, <1>4 DEF PipeInv

\* The controller finds open pipes only as long as the list and the open pipes stay.
LEMMA ListKept ==
    ASSUME ListOK, frame_list' = frame_list,
           \A p \in Pipe : phase[p] = "open" => phase'[p] = "open"
    PROVE  ListOK'
  BY DEF ListOK, Scheduled

\* What is linked into the frame list is in its type.
LEMMA LinkType ==
    ASSUME TypeOK, NEW p \in 0 .. Pipes, NEW slots
    PROVE  Link(p, slots) \in [Slot -> 0 .. Pipes]
  BY DEF Link, TypeOK

\* A step that leaves the state of a pipe, its keyboard and its place in the
\* handler alone keeps what holds of the pipe.
LEMMA Untouched ==
    ASSUME NEW p \in Pipe, PipeOK(p),
           phase'[p] = phase[p], toggle'[p] = toggle[p], td'[p] = td[p],
           buf'[p] = buf[p], delivered'[p] = delivered[p],
           made'[p] = made[p], acked'[p] = acked[p],
           (pc = "arm" /\ cur = p) <=> (pc' = "arm" /\ cur' = p)
    PROVE  PipeOK(p)'
<1>1. /\ Live(p)' <=> Live(p)
      /\ Full(p)' <=> Full(p)
  BY DEF Live, Full
<1> QED
  BY <1>1 DEF PipeOK, ToggleOK, StepOK

\* Opening a pipe keeps PipeInv.
LEMMA OpenInv ==
    ASSUME PipeInv, NEW q \in Pipe, open(q)
    PROVE  PipeInv'
<1> USE DEF PipeInv
<1>0. /\ Booting
      /\ \A p \in Pipe : made[p] = 0
      /\ pc' = pc /\ cur' = cur /\ UNCHANGED <<main, hcVars, statusVars, isrVars>>
  BY DEF open, open_claim, open_zero, open_arm, open_place, open_fails, Opening, Booting, isrVars, BootOK, NoneHalfOpen
<1>1. TypeOK'
  <2>1. NoTD \in TD /\ Armed(q) \in TD
    BY DEF NoTD, Armed, TD, TypeOK
  <2>2. td' \in [Pipe -> TD]
    BY <2>1 DEF open, open_claim, open_zero, open_arm, open_place, open_fails, TypeOK
  <2>3. linked' \in [Pipe -> BOOLEAN]
    BY DEF open, open_claim, open_zero, open_arm, open_place, open_fails, TypeOK
  <2>4. /\ toggle' \in [Pipe -> 0 .. 1] /\ buf' \in [Pipe -> Nat]
        /\ delivered' = delivered
    <3>1. toggle' = toggle \/ toggle' = [toggle EXCEPT ![q] = 0]
      BY DEF open, open_claim, open_zero, open_arm, open_place, open_fails
    <3>2. buf' = buf \/ buf' = [buf EXCEPT ![q] = 0]
      BY DEF open, open_claim, open_zero, open_arm, open_place, open_fails
    <3>3. delivered' = delivered
      BY DEF open, open_claim, open_zero, open_arm, open_place, open_fails
    <3>4. /\ toggle \in [Pipe -> 0 .. 1] /\ buf \in [Pipe -> Nat]
          /\ 0 \in 0 .. 1 /\ 0 \in Nat
      BY DEF TypeOK
    <3>5. toggle' \in [Pipe -> 0 .. 1]
      BY <3>1, <3>4
    <3>6. buf' \in [Pipe -> Nat]
      BY <3>2, <3>4
    <3> QED
      BY <3>3, <3>5, <3>6
  <2>5. phase' \in [Pipe -> {"closed", "claimed", "zeroed", "armed", "open"}]
    <3>1. PICK to \in {"closed", "claimed", "zeroed", "armed", "open"} :
            phase' = [phase EXCEPT ![q] = to]
      BY DEF open, open_claim, open_zero, open_arm, open_place, open_fails, Opening
    <3> QED
      BY <3>1 DEF TypeOK
  <2>6. frame_list' \in [Slot -> 0 .. Pipes]
    <3>1. frame_list' = frame_list \/ \E slots : frame_list' = Link(q, slots)
      BY DEF open, open_claim, open_zero, open_arm, open_place, open_fails
    <3>2. q \in 0 .. Pipes
      BY PipesAssumption DEF Pipe
    <3> QED
      BY <3>1, <3>2, LinkType DEF TypeOK
  <2> QED
    BY <1>0, <2>2, <2>3, <2>4, <2>5, <2>6 DEF TypeOK, hcVars, statusVars, isrVars
<1>2. BootOK'
  BY <1>0 DEF BootOK, NoneHalfOpen, Booting, hcVars, statusVars, isrVars
<1>3. ASSUME NEW p \in Pipe PROVE PipeOK(p)'
  <2>1. CASE p # q
    BY <1>0, <2>1, Untouched DEF open, open_claim, open_zero, open_arm, open_place, open_fails, Opening,
       TypeOK, PipeOK, hcVars
  <2>2. CASE p = q
    <3>0. /\ Len(delivered[p]) \in Nat /\ acked[p] \in Nat
          /\ ToggleOK(p) /\ StepOK(p) /\ made[p] = 0
      BY <1>0 DEF TypeOK
    <3>1. /\ made[p] = 0 /\ Len(delivered[p]) = 0 /\ ~Full(p)
          /\ acked[p] = 0 /\ toggle[p] = 0 /\ pc = "idle"
      <4>1. ~Full(p) /\ Len(delivered[p]) = 0
        BY <3>0 DEF StepOK
      <4>2. acked[p] = 0 /\ toggle[p] = 0
        BY <3>0, <4>1 DEF StepOK, ToggleOK
      <4> QED
        BY <1>0, <3>0, <4>1, <4>2 DEF Booting
    <3>2. delivered' = delivered /\ acked' = acked /\ made' = made /\ toggle'[p] = 0
      BY <2>2, <3>1 DEF open, open_claim, open_zero, open_arm, open_place, open_fails, hcVars, TypeOK
    <3>3. ~Full(p)'
      BY <2>2, <3>1, <1>0 DEF open, open_claim, open_zero, open_arm, open_place, open_fails, Opening,
         Full, Live, Armed, TypeOK
    <3>4. Live(p)' /\ td'[p].active => td'[p].toggle = 0
      BY <2>2, <3>1 DEF open, open_claim, open_zero, open_arm, open_place, open_fails, Opening,
         Live, Armed, TypeOK, ToggleOK
    <3> QED
      BY <3>1, <3>2, <3>3, <3>4 DEF PipeOK, ToggleOK, StepOK
  <2> QED
    BY <2>1, <2>2
<1>4. ListOK'
  <2>1. CASE open_place(q)
    <3>1. PICK slots : frame_list' = Link(q, slots)
      BY <2>1 DEF open_place
    <3>2. phase' = [phase EXCEPT ![q] = "open"]
      BY <2>1 DEF open_place, Opening
    <3> QED
      BY <3>1, <3>2 DEF ListOK, Scheduled, Link, TypeOK
  <2>2. CASE ~open_place(q)
    <3>1. frame_list' = frame_list /\ phase[q] # "open"
      BY <2>2 DEF open, open_claim, open_zero, open_arm, open_fails, Opening
    <3>2. \A p \in Pipe : p # q => phase'[p] = phase[p]
      BY <2>2 DEF open, open_claim, open_zero, open_arm, open_fails, Opening, TypeOK
    <3> QED
      BY <3>1, <3>2, ListKept
  <2> QED
    BY <2>1, <2>2
<1> QED
  BY <1>1, <1>2, <1>3, <1>4 DEF PipeOK

\* The transfers of later ports take slots of the frame list and nothing else.
LEMMA TakeSlotsInv ==
    ASSUME PipeInv, take_slots
    PROVE  PipeInv'
<1> USE DEF PipeInv
<1>1. PICK slots : frame_list' = Link(0, slots)
  BY DEF take_slots
<1>2. UNCHANGED <<main, pipeVars, hcVars, statusVars, isrVars>>
  BY DEF take_slots
<1>3. frame_list' \in [Slot -> 0 .. Pipes]
  BY <1>1, LinkType, PipesAssumption
<1>4. TypeOK' /\ BootOK'
  BY <1>2, <1>3 DEF TypeOK, BootOK, NoneHalfOpen, pipeVars, hcVars, statusVars, isrVars
<1>5. ListOK'
  BY <1>1, <1>2 DEF ListOK, Scheduled, Link, Pipe, pipeVars
<1>6. \A p \in Pipe : PipeOK(p)'
  BY <1>2, Untouched DEF PipeOK, pipeVars, hcVars, isrVars
<1> QED
  BY <1>4, <1>5, <1>6 DEF PipeOK

\* The end of the enumeration keeps PipeInv.
LEMMA EnumeratedInv ==
    ASSUME PipeInv, enumerated
    PROVE  PipeInv'
<1>1. TypeOK' /\ BootOK'
  BY DEF PipeInv, enumerated, Booting, TypeOK, BootOK, NoneHalfOpen, pipeVars, hcVars, statusVars, isrVars
<1>2. \A p \in Pipe : PipeOK(p)'
  BY Untouched DEF PipeInv, PipeOK, enumerated, pipeVars, hcVars, isrVars
<1>3. ListOK'
  BY ListKept DEF PipeInv, enumerated, pipeVars
<1> QED
  BY <1>1, <1>2, <1>3 DEF PipeInv, PipeOK

\* A TD that has ended is a TD.
LEMMA EndedType ==
    ASSUME TypeOK, NEW q \in Pipe
    PROVE  Ended(q, "ok") \in TD /\ Ended(q, "bad") \in TD
  BY DEF Ended, TypeOK, TD

\* The keyboards and the controller.
LEMMA BusInv ==
    ASSUME PipeInv, ~KeysDuringOpen, NEW q \in Pipe,
           make_report(q) \/ hc_nak(q) \/ hc_data(q) \/ hc_repeat(q) \/ hc_fault(q)
    PROVE  PipeInv'
<1> USE DEF PipeInv
<1>1. TypeOK'
  <2>1. CASE make_report(q)
    BY <2>1 DEF make_report, TypeOK, pipeVars, statusVars, isrVars
  <2>2. CASE hc_nak(q)
    BY <2>2 DEF hc_nak, TypeOK, TD, hcVars, statusVars, isrVars
  <2>3. CASE hc_data(q)
    <3>1. td' \in [Pipe -> TD]
      BY <2>3, EndedType DEF hc_data, TypeOK
    <3>2. linked' \in [Pipe -> BOOLEAN]
      BY <2>3 DEF hc_data, TypeOK
    <3>3. buf' \in [Pipe -> Nat] /\ acked' \in [Pipe -> Nat] /\ faults' \in Nat
      <4>1. /\ acked \in [Pipe -> Nat] /\ buf \in [Pipe -> Nat] /\ faults \in Nat
            /\ acked[q] + 1 \in Nat
        BY DEF TypeOK
      <4>2. /\ buf' = [buf EXCEPT ![q] = acked[q] + 1]
            /\ acked' = acked \/ acked' = [acked EXCEPT ![q] = acked[q] + 1]
            /\ faults' = faults \/ faults' = faults + 1
        BY <2>3 DEF hc_data
      <4> QED
        BY <4>1, <4>2
    <3> QED
      BY <2>3, <3>1, <3>2, <3>3 DEF hc_data, TypeOK, statusVars, isrVars
  <2>4. CASE hc_repeat(q)
    BY <2>4 DEF hc_repeat, TypeOK, pipeVars, statusVars, isrVars
  <2>5. CASE hc_fault(q)
    <3>1. td' \in [Pipe -> TD]
      BY <2>5, EndedType DEF hc_fault, TypeOK
    <3> QED
      BY <2>5, <3>1 DEF hc_fault, TypeOK, isrVars
  <2> QED
    BY <2>1, <2>2, <2>3, <2>4, <2>5
<1>2. BootOK'
  <2>1. CASE hc_nak(q)
    <3>1. td'[cur].active => td[cur].active
      BY <2>1 DEF hc_nak, TypeOK, TD
    <3> QED
      BY <2>1, <3>1 DEF hc_nak, BootOK, NoneHalfOpen, hcVars, statusVars, isrVars
  <2>2. CASE ~hc_nak(q)
    <3>1. main # "enumerate"
      BY <2>2 DEF make_report, hc_data, hc_repeat, hc_fault, Pending, BootOK, NoneHalfOpen, TypeOK
    <3>2. main' = main /\ phase' = phase /\ UNCHANGED isrVars
      BY DEF make_report, hc_nak, hc_data, hc_repeat, hc_fault, pipeVars
    <3>3. td'[cur].active => td[cur].active
      <4>1. td' = td \/ td' = [td EXCEPT ![q] = Ended(q, "ok")]
                    \/ td' = [td EXCEPT ![q] = Ended(q, "bad")]
        BY <2>2 DEF make_report, hc_data, hc_repeat, hc_fault, pipeVars
      <4> QED
        <5>1. CASE cur = q
          BY <4>1, <5>1 DEF Ended, TypeOK
        <5>2. CASE cur # q
          BY <4>1, <5>2 DEF TypeOK
        <5> QED
          BY <5>1, <5>2
    <3> QED
      BY <3>1, <3>2, <3>3 DEF BootOK, NoneHalfOpen, isrVars
  <2> QED
    BY <2>1, <2>2
<1>3. ASSUME NEW p \in Pipe, p # q PROVE PipeOK(p)'
  BY <1>3, Untouched DEF make_report, hc_nak, hc_data, hc_repeat, hc_fault, TypeOK, PipeOK,
     pipeVars, hcVars, isrVars
<1>4. PipeOK(q)'
  <2> DEFINE n == Len(delivered[q])
  <2>0. /\ n \in Nat /\ acked[q] \in Nat /\ made[q] \in Nat
        /\ ToggleOK(q) /\ StepOK(q) /\ phase' = phase /\ delivered' = delivered
        /\ toggle' = toggle /\ pc' = pc /\ cur' = cur
    BY DEF make_report, hc_nak, hc_data, hc_repeat, hc_fault, TypeOK, pipeVars, isrVars
  <2>1. CASE make_report(q)
    <3>1. td' = td /\ buf' = buf /\ acked' = acked /\ made'[q] = made[q] + 1
      BY <2>1 DEF make_report, pipeVars, TypeOK
    <3>2. (Full(q)' <=> Full(q)) /\ (Live(q)' <=> Live(q))
      BY <2>0, <3>1 DEF Full, Live
    <3>3. ToggleOK(q)'
      BY <2>0, <3>1, <3>2 DEF ToggleOK
    <3>4. StepOK(q)'
      <4>1. CASE Full(q)
        BY <2>0, <3>1, <3>2, <4>1 DEF StepOK
      <4>2. CASE ~Full(q)
        BY <2>0, <3>1, <3>2, <4>2 DEF StepOK
      <4> QED
        BY <4>1, <4>2
    <3> QED
      BY <3>3, <3>4 DEF PipeOK
  <2>2. CASE hc_nak(q)
    <3>1. /\ td'[q].active /\ td[q].active /\ td'[q].toggle = td[q].toggle
          /\ buf' = buf /\ acked' = acked /\ made' = made
      BY <2>2 DEF hc_nak, Polled, TypeOK, TD, hcVars
    <3>2. ~Full(q)' /\ ~Full(q) /\ Live(q)' = Live(q)
      BY <2>0, <3>1 DEF Full, Live
    <3> QED
      BY <2>0, <3>1, <3>2 DEF PipeOK, ToggleOK, StepOK
  <2>3. CASE hc_data(q)
    <3>1. /\ Live(q) /\ td[q].active /\ ~Full(q) /\ acked[q] < made[q]
          /\ acked[q] % 2 = td[q].toggle
      BY <2>3 DEF hc_data, Polled, ListOK, Pending, InStep, Live, Full
    <3>2. acked[q] = n
      <4>1. (acked[q] = n \/ acked[q] + 1 = n) /\ acked[q] % 2 = n % 2
        BY <2>0, <3>1 DEF StepOK, ToggleOK
      <4> QED
        BY <2>0, <4>1, NextReport
    <3>3. /\ ~td'[q].active /\ td'[q].status = "ok" /\ td'[q].toggle = td[q].toggle
          /\ buf'[q] = n + 1 /\ (acked'[q] = n \/ acked'[q] = n + 1) /\ made' = made
      BY <2>0, <2>3, <3>2 DEF hc_data, TypeOK, Ended
    <3>4. Full(q)'
      BY <2>0, <3>1, <3>3 DEF Full, Live, BootOK, NoneHalfOpen
    <3>5. ToggleOK(q)'
      BY <2>0, <3>1, <3>3 DEF ToggleOK
    <3> QED
      BY <2>0, <3>1, <3>2, <3>3, <3>4, <3>5 DEF PipeOK, StepOK
  <2>4. CASE hc_repeat(q)
    <3>1. /\ Live(q) /\ td[q].active /\ ~Full(q) /\ acked[q] < made[q]
          /\ acked[q] % 2 # td[q].toggle
      BY <2>4 DEF hc_repeat, Polled, ListOK, Pending, InStep, Live, Full
    <3>2. td' = td /\ buf' = buf /\ made' = made /\ acked'[q] = acked[q] + 1
      BY <2>4 DEF hc_repeat, pipeVars, TypeOK
    <3>3. acked[q] + 1 = n
      BY <2>0, <3>1 DEF StepOK, ToggleOK
    <3>4. ~Full(q)' /\ (Live(q)' <=> Live(q))
      BY <2>0, <3>1, <3>2 DEF Full, Live
    <3> QED
      BY <2>0, <3>1, <3>2, <3>3, <3>4 DEF PipeOK, ToggleOK, StepOK
  <2>5. CASE hc_fault(q)
    <3>1. /\ td[q].active /\ ~td'[q].active /\ td'[q].status = "bad"
          /\ buf' = buf /\ acked' = acked /\ made' = made
      BY <2>5 DEF hc_fault, Polled, TypeOK, Ended
    <3>2. ~Full(q)' /\ ~Full(q)
      BY <2>0, <3>1 DEF Full
    <3> QED
      BY <2>0, <3>1, <3>2 DEF PipeOK, ToggleOK, StepOK
  <2> QED
    BY <2>1, <2>2, <2>3, <2>4, <2>5
<1>5. ListOK'
  BY ListKept DEF make_report, hc_nak, hc_data, hc_repeat, hc_fault, pipeVars
<1> QED
  BY <1>1, <1>2, <1>3, <1>4, <1>5 DEF PipeOK

\* The end of a frame keeps PipeInv.
LEMMA FrameEndInv ==
    ASSUME PipeInv, hc_frame_end
    PROVE  PipeInv'
<1>1. TypeOK' /\ BootOK'
  BY DEF PipeInv, hc_frame_end, TypeOK, BootOK, NoneHalfOpen, pipeVars, isrVars
<1>2. \A p \in Pipe : PipeOK(p)'
  BY Untouched DEF PipeInv, PipeOK, hc_frame_end, pipeVars, isrVars
<1>3. ListOK'
  BY ListKept DEF PipeInv, hc_frame_end, pipeVars
<1> QED
  BY <1>1, <1>2, <1>3 DEF PipeInv, PipeOK

\* The handler's steps that touch no pipe.
LEMMA HandlerInv ==
    ASSUME PipeInv, irq_read \/ irq_ack \/ poll_skip
    PROVE  PipeInv'
<1>0. /\ cur \in 1 .. Pipes /\ passes \in 0 .. 2 /\ (pc # "idle" => passes > 0)
      /\ usbint \in BOOLEAN /\ usberrint \in BOOLEAN /\ st_err \in BOOLEAN
  BY DEF PipeInv, BootOK, NoneHalfOpen, TypeOK, Pipe
<1>1. /\ UNCHANGED <<main, frame_list, pipeVars, hcVars>>
      /\ pc # "arm" /\ pc' # "arm"
  BY DEF irq_read, irq_ack, poll_skip, next_pipe
<1>2. pc' # "idle" => passes' > 0
  <2>1. CASE irq_read
    BY <2>1 DEF irq_read
  <2>2. CASE irq_ack
    BY <1>0, <2>2 DEF irq_ack
  <2>3. CASE poll_skip
    BY <1>0, <2>3 DEF poll_skip, next_pipe
  <2> QED
    BY <2>1, <2>2, <2>3
<1>3. /\ usbint' \in BOOLEAN /\ usberrint' \in BOOLEAN /\ st_err' \in BOOLEAN
  BY <1>0 DEF irq_read, irq_ack, poll_skip, statusVars
<1>3a. cur' \in Pipe /\ passes' \in 0 .. 2
  <2>1. CASE irq_read
    BY <1>0, <2>1 DEF irq_read, Pipe
  <2>2. CASE irq_ack
    BY PipesAssumption, <1>0, <2>2 DEF irq_ack, Pipe
  <2>3. CASE poll_skip
    BY PipesAssumption, <1>0, <2>3 DEF poll_skip, next_pipe, Pipe
  <2> QED
    BY <2>1, <2>2, <2>3
<1>4. pc' \in {"idle", "ack", "poll", "arm", "link"}
  BY DEF irq_read, irq_ack, poll_skip, next_pipe
<1>5. TypeOK'
  BY <1>1, <1>3, <1>4, <1>3a DEF PipeInv, TypeOK, pipeVars, hcVars
<1>6. main # "enumerate"
  BY DEF PipeInv, BootOK, NoneHalfOpen, TypeOK, irq_read, irq_ack, poll_skip
<1>7. BootOK'
  BY <1>1, <1>2, <1>6 DEF PipeInv, BootOK, NoneHalfOpen, pipeVars
<1>8. \A p \in Pipe : PipeOK(p)'
  BY <1>1, Untouched DEF PipeInv, PipeOK, pipeVars, hcVars
<1>9. ListOK'
  BY <1>1, ListKept DEF PipeInv, pipeVars
<1> QED
  BY <1>5, <1>7, <1>8, <1>9 DEF PipeInv, PipeOK

\* A failed poll keeps PipeInv.
LEMMA PollErrorInv ==
    ASSUME PipeInv, poll_error
    PROVE  PipeInv'
<1> USE DEF PipeInv
<1>1. TypeOK'
  BY DEF poll_error, TypeOK, pipeVars, hcVars, statusVars
<1>2. main = "shell" /\ phase[cur] = "open"
  BY DEF poll_error, BootOK, NoneHalfOpen, TypeOK
<1>3. ~td[cur].active /\ td[cur].status # "ok"
  BY <1>2 DEF poll_error, StatusRead
<1>4. BootOK'
  BY <1>2, <1>3 DEF poll_error, BootOK, NoneHalfOpen, pipeVars, hcVars, statusVars
<1>5. ASSUME NEW p \in Pipe PROVE PipeOK(p)'
  <2>1. (Full(p)' <=> Full(p)) /\ (Live(p)' <=> Live(p))
    BY <1>3 DEF poll_error, Full, Live, pipeVars
  <2> QED
    BY <2>1 DEF poll_error, PipeOK, ToggleOK, StepOK, pipeVars, hcVars
<1>6. ListOK'
  BY ListKept DEF poll_error, pipeVars
<1> QED
  BY <1>1, <1>4, <1>5, <1>6 DEF PipeOK

\* A poll that fetches a report keeps PipeInv.
LEMMA PollDataInv ==
    ASSUME PipeInv, poll_data
    PROVE  PipeInv'
<1> USE DEF PipeInv
<1>1. cur \in Pipe /\ main = "shell" /\ phase[cur] = "open"
  BY DEF poll_data, BootOK, NoneHalfOpen, TypeOK
<1>2. ~td[cur].active /\ td[cur].status = "ok" /\ Full(cur)
  BY <1>1 DEF poll_data, StatusRead, Full, Live
<1>3. TypeOK'
  <2>1. toggle' \in [Pipe -> 0 .. 1]
    <3>1. toggle \in [Pipe -> 0 .. 1]
      BY DEF TypeOK
    <3>2. toggle[cur] \in 0 .. 1
      BY <1>1, <3>1
    <3>3. 1 - toggle[cur] \in 0 .. 1
      BY <3>2
    <3> QED
      BY <1>1, <3>1, <3>3 DEF poll_data
  <2>2. delivered' \in [Pipe -> Seq(Nat)]
    BY <1>1 DEF poll_data, TypeOK
  <2> QED
    BY <2>1, <2>2 DEF poll_data, TypeOK, hcVars, statusVars
<1>4. BootOK'
  BY <1>1, <1>2 DEF poll_data, BootOK, NoneHalfOpen, hcVars, statusVars
<1>5. ASSUME NEW p \in Pipe, p # cur PROVE PipeOK(p)'
  BY <1>5, Untouched DEF poll_data, PipeOK, hcVars, TypeOK
<1>6. PipeOK(cur)'
  <2> DEFINE n == Len(delivered[cur])
  <2>1. n \in Nat /\ ToggleOK(cur) /\ StepOK(cur) /\ delivered[cur] \in Seq(Nat)
        /\ buf[cur] \in Nat /\ made[cur] \in Nat /\ acked[cur] \in Nat
    BY <1>1 DEF TypeOK
  <2>2. n < made[cur] /\ (acked[cur] = n \/ acked[cur] = n + 1) /\ buf[cur] = n + 1
    BY <1>2, <2>1 DEF StepOK
  <2>3. delivered'[cur] = Append(delivered[cur], n + 1) /\ toggle'[cur] = 1 - toggle[cur]
        /\ td' = td /\ made' = made /\ acked' = acked /\ cur' = cur /\ pc' = "arm"
    BY <1>1, <2>2 DEF poll_data, TypeOK, hcVars
  <2>4. Len(delivered'[cur]) = n + 1
        /\ \A k \in 1 .. n + 1 : delivered'[cur][k] = k
    BY <2>1, <2>3 DEF StepOK
  <2>5. ~Full(cur)'
    BY <2>3 DEF Full
  <2>6. toggle'[cur] = (n + 1) % 2
    BY <2>1, <2>3, OtherToggle DEF ToggleOK
  <2>7. ToggleOK(cur)'
    BY <1>2, <2>3, <2>4, <2>5, <2>6 DEF ToggleOK
  <2>8. StepOK(cur)'
    <3>1. /\ acked'[cur] = n + 1 \/ acked'[cur] + 1 = n + 1
          /\ n + 1 <= made'[cur]
      BY <2>1, <2>2, <2>3
    <3> QED
      BY <2>3, <2>4, <2>5, <3>1 DEF StepOK
  <2> QED
    BY <2>3, <2>7, <2>8 DEF PipeOK
<1>7. ListOK'
  BY ListKept DEF poll_data
<1> QED
  BY <1>3, <1>4, <1>5, <1>6, <1>7 DEF PipeOK, poll_data

\* Rearming a TD keeps PipeInv.
LEMMA RearmInv ==
    ASSUME PipeInv, rearm_td
    PROVE  PipeInv'
<1> USE DEF PipeInv
<1>1. cur \in Pipe /\ main = "shell" /\ pc = "arm"
  BY DEF rearm_td, BootOK, NoneHalfOpen, TypeOK
<1>2. TypeOK'
  <2>1. Armed(cur) \in TD
    BY <1>1 DEF Armed, TD, TypeOK
  <2>2. td' \in [Pipe -> TD]
    BY <1>1, <2>1 DEF rearm_td, TypeOK
  <2> QED
    BY <2>2 DEF rearm_td, TypeOK, hcVars, statusVars
<1>3. BootOK'
  BY <1>1 DEF rearm_td, BootOK, NoneHalfOpen, hcVars, statusVars
<1>4. ASSUME NEW p \in Pipe, p # cur PROVE PipeOK(p)'
  BY <1>4, Untouched DEF rearm_td, PipeOK, hcVars, TypeOK
<1>5. PipeOK(cur)'
  <2>1. td'[cur] = Armed(cur) /\ td'[cur].active /\ td'[cur].toggle = toggle[cur]
    BY <1>1 DEF rearm_td, TypeOK, Armed
  <2>2. ~Full(cur) /\ ~Full(cur)'
    BY <1>1, <2>1 DEF Full, rearm_td
  <2> QED
    BY <1>1, <2>1, <2>2 DEF rearm_td, PipeOK, ToggleOK, StepOK, hcVars
<1>6. ListOK'
  BY ListKept DEF rearm_td
<1> QED
  BY <1>2, <1>3, <1>4, <1>5, <1>6 DEF PipeOK, rearm_td

\* Linking a TD again keeps PipeInv.
LEMMA LinkInv ==
    ASSUME PipeInv, rearm_link
    PROVE  PipeInv'
<1> USE DEF PipeInv
<1>1. linked' \in [Pipe -> BOOLEAN]
  BY DEF rearm_link, TypeOK
<1>2. /\ cur' \in Pipe /\ passes' \in 0 .. 2 /\ (pc' # "idle" => passes' > 0)
      /\ pc' \in {"idle", "poll"}
  <2>1. cur \in 1 .. Pipes /\ passes \in 0 .. 2 /\ (pc # "idle" => passes > 0)
    BY DEF BootOK, NoneHalfOpen, TypeOK, Pipe
  <2> QED
    BY PipesAssumption, <2>1 DEF rearm_link, next_pipe, Pipe
<1>3. TypeOK'
  BY <1>1, <1>2 DEF rearm_link, TypeOK, hcVars, statusVars
<1>4. BootOK'
  BY <1>2 DEF rearm_link, BootOK, NoneHalfOpen, TypeOK
<1>5. \A p \in Pipe : PipeOK(p)'
  BY <1>2, Untouched DEF rearm_link, PipeOK, hcVars
<1>6. ListOK'
  BY ListKept DEF rearm_link
<1> QED
  BY <1>3, <1>4, <1>5, <1>6 DEF PipeOK

\* Controller, handler and keyboard stay in step (PipeInv), for any number of
\* pipes, reports and failures, if keys wait until every pipe is open.
THEOREM PipeInvariant == ASSUME ~KeysDuringOpen PROVE Spec => []PipeInv
<1>1. ASSUME PipeInv, [Next]_vars PROVE PipeInv'
  <2>1. ASSUME NEW p \in Pipe, open(p) PROVE PipeInv'
    BY <1>1, <2>1, OpenInv
  <2>2. ASSUME NEW p \in Pipe,
               make_report(p) \/ hc_nak(p) \/ hc_data(p) \/ hc_repeat(p) \/ hc_fault(p)
        PROVE  PipeInv'
    BY <1>1, <2>2, BusInv
  <2>3. CASE enumerated
    BY <1>1, <2>3, EnumeratedInv
  <2>4. CASE hc_frame_end
    BY <1>1, <2>4, FrameEndInv
  <2>5. CASE irq_read \/ irq_ack \/ poll_skip
    BY <1>1, <2>5, HandlerInv
  <2>6. CASE poll_error
    BY <1>1, <2>6, PollErrorInv
  <2>7. CASE poll_data
    BY <1>1, <2>7, PollDataInv
  <2>8. CASE rearm_td
    BY <1>1, <2>8, RearmInv
  <2>9. CASE rearm_link
    BY <1>1, <2>9, LinkInv
  <2>10. CASE UNCHANGED vars
    <3>1. TypeOK' /\ BootOK'
      BY <1>1, <2>10 DEF PipeInv, TypeOK, BootOK, NoneHalfOpen, vars, pipeVars, hcVars, statusVars, isrVars
    <3>2. \A p \in Pipe : PipeOK(p)'
      BY <1>1, <2>10, Untouched DEF PipeInv, PipeOK, vars, pipeVars, hcVars, isrVars
    <3>3. ListOK'
      BY <1>1, <2>10, ListKept DEF PipeInv, vars, pipeVars
    <3> QED
      BY <3>1, <3>2, <3>3 DEF PipeInv, PipeOK
  <2>11. CASE take_slots
    BY <1>1, <2>11, TakeSlotsInv
  <2> QED
    BY <1>1, <2>1, <2>2, <2>3, <2>4, <2>5, <2>6, <2>7, <2>8, <2>9, <2>10, <2>11
    DEF Next, uhci_irq_top
<1> QED
  BY <1>1, InitInv, PTL DEF Spec

\* The keyboard layer is given every report at most once and in the order it
\* was made: the delivery half of uhci_kbd_service.
THEOREM ReportsInOrder == ASSUME ~KeysDuringOpen PROVE Spec => []InOrder
<1>1. PipeInv => InOrder
  <2> SUFFICES ASSUME PipeInv, NEW p \in Pipe
               PROVE  /\ Len(delivered[p]) <= made[p]
                      /\ \A k \in 1 .. Len(delivered[p]) : delivered[p][k] = k
    BY DEF InOrder
  <2>1. StepOK(p) /\ Len(delivered[p]) \in Nat /\ made[p] \in Nat
    BY DEF PipeInv, TypeOK
  <2> QED
    BY <2>1 DEF StepOK
<1> QED
  BY <1>1, PipeInvariant, PTL
=============================================================================
