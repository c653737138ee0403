---------------------------- MODULE UhciBusProofs ----------------------------
(***************************************************************************)
(* ScheduleClean, WildOnlyAfterFailure, AddressesDistinct,                 *)
(* KeyboardConfigured and SlotsKept are invariants of UhciBus for any      *)
(* number of controllers, ports, slots and devices, any waiting time and   *)
(* any allocations that fail.                                              *)
(*                                                                         *)
(* A frame is defined by recursion over the controllers.  The induction    *)
(* it needs is done by looking at the least controller that would be an    *)
(* exception: the library's theorem about least elements takes a set.      *)
(***************************************************************************)
EXTENDS UhciBus, FiniteSetTheorems, WellFoundedInduction, TLAPS

Transfer == [kind : {"SET_ADDRESS", "GET_DEVICE", "GET_CONFIG", "GET_FULL", "SET_CONFIG"},
             port : 1 .. Ports, addr : Nat, slots : SUBSET Slot, held : SUBSET Blocks,
             linked : BOOLEAN, done : Nat, stalled : BOOLEAN, failed : BOOLEAN]
DeviceState == [present : BOOLEAN, enabled : BOOLEAN, addr : Nat, configured : BOOLEAN]

TypeOK == /\ port \in 1 .. Ports /\ step \in 1 .. 5
          /\ bus \in [1 .. Ports -> Controller]
          /\ running \subseteq Controller
          /\ frame_list \in [Slot -> {"term", "unset", "xfer", "kbd"} \X Nat]
          /\ frnum \in [Controller -> Slot]
          /\ xfer \in Seq(Transfer)
          /\ dev \in [1 .. Ports -> DeviceState]
          /\ wild \in BOOLEAN

\* The transfer that is waited for is the last one started, holds its
\* descriptors and is for the port the enumeration is at.
WaitInv ==
    /\ pc = "parse" => step = 4
    /\ pc = "wait" =>
         /\ Current \in 1 .. Len(xfer)
         /\ xfer[Current].kind = Kinds[step]
         /\ xfer[Current].held = Blocks /\ xfer[Current].linked /\ ~xfer[Current].failed
         /\ xfer[Current].port = port
         /\ xfer[Current].addr = IF step = 1 THEN 0 ELSE Address(port)
         /\ dev[port].enabled /\ bus[port] \in running

\* What the frame list points to: a transfer that failed, with its queue head
\* unless it fetched the configuration, or the one that is waited for, which
\* knows all the slots it is in.
Linked(s) == frame_list[s][1] = "xfer"
SlotOK(s) == /\ frame_list[s][2] \in 1 .. Current
             /\ \/ /\ xfer[frame_list[s][2]].failed
                   /\ \/ "qh" \in xfer[frame_list[s][2]].held
                      \/ /\ xfer[frame_list[s][2]].kind \in Config
                         /\ xfer[frame_list[s][2]].linked
                \/ /\ pc = "wait" /\ frame_list[s][2] = Current
                   /\ s \in xfer[Current].slots
SchedInv == \A s \in Slot : Linked(s) => SlotOK(s)

BusInv == TypeOK /\ WaitInv /\ SchedInv /\ WildOnlyAfterFailure

-----------------------------------------------------------------------------
\* Every set of numbers that is not empty has a least one.
LEMMA LeastNumber ==
    ASSUME NEW T, T \subseteq Nat, T # {}
    PROVE  \E m \in T : \A k \in T : m <= k
<1>1. PICK m \in T : \A k \in T : ~(<<k, m>> \in OpToRel(<, Nat))
  BY NatLessThanWellFounded, WFMin, Zenon
<1>2. ASSUME NEW k \in T PROVE m <= k
  <2>1. ~(<<k, m>> \in OpToRel(<, Nat))
    BY <1>1, Zenon
  <2>2. ~(<<k, m>> \in {ss \in Nat \X Nat : ss[1] < ss[2]})
    BY <2>1, Zenon DEF OpToRel
  <2> QED
    BY <2>2
<1> QED
  BY <1>2

(***************************************************************************)
(* The frames of the controllers.  Approx(n, f) says that f is the         *)
(* function "after" of Frame, as far as controller n.                      *)
(***************************************************************************)
Before == [xfer |-> xfer, dev |-> dev, wild |-> wild]
Visits(c, S) == UNION {Visit(c, x) : x \in S}
Approx(n, f) == f = [c \in 0 .. n |-> IF c = 0 THEN {Before} ELSE Visits(c, f[c - 1])]

\* The recursion of Frame defines a function.
LEMMA AfterExists == \E f : Approx(Controllers, f)
<1> DEFINE Bad == {n \in Nat : \A f : ~Approx(n, f)}
<1>1. SUFFICES ASSUME Bad # {} PROVE FALSE
  BY PortAssumption
<1>2. PICK m \in Bad : \A k \in Bad : m <= k
  BY <1>1, LeastNumber
<1>3. CASE m = 0
  <2> DEFINE g == [c \in 0 .. 0 |-> {Before}]
  <2>1. g = [c \in 0 .. 0 |-> IF c = 0 THEN {Before} ELSE Visits(c, g[c - 1])]
    OBVIOUS
  <2>2. Approx(0, g)
    BY <2>1, Zenon DEF Approx
  <2> QED
    BY <1>2, <1>3, <2>2
<1>4. CASE m # 0
  <2>1. m - 1 \in Nat /\ m \in Nat /\ m - 1 \notin Bad
    BY <1>2, <1>4
  <2>2. PICK f : Approx(m - 1, f)
    BY <2>1
  <2> DEFINE g == [c \in 0 .. m |-> IF c = m THEN Visits(m, f[m - 1]) ELSE f[c]]
             h == [c \in 0 .. m |-> IF c = 0 THEN {Before} ELSE Visits(c, g[c - 1])]
  <2>3. \A c \in 0 .. m - 1 : f[c] = IF c = 0 THEN {Before} ELSE Visits(c, f[c - 1])
    BY <2>2 DEF Approx
  <2>4. ASSUME NEW c \in 0 .. m PROVE g[c] = h[c]
    <3>1. CASE c = m
      <4>1. g[m - 1] = f[m - 1]
        BY <2>1
      <4> QED
        BY <3>1, <4>1, <1>4, <2>1
    <3>2. CASE c # m /\ c # 0
      <4>1. c \in 0 .. m - 1 /\ c - 1 \in 0 .. m /\ c - 1 # m
        BY <3>2, <2>1
      <4>2. g[c] = f[c] /\ g[c - 1] = f[c - 1]
        BY <3>2, <4>1
      <4> QED
        BY <3>2, <4>1, <4>2, <2>3
    <3>3. CASE c = 0
      <4>1. 0 \in 0 .. m - 1 /\ c # m
        BY <3>3, <2>1, <1>4
      <4> QED
        BY <3>3, <4>1, <2>3
    <3> QED
      BY <3>1, <3>2, <3>3
  <2>5. g = h
    BY <2>4
  <2>6. Approx(m, g)
    BY <2>5, Zenon DEF Approx
  <2> QED
    BY <1>2, <2>6
<1> QED
  BY <1>3, <1>4

\* What every visit of every controller keeps, holds after the frame.
LEMMA FrameKeeps ==
    ASSUME NEW Good, Before \in Good,
           \A c \in Controller, x \in Good : Visit(c, x) \subseteq Good,
           Frame
    PROVE  \E x \in Good : xfer' = x.xfer /\ dev' = x.dev /\ wild' = x.wild
<1> DEFINE after == CHOOSE f : Approx(Controllers, f)
<1>1. Approx(Controllers, after)
  BY AfterExists, Zenon
<1>2. \E x \in after[Controllers] : xfer' = x.xfer /\ dev' = x.dev /\ wild' = x.wild
  BY Zenon DEF Frame, Approx, Before, Visits
<1> HIDE DEF after
<1>3. \A c \in 0 .. Controllers : after[c] = IF c = 0 THEN {Before} ELSE Visits(c, after[c - 1])
  BY <1>1 DEF Approx
<1> DEFINE Bad == {c \in 0 .. Controllers : ~(after[c] \subseteq Good)}
<1>4. Bad = {}
  <2> SUFFICES ASSUME Bad # {} PROVE FALSE
    OBVIOUS
  <2>0. Bad \subseteq Nat
    BY PortAssumption
  <2>1. PICK m \in Bad : \A k \in Bad : m <= k
    BY <2>0, LeastNumber
  <2>2. m # 0
    BY <1>3, <2>1
  <2>3. m - 1 \in 0 .. Controllers /\ m - 1 \notin Bad /\ m \in Controller
    BY <2>1, <2>2, PortAssumption DEF Controller
  <2>4. after[m] = Visits(m, after[m - 1]) /\ after[m - 1] \subseteq Good
    BY <1>3, <2>1, <2>2, <2>3
  <2>5. Visits(m, after[m - 1]) \subseteq Good
    BY <2>3, <2>4 DEF Visits
  <2> QED
    BY <2>1, <2>4, <2>5
<1>5. after[Controllers] \subseteq Good
  BY <1>4, PortAssumption
<1> QED
  BY <1>2, <1>5

-----------------------------------------------------------------------------
\* The state of the hardware after some frames: transfers have got further,
\* and whose they are, where they are linked and what they hold is the same.
Results == [xfer : Seq(Transfer), dev : [1 .. Ports -> DeviceState], wild : BOOLEAN]
SameTransfer(t, u) == /\ t.kind = u.kind /\ t.port = u.port /\ t.addr = u.addr
                      /\ t.slots = u.slots /\ t.held = u.held /\ t.linked = u.linked
                      /\ t.failed = u.failed
Later(x) == /\ Len(x.xfer) = Len(xfer)
            /\ \A n \in 1 .. Len(xfer) : SameTransfer(x.xfer[n], xfer[n])
            /\ \A p \in 1 .. Ports : x.dev[p].enabled = dev[p].enabled
            /\ x.wild => AbandonedFetch

\* The slot that a controller visits.
LEMMA VisitedSlot ==
    ASSUME TypeOK, NEW c \in Controller
    PROVE  (frnum[c] + 1) % FrameCount \in Slot
<1>1. frnum[c] \in Nat
  BY FrameAssumption DEF TypeOK, Slot
<1> QED
  BY <1>1, FrameAssumption DEF Slot

\* The address of a port is a number from 1 on.
LEMMA AddressType ==
    ASSUME NEW p \in 1 .. Ports
    PROVE  Address(p) \in Nat /\ Address(p) >= 1
<1> DEFINE Q == {q \in 1 .. p : bus[q] = bus[p]}
<1>1. Q \subseteq 1 .. p /\ IsFiniteSet(1 .. p) /\ p \in Q
  BY FS_Interval, PortAssumption
<1>2. IsFiniteSet(Q)
  BY <1>1, FS_Subset
<1>3. Cardinality(Q) \in Nat /\ Cardinality(Q) # 0
  BY <1>1, <1>2, FS_CardinalityType, FS_EmptySet
<1> QED
  BY <1>3 DEF Address

\* What the devices do when a transfer is through.
LEMMA ObeyedType ==
    ASSUME NEW c, NEW d \in [1 .. Ports -> DeviceState], NEW t \in Transfer
    PROVE  Obeyed(c, d, t) \in [1 .. Ports -> DeviceState]
<1>1. t.port \in 1 .. Ports
  BY DEF Transfer
<1>2. Address(t.port) \in Nat
  BY <1>1, AddressType
<1> HIDE DEF DeviceState
<1>3. ASSUME NEW p \in 1 .. Ports
      PROVE  /\ d[p] \in DeviceState
             /\ [d[p] EXCEPT !.addr = Address(t.port)] \in DeviceState
             /\ [d[p] EXCEPT !.configured = TRUE] \in DeviceState
  BY <1>2 DEF DeviceState
<1> QED
  BY <1>3 DEF Obeyed

\* What a visit of a transfer changes: how far that transfer is, and the
\* devices when it is through.
RunEffect(c, x, n, y) ==
    /\ y \in Results
    /\ Len(y.xfer) = Len(x.xfer)
    /\ \A k \in 1 .. Len(x.xfer) : k # n => y.xfer[k] = x.xfer[k]
    /\ SameTransfer(y.xfer[n], x.xfer[n])
    /\ y.wild = x.wild
    /\ \/ /\ y.dev = x.dev
          /\ \/ y.xfer[n].done = x.xfer[n].done
             \/ y.xfer[n].done < Stages(x.xfer[n].kind)
       \/ /\ y.dev = Obeyed(c, x.dev, x.xfer[n])
          /\ Answering(c, x.dev, x.xfer[n].addr) # {}

\* Run has no other effect than RunEffect.
LEMMA RunShape ==
    ASSUME NEW c, NEW x \in Results, NEW n \in 1 .. Len(x.xfer), NEW y \in Run(c, x, n)
    PROVE  RunEffect(c, x, n, y)
<1> USE DEF RunEffect
<1> DEFINE t == x.xfer[n]
           end == Stages(t.kind)
<1>1. x.xfer \in Seq(Transfer) /\ t \in Transfer /\ x.dev \in [1 .. Ports -> DeviceState]
      /\ x.wild \in BOOLEAN
  BY DEF Results
<1>2. CASE y = x
  BY <1>1, <1>2 DEF SameTransfer
<1>3. CASE y # x
  <2>1. /\ Answering(c, x.dev, t.addr) # {}
        /\ \E e \in (t.done .. end) \X BOOLEAN :
             y = [x EXCEPT !.xfer[n].done = e[1], !.xfer[n].stalled = e[2],
                           !.dev = IF e[1] = end THEN Obeyed(c, x.dev, t) ELSE x.dev]
    BY <1>3 DEF Run
  <2>2. PICK e1 \in t.done .. end, e2 \in BOOLEAN :
             y = [x EXCEPT !.xfer[n].done = e1, !.xfer[n].stalled = e2,
                           !.dev = IF e1 = end THEN Obeyed(c, x.dev, t) ELSE x.dev]
    BY <2>1
  <2> DEFINE u == [t EXCEPT !.done = e1, !.stalled = e2]
             d == IF e1 = end THEN Obeyed(c, x.dev, t) ELSE x.dev
  <2>3. d \in [1 .. Ports -> DeviceState]
    BY <1>1, ObeyedType
  <2>4. y = [xfer |-> [x.xfer EXCEPT ![n] = u], dev |-> d, wild |-> x.wild]
    BY <2>2 DEF Results
  <2>5. e1 \in Nat /\ e1 <= end
    <3>1. t.done \in Nat
      BY <1>1 DEF Transfer
    <3>2. end \in Nat
      BY DEF Stages
    <3> HIDE DEF t, end
    <3> QED
      BY <3>1, <3>2
  <2>6. u \in Transfer /\ SameTransfer(u, t) /\ u.done = e1
    BY <1>1, <2>5 DEF Transfer, SameTransfer
  <2> HIDE DEF u, d
  <2>7. /\ y.xfer = [x.xfer EXCEPT ![n] = u] /\ y.dev = d /\ y.wild = x.wild
    BY <2>4
  <2>8. /\ y.xfer \in Seq(Transfer) /\ Len(y.xfer) = Len(x.xfer) /\ y.xfer[n] = u
        /\ \A k \in 1 .. Len(x.xfer) : k # n => y.xfer[k] = x.xfer[k]
    BY <2>7, <2>6, <1>1
  <2>9. y \in Results
    BY <2>3, <2>4, <2>7, <2>8, <1>1 DEF Results
  <2>10. end \in Nat
    BY DEF Stages
  <2>11. CASE e1 = end
    <3>1. y.dev = Obeyed(c, x.dev, t)
      BY <2>7, <2>11 DEF d
    <3> QED
      BY <2>1, <2>6, <2>7, <2>8, <2>9, <3>1
  <2>12. CASE e1 # end
    <3>1. y.dev = x.dev /\ y.xfer[n].done < end
      BY <2>5, <2>6, <2>7, <2>8, <2>10, <2>12 DEF d
    <3> QED
      BY <2>6, <2>7, <2>8, <2>9, <3>1
  <2> QED
    BY <2>11, <2>12
<1> QED
  BY <1>2, <1>3

\* A visit of a transfer leaves all but how far it is, and no device is
\* plugged in or out by it.
LEMMA RunKeeps ==
    ASSUME NEW c, NEW x \in Results, NEW n \in 1 .. Len(x.xfer), NEW y \in Run(c, x, n)
    PROVE  /\ y \in Results /\ Len(y.xfer) = Len(x.xfer) /\ y.wild = x.wild
           /\ \A k \in 1 .. Len(x.xfer) : SameTransfer(y.xfer[k], x.xfer[k])
           /\ \A p \in 1 .. Ports : y.dev[p].enabled = x.dev[p].enabled
<1>1. RunEffect(c, x, n, y)
  BY RunShape
<1>2. x.dev \in [1 .. Ports -> DeviceState]
  BY DEF Results
<1>3. ASSUME NEW p \in 1 .. Ports PROVE y.dev[p].enabled = x.dev[p].enabled
  <2>1. /\ [x.dev[p] EXCEPT !.addr = Address(x.xfer[n].port)].enabled = x.dev[p].enabled
        /\ [x.dev[p] EXCEPT !.configured = TRUE].enabled = x.dev[p].enabled
    BY <1>2 DEF DeviceState
  <2>2. CASE y.dev = x.dev
    BY <2>2
  <2>3. CASE y.dev = Obeyed(c, x.dev, x.xfer[n])
    BY <2>1, <2>3 DEF Obeyed
  <2> QED
    BY <1>1, <2>2, <2>3 DEF RunEffect
<1> QED
  BY <1>1, <1>3 DEF RunEffect, SameTransfer

\* A slot that leads to a transfer, seen from the controller.
LEMMA VisitedTransfer ==
    ASSUME BusInv, NEW s \in Slot, Linked(s)
    PROVE  /\ frame_list[s][2] \in 1 .. Len(xfer)
           /\ "qh" \notin xfer[frame_list[s][2]].held => AbandonedFetch
<1>1. SlotOK(s)
  BY DEF BusInv, SchedInv
<1>2. pc = "wait" => "qh" \in xfer[Current].held
  BY DEF BusInv, WaitInv, Blocks
<1> QED
  BY <1>1, <1>2 DEF SlotOK, Current, AbandonedFetch

\* A visit leads from one such state of the hardware to another.
LEMMA VisitKeeps ==
    ASSUME BusInv, NEW c \in Controller, NEW x \in Results, Later(x), NEW y \in Visit(c, x)
    PROVE  y \in Results /\ Later(y)
<1> DEFINE s == (frnum[c] + 1) % FrameCount
           n == frame_list[s][2]
<1>1. s \in Slot
  BY VisitedSlot DEF BusInv
<1> HIDE DEF s
<1>2. CASE y = x
  BY <1>2
<1>3. CASE y # x
  <2>1. Linked(s)
    BY <1>3 DEF Visit, Linked, s
  <2>2. n \in 1 .. Len(xfer) /\ ("qh" \notin xfer[n].held => AbandonedFetch)
    BY <1>1, <2>1, VisitedTransfer
  <2>3. n \in 1 .. Len(x.xfer) /\ x.xfer[n].held = xfer[n].held
    BY <2>2 DEF Later, SameTransfer
  <2>4. CASE y \in Run(c, x, n)
    <3> HIDE DEF n
    <3>1. /\ y \in Results /\ Len(y.xfer) = Len(x.xfer) /\ y.wild = x.wild
          /\ \A k \in 1 .. Len(x.xfer) : SameTransfer(y.xfer[k], x.xfer[k])
          /\ \A p \in 1 .. Ports : y.dev[p].enabled = x.dev[p].enabled
      BY <2>3, <2>4, RunKeeps
    <3>2. ASSUME NEW k \in 1 .. Len(xfer) PROVE SameTransfer(y.xfer[k], xfer[k])
      BY <3>1 DEF Later, SameTransfer
    <3> QED
      BY <3>1, <3>2 DEF Later
  <2>5. CASE y = [x EXCEPT !.wild = TRUE] /\ "qh" \notin x.xfer[n].held
    <3>1. y.xfer = x.xfer /\ y.dev = x.dev /\ y \in Results
      BY <2>5 DEF Results
    <3> QED
      BY <3>1, <2>2, <2>3, <2>5 DEF Later
  <2> QED
    BY <1>3, <2>4, <2>5 DEF Visit, s
<1> QED
  BY <1>2, <1>3

\* A frame moves transfers on; it neither unlinks nor frees anything.
LEMMA FrameLater ==
    ASSUME BusInv, Frame
    PROVE  /\ xfer' \in Seq(Transfer) /\ dev' \in [1 .. Ports -> DeviceState]
           /\ wild' \in BOOLEAN /\ Len(xfer') = Len(xfer)
           /\ \A n \in 1 .. Len(xfer) : SameTransfer(xfer'[n], xfer[n])
           /\ \A p \in 1 .. Ports : dev'[p].enabled = dev[p].enabled
           /\ wild' => AbandonedFetch
           /\ frnum' \in [Controller -> Slot]
<1> DEFINE Good == {x \in Results : Later(x)}
<1>1. Before \in Good
  <2>1. Before \in Results /\ Before.xfer = xfer /\ Before.wild = wild /\ Before.dev = dev
    BY DEF Before, Results, BusInv, TypeOK
  <2> QED
    BY <2>1 DEF Later, SameTransfer, BusInv, WildOnlyAfterFailure
<1>2. \A c \in Controller, x \in Good : Visit(c, x) \subseteq Good
  BY VisitKeeps
<1>3. PICK x \in Good : xfer' = x.xfer /\ dev' = x.dev /\ wild' = x.wild
  <2> HIDE DEF Good
  <2> QED
    BY <1>1, <1>2, FrameKeeps
<1>4. frnum' \in [Controller -> Slot]
  <2>1. \A c \in Controller : (frnum[c] + 1) % FrameCount \in Slot /\ frnum[c] \in Slot
    BY VisitedSlot DEF BusInv, TypeOK
  <2>2. frnum' = [c \in Controller |-> IF c \in running THEN (frnum[c] + 1) % FrameCount
                                      ELSE frnum[c]]
    BY Zenon DEF Frame
  <2> QED
    BY <2>1, <2>2
<1> QED
  BY <1>3, <1>4 DEF Later, Results

-----------------------------------------------------------------------------
\* On to the next port: a port, and the first transfer.
LEMMA NextPortShape ==
    ASSUME TypeOK, NextPort
    PROVE  /\ port' \in 1 .. Ports /\ step' = 1
           /\ pc' \in {"done", "reset", "init"}
<1>1. port \in 1 .. Ports
  BY DEF TypeOK
<1> QED
  BY <1>1, PortAssumption DEF NextPort

\* Nothing of the frame list or of the transfers changes, and none is waited
\* for before or after the step.
LEMMA QuietStep ==
    ASSUME BusInv, UNCHANGED <<bus, running, frame_list, frnum, xfer, wild>>,
           pc # "wait", pc' # "wait", pc' = "parse" => step' = 4,
           port' \in 1 .. Ports, step' \in 1 .. 5, dev' \in [1 .. Ports -> DeviceState]
    PROVE  BusInv'
<1>1. TypeOK'
  BY DEF BusInv, TypeOK
<1>2. SchedInv'
  BY DEF BusInv, SchedInv, Linked, SlotOK, Current
<1> QED
  BY <1>1, <1>2 DEF BusInv, WaitInv, WildOnlyAfterFailure, AbandonedFetch, Current

\* BusInv holds at the start: the frame list is not initialised and nothing runs.
LEMMA InitBus == Init => BusInv
<1> SUFFICES ASSUME Init PROVE BusInv
  OBVIOUS
<1>1. TypeOK
  <2>1. dev \in [1 .. Ports -> DeviceState]
    <3>1. dev \in [1 .. Ports -> [present : BOOLEAN, enabled : {FALSE}, addr : {0},
                                   configured : {FALSE}]]
      BY DEF Init
    <3>2. ASSUME NEW p \in 1 .. Ports PROVE dev[p] \in DeviceState
      <4>1. dev[p] \in [present : BOOLEAN, enabled : {FALSE}, addr : {0}, configured : {FALSE}]
        BY <3>1
      <4>2. dev[p] = [present |-> dev[p].present, enabled |-> dev[p].enabled,
                      addr |-> dev[p].addr, configured |-> dev[p].configured]
        BY <4>1, Zenon
      <4>3. dev[p].addr \in {0}
        BY <4>1, Zenon
      <4>4. dev[p].present \in BOOLEAN /\ dev[p].enabled \in {FALSE}
            /\ dev[p].configured \in {FALSE}
        BY <4>1
      <4>5. dev[p].enabled \in BOOLEAN /\ dev[p].configured \in BOOLEAN
        BY <4>4, Zenon
      <4> QED
        BY <4>2, <4>3, <4>4, <4>5 DEF DeviceState
    <3> QED
      BY <3>1, <3>2
  <2>2. Unset \in {"term", "unset", "xfer", "kbd"} \X Nat
    BY DEF Unset
  <2>3. 0 \in Slot
    BY FrameAssumption DEF Slot
  <2>4. frame_list \in [Slot -> {"term", "unset", "xfer", "kbd"} \X Nat]
        /\ frnum \in [Controller -> Slot]
    BY <2>2, <2>3 DEF Init
  <2>5. bus \in [1 .. Ports -> Controller] /\ xfer \in Seq(Transfer)
    BY DEF Init
  <2>6. port \in 1 .. Ports /\ step \in 1 .. 5 /\ running \subseteq Controller /\ wild \in BOOLEAN
    <3>1. port = 1 /\ step = 1 /\ running = {} /\ wild = FALSE
      BY Zenon DEF Init
    <3>2. wild \in BOOLEAN
      BY <3>1, Zenon
    <3> QED
      BY <3>1, <3>2, PortAssumption
  <2> QED
    BY <2>1, <2>4, <2>5, <2>6 DEF TypeOK
<1>2. SchedInv
  BY DEF Init, SchedInv, Linked, Unset
<1> QED
  BY <1>1, <1>2 DEF Init, BusInv, WaitInv, WildOnlyAfterFailure

\* Starting a controller terminates the shared list, or leaves it as it is.
LEMMA InitializeBus == BusInv /\ initialize => BusInv'
<1> SUFFICES ASSUME BusInv, initialize PROVE BusInv'
  OBVIOUS
<1>1. TypeOK'
  <2>1. Term \in {"term", "unset", "xfer", "kbd"} \X Nat /\ 0 \in Slot
    BY FrameAssumption DEF Term, Slot
  <2>2. frame_list' \in [Slot -> {"term", "unset", "xfer", "kbd"} \X Nat]
    BY <2>1 DEF BusInv, TypeOK, initialize
  <2>3. frnum' \in [Controller -> Slot] /\ running' \subseteq Controller
    BY <2>1 DEF BusInv, TypeOK, initialize
  <2> QED
    BY <2>2, <2>3 DEF BusInv, TypeOK, initialize
<1>2. SchedInv'
  <2>1. CASE UNCHANGED frame_list
    BY <2>1 DEF BusInv, SchedInv, Linked, SlotOK, Current, initialize
  <2>2. CASE frame_list' = [s \in Slot |-> Term]
    BY <2>2 DEF SchedInv, Linked, Term
  <2> QED
    BY <2>1, <2>2 DEF initialize
<1> QED
  BY <1>1, <1>2 DEF initialize, BusInv, WaitInv, WildOnlyAfterFailure, AbandonedFetch, Current

\* Resetting a port touches neither transfers nor frame list.
LEMMA ResetPortBus == BusInv /\ reset_port => BusInv'
<1> SUFFICES ASSUME BusInv, reset_port PROVE BusInv'
  OBVIOUS
<1>1. dev' \in [1 .. Ports -> DeviceState]
  <2>1. dev \in [1 .. Ports -> DeviceState] /\ port \in 1 .. Ports
    BY DEF BusInv, TypeOK
  <2> DEFINE r == [dev[port] EXCEPT !.enabled = dev[port].present, !.addr = 0,
                                    !.configured = FALSE]
  <2>2. r \in DeviceState
    BY <2>1 DEF DeviceState
  <2>3. UNCHANGED dev \/ dev' = [dev EXCEPT ![port] = r]
    BY <2>1 DEF reset_port
  <2> QED
    BY <2>1, <2>2, <2>3
<1>2. /\ port' \in 1 .. Ports /\ step' \in 1 .. 5
      /\ pc' \notin {"wait", "parse"}
  BY NextPortShape DEF BusInv, TypeOK, reset_port
<1> QED
  BY <1>1, <1>2, QuietStep DEF reset_port

\* An empty port is left without a trace.
LEMMA NoDeviceBus == BusInv /\ no_device => BusInv'
<1> SUFFICES ASSUME BusInv, no_device PROVE BusInv'
  OBVIOUS
<1>1. dev' \in [1 .. Ports -> DeviceState] /\ port' \in 1 .. Ports /\ step' \in 1 .. 5
      /\ pc' \notin {"wait", "parse"}
  BY NextPortShape DEF BusInv, TypeOK, no_device
<1> QED
  BY <1>1, QuietStep DEF no_device

\* The parse of a configuration touches neither transfers nor frame list.
LEMMA ParseBus == BusInv /\ parse => BusInv'
<1> SUFFICES ASSUME BusInv, parse PROVE BusInv'
  OBVIOUS
<1>1. dev' \in [1 .. Ports -> DeviceState] /\ step = 4 /\ port \in 1 .. Ports
  BY DEF BusInv, TypeOK, WaitInv, parse
<1>2. port' \in 1 .. Ports /\ step' \in 1 .. 5 /\ pc' \notin {"wait", "parse"}
  <2>1. CASE NextPort
    BY <2>1, NextPortShape DEF BusInv
  <2>2. CASE step' = step + 1 /\ pc' = "sleep" /\ port' = port
    BY <1>1, <2>2
  <2> QED
    BY <2>1, <2>2 DEF parse
<1> QED
  BY <1>1, <1>2, QuietStep DEF parse

\* A millisecond of the sleeps and of the wait.
LEMMA FrameBus ==
    ASSUME BusInv, Frame, UNCHANGED <<pc, port, step, bus, running, frame_list>>
    PROVE  BusInv'
<1>1. /\ xfer' \in Seq(Transfer) /\ dev' \in [1 .. Ports -> DeviceState]
      /\ wild' \in BOOLEAN /\ Len(xfer') = Len(xfer)
      /\ \A n \in 1 .. Len(xfer) : SameTransfer(xfer'[n], xfer[n])
      /\ \A p \in 1 .. Ports : dev'[p].enabled = dev[p].enabled
      /\ wild' => AbandonedFetch
      /\ frnum' \in [Controller -> Slot]
  BY FrameLater
<1>2. TypeOK'
  BY <1>1 DEF BusInv, TypeOK
<1>3. WaitInv'
  BY <1>1 DEF BusInv, WaitInv, TypeOK, Current, SameTransfer, Address
<1>4. SchedInv'
  <2> SUFFICES ASSUME NEW s \in Slot, Linked(s) PROVE SlotOK(s)'
    BY DEF SchedInv, Linked
  <2>1. SlotOK(s)
    BY DEF BusInv, SchedInv
  <2>2. frame_list[s][2] \in 1 .. Len(xfer)
    BY <2>1 DEF SlotOK, Current
  <2>3. SameTransfer(xfer'[frame_list[s][2]], xfer[frame_list[s][2]])
    BY <1>1, <2>2
  <2> QED
    BY <1>1, <2>1, <2>2, <2>3 DEF SlotOK, Current, SameTransfer
<1>5. WildOnlyAfterFailure'
  BY <1>1 DEF WildOnlyAfterFailure, AbandonedFetch, SameTransfer, Current
<1> QED
  BY <1>2, <1>3, <1>4, <1>5 DEF BusInv

-----------------------------------------------------------------------------
\* An entry of the frame list.
Entry == {"term", "unset", "xfer", "kbd"} \X Nat

\* What the descriptors are made of, and where they go.
LEMMA NewTransferType ==
    ASSUME TypeOK, NEW slots, slots \subseteq Slot, NEW held, held \subseteq Blocks
    PROVE  /\ NewTransfer(slots, held) \in Transfer
           /\ [NewTransfer(slots, held) EXCEPT !.failed = TRUE] \in Transfer
<1>1. port \in 1 .. Ports /\ step \in 1 .. 5
  BY DEF TypeOK
<1>2. Kinds[step] \in {"SET_ADDRESS", "GET_DEVICE", "GET_CONFIG", "GET_FULL", "SET_CONFIG"}
  <2>1. step = 1 \/ step = 2 \/ step = 3 \/ step = 4 \/ step = 5
    BY <1>1
  <2> QED
    BY <2>1 DEF Kinds
<1>3. (IF step = 1 THEN 0 ELSE Address(port)) \in Nat
  BY <1>1, AddressType
<1>4. NewTransfer(slots, held) \in Transfer
  BY <1>1, <1>2, <1>3 DEF NewTransfer, Transfer
<1> QED
  BY <1>4 DEF Transfer

\* The slots computed from FRNUM are slots of the list.
LEMMA SlotsForType ==
    ASSUME TypeOK, NEW kind
    PROVE  SlotsFor(kind) \subseteq Slot
<1>1. Now \in Slot /\ Now \in Nat
  BY FrameAssumption DEF TypeOK, Now, Slot
<1> HIDE DEF Now
<1>2. (Now + 1) % FrameCount \in Slot /\ (Now + 2) % FrameCount \in Slot
  BY <1>1, FrameAssumption DEF Slot
<1> QED
  BY <1>1, <1>2 DEF SlotsFor

\* A transfer is started from pc = "sleep" and linked into some slots; the
\* others keep what they had.
LEMMA AppendStep ==
    ASSUME BusInv, pc # "wait", NEW t \in Transfer, xfer' = Append(xfer, t),
           NEW S, frame_list' = Link(Xfer(Current + 1), S),
           UNCHANGED <<bus, running, frnum, dev, wild>>,
           port' \in 1 .. Ports, step' \in 1 .. 5,
           \/ pc' = "wait" /\ t.slots = S
           \/ t.failed /\ t.held = Blocks
           \/ t.failed /\ S = {}
    PROVE  TypeOK' /\ SchedInv' /\ WildOnlyAfterFailure'
<1>1. xfer \in Seq(Transfer) /\ frame_list \in [Slot -> Entry]
  BY DEF BusInv, TypeOK, Entry
<1>2. /\ xfer' \in Seq(Transfer) /\ Len(xfer') = Len(xfer) + 1 /\ Len(xfer) \in Nat
      /\ xfer'[Len(xfer')] = t
      /\ \A n \in 1 .. Len(xfer) : xfer'[n] = xfer[n]
  BY <1>1
<1>3. \A s \in Slot : frame_list'[s] = IF s \in S THEN Xfer(Current + 1) ELSE frame_list[s]
  BY DEF Link
<1>4. frame_list' \in [Slot -> Entry]
  <2>1. Xfer(Current + 1) \in Entry
    BY <1>2 DEF Xfer, Current, Entry
  <2> QED
    BY <1>1, <2>1 DEF Link
<1>5. TypeOK'
  BY <1>2, <1>4 DEF BusInv, TypeOK, Entry
<1>6. SchedInv'
  <2> SUFFICES ASSUME NEW s \in Slot, Linked(s)' PROVE SlotOK(s)'
    BY DEF SchedInv
  <2>1. CASE s \in S
    <3>1. frame_list'[s] = <<"xfer", Len(xfer) + 1>>
      BY <1>3, <2>1 DEF Xfer, Current
    <3>2. frame_list'[s][2] = Len(xfer')
      BY <1>2, <3>1
    <3> QED
      BY <1>2, <2>1, <3>2 DEF SlotOK, Current, Blocks
  <2>2. CASE s \notin S
    <3>1. frame_list'[s] = frame_list[s]
      BY <1>3, <2>2
    <3>2. SlotOK(s)
      BY <3>1 DEF BusInv, SchedInv, Linked
    <3> QED
      BY <1>2, <3>1, <3>2 DEF SlotOK, Current
  <2> QED
    BY <2>1, <2>2
<1>7. WildOnlyAfterFailure'
  BY <1>2 DEF BusInv, WildOnlyAfterFailure, AbandonedFetch, Current
<1> QED
  BY <1>5, <1>6, <1>7

\* A transfer that starts knows the slots it is linked into.
LEMMA BeginBus == BusInv /\ begin => BusInv'
<1> SUFFICES ASSUME BusInv, begin PROVE BusInv'
  OBVIOUS
<1> DEFINE S == SlotsFor(Kinds[step])
           t == NewTransfer(S, Blocks)
<1>1. S \subseteq Slot /\ TypeOK
  BY SlotsForType DEF BusInv
<1> HIDE DEF S
<1>2. t \in Transfer
  BY <1>1, NewTransferType
<1>2a. S # {}
  BY DEF S, SlotsFor
<1>3. /\ t.kind = Kinds[step] /\ t.held = Blocks /\ t.failed = FALSE /\ t.port = port
      /\ t.addr = (IF step = 1 THEN 0 ELSE Address(port)) /\ t.slots = S
  BY DEF NewTransfer
<1>3a. t.linked
  BY <1>2a DEF NewTransfer
<1> HIDE DEF t
<1>4. /\ xfer' = Append(xfer, t) /\ frame_list' = Link(Xfer(Current + 1), S)
      /\ pc = "sleep" /\ pc' = "wait" /\ dev[port].enabled /\ bus[port] \in running
      /\ UNCHANGED <<port, step, bus, running, frnum, dev, wild>>
  BY DEF begin, Ready, t, S
<1>5. TypeOK' /\ SchedInv' /\ WildOnlyAfterFailure'
  BY <1>1, <1>2, <1>3, <1>4, AppendStep DEF TypeOK
<1>6. WaitInv'
  <2>1. Current' \in 1 .. Len(xfer') /\ xfer'[Current'] = t
    BY <1>1, <1>2, <1>4 DEF TypeOK, Current
  <2>2. Address(port)' = Address(port)
    BY <1>4 DEF Address
  <2> QED
    BY <1>3, <1>3a, <1>4, <2>1, <2>2 DEF WaitInv
<1> QED
  BY <1>5, <1>6 DEF BusInv

\* A transfer that finds the controller stopped stays linked, with its queue head.
LEMMA NotRunningBus == BusInv /\ not_running => BusInv'
<1> SUFFICES ASSUME BusInv, not_running PROVE BusInv'
  OBVIOUS
<1> DEFINE S == SlotsFor(Kinds[step])
           t == [NewTransfer(S, Blocks) EXCEPT !.failed = TRUE]
<1>1. S \subseteq Slot /\ TypeOK
  BY SlotsForType DEF BusInv
<1> HIDE DEF S
<1>2. t \in Transfer /\ t.failed /\ t.held = Blocks
  BY <1>1, NewTransferType DEF NewTransfer
<1> HIDE DEF t
<1>3. /\ xfer' = Append(xfer, t) /\ frame_list' = Link(Xfer(Current + 1), S)
      /\ pc = "sleep" /\ NextPort /\ UNCHANGED <<bus, running, frnum, dev, wild>>
  BY DEF not_running, Ready, t, S
<1>4. port' \in 1 .. Ports /\ step' \in 1 .. 5 /\ pc' \notin {"wait", "parse"}
  BY <1>1, <1>3, NextPortShape
<1>5. TypeOK' /\ SchedInv' /\ WildOnlyAfterFailure'
  BY <1>2, <1>3, <1>4, AppendStep
<1> QED
  BY <1>4, <1>5 DEF BusInv, WaitInv

\* A transfer that could not be allocated is not linked at all.
LEMMA BeginFailsBus == BusInv /\ begin_fails => BusInv'
<1> SUFFICES ASSUME BusInv, begin_fails PROVE BusInv'
  OBVIOUS
<1> DEFINE t == [NewTransfer({}, {"sp"}) EXCEPT !.failed = TRUE]
<1>1. TypeOK
  BY DEF BusInv
<1>2. t \in Transfer /\ t.failed
  BY <1>1, NewTransferType DEF NewTransfer, Blocks
<1> HIDE DEF t
<1>3. /\ xfer' = Append(xfer, t) /\ pc = "sleep" /\ NextPort
      /\ UNCHANGED <<bus, running, frame_list, frnum, dev, wild>>
  BY DEF begin_fails, Ready, t
<1>4. frame_list' = Link(Xfer(Current + 1), {})
  BY <1>1, <1>3 DEF TypeOK, Link
<1>5. port' \in 1 .. Ports /\ step' \in 1 .. 5 /\ pc' \notin {"wait", "parse"}
  BY <1>1, <1>3, NextPortShape
<1>6. TypeOK' /\ SchedInv' /\ WildOnlyAfterFailure'
  BY <1>2, <1>3, <1>4, <1>5, AppendStep
<1> QED
  BY <1>5, <1>6 DEF BusInv, WaitInv

-----------------------------------------------------------------------------
\* The place in the enumeration is told by the kind of the transfer.
LEMMA KindOfStep ==
    ASSUME step \in 1 .. 5
    PROVE  /\ Kinds[step] = "SET_ADDRESS" <=> step = 1
           /\ Kinds[step] = "GET_FULL" <=> step = 4
           /\ Kinds[step] = "SET_CONFIG" <=> step = 5
<1>1. step = 1 \/ step = 2 \/ step = 3 \/ step = 4 \/ step = 5
  OBVIOUS
<1> QED
  BY <1>1 DEF Kinds

\* What is left of a transfer that is freed.
LEMMA FreedShape ==
    ASSUME NEW t \in Transfer, NEW held, held \subseteq Blocks
    PROVE  /\ Freed(t, held) \in Transfer
           /\ Freed(t, held).kind = t.kind /\ Freed(t, held).failed = t.failed
           /\ Freed(t, held).linked = t.linked
           /\ "qh" \in held => Freed(t, held) = t
<1>1. CASE "qh" \in held
  BY <1>1 DEF Freed
<1>2. CASE "qh" \notin held
  BY <1>2 DEF Freed, Transfer
<1> QED
  BY <1>1, <1>2

\* The transfer that was waited for is replaced by u; other transfers and the
\* slots that lead to them are left alone.
LEMMA ReplaceStep ==
    ASSUME BusInv, pc = "wait", pc' # "wait", NEW u \in Transfer,
           xfer' = [xfer EXCEPT ![Current] = u], u.kind = xfer[Current].kind,
           frame_list' \in [Slot -> Entry],
           \A s \in Slot : Linked(s)' => frame_list'[s] = frame_list[s],
           \/ \A s \in Slot : Linked(s)' => s \notin xfer[Current].slots
           \/ u.failed /\ ("qh" \in u.held \/ (u.kind \in Config /\ u.linked)),
           UNCHANGED <<bus, running, frnum, dev, wild>>,
           port' \in 1 .. Ports, step' \in 1 .. 5, pc' = "parse" => step' = 4
    PROVE  BusInv'
<1>1. xfer \in Seq(Transfer) /\ Current \in 1 .. Len(xfer) /\ ~xfer[Current].failed
  BY DEF BusInv, TypeOK, WaitInv
<1>2. /\ xfer' \in Seq(Transfer) /\ Len(xfer') = Len(xfer) /\ xfer'[Current] = u
      /\ \A n \in 1 .. Len(xfer) : n # Current => xfer'[n] = xfer[n]
  BY <1>1
<1>3. TypeOK'
  BY <1>2 DEF BusInv, TypeOK, Entry
<1>4. SchedInv'
  <2> SUFFICES ASSUME NEW s \in Slot, Linked(s)' PROVE SlotOK(s)'
    BY DEF SchedInv
  <2>1. frame_list'[s] = frame_list[s] /\ SlotOK(s)
    BY DEF BusInv, SchedInv, Linked
  <2> DEFINE n == frame_list[s][2]
  <2>2. n \in 1 .. Len(xfer)
    BY <2>1 DEF SlotOK, Current
  <2>3. CASE n # Current
    BY <1>1, <1>2, <2>1, <2>2, <2>3 DEF SlotOK, Current
  <2>4. CASE n = Current
    <3>1. s \in xfer[Current].slots
      BY <1>1, <2>1, <2>4 DEF SlotOK
    <3>2. u.failed /\ ("qh" \in u.held \/ (u.kind \in Config /\ u.linked))
      BY <3>1
    <3>3. frame_list'[s][2] = Current /\ Current' = Current /\ xfer'[Current] = u
      BY <1>2, <2>1, <2>4 DEF Current
    <3> QED
      BY <1>1, <3>2, <3>3 DEF SlotOK, Current
  <2> QED
    BY <2>3, <2>4
<1>5. WildOnlyAfterFailure'
  <2> SUFFICES ASSUME wild PROVE AbandonedFetch'
    BY DEF WildOnlyAfterFailure
  <2>1. PICK n \in 1 .. Current : xfer[n].failed /\ xfer[n].linked /\ xfer[n].kind \in Config
    BY DEF BusInv, WildOnlyAfterFailure, AbandonedFetch
  <2>2. n # Current
    BY <1>1, <2>1
  <2> QED
    BY <1>1, <1>2, <2>1, <2>2 DEF AbandonedFetch, Current
<1> QED
  BY <1>3, <1>4, <1>5 DEF BusInv, WaitInv

\* A transfer that is through leaves all its slots before it is freed.
LEMMA CompleteBus == BusInv /\ complete => BusInv'
<1> SUFFICES ASSUME BusInv, complete PROVE BusInv'
  OBVIOUS
<1> DEFINE t == xfer[Current]
           u == Freed(t, KeptOnSuccess(t.kind))
<1>1. /\ TypeOK /\ t \in Transfer /\ t.kind = Kinds[step] /\ step \in 1 .. 5
      /\ port \in 1 .. Ports
  BY DEF complete, BusInv, WaitInv, TypeOK
<1>2. u \in Transfer /\ u.kind = t.kind
  BY <1>1, FreedShape DEF KeptOnSuccess, Blocks
<1> HIDE DEF u, t
<1>3. /\ pc = "wait" /\ frame_list' = Link(Term, t.slots) /\ xfer' = [xfer EXCEPT ![Current] = u]
      /\ uhci_enumerate_device(t) /\ UNCHANGED <<bus, running, frnum, dev, wild>>
  BY DEF complete, Unlink, t, u
<1>4. /\ port' \in 1 .. Ports /\ step' \in 1 .. 5 /\ pc' # "wait"
      /\ pc' = "parse" => step' = 4
  <2>1. CASE NextPort
    BY <1>1, <2>1, NextPortShape
  <2>2. CASE t.kind = "GET_FULL" /\ pc' = "parse" /\ UNCHANGED <<port, step>>
    BY <1>1, <2>2, KindOfStep
  <2>3. CASE /\ t.kind \notin {"GET_FULL", "SET_CONFIG"} /\ step' = step + 1
             /\ pc' = "sleep" /\ UNCHANGED port
    BY <1>1, <2>3, KindOfStep
  <2>4. CASE pc' = "open" /\ UNCHANGED <<port, step>>
    BY <1>1, <2>4
  <2> QED
    BY <1>3, <2>1, <2>2, <2>3, <2>4 DEF uhci_enumerate_device
<1>5. \A s \in Slot : frame_list'[s] = IF s \in t.slots THEN Term ELSE frame_list[s]
  BY <1>3 DEF Link
<1>6. frame_list' \in [Slot -> Entry]
  BY <1>1, <1>3 DEF TypeOK, Link, Term, Entry
<1>7. \A s \in Slot : Linked(s)' => s \notin t.slots /\ frame_list'[s] = frame_list[s]
  BY <1>5 DEF Linked, Term
<1> QED
  BY <1>2, <1>3, <1>4, <1>6, <1>7, ReplaceStep DEF t

\* A transfer that fails stays linked; only a fetch of the configuration is freed.
LEMMA FailBus == BusInv /\ fail => BusInv'
<1> SUFFICES ASSUME BusInv, fail PROVE BusInv'
  OBVIOUS
<1> DEFINE t == xfer[Current]
           f == Freed(t, KeptOnFailure(t.kind))
           u == [f EXCEPT !.failed = TRUE]
<1>1. TypeOK /\ t \in Transfer /\ t.held = Blocks /\ t.linked
  BY DEF fail, BusInv, WaitInv, TypeOK
<1>2. /\ f \in Transfer /\ f.kind = t.kind /\ f.linked = t.linked
      /\ "qh" \in KeptOnFailure(t.kind) => f = t
  BY <1>1, FreedShape DEF KeptOnFailure, Blocks
<1> HIDE DEF f
<1>3. u \in Transfer /\ u.kind = t.kind /\ u.failed /\ u.held = f.held
      /\ u.linked = f.linked
  BY <1>2 DEF Transfer
<1>4. "qh" \in u.held \/ (u.kind \in Config /\ u.linked)
  BY <1>1, <1>2, <1>3 DEF KeptOnFailure, Blocks, Config
<1> HIDE DEF u, t
<1>5. /\ pc = "wait" /\ xfer' = [xfer EXCEPT ![Current] = u] /\ NextPort
      /\ UNCHANGED <<bus, running, frame_list, frnum, dev, wild>>
  BY DEF fail, t, f, u
<1>6. port' \in 1 .. Ports /\ step' \in 1 .. 5 /\ pc' \notin {"wait", "parse"}
  BY <1>1, <1>5, NextPortShape
<1>7. frame_list' \in [Slot -> Entry]
  BY <1>1, <1>5 DEF TypeOK, Entry
<1> QED
  BY <1>3, <1>4, <1>5, <1>6, <1>7, ReplaceStep DEF t

\* Opening a keyboard overwrites entries and never adds a link to a transfer.
LEMMA OpenPipeBus == BusInv /\ open_pipe => BusInv'
<1> SUFFICES ASSUME BusInv, open_pipe PROVE BusInv'
  OBVIOUS
<1> DEFINE S == IntervalSlots(parsed.interval)
<1> HIDE DEF S
<1>1. /\ pc = "open" /\ NextPort /\ UNCHANGED <<bus, running, frnum, xfer, dev, wild>>
      /\ UNCHANGED frame_list \/ frame_list' = Link(Kbd(port), S)
  BY DEF open_pipe, S
<1>2. port' \in 1 .. Ports /\ step' \in 1 .. 5 /\ pc' \notin {"wait", "parse"}
      /\ port \in Nat /\ frame_list \in [Slot -> Entry]
  BY <1>1, NextPortShape DEF BusInv, TypeOK, Entry
<1>3. frame_list' \in [Slot -> Entry]
  BY <1>1, <1>2 DEF Link, Kbd, Entry
<1>4. \A s \in Slot : frame_list'[s] = frame_list[s] \/ frame_list'[s] = Kbd(port)
  BY <1>1 DEF Link
<1>5. TypeOK'
  BY <1>1, <1>2, <1>3 DEF BusInv, TypeOK, Entry
<1>6. SchedInv'
  <2> SUFFICES ASSUME NEW s \in Slot, Linked(s)' PROVE SlotOK(s)'
    BY DEF SchedInv
  <2>1. frame_list'[s] = frame_list[s]
    BY <1>4 DEF Linked, Kbd
  <2>2. SlotOK(s)
    BY <2>1 DEF BusInv, SchedInv, Linked
  <2> QED
    BY <1>1, <2>1, <2>2 DEF SlotOK, Current
<1> QED
  BY <1>1, <1>2, <1>5, <1>6 DEF BusInv, WaitInv, WildOnlyAfterFailure, AbandonedFetch, Current

\* Every step keeps BusInv.
LEMMA BusStep == BusInv /\ [Next]_vars => BusInv'
<1> SUFFICES ASSUME BusInv, [Next]_vars PROVE BusInv'
  OBVIOUS
<1>1. CASE sleep_ms \/ wait_ms
  BY <1>1, FrameBus DEF sleep_ms, wait_ms
<1>2. CASE UNCHANGED vars
  BY <1>2 DEF vars, BusInv, TypeOK, WaitInv, SchedInv, Linked, SlotOK, WildOnlyAfterFailure,
              AbandonedFetch, Current, Address
<1> QED
  BY <1>1, <1>2, InitializeBus, ResetPortBus, NoDeviceBus, BeginBus, NotRunningBus,
     BeginFailsBus, CompleteBus, ParseBus, FailBus, OpenPipeBus DEF Next

\* The invariant of the frame list: who is in it, and what is held there.
THEOREM BusInvariant == Spec => []BusInv
<1> QED
  BY InitBus, BusStep, PTL DEF Spec

\* A transfer that is over and did not fail is nowhere in the frame list, and only
\* a failed fetch of the configuration leaves a freed queue head in it.
THEOREM ScheduleIsClean == Spec => []ScheduleClean
<1>1. BusInv => ScheduleClean
  <2> SUFFICES ASSUME BusInv, NEW s \in Slot, Linked(s)
               PROVE  /\ \/ xfer[frame_list[s][2]].failed
                         \/ pc = "wait" /\ frame_list[s] = Xfer(Current)
                      /\ \/ "qh" \in xfer[frame_list[s][2]].held
                         \/ xfer[frame_list[s][2]].kind \in Config
    BY DEF ScheduleClean, Linked
  <2>1. SlotOK(s) /\ frame_list[s] \in Entry
    BY DEF BusInv, SchedInv, TypeOK, Entry
  <2>2. frame_list[s] = Xfer(frame_list[s][2])
    BY <2>1 DEF Linked, Xfer, Entry
  <2> QED
    BY <2>1, <2>2 DEF SlotOK, BusInv, WaitInv, Blocks
<1> QED
  BY <1>1, BusInvariant, PTL

\* The controllers follow a freed queue head only after a fetch of a
\* configuration has failed.
THEOREM WildAfterFailure == Spec => []WildOnlyAfterFailure
<1>1. BusInv => WildOnlyAfterFailure
  BY DEF BusInv
<1> QED
  BY <1>1, BusInvariant, PTL

-----------------------------------------------------------------------------
(***************************************************************************)
(* The addresses and the configurations of the devices, as long as no      *)
(* SET_ADDRESS has failed.                                                 *)
(***************************************************************************)
NoAddressFault == ~Failed({"SET_ADDRESS"})
Alone == ~(Cardinality(running) > 1)

\* The enumeration is past the SET_ADDRESS of port p.
Passed(p) == p < port \/ (p = port /\ (step > 1 \/ pc = "done"))
Known == {p \in 1 .. Ports : Passed(p) /\ dev[p].enabled}

\* The device at a port, once enabled, has the port's address, or the address 0
\* while it is the one that is being told.
Settled(p, addr) == \/ Passed(p) /\ addr = Address(p)
                    \/ /\ p = port /\ pc \in {"sleep", "wait"} /\ step = 1
                       /\ addr \in {0, Address(p)}
Reached(d, xs) ==
    /\ \A p \in 1 .. Ports : d[p].enabled => Settled(p, d[p].addr)
    /\ pc = "wait" /\ step = 1 /\ xs[Current].done >= 2 => d[port].addr = Address(port)
Told(d, xs) ==
    Alone /\ pc = "wait" /\ step = 5 /\ xs[Current].done >= 2 => d[port].configured

PlaceInv == /\ pc \in {"init", "reset"} => step = 1
            /\ pc = "open" => step = 5
AddrInv == NoAddressFault => /\ Reached(dev, xfer)
                             /\ usb_device_count <= Cardinality(Known)

\* The ports before this one have a smaller address, on the same bus.
LEMMA AddressOrder ==
    ASSUME NEW p \in 1 .. Ports, NEW q \in 1 .. Ports, bus[p] = bus[q], p < q
    PROVE  Address(p) < Address(q)
<1> DEFINE P == {r \in 1 .. p : bus[r] = bus[p]}
           Q == {r \in 1 .. q : bus[r] = bus[q]}
<1>1. P \subseteq Q /\ q \in Q /\ q \notin P
  BY PortAssumption
<1>2. IsFiniteSet(Q)
  <2>1. IsFiniteSet(1 .. q) /\ Q \subseteq 1 .. q
    BY FS_Interval, PortAssumption
  <2> QED
    BY <2>1, FS_Subset
<1>3. Cardinality(P) <= Cardinality(Q) /\ (Cardinality(P) = Cardinality(Q) => P = Q)
      /\ IsFiniteSet(P)
  BY <1>1, <1>2, FS_Subset
<1>4. Cardinality(P) \in Nat /\ Cardinality(Q) \in Nat
  BY <1>2, <1>3, FS_CardinalityType
<1> QED
  BY <1>1, <1>3, <1>4 DEF Address

\* Two ports of a bus have different addresses.
LEMMA AddressInjective ==
    ASSUME NEW p \in 1 .. Ports, NEW q \in 1 .. Ports, bus[p] = bus[q], Address(p) = Address(q)
    PROVE  p = q
<1>1. Address(p) \in Nat /\ p \in Nat /\ q \in Nat
  BY AddressType, PortAssumption
<1>2. ~(p < q) /\ ~(q < p)
  BY <1>1, AddressOrder
<1> QED
  BY <1>1, <1>2

\* The controllers that run are finitely many.
LEMMA RunningFinite == BusInv => IsFiniteSet(running)
<1> SUFFICES ASSUME BusInv PROVE IsFiniteSet(running)
  OBVIOUS
<1>1. IsFiniteSet(1 .. Controllers) /\ running \subseteq 1 .. Controllers
  BY FS_Interval, PortAssumption DEF BusInv, TypeOK, Controller
<1> QED
  BY <1>1, FS_Subset

\* A transfer that a controller finds and that did not fail is the current one.
LEMMA VisitedKind ==
    ASSUME BusInv, NoAddressFault, NEW s \in Slot, Linked(s),
           xfer[frame_list[s][2]].kind = "SET_ADDRESS"
    PROVE  /\ pc = "wait" /\ frame_list[s][2] = Current /\ step = 1
           /\ xfer[Current].addr = 0 /\ xfer[Current].port = port
<1>1. SlotOK(s) /\ step \in 1 .. 5
  BY DEF BusInv, SchedInv, TypeOK
<1>2. ~xfer[frame_list[s][2]].failed
  BY <1>1 DEF NoAddressFault, Failed, SlotOK
<1>3. pc = "wait" /\ frame_list[s][2] = Current
  BY <1>1, <1>2 DEF SlotOK
<1> QED
  BY <1>1, <1>3, KindOfStep DEF BusInv, WaitInv

\* The devices that the waited-for transfer of the enumeration reaches.
LEMMA AnsweringZero ==
    ASSUME NEW c, NEW d, NEW xs, Reached(d, xs)
    PROVE  Answering(c, d, 0) \subseteq {port}
<1> SUFFICES ASSUME NEW p \in 1 .. Ports, d[p].enabled, d[p].addr = 0 PROVE p = port
  BY DEF Answering
<1>1. Address(p) >= 1
  BY AddressType
<1> QED
  BY <1>1, AddressType DEF Reached, Settled

\* At the address of the port no other device of its bus answers.
LEMMA AnsweringOwn ==
    ASSUME NEW d, NEW xs, Reached(d, xs), port \in 1 .. Ports
    PROVE  Answering(bus[port], d, Address(port)) \subseteq {port}
<1> SUFFICES ASSUME NEW p \in 1 .. Ports, bus[p] = bus[port], d[p].enabled,
                    d[p].addr = Address(port)
             PROVE p = port
  BY DEF Answering
<1>1. p = port \/ Address(p) = Address(port)
  BY DEF Reached, Settled
<1> QED
  BY <1>1, AddressInjective

\* What a visit of a controller does to the devices.
LEMMA VisitReached ==
    ASSUME BusInv, NoAddressFault, NEW c \in Controller, NEW x \in Results, Later(x),
           Reached(x.dev, x.xfer), Told(x.dev, x.xfer), NEW y \in Visit(c, x)
    PROVE  /\ Reached(y.dev, y.xfer) /\ Told(y.dev, y.xfer)
           /\ \A p \in 1 .. Ports : x.dev[p].configured => y.dev[p].configured
<1> DEFINE s == (frnum[c] + 1) % FrameCount
           n == frame_list[s][2]
           t == x.xfer[n]
           Goal == /\ Reached(y.dev, y.xfer) /\ Told(y.dev, y.xfer)
                   /\ \A p \in 1 .. Ports : x.dev[p].configured => y.dev[p].configured
<1>1. s \in Slot /\ port \in 1 .. Ports /\ step \in 1 .. 5
  BY VisitedSlot DEF BusInv, TypeOK
<1> HIDE DEF s
<1>2. CASE y.xfer = x.xfer /\ y.dev = x.dev
  BY <1>2
<1>3. CASE ~(y.xfer = x.xfer /\ y.dev = x.dev)
  <2>1. Linked(s) /\ c \in running /\ y \in Run(c, x, n)
    <3>1. y # x /\ y # [x EXCEPT !.wild = TRUE]
      BY <1>3 DEF Results
    <3> QED
      BY <3>1 DEF Visit, Linked, s
  <2>2. n \in 1 .. Len(xfer)
    BY <1>1, <2>1, VisitedTransfer
  <2>3. n \in 1 .. Len(x.xfer) /\ SameTransfer(t, xfer[n])
    BY <2>2 DEF Later
  <2>4. RunEffect(c, x, n, y)
    <3> HIDE DEF n
    <3> QED
      BY <2>1, <2>3, RunShape
  <2>5. x.dev \in [1 .. Ports -> DeviceState] /\ t \in Transfer
        /\ y.xfer \in Seq(Transfer) /\ x.xfer \in Seq(Transfer)
    BY <2>3, <2>4 DEF Results, RunEffect
  <2>6. ASSUME pc = "wait"
        PROVE  /\ Current \in 1 .. Len(x.xfer) /\ xfer[Current].kind = Kinds[step]
               /\ xfer[Current].addr = IF step = 1 THEN 0 ELSE Address(port)
               /\ bus[port] \in running
    BY <2>6 DEF BusInv, WaitInv, Later, Current
  <2>7. ASSUME pc = "wait", n # Current PROVE y.xfer[Current] = x.xfer[Current]
    BY <2>4, <2>6, <2>7 DEF RunEffect
  <2>8. CASE /\ y.dev = x.dev
             /\ y.xfer[n].done = x.xfer[n].done \/ y.xfer[n].done < Stages(x.xfer[n].kind)
    <3>1. ASSUME pc = "wait", step \in {1, 5}, y.xfer[Current].done >= 2
          PROVE  x.xfer[Current].done >= 2
      <4>1. CASE n # Current
        BY <2>7, <3>1, <4>1
      <4>2. CASE n = Current
        <5>1. x.xfer[n].kind \in {"SET_ADDRESS", "SET_CONFIG"}
          BY <1>1, <2>3, <2>6, <3>1, <4>2, KindOfStep DEF SameTransfer
        <5>2. Stages(x.xfer[n].kind) = 2
          BY <5>1 DEF Stages
        <5>3. y.xfer[n].done \in Nat
          <6>1. y.xfer[n] \in Transfer
            <7> HIDE DEF n
            <7> QED
              BY <2>3, <2>4, <2>5 DEF RunEffect
          <6> QED
            BY <6>1 DEF Transfer
        <5> QED
          BY <2>8, <3>1, <4>2, <5>2, <5>3
      <4> QED
        BY <4>1, <4>2
    <3> QED
      BY <2>8, <3>1 DEF Reached, Told
  <2>9. CASE /\ y.dev = Obeyed(c, x.dev, t) /\ Answering(c, x.dev, t.addr) # {}
    <3>1. CASE t.kind = "SET_ADDRESS"
      <4>1. /\ pc = "wait" /\ n = Current /\ step = 1 /\ t.addr = 0 /\ t.port = port
        BY <1>1, <2>1, <2>3, <3>1, VisitedKind DEF SameTransfer
      <4>2. Answering(c, x.dev, 0) = {port}
        BY <2>9, <4>1, AnsweringZero
      <4>3. \A p \in 1 .. Ports : y.dev[p] = IF p = port THEN [x.dev[p] EXCEPT !.addr = Address(port)]
                                            ELSE x.dev[p]
        BY <2>9, <3>1, <4>1, <4>2 DEF Obeyed
      <4>4. /\ y.dev[port].addr = Address(port) /\ y.dev[port].enabled = x.dev[port].enabled
            /\ y.dev[port].configured = x.dev[port].configured
        BY <1>1, <2>5, <4>3 DEF DeviceState
      <4>5. Reached(y.dev, y.xfer)
        BY <4>1, <4>3, <4>4 DEF Reached, Settled
      <4>6. Told(y.dev, y.xfer)
        BY <4>1 DEF Told
      <4> QED
        BY <4>3, <4>4, <4>5, <4>6
    <3>2. CASE t.kind # "SET_ADDRESS"
      <4>1. ASSUME NEW p \in 1 .. Ports
            PROVE  /\ y.dev[p].enabled = x.dev[p].enabled /\ y.dev[p].addr = x.dev[p].addr
                   /\ x.dev[p].configured => y.dev[p].configured
                   /\ t.kind = "SET_CONFIG" /\ p \in Answering(c, x.dev, t.addr)
                         => y.dev[p].configured
        <5>1. /\ [x.dev[p] EXCEPT !.configured = TRUE].enabled = x.dev[p].enabled
              /\ [x.dev[p] EXCEPT !.configured = TRUE].addr = x.dev[p].addr
              /\ [x.dev[p] EXCEPT !.configured = TRUE].configured
          BY <2>5 DEF DeviceState
        <5>2. y.dev[p] = IF p \in Answering(c, x.dev, t.addr) /\ t.kind = "SET_CONFIG"
                         THEN [x.dev[p] EXCEPT !.configured = TRUE] ELSE x.dev[p]
          BY <2>9, <3>2 DEF Obeyed
        <5> QED
          BY <5>1, <5>2
      <4>2. ASSUME pc = "wait", step = 1 PROVE n # Current
        BY <1>1, <2>3, <2>6, <3>2, <4>2, KindOfStep DEF SameTransfer
      <4>3. Reached(y.dev, y.xfer)
        BY <1>1, <2>7, <4>1, <4>2 DEF Reached
      <4>4. Told(y.dev, y.xfer)
        <5> SUFFICES ASSUME Alone, pc = "wait", step = 5, y.xfer[Current].done >= 2
                     PROVE  y.dev[port].configured
          BY DEF Told
        <5>1. CASE n # Current
          BY <1>1, <2>7, <4>1, <5>1 DEF Told
        <5>2. CASE n = Current
          <6>1. t.kind = "SET_CONFIG" /\ t.addr = Address(port) /\ bus[port] \in running
            BY <1>1, <2>3, <2>6, <5>2, KindOfStep DEF SameTransfer
          <6>2. c = bus[port]
            <7>1. IsFiniteSet(running)
              BY RunningFinite
            <7>2. Cardinality(running) \in Nat /\ Cardinality(running) # 0
              BY <2>1, <7>1, FS_CardinalityType, FS_EmptySet
            <7>3. Cardinality(running) = 1
              BY <7>2 DEF Alone
            <7>4. \E r : running = {r}
              BY <7>1, <7>3, FS_Singleton
            <7> QED
              BY <2>1, <6>1, <7>4
          <6>3. port \in Answering(c, x.dev, t.addr)
            BY <1>1, <2>9, <6>1, <6>2, AnsweringOwn
          <6> QED
            BY <1>1, <4>1, <6>1, <6>3
        <5> QED
          BY <5>1, <5>2
      <4> QED
        BY <4>1, <4>3, <4>4
    <3> QED
      BY <3>1, <3>2
  <2> QED
    BY <2>4, <2>8, <2>9 DEF RunEffect
<1> QED
  BY <1>2, <1>3

\* What a frame does to the devices.
LEMMA FrameReached ==
    ASSUME BusInv, NoAddressFault, Reached(dev, xfer), Told(dev, xfer), Frame
    PROVE  /\ Reached(dev', xfer') /\ Told(dev', xfer')
           /\ \A p \in 1 .. Ports : dev[p].configured => dev'[p].configured
<1> DEFINE Good == {x \in Results : /\ Later(x) /\ Reached(x.dev, x.xfer) /\ Told(x.dev, x.xfer)
                                    /\ \A p \in 1 .. Ports : dev[p].configured
                                                            => x.dev[p].configured}
<1>1. Before \in Good
  <2>1. Before \in Results /\ Before.xfer = xfer /\ Before.wild = wild /\ Before.dev = dev
    BY DEF Before, Results, BusInv, TypeOK
  <2> QED
    BY <2>1 DEF Later, SameTransfer, BusInv, WildOnlyAfterFailure
<1>2. ASSUME NEW c \in Controller, NEW x \in Good, NEW y \in Visit(c, x) PROVE y \in Good
  <2>1. y \in Results /\ Later(y)
    BY VisitKeeps
  <2>2. /\ Reached(y.dev, y.xfer) /\ Told(y.dev, y.xfer)
        /\ \A p \in 1 .. Ports : x.dev[p].configured => y.dev[p].configured
    BY VisitReached
  <2> QED
    BY <2>1, <2>2
<1>3. PICK x \in Good : xfer' = x.xfer /\ dev' = x.dev /\ wild' = x.wild
  <2> HIDE DEF Good
  <2> QED
    BY <1>1, <1>2, FrameKeeps
<1> QED
  BY <1>3

-----------------------------------------------------------------------------
\* A transfer that has failed stays on record: once an address fault, always one.
LEMMA FaultStays ==
    ASSUME BusInv, [Next]_vars, NoAddressFault'
    PROVE  NoAddressFault
<1>0. xfer \in Seq(Transfer) /\ Len(xfer) \in Nat
  BY DEF BusInv, TypeOK
<1>1. SUFFICES ASSUME NEW n \in 1 .. Len(xfer), xfer[n].failed
               PROVE  /\ n \in 1 .. Len(xfer') /\ xfer'[n].failed
                      /\ xfer'[n].kind = xfer[n].kind
  BY <1>0 DEF NoAddressFault, Failed, Current
<1>2. CASE UNCHANGED xfer
  BY <1>2, <1>1
<1>3. CASE Frame
  BY <1>3, <1>1, FrameLater DEF SameTransfer
<1>4. ASSUME NEW t, t \in Transfer, xfer' = Append(xfer, t)
      PROVE  n \in 1 .. Len(xfer') /\ xfer'[n] = xfer[n]
  BY <1>0, <1>1, <1>4
<1>5. TypeOK /\ SlotsFor(Kinds[step]) \subseteq Slot
  BY SlotsForType DEF BusInv
<1>6. CASE begin
  BY <1>1, <1>4, <1>5, <1>6, NewTransferType DEF begin
<1>7. CASE not_running
  BY <1>1, <1>4, <1>5, <1>7, NewTransferType DEF not_running
<1>8. CASE begin_fails
  <2>1. {} \subseteq Slot /\ {"sp"} \subseteq Blocks
    BY DEF Blocks
  <2> QED
    BY <1>1, <1>4, <1>5, <1>8, <2>1, NewTransferType DEF begin_fails
<1>9. CASE complete \/ fail
  <2>1. n # Current
    BY <1>1, <1>9 DEF complete, fail, BusInv, WaitInv
  <2>2. \E u : xfer' = [xfer EXCEPT ![Current] = u]
    BY <1>9 DEF complete, fail
  <2> QED
    BY <1>0, <1>1, <2>1, <2>2
<1> QED
  BY <1>2, <1>3, <1>6, <1>7, <1>8, <1>9 DEF Next, vars, initialize, reset_port, no_device,
     sleep_ms, wait_ms, parse, open_pipe

\* The places of the enumeration.
LEMMA PlaceStep == BusInv /\ PlaceInv /\ [Next]_vars => PlaceInv'
<1> SUFFICES ASSUME BusInv, PlaceInv, [Next]_vars PROVE PlaceInv'
  OBVIOUS
<1>1. CASE NextPort
  BY <1>1, NextPortShape DEF BusInv, PlaceInv
<1>2. CASE complete
  <2>1. xfer[Current].kind = Kinds[step] /\ step \in 1 .. 5
    BY <1>2 DEF complete, BusInv, WaitInv, TypeOK
  <2> QED
    BY <1>1, <1>2, <2>1, KindOfStep DEF complete, uhci_enumerate_device, PlaceInv
<1>3. CASE parse
  BY <1>1, <1>3 DEF parse, PlaceInv
<1> QED
  BY <1>1, <1>2, <1>3 DEF PlaceInv, Next, vars, initialize, reset_port, no_device, sleep_ms,
     begin, not_running, begin_fails, wait_ms, fail, open_pipe

\* Ports can be counted.
LEMMA PortsFinite ==
    ASSUME NEW S, S \subseteq 1 .. Ports
    PROVE  IsFiniteSet(S) /\ Cardinality(S) \in Nat
<1>1. IsFiniteSet(1 .. Ports)
  BY FS_Interval, PortAssumption
<1>2. IsFiniteSet(S)
  BY <1>1, FS_Subset
<1> QED
  BY <1>2, FS_CardinalityType

\* On to the next port: this one has no device, or one with its address.
LEMMA NextPortAddr ==
    ASSUME BusInv, Reached(dev, xfer), NextPort, UNCHANGED <<bus, dev>>, pc # "done",
           dev[port].enabled => dev[port].addr = Address(port)
    PROVE  Reached(dev, xfer)' /\ Known \subseteq Known'
<1>1. port \in 1 .. Ports /\ step \in 1 .. 5 /\ Ports \in Nat
  BY PortAssumption DEF BusInv, TypeOK
<1>2. pc' \notin {"sleep", "wait"} /\ \A p \in 1 .. Ports : p <= port => Passed(p)'
  BY <1>1 DEF NextPort, Passed
<1>3. ASSUME NEW p \in 1 .. Ports, dev[p].enabled
      PROVE  p <= port /\ dev[p].addr = Address(p)
  BY <1>1, <1>3 DEF Reached, Settled, Passed
<1>4. \A p \in 1 .. Ports : Address(p)' = Address(p)
  BY DEF Address
<1>5. Reached(dev, xfer)'
  BY <1>2, <1>3, <1>4 DEF Reached, Settled
<1>6. Known \subseteq Known'
  BY <1>2, <1>3 DEF Known
<1> QED
  BY <1>5, <1>6

\* Still at the same port.
LEMMA SamePortAddr ==
    ASSUME BusInv, Reached(dev, xfer), UNCHANGED <<bus, dev, port>>, pc # "done", pc' # "done",
           step' \in 1 .. 5, step' >= step,
           \/ step > 1
           \/ step' = 1 /\ (pc' \in {"sleep", "wait"} \/ pc \notin {"sleep", "wait"})
           \/ step' > 1 /\ dev[port].addr = Address(port),
           pc' = "wait" => xfer'[Current'].done = 0
    PROVE  Reached(dev, xfer)' /\ Known \subseteq Known'
<1>1. port \in 1 .. Ports /\ step \in 1 .. 5 /\ Ports \in Nat
  BY PortAssumption DEF BusInv, TypeOK
<1>2. \A p \in 1 .. Ports : Passed(p) => Passed(p)'
  BY <1>1 DEF Passed
<1>3. \A p \in 1 .. Ports : Address(p)' = Address(p)
  BY DEF Address
<1>4. ASSUME NEW p \in 1 .. Ports, dev[p].enabled
      PROVE  Settled(p, dev[p].addr)'
  <2>1. Settled(p, dev[p].addr)
    BY <1>4 DEF Reached
  <2>2. CASE Passed(p)
    BY <2>1, <2>2, <1>1, <1>2, <1>3 DEF Settled, Passed
  <2>3. CASE ~Passed(p)
    <3>1. p = port /\ pc \in {"sleep", "wait"} /\ step = 1 /\ dev[p].addr \in {0, Address(p)}
      BY <2>1, <2>3 DEF Settled
    <3>2. CASE step' = 1 /\ pc' \in {"sleep", "wait"}
      BY <1>3, <3>1, <3>2 DEF Settled
    <3>3. CASE dev[port].addr = Address(port) /\ step' > 1
      BY <1>1, <1>3, <3>1, <3>3 DEF Settled, Passed
    <3> QED
      BY <3>1, <3>2, <3>3
  <2> QED
    BY <2>2, <2>3
<1>5. Reached(dev, xfer)'
  BY <1>4 DEF Reached
<1>6. Known \subseteq Known'
  BY <1>2 DEF Known
<1> QED
  BY <1>5, <1>6

\* One transfer more: the first one that fails, unless it is a SET_ADDRESS, is
\* for a device that has its address.
LEMMA AddressSet ==
    ASSUME BusInv, Reached(dev, xfer), step > 1, dev[port].enabled
    PROVE  dev[port].addr = Address(port)
<1>1. port \in 1 .. Ports /\ step \in 1 .. 5
  BY DEF BusInv, TypeOK
<1> QED
  BY <1>1 DEF Reached, Settled

\* A device that did not take its address is an address fault.
LEMMA FirstTransferFails ==
    ASSUME BusInv, not_running \/ begin_fails \/ fail, NoAddressFault'
    PROVE  step > 1
<1>1. step \in 1 .. 5 /\ xfer \in Seq(Transfer) /\ TypeOK /\ Len(xfer) \in Nat
  BY DEF BusInv, TypeOK
<1> SUFFICES ASSUME step = 1 PROVE Failed({"SET_ADDRESS"})'
  BY <1>1 DEF NoAddressFault
<1>2. Kinds[step] = "SET_ADDRESS"
  BY DEF Kinds
<1>3. CASE not_running \/ begin_fails
  <2> DEFINE slots == IF not_running THEN SlotsFor(Kinds[step]) ELSE {}
             held == IF not_running THEN Blocks ELSE {"sp"}
             t == [NewTransfer(slots, held) EXCEPT !.failed = TRUE]
  <2>1. slots \subseteq Slot /\ held \subseteq Blocks
    BY <1>1, SlotsForType DEF Blocks
  <2>2. xfer' = Append(xfer, t)
    BY <1>3 DEF not_running, begin_fails
  <2> HIDE DEF slots, held
  <2>3. t \in Transfer /\ t.failed /\ t.kind = Kinds[step]
    BY <1>1, <2>1, NewTransferType DEF NewTransfer
  <2> HIDE DEF t
  <2>4. Len(xfer') = Len(xfer) + 1 /\ xfer'[Len(xfer) + 1] = t
    BY <1>1, <2>2, <2>3
  <2> QED
    BY <1>1, <1>2, <2>3, <2>4 DEF Failed, Current
<1>4. CASE fail
  <2> DEFINE t == xfer[Current]
             f == Freed(t, KeptOnFailure(t.kind))
             u == [f EXCEPT !.failed = TRUE]
  <2>1. t \in Transfer /\ t.kind = Kinds[step] /\ Current \in 1 .. Len(xfer)
    BY <1>1, <1>4 DEF fail, BusInv, WaitInv
  <2>2. f \in Transfer /\ f.kind = t.kind
    BY <2>1, FreedShape DEF KeptOnFailure, Blocks
  <2> HIDE DEF f
  <2>3. u \in Transfer /\ u.kind = t.kind /\ u.failed
    BY <2>2 DEF Transfer
  <2>4. xfer' = [xfer EXCEPT ![Current] = u]
    BY <1>4 DEF fail, u, f
  <2> HIDE DEF u
  <2>5. Len(xfer') = Len(xfer) /\ xfer'[Current] = u
    BY <1>1, <2>1, <2>3, <2>4
  <2> QED
    BY <1>2, <2>1, <2>3, <2>5 DEF Failed, Current
<1> QED
  BY <1>3, <1>4

DevInv == /\ BusInv /\ PlaceInv /\ AddrInv /\ usb_device_count \in Nat
          /\ NoAddressFault => Told(dev, xfer)

\* The count of the table against the devices, when none is forgotten.
LEMMA CountStays ==
    ASSUME usb_device_count <= Cardinality(Known), usb_device_count \in Nat,
           UNCHANGED usb_device_count, Known \subseteq Known'
    PROVE  (usb_device_count <= Cardinality(Known))'
<1>1. Known \subseteq 1 .. Ports /\ Known' \subseteq 1 .. Ports
  BY DEF Known
<1>2. Cardinality(Known) \in Nat /\ Cardinality(Known') \in Nat /\ IsFiniteSet(Known')
  BY <1>1, PortsFinite
<1>3. Cardinality(Known) <= Cardinality(Known')
  BY <1>2, FS_Subset
<1> QED
  BY <1>2, <1>3

\* What remains to be shown of a step without an address fault.
LEMMA DevStepFrom ==
    ASSUME DevInv, [Next]_vars, usb_device_count' \in Nat,
           ASSUME NoAddressFault, NoAddressFault', Reached(dev, xfer)
           PROVE  /\ Reached(dev, xfer)'
                  /\ (usb_device_count <= Cardinality(Known))'
                  /\ Told(dev, xfer)'
    PROVE  DevInv'
<1>1. BusInv' /\ PlaceInv' /\ (NoAddressFault' => NoAddressFault)
  BY BusStep, PlaceStep, FaultStays DEF DevInv
<1>2. ASSUME NoAddressFault'
      PROVE  Reached(dev, xfer)' /\ (usb_device_count <= Cardinality(Known))' /\ Told(dev, xfer)'
  BY <1>1, <1>2 DEF DevInv, AddrInv
<1> QED
  BY <1>1, <1>2 DEF DevInv, AddrInv

\* The steps that go on to the next port.
LEMMA NextPortDev ==
    ASSUME DevInv, [Next]_vars, NextPort, UNCHANGED <<bus, dev, usb_device_count>>, pc # "done",
           \/ ~dev[port].enabled \/ step > 1
           \/ ~NoAddressFault'
    PROVE  DevInv'
<1>1. usb_device_count \in Nat /\ BusInv
  BY DEF DevInv
<1>2. ASSUME NoAddressFault, NoAddressFault', Reached(dev, xfer)
      PROVE  /\ Reached(dev, xfer)' /\ (usb_device_count <= Cardinality(Known))'
             /\ Told(dev, xfer)'
  <2>1. dev[port].enabled => dev[port].addr = Address(port)
    BY <1>1, <1>2, AddressSet
  <2>2. Reached(dev, xfer)' /\ Known \subseteq Known'
    BY <1>1, <1>2, <2>1, NextPortAddr
  <2>3. (usb_device_count <= Cardinality(Known))'
    BY <1>1, <1>2, <2>2, CountStays DEF DevInv, AddrInv
  <2>4. Told(dev, xfer)'
    BY <1>1, NextPortShape DEF Told, BusInv
  <2> QED
    BY <2>2, <2>3, <2>4
<1> QED
  BY <1>1, <1>2, DevStepFrom

\* The steps that stay at the port.
LEMMA SamePortDev ==
    ASSUME DevInv, [Next]_vars, UNCHANGED <<bus, dev, port, usb_device_count>>, pc # "done",
           pc' # "done", step' \in 1 .. 5, step' >= step,
           \/ step > 1
           \/ step' = 1 /\ (pc' \in {"sleep", "wait"} \/ pc \notin {"sleep", "wait"}),
           pc' = "wait" => xfer'[Current'].done = 0
    PROVE  DevInv'
<1>1. usb_device_count \in Nat /\ BusInv
  BY DEF DevInv
<1>2. ASSUME NoAddressFault, NoAddressFault', Reached(dev, xfer)
      PROVE  /\ Reached(dev, xfer)' /\ (usb_device_count <= Cardinality(Known))'
             /\ Told(dev, xfer)'
  <2>1. Reached(dev, xfer)' /\ Known \subseteq Known'
    BY <1>1, <1>2, SamePortAddr
  <2>2. (usb_device_count <= Cardinality(Known))'
    BY <1>1, <1>2, <2>1, CountStays DEF DevInv, AddrInv
  <2>3. Told(dev, xfer)'
    BY DEF Told
  <2> QED
    BY <2>1, <2>2, <2>3
<1> QED
  BY <1>1, <1>2, DevStepFrom

\* DevInv holds at the start: no device is enabled.
LEMMA InitDev == Init => DevInv
<1> SUFFICES ASSUME Init PROVE DevInv
  OBVIOUS
<1>1. BusInv
  BY InitBus
<1>2. pc = "init" /\ step = 1 /\ port = 1 /\ usb_device_count = 0
  BY Zenon DEF Init
<1>3. ASSUME NEW p \in 1 .. Ports PROVE ~dev[p].enabled
  <2>1. dev \in [1 .. Ports -> [present : BOOLEAN, enabled : {FALSE}, addr : {0},
                                 configured : {FALSE}]]
    BY Zenon DEF Init
  <2>2. dev[p].enabled \in {FALSE}
    BY <2>1, Zenon
  <2> QED
    BY <2>2, Zenon
<1>4. Reached(dev, xfer) /\ Told(dev, xfer)
  BY <1>2, <1>3 DEF Reached, Told
<1>5. Cardinality(Known) \in Nat
  BY PortsFinite DEF Known
<1> QED
  BY <1>1, <1>2, <1>4, <1>5 DEF DevInv, PlaceInv, AddrInv

\* The port is reset: no device of the ports before it is touched.
LEMMA ResetPortDev == DevInv /\ reset_port => DevInv'
<1> SUFFICES ASSUME DevInv, reset_port PROVE DevInv'
  OBVIOUS
<1>1. /\ BusInv /\ TypeOK /\ step = 1 /\ port \in 1 .. Ports /\ usb_device_count \in Nat
      /\ UNCHANGED <<bus, xfer, usb_device_count>> /\ [Next]_vars /\ pc = "reset"
      /\ dev \in [1 .. Ports -> DeviceState]
  BY DEF DevInv, PlaceInv, reset_port, BusInv, TypeOK, Next
<1>2. ASSUME NoAddressFault PROVE ~dev[port].enabled
  BY <1>1, <1>2 DEF DevInv, AddrInv, Reached, Settled, Passed
<1>3. CASE NextPort /\ UNCHANGED dev
  BY <1>1, <1>2, <1>3, NextPortDev, FaultStays
<1>4. CASE ~(NextPort /\ UNCHANGED dev)
  <2>1. /\ dev' = [dev EXCEPT ![port].enabled = dev[port].present,
                              ![port].addr = 0, ![port].configured = FALSE]
        /\ pc' = "sleep" /\ UNCHANGED <<port, step>>
    BY <1>4 DEF reset_port
  <2>2. ASSUME NEW p \in 1 .. Ports PROVE p # port => dev'[p] = dev[p]
    BY <1>1, <2>1
  <2>3. dev'[port].addr = 0
    BY <1>1, <2>1 DEF DeviceState
  <2>4. ASSUME NoAddressFault, NoAddressFault', Reached(dev, xfer)
        PROVE  /\ Reached(dev, xfer)' /\ (usb_device_count <= Cardinality(Known))'
               /\ Told(dev, xfer)'
    <3>0. \A p : Address(p)' = Address(p)
      BY <1>1 DEF Address
    <3>1. ASSUME NEW p \in 1 .. Ports
          PROVE  /\ Passed(p)' <=> p < port
                 /\ Passed(p) <=> p < port
                 /\ p < port => p # port
      BY <1>1, <2>1 DEF Passed
    <3>2. Known' = Known
      <4>1. ASSUME NEW p \in 1 .. Ports PROVE p \in Known' <=> p \in Known
        BY <2>2, <3>1 DEF Known
      <4> QED
        BY <4>1 DEF Known
    <3>3. Reached(dev, xfer)'
      <4>1. ASSUME NEW p \in 1 .. Ports, p # port, dev[p].enabled
            PROVE  Passed(p)' /\ dev[p].addr = Address(p)
        BY <2>4, <3>1, <4>1 DEF Reached, Settled
      <4>2. ASSUME NEW p \in 1 .. Ports, dev'[p].enabled PROVE Settled(p, dev[p].addr)'
        <5>1. CASE p = port
          BY <1>1, <2>1, <2>3, <5>1 DEF Settled
        <5>2. CASE p # port
          BY <2>2, <3>0, <4>1, <4>2, <5>2 DEF Settled
        <5> QED
          BY <5>1, <5>2
      <4> QED
        BY <2>1, <4>2 DEF Reached
    <3> QED
      BY <1>1, <2>1, <2>4, <3>2, <3>3 DEF DevInv, AddrInv, Told
  <2> QED
    BY <1>1, <2>4, DevStepFrom
<1> QED
  BY <1>3, <1>4

\* A millisecond passes.
LEMMA FrameDev == DevInv /\ (sleep_ms \/ wait_ms) => DevInv'
<1> SUFFICES ASSUME DevInv, sleep_ms \/ wait_ms PROVE DevInv'
  OBVIOUS
<1>1. /\ BusInv /\ Frame /\ [Next]_vars /\ usb_device_count \in Nat
      /\ UNCHANGED <<pc, port, step, bus, running, usb_device_count>>
  BY DEF DevInv, sleep_ms, wait_ms, Next
<1>2. ASSUME NoAddressFault, NoAddressFault', Reached(dev, xfer)
      PROVE  /\ Reached(dev, xfer)' /\ (usb_device_count <= Cardinality(Known))'
             /\ Told(dev, xfer)'
  <2>1. Reached(dev', xfer') /\ Told(dev', xfer')
    BY <1>1, <1>2, FrameReached DEF DevInv
  <2>2. /\ Len(xfer') = Len(xfer)
        /\ \A p \in 1 .. Ports : dev'[p].enabled = dev[p].enabled
    BY <1>1, FrameLater
  <2>3. \A p : Address(p)' = Address(p) /\ (Passed(p)' <=> Passed(p))
    BY <1>1 DEF Address, Passed
  <2>4. Known' = Known
    BY <2>2, <2>3 DEF Known
  <2>5. Reached(dev, xfer)'
    BY <1>1, <2>1, <2>2, <2>3 DEF Reached, Settled, Current
  <2>6. Told(dev, xfer)'
    BY <1>1, <2>1, <2>2 DEF Told, Alone, Current
  <2> QED
    BY <1>1, <1>2, <2>4, <2>5, <2>6 DEF DevInv, AddrInv
<1> QED
  BY <1>1, <1>2, DevStepFrom

\* Starting a controller leaves the devices alone.
LEMMA InitializeDev == DevInv /\ initialize => DevInv'
<1> SUFFICES ASSUME DevInv, initialize PROVE DevInv'
  OBVIOUS
<1>1. /\ [Next]_vars /\ UNCHANGED <<bus, dev, port, step, usb_device_count>> /\ pc = "init"
      /\ pc' = "reset" /\ step = 1
  BY DEF DevInv, PlaceInv, initialize, Next
<1> QED
  BY <1>1, SamePortDev

\* A transfer that starts has reached no stage yet.
LEMMA BeginDev == DevInv /\ begin => DevInv'
<1> SUFFICES ASSUME DevInv, begin PROVE DevInv'
  OBVIOUS
<1>1. /\ [Next]_vars /\ UNCHANGED <<bus, dev, port, step, usb_device_count>> /\ pc = "sleep"
      /\ pc' = "wait" /\ step \in 1 .. 5 /\ TypeOK /\ xfer \in Seq(Transfer)
  BY DEF DevInv, BusInv, TypeOK, begin, Ready, Next
<1> DEFINE t == NewTransfer(SlotsFor(Kinds[step]), Blocks)
<1>2. t \in Transfer /\ t.done = 0
  <2>1. SlotsFor(Kinds[step]) \subseteq Slot
    BY <1>1, SlotsForType
  <2> QED
    BY <1>1, <2>1, NewTransferType DEF NewTransfer
<1>3. xfer' = Append(xfer, t)
  BY DEF begin
<1> HIDE DEF t
<1>4. xfer'[Current'].done = 0
  BY <1>1, <1>2, <1>3 DEF Current
<1> QED
  BY <1>1, <1>4, SamePortDev

\* An empty port has no address to get.
LEMMA NoDeviceDev == DevInv /\ no_device => DevInv'
<1> SUFFICES ASSUME DevInv, no_device PROVE DevInv'
  OBVIOUS
<1>1. /\ [Next]_vars /\ UNCHANGED <<bus, dev, usb_device_count>> /\ pc = "sleep"
      /\ NextPort /\ ~dev[port].enabled
  BY DEF no_device, Next
<1> QED
  BY <1>1, NextPortDev

\* A transfer that fails is an address fault, or the device has its address.
LEMMA FailDev == DevInv /\ (not_running \/ begin_fails \/ fail) => DevInv'
<1> SUFFICES ASSUME DevInv, not_running \/ begin_fails \/ fail PROVE DevInv'
  OBVIOUS
<1>1. /\ [Next]_vars /\ UNCHANGED <<bus, dev, usb_device_count>> /\ pc # "done" /\ NextPort
      /\ BusInv
  BY DEF DevInv, not_running, begin_fails, fail, Ready, Next
<1>2. NoAddressFault' => step > 1
  BY <1>1, FirstTransferFails
<1> QED
  BY <1>1, <1>2, NextPortDev

\* After the parse the device still has its address.
LEMMA ParseDev == DevInv /\ parse => DevInv'
<1> SUFFICES ASSUME DevInv, parse PROVE DevInv'
  OBVIOUS
<1>1. /\ [Next]_vars /\ UNCHANGED <<bus, dev, usb_device_count>> /\ pc = "parse" /\ step = 4
  BY DEF DevInv, BusInv, WaitInv, parse, Next
<1>2. CASE NextPort
  BY <1>1, <1>2, NextPortDev
<1>3. CASE step' = step + 1 /\ pc' = "sleep" /\ UNCHANGED port
  BY <1>1, <1>3, SamePortDev
<1> QED
  BY <1>2, <1>3 DEF parse

\* After its pipe was opened a keyboard still has its address.
LEMMA OpenPipeDev == DevInv /\ open_pipe => DevInv'
<1> SUFFICES ASSUME DevInv, open_pipe PROVE DevInv'
  OBVIOUS
<1>1. /\ [Next]_vars /\ UNCHANGED <<bus, dev, usb_device_count>> /\ pc = "open" /\ step = 5
      /\ NextPort
  BY DEF DevInv, PlaceInv, open_pipe, Next
<1> QED
  BY <1>1, NextPortDev

\* The device is entered in the table when it has taken its address.
LEMMA CompleteDev == DevInv /\ complete => DevInv'
<1> SUFFICES ASSUME DevInv, complete PROVE DevInv'
  OBVIOUS
<1> DEFINE t == xfer[Current]
<1>1. /\ [Next]_vars /\ UNCHANGED <<bus, dev, running>> /\ pc = "wait" /\ BusInv
      /\ t.kind = Kinds[step] /\ step \in 1 .. 5 /\ port \in 1 .. Ports
      /\ dev[port].enabled /\ usb_device_count \in Nat /\ t.done >= Waited(t.kind)
  BY DEF DevInv, BusInv, TypeOK, WaitInv, complete, Succeeded, Next
<1>2. /\ t.kind = "SET_ADDRESS" <=> step = 1
      /\ t.kind = "GET_FULL" <=> step = 4
      /\ t.kind = "SET_CONFIG" <=> step = 5
  BY <1>1, KindOfStep
<1>3. uhci_enumerate_device(t)
  BY DEF complete
<1> HIDE DEF t
<1>4. CASE step > 1
  <2>1. UNCHANGED usb_device_count
    BY <1>1, <1>3, <1>4 DEF uhci_enumerate_device
  <2>2. CASE NextPort
    BY <1>1, <1>4, <2>1, <2>2, NextPortDev
  <2>3. CASE UNCHANGED <<port, step>> /\ pc' \in {"parse", "open"}
    BY <1>1, <1>4, <2>1, <2>3, SamePortDev
  <2>4. CASE step' = step + 1 /\ pc' = "sleep" /\ UNCHANGED port /\ t.kind # "SET_CONFIG"
    BY <1>1, <1>2, <1>4, <2>1, <2>4, SamePortDev
  <2> QED
    BY <1>3, <2>2, <2>3, <2>4 DEF uhci_enumerate_device
<1>5. CASE step = 1
  <2>1. /\ usb_device_count' = usb_device_count + 1 /\ step' = 2 /\ pc' = "sleep"
        /\ UNCHANGED port
    BY <1>2, <1>3, <1>5 DEF uhci_enumerate_device
  <2>2. t.done >= 2
    BY <1>1, <1>2, <1>5 DEF Waited
  <2>3. ASSUME NoAddressFault, NoAddressFault', Reached(dev, xfer)
        PROVE  /\ Reached(dev, xfer)' /\ (usb_device_count <= Cardinality(Known))'
               /\ Told(dev, xfer)'
    <3>1. dev[port].addr = Address(port)
      BY <1>1, <1>5, <2>2, <2>3 DEF Reached, t
    <3>2. Reached(dev, xfer)' /\ Known \subseteq Known'
      BY <1>1, <1>5, <2>1, <2>3, <3>1, SamePortAddr
    <3>3. port \in Known' /\ port \notin Known
      BY <1>1, <1>5, <2>1 DEF Known, Passed
    <3>4. Known \subseteq 1 .. Ports /\ Known' \subseteq 1 .. Ports
      BY DEF Known
    <3>5. /\ IsFiniteSet(Known) /\ Cardinality(Known) \in Nat
          /\ IsFiniteSet(Known') /\ Cardinality(Known') \in Nat
      BY <3>4, PortsFinite
    <3>6. Cardinality(Known \cup {port}) = Cardinality(Known) + 1
      BY <3>3, <3>5, FS_AddElement
    <3>7. Cardinality(Known \cup {port}) <= Cardinality(Known')
      <4>1. Known \cup {port} \subseteq Known'
        BY <3>2, <3>3
      <4> QED
        BY <3>5, <4>1, FS_Subset
    <3>8. usb_device_count <= Cardinality(Known)
      BY <2>3 DEF DevInv, AddrInv
    <3>9. Told(dev, xfer)'
      BY <2>1 DEF Told
    <3> QED
      BY <1>1, <2>1, <3>2, <3>5, <3>6, <3>7, <3>8, <3>9
  <2>4. usb_device_count' \in Nat
    BY <1>1, <2>1
  <2> QED
    BY <1>1, <2>3, <2>4, DevStepFrom
<1> QED
  BY <1>1, <1>4, <1>5

\* Every step keeps DevInv.
LEMMA DevStep == DevInv /\ [Next]_vars => DevInv'
<1> SUFFICES ASSUME DevInv, [Next]_vars PROVE DevInv'
  OBVIOUS
<1>1. CASE UNCHANGED vars
  <2>1. \A p : Address(p)' = Address(p) /\ (Passed(p)' <=> Passed(p))
    BY <1>1 DEF vars, Address, Passed
  <2>2. Known' = Known
    BY <1>1, <2>1 DEF vars, Known
  <2>3. (Reached(dev, xfer)' <=> Reached(dev, xfer)) /\ (Told(dev, xfer)' <=> Told(dev, xfer))
    BY <1>1, <2>1 DEF vars, Reached, Told, Settled, Alone, Current
  <2>4. UNCHANGED usb_device_count /\ usb_device_count \in Nat
    BY <1>1 DEF vars, DevInv
  <2> QED
    BY <2>2, <2>3, <2>4, DevStepFrom DEF DevInv, AddrInv
<1> QED
  BY <1>1, InitializeDev, ResetPortDev, NoDeviceDev, FrameDev, BeginDev, FailDev, CompleteDev,
     ParseDev, OpenPipeDev DEF Next

\* The invariant of the devices: where each one is with its address.
THEOREM DeviceInvariant == Spec => []DevInv
<1> QED
  BY InitDev, DevStep, PTL DEF Spec

\* As long as no SET_ADDRESS failed no two devices on a bus share an address, and
\* every device in the table answers at the address the table gives.
THEOREM AddressesAreDistinct == Spec => []AddressesDistinct
<1>1. DevInv => AddressesDistinct
  <2> SUFFICES ASSUME DevInv, NoAddressFault
               PROVE  /\ \A p, q \in 1 .. Ports :
                           p # q /\ bus[p] = bus[q] /\ dev[p].enabled /\ dev[q].enabled
                              => dev[p].addr # dev[q].addr
                      /\ usb_device_count <= Cardinality({p \in 1 .. Ports : dev[p].enabled
                                                              /\ dev[p].addr = Address(p)})
    BY DEF AddressesDistinct, NoAddressFault
  <2>1. \A p \in 1 .. Ports : dev[p].enabled => Settled(p, dev[p].addr)
    BY DEF DevInv, AddrInv, Reached
  <2>2. ASSUME NEW p \in 1 .. Ports, NEW q \in 1 .. Ports, p # q, bus[p] = bus[q],
               dev[p].enabled, dev[q].enabled
        PROVE  dev[p].addr # dev[q].addr
    <3>1. Address(p) # Address(q)
      BY <2>2, AddressInjective
    <3>2. Address(p) >= 1 /\ Address(q) >= 1 /\ Address(p) \in Nat /\ Address(q) \in Nat
      BY AddressType
    <3> QED
      BY <2>1, <2>2, <3>1, <3>2 DEF Settled
  <2> DEFINE Here == {p \in 1 .. Ports : dev[p].enabled /\ dev[p].addr = Address(p)}
  <2>3. Known \subseteq Here
    <3>1. port \in 1 .. Ports /\ step \in 1 .. 5
      BY DEF DevInv, BusInv, TypeOK
    <3>2. ASSUME NEW p \in Known PROVE p \in Here
      BY <2>1, <3>1 DEF Known, Passed, Settled
    <3> QED
      BY <3>2
  <2>4. usb_device_count <= Cardinality(Known) /\ usb_device_count \in Nat
    BY DEF DevInv, AddrInv
  <2>5. Known \subseteq 1 .. Ports /\ Here \subseteq 1 .. Ports
    BY DEF Known
  <2> HIDE DEF Here
  <2>6. IsFiniteSet(Here) /\ Cardinality(Here) \in Nat /\ Cardinality(Known) \in Nat
    BY <2>5, PortsFinite
  <2>7. Cardinality(Known) <= Cardinality(Here)
    BY <2>3, <2>6, FS_Subset
  <2>8. usb_device_count <= Cardinality(Here)
    BY <2>4, <2>6, <2>7
  <2> QED
    BY <2>2, <2>8 DEF Here
<1> QED
  BY <1>1, DeviceInvariant, PTL

-----------------------------------------------------------------------------
\* The keyboards that are open are on ports that the enumeration has left.
OpenedInv ==
    /\ opened \in Seq({opened[i] : i \in DOMAIN opened})
    /\ \A i \in DOMAIN opened : /\ "port" \in DOMAIN opened[i]
                                /\ opened[i].port \in 1 .. Ports
                                /\ opened[i].port < port \/ pc = "done"

\* They are configured, and so is the one that is about to be opened.
KeyInv == NoAddressFault /\ Alone =>
              /\ pc = "open" => dev[port].configured
              /\ \A i \in DOMAIN opened : dev[opened[i].port].configured

\* A function on 1 .. n is a sequence.
LEMMA FunctionIsSeq ==
    ASSUME NEW S, NEW n \in Nat, NEW f \in [1 .. n -> S]
    PROVE  f \in Seq(S)
OBVIOUS

\* A step adds the port it is at to the keyboards that are open, or none.
LEMMA OpenedShape ==
    ASSUME OpenedInv, [Next]_vars
    PROVE  /\ opened' \in Seq({opened'[i] : i \in DOMAIN opened'})
           /\ \A i \in DOMAIN opened' :
                /\ "port" \in DOMAIN opened'[i]
                /\ \/ i \in DOMAIN opened /\ opened'[i].port = opened[i].port
                   \/ open_pipe /\ opened'[i].port = port
<1>1. CASE UNCHANGED opened
  BY <1>1 DEF OpenedInv
<1>2. CASE opened' = [i \in DOMAIN opened |-> [opened[i] EXCEPT !.dropped = TRUE]]
  <2>1. DOMAIN opened' = DOMAIN opened /\ DOMAIN opened = 1 .. Len(opened) /\ Len(opened) \in Nat
    BY <1>2 DEF OpenedInv
  <2>2. ASSUME NEW i \in DOMAIN opened'
        PROVE  "port" \in DOMAIN opened'[i] /\ opened'[i].port = opened[i].port
    BY <1>2, <2>1, <2>2 DEF OpenedInv
  <2>3. opened' \in [1 .. Len(opened) -> {opened'[i] : i \in DOMAIN opened'}]
    BY <1>2, <2>1
  <2>4. opened' \in Seq({opened'[i] : i \in DOMAIN opened'})
    BY <2>1, <2>3, FunctionIsSeq
  <2> QED
    BY <2>1, <2>2, <2>4
<1>3. ASSUME NEW slots, open_pipe,
             opened' = Append(opened, [port |-> port, slots |-> slots, dropped |-> FALSE])
      PROVE  /\ opened' \in Seq({opened'[i] : i \in DOMAIN opened'})
             /\ \A i \in DOMAIN opened' :
                  /\ "port" \in DOMAIN opened'[i]
                  /\ \/ i \in DOMAIN opened /\ opened'[i].port = opened[i].port
                     \/ open_pipe /\ opened'[i].port = port
  <2> DEFINE o == [port |-> port, slots |-> slots, dropped |-> FALSE]
             R == {opened[i] : i \in DOMAIN opened} \cup {o}
  <2>1. o.port = port /\ "port" \in DOMAIN o
    OBVIOUS
  <2> HIDE DEF o
  <2>2. opened \in Seq(R) /\ opened' = Append(opened, o) /\ o \in R
    BY <1>3 DEF OpenedInv, o
  <2> HIDE DEF R
  <2>3. /\ DOMAIN opened = 1 .. Len(opened) /\ Len(opened) \in Nat /\ opened' \in Seq(R)
        /\ Len(opened') = Len(opened) + 1 /\ DOMAIN opened' = 1 .. Len(opened')
        /\ \A i \in 1 .. Len(opened) : opened'[i] = opened[i]
        /\ opened'[Len(opened) + 1] = o
    BY <2>2
  <2>4. opened' \in [1 .. Len(opened') -> {opened'[i] : i \in DOMAIN opened'}]
    BY <2>3
  <2>5. opened' \in Seq({opened'[i] : i \in DOMAIN opened'})
    <3>1. Len(opened') \in Nat
      BY <2>3
    <3> QED
      BY <2>4, <3>1, FunctionIsSeq
  <2>6. ASSUME NEW i \in DOMAIN opened'
        PROVE  /\ "port" \in DOMAIN opened'[i]
               /\ \/ i \in DOMAIN opened /\ opened'[i].port = opened[i].port
                  \/ open_pipe /\ opened'[i].port = port
    BY <1>3, <2>1, <2>3 DEF OpenedInv
  <2> QED
    BY <2>5, <2>6
<1>4. CASE open_pipe
  BY <1>1, <1>3, <1>4 DEF open_pipe
<1> QED
  BY <1>1, <1>2, <1>4 DEF Next, vars, initialize, reset_port, no_device, sleep_ms, begin,
     not_running, begin_fails, wait_ms, complete, parse, fail

\* The enumeration goes on through the ports in order.
LEMMA PortsInOrder ==
    ASSUME BusInv, Next
    PROVE  /\ pc # "done"
           /\ \/ UNCHANGED port /\ ~open_pipe
              \/ NextPort /\ (port < port' \/ pc' = "done")
<1>0. port \in 1 .. Ports /\ Ports \in Nat
  BY PortAssumption DEF BusInv, TypeOK
<1>1. NextPort => (port < port' \/ pc' = "done")
  BY <1>0 DEF NextPort
<1>2. pc # "done"
  BY DEF Next, initialize, reset_port, no_device, sleep_ms, begin, not_running, begin_fails,
         wait_ms, complete, parse, fail, open_pipe, Ready
<1>3. UNCHANGED port \/ NextPort
  BY DEF Next, initialize, reset_port, no_device, sleep_ms, begin, not_running, begin_fails,
         wait_ms, complete, uhci_enumerate_device, parse, fail, open_pipe
<1> QED
  BY <1>1, <1>2, <1>3 DEF open_pipe

\* Every step keeps OpenedInv.
LEMMA OpenedStep == BusInv /\ OpenedInv /\ [Next]_vars => OpenedInv'
<1> SUFFICES ASSUME BusInv, OpenedInv, [Next]_vars PROVE OpenedInv'
  OBVIOUS
<1>1. CASE UNCHANGED vars
  BY <1>1 DEF vars, OpenedInv
<1>2. CASE Next
  <2>1. port \in 1 .. Ports /\ port' \in 1 .. Ports /\ Ports \in Nat
    BY BusStep, PortAssumption DEF BusInv, TypeOK
  <2>2. ASSUME NEW i \in DOMAIN opened'
        PROVE  /\ "port" \in DOMAIN opened'[i] /\ opened'[i].port \in 1 .. Ports
               /\ opened'[i].port < port' \/ pc' = "done"
    <3>1. /\ "port" \in DOMAIN opened'[i]
          /\ \/ i \in DOMAIN opened /\ opened'[i].port = opened[i].port
             \/ open_pipe /\ opened'[i].port = port
      BY OpenedShape
    <3>2. /\ pc # "done"
          /\ \/ UNCHANGED port /\ ~open_pipe
             \/ NextPort /\ (port < port' \/ pc' = "done")
      BY <1>2, PortsInOrder
    <3> QED
      BY <2>1, <3>1, <3>2 DEF OpenedInv
  <2> QED
    BY <2>2, OpenedShape DEF OpenedInv
<1> QED
  BY <1>1, <1>2

\* Which controllers run, and how many.
LEMMA AloneStays ==
    ASSUME BusInv, [Next]_vars, Alone'
    PROVE  Alone
<1>1. running \subseteq running'
  BY DEF Next, vars, initialize, reset_port, no_device, sleep_ms, begin, not_running,
         begin_fails, wait_ms, complete, parse, fail, open_pipe
<1>2. IsFiniteSet(running) /\ IsFiniteSet(running')
  <2>1. BusInv'
    BY BusStep
  <2>2. running \subseteq 1 .. Controllers /\ running' \subseteq 1 .. Controllers
    BY <2>1 DEF BusInv, TypeOK, Controller
  <2>3. IsFiniteSet(1 .. Controllers)
    BY FS_Interval, PortAssumption
  <2> QED
    BY <2>2, <2>3, FS_Subset
<1>3. Cardinality(running) <= Cardinality(running')
  BY <1>1, <1>2, FS_Subset
<1>4. Cardinality(running) \in Nat /\ Cardinality(running') \in Nat
  BY <1>2, FS_CardinalityType
<1> QED
  BY <1>3, <1>4 DEF Alone

\* Only the reset of its port takes a device's configuration away.
LEMMA ConfiguredStays ==
    ASSUME DevInv, NoAddressFault, Next, NEW p \in 1 .. Ports, dev[p].configured
    PROVE  dev'[p].configured \/ (reset_port /\ p = port)
<1>1. CASE UNCHANGED dev
  BY <1>1
<1>2. CASE sleep_ms \/ wait_ms
  <2>1. Frame
    BY <1>2 DEF sleep_ms, wait_ms
  <2>2. \A q \in 1 .. Ports : dev[q].configured => dev'[q].configured
    BY <2>1, FrameReached DEF DevInv, AddrInv
  <2> QED
    BY <2>2
<1>3. CASE reset_port
  <2>1. p # port => dev'[p] = dev[p]
    BY <1>3 DEF reset_port, DevInv, BusInv, TypeOK
  <2> QED
    BY <1>3, <2>1
<1> QED
  BY <1>1, <1>2, <1>3 DEF Next, initialize, no_device, begin, not_running, begin_fails,
     complete, parse, fail, open_pipe

\* Every step keeps KeyInv: SET_CONFIGURATION reached the keyboard that is opened.
LEMMA KeyStep == DevInv /\ OpenedInv /\ KeyInv /\ [Next]_vars => KeyInv'
<1> SUFFICES ASSUME DevInv, OpenedInv, KeyInv, [Next]_vars, NoAddressFault', Alone'
             PROVE  /\ pc' = "open" => dev'[port'].configured
                    /\ \A i \in DOMAIN opened' : dev'[opened'[i].port].configured
  BY DEF KeyInv
<1>1. BusInv /\ NoAddressFault /\ Alone
  BY FaultStays, AloneStays DEF DevInv
<1>2. /\ pc = "open" => dev[port].configured
      /\ \A i \in DOMAIN opened : dev[opened[i].port].configured
  BY <1>1 DEF KeyInv
<1>3. CASE UNCHANGED vars
  BY <1>2, <1>3 DEF vars
<1>4. CASE Next
  <2>1. port \in 1 .. Ports /\ step \in 1 .. 5
    BY <1>1 DEF BusInv, TypeOK
  <2>2. ASSUME pc' = "open" PROVE dev'[port'].configured
    <3>1. complete
      BY <1>4, <2>2, NextPortShape, <1>1
         DEF BusInv, Next, initialize, reset_port, no_device, sleep_ms, begin, not_running,
             begin_fails, wait_ms, parse, fail, open_pipe
    <3> DEFINE t == xfer[Current]
    <3>2. /\ pc = "wait" /\ t.kind = Kinds[step] /\ t.done >= Waited(t.kind) /\ UNCHANGED dev
      BY <1>1, <3>1 DEF complete, BusInv, WaitInv, Succeeded
    <3>3. t.kind = "SET_CONFIG" /\ UNCHANGED port
      BY <1>1, <2>2, <3>1, NextPortShape DEF complete, uhci_enumerate_device, BusInv
    <3>4. step = 5 /\ t.done >= 2
      BY <2>1, <3>2, <3>3, KindOfStep DEF Waited
    <3> QED
      BY <1>1, <3>2, <3>3, <3>4 DEF DevInv, Told
  <2>3. ASSUME NEW i \in DOMAIN opened' PROVE dev'[opened'[i].port].configured
    <3>1. \/ i \in DOMAIN opened /\ opened'[i].port = opened[i].port
          \/ open_pipe /\ opened'[i].port = port
      BY OpenedShape
    <3>2. CASE i \in DOMAIN opened /\ opened'[i].port = opened[i].port
      <4>1. opened[i].port \in 1 .. Ports /\ opened[i].port # port
        BY <1>1, <1>4, <2>1, <3>2, PortsInOrder DEF OpenedInv
      <4> QED
        BY <1>1, <1>2, <1>4, <3>2, <4>1, ConfiguredStays
    <3>3. CASE open_pipe /\ opened'[i].port = port
      BY <1>2, <3>3 DEF open_pipe
    <3> QED
      BY <3>1, <3>2, <3>3
  <2> QED
    BY <2>2, <2>3
<1> QED
  BY <1>3, <1>4

\* A keyboard that was opened has been configured, unless two controllers run on
\* the same list or a SET_ADDRESS has failed.
THEOREM KeyboardIsConfigured == Spec => []KeyboardConfigured
<1> DEFINE Inv == DevInv /\ OpenedInv /\ KeyInv
<1>1. Init => Inv
  <2> SUFFICES ASSUME Init PROVE OpenedInv /\ KeyInv
    BY InitDev
  <2>1. opened = << >> /\ pc = "init"
    BY Zenon DEF Init
  <2> QED
    BY <2>1 DEF OpenedInv, KeyInv
<1>2. Inv /\ [Next]_vars => Inv'
  BY DevStep, OpenedStep, KeyStep DEF DevInv
<1>3. Inv => KeyboardConfigured
  BY DEF KeyInv, KeyboardConfigured, NoAddressFault, Alone
<1> QED
  BY <1>1, <1>2, <1>3, PTL DEF Spec

-----------------------------------------------------------------------------
(***************************************************************************)
(* The slots of a keyboard.  A transfer that ends terminates only slots    *)
(* that it had taken when it started.                                      *)
(***************************************************************************)
\* The transfer that is waited for is in all of its slots.
LinkInv == pc = "wait" => \A s \in Slot \cap xfer[Current].slots : frame_list[s] = Xfer(Current)

\* What is known of an open keyboard.
FieldsInv == \A i \in DOMAIN opened : {"slots", "dropped"} \subseteq DOMAIN opened[i]

\* Transfers for ports after p.
After(p) == {n \in 1 .. Current : xfer[n].port > p}

\* What a step does to the keyboards that are open: nothing, or they are all
\* dropped, or there is one more of them.
Same == UNCHANGED opened
Dropped == /\ DOMAIN opened' = DOMAIN opened
           /\ \A i \in DOMAIN opened' : /\ DOMAIN opened'[i] = DOMAIN opened[i]
                                        /\ opened'[i].dropped
Joined == \E S : /\ open_pipe /\ frame_list' = Link(Kbd(port), S)
                 /\ DOMAIN opened' = DOMAIN opened \cup {Len(opened) + 1}
                 /\ \A i \in DOMAIN opened : opened'[i] = opened[i] /\ i < Len(opened) + 1
                 /\ {"slots", "dropped"} \subseteq DOMAIN opened'[Len(opened) + 1]
                 /\ opened'[Len(opened) + 1].slots = S
                 /\ opened'[Len(opened) + 1].port = port

LEMMA OpenedCases ==
    ASSUME OpenedInv, FieldsInv, [Next]_vars
    PROVE  Same \/ Dropped \/ Joined
<1>1. CASE UNCHANGED opened
  BY <1>1 DEF Same
<1>2. CASE opened' = [i \in DOMAIN opened |-> [opened[i] EXCEPT !.dropped = TRUE]]
  <2>1. ASSUME NEW i \in DOMAIN opened'
        PROVE  DOMAIN opened'[i] = DOMAIN opened[i] /\ opened'[i].dropped
    <3>1. i \in DOMAIN opened /\ opened'[i] = [opened[i] EXCEPT !.dropped = TRUE]
      BY <1>2, <2>1
    <3>2. "dropped" \in DOMAIN opened[i]
      BY <3>1 DEF FieldsInv
    <3> QED
      BY <3>1, <3>2
  <2> QED
    BY <1>2, <2>1 DEF Dropped
<1>3. ASSUME NEW S, open_pipe, frame_list' = Link(Kbd(port), S),
             opened' = Append(opened, [port |-> port, slots |-> S, dropped |-> FALSE])
      PROVE  Joined
  <2> DEFINE o == [port |-> port, slots |-> S, dropped |-> FALSE]
             R == {opened[i] : i \in DOMAIN opened} \cup {o}
  <2>1. o.port = port /\ o.slots = S /\ {"slots", "dropped"} \subseteq DOMAIN o
    OBVIOUS
  <2> HIDE DEF o
  <2>2. opened \in Seq(R) /\ opened' = Append(opened, o) /\ o \in R
    BY <1>3 DEF OpenedInv, o
  <2> HIDE DEF R
  <2>3. /\ DOMAIN opened = 1 .. Len(opened) /\ Len(opened) \in Nat
        /\ Len(opened') = Len(opened) + 1 /\ DOMAIN opened' = 1 .. Len(opened')
        /\ \A i \in 1 .. Len(opened) : opened'[i] = opened[i]
        /\ opened'[Len(opened) + 1] = o
    BY <2>2
  <2>4. DOMAIN opened' = DOMAIN opened \cup {Len(opened) + 1}
    BY <2>3
  <2> QED
    BY <1>3, <2>1, <2>3, <2>4 DEF Joined
<1>4. CASE open_pipe
  BY <1>1, <1>3, <1>4 DEF open_pipe
<1> QED
  BY <1>1, <1>2, <1>4 DEF Next, vars, initialize, reset_port, no_device, sleep_ms, begin,
     not_running, begin_fails, wait_ms, complete, parse, fail

\* Every step keeps what is known of an open keyboard.
LEMMA FieldsStep == OpenedInv /\ FieldsInv /\ [Next]_vars => FieldsInv'
<1> SUFFICES ASSUME OpenedInv, FieldsInv, [Next]_vars PROVE FieldsInv'
  OBVIOUS
<1>1. Same \/ Dropped \/ Joined
  BY OpenedCases
<1>2. CASE Same
  BY <1>2 DEF Same, FieldsInv
<1>3. CASE Dropped
  BY <1>3 DEF Dropped, FieldsInv
<1>4. CASE Joined
  BY <1>4 DEF Joined, FieldsInv
<1> QED
  BY <1>1, <1>2, <1>3, <1>4

\* Every step keeps LinkInv: nobody else writes the list while a transfer is
\* waited for.
LEMMA LinkStep == BusInv /\ LinkInv /\ [Next]_vars => LinkInv'
<1> SUFFICES ASSUME BusInv, LinkInv, [Next]_vars, pc' = "wait",
                    NEW s \in Slot, s \in xfer'[Current'].slots
             PROVE  frame_list'[s] = Xfer(Current')
  BY DEF LinkInv
<1>1. CASE UNCHANGED vars
  BY <1>1 DEF vars, LinkInv, Current
<1>2. CASE begin
  <2> DEFINE S == SlotsFor(Kinds[step])
             t == NewTransfer(S, Blocks)
  <2>1. t.slots = S /\ t \in Transfer
    BY SlotsForType, NewTransferType DEF NewTransfer, BusInv
  <2>2. xfer' = Append(xfer, t) /\ frame_list' = Link(Xfer(Current + 1), S)
    BY <1>2 DEF begin
  <2> HIDE DEF t, S
  <2>3. xfer'[Current'] = t /\ Current' = Current + 1
    BY <2>1, <2>2 DEF BusInv, TypeOK, Current
  <2> QED
    BY <2>1, <2>2, <2>3 DEF Link
<1>3. CASE wait_ms
  <2>1. /\ Len(xfer') = Len(xfer) /\ UNCHANGED frame_list /\ pc = "wait"
        /\ \A n \in 1 .. Len(xfer) : SameTransfer(xfer'[n], xfer[n])
    BY <1>3, FrameLater DEF wait_ms
  <2>2. xfer'[Current'].slots = xfer[Current].slots /\ Current' = Current
    BY <2>1 DEF BusInv, WaitInv, SameTransfer, Current
  <2> QED
    BY <2>1, <2>2 DEF LinkInv
<1>4. CASE Next /\ ~begin /\ ~wait_ms
  <2>1. TypeOK
    BY DEF BusInv
  <2>2. ~NextPort
    BY <2>1, NextPortShape
  <2> QED
    BY <1>4, <2>2 DEF Next, initialize, reset_port, no_device, sleep_ms, not_running,
       begin_fails, complete, uhci_enumerate_device, parse, fail, open_pipe
<1> QED
  BY <1>1, <1>2, <1>3, <1>4

-----------------------------------------------------------------------------
\* Fewer slots lost, more transfers.
LEMMA FewerLost ==
    ASSUME NEW L, NEW M, NEW L2, NEW M2, IsFiniteSet(L), IsFiniteSet(M2),
           Cardinality(L) <= 2 * Cardinality(M), L2 \subseteq L, M \subseteq M2
    PROVE  Cardinality(L2) <= 2 * Cardinality(M2)
<1>1. IsFiniteSet(M) /\ IsFiniteSet(L2)
  BY FS_Subset
<1>2. Cardinality(L2) <= Cardinality(L) /\ Cardinality(M) <= Cardinality(M2)
  BY FS_Subset
<1>3. /\ Cardinality(L) \in Nat /\ Cardinality(L2) \in Nat
      /\ Cardinality(M) \in Nat /\ Cardinality(M2) \in Nat
  BY <1>1, FS_CardinalityType
<1> QED
  BY <1>2, <1>3

\* One element more.
LEMMA OneMore ==
    ASSUME NEW L, NEW a, IsFiniteSet(L)
    PROVE  /\ IsFiniteSet(L \cup {a}) /\ Cardinality(L) \in Nat
           /\ Cardinality(L \cup {a}) \in Nat
           /\ Cardinality(L \cup {a}) <= Cardinality(L) + 1
<1>1. Cardinality(L) \in Nat
  BY FS_CardinalityType
<1>2. /\ IsFiniteSet(L \cup {a})
      /\ Cardinality(L \cup {a}) = IF a \in L THEN Cardinality(L) ELSE Cardinality(L) + 1
  BY FS_AddElement
<1> QED
  BY <1>1, <1>2

\* Two slots lost, and one transfer more.
LEMMA TwoMoreLost ==
    ASSUME NEW L, NEW M, NEW L2, NEW a, NEW b, NEW k, IsFiniteSet(L), IsFiniteSet(M),
           Cardinality(L) <= 2 * Cardinality(M), L2 \subseteq (L \cup {a}) \cup {b}, k \notin M
    PROVE  Cardinality(L2) <= 2 * Cardinality(M \cup {k})
<1> DEFINE La == L \cup {a}
           Lb == La \cup {b}
<1>1. /\ IsFiniteSet(La) /\ Cardinality(La) <= Cardinality(L) + 1
      /\ Cardinality(L) \in Nat /\ Cardinality(La) \in Nat
  BY OneMore
<1> HIDE DEF La
<1>2. /\ IsFiniteSet(Lb) /\ Cardinality(Lb) <= Cardinality(La) + 1
      /\ Cardinality(Lb) \in Nat
  BY <1>1, OneMore
<1>3. L2 \subseteq Lb
  BY DEF La
<1> HIDE DEF Lb
<1>4. Cardinality(L2) <= Cardinality(Lb) /\ Cardinality(L2) \in Nat
  BY <1>2, <1>3, FS_Subset, FS_CardinalityType
<1>5. Cardinality(M \cup {k}) = Cardinality(M) + 1 /\ Cardinality(M) \in Nat
  BY FS_AddElement, FS_CardinalityType
<1> QED
  BY <1>1, <1>2, <1>4, <1>5

\* Slots and transfers are finitely many.
LEMMA LostFinite ==
    ASSUME BusInv, NEW i, NEW p
    PROVE  IsFiniteSet(LostSlots(i)) /\ IsFiniteSet(After(p))
<1>1. Len(xfer) \in Nat /\ FrameCount \in Nat
  BY FrameAssumption DEF BusInv, TypeOK
<1>2. IsFiniteSet(1 .. Current) /\ IsFiniteSet(Slot)
  BY <1>1, FS_Interval DEF Current, Slot
<1>3. LostSlots(i) \subseteq Slot /\ After(p) \subseteq 1 .. Current
  BY DEF LostSlots, After
<1> QED
  BY <1>2, <1>3, FS_Subset

\* The bound for keyboard i, and what it is made of.
Bound(i) == Cardinality(LostSlots(i)) <= 2 * Cardinality(After(opened[i].port))

LEMMA UpToFinite ==
    ASSUME NEW n \in Nat
    PROVE  IsFiniteSet(1 .. n)
BY FS_Interval

\* The bound stays when the keyboard keeps what it had.
LEMMA KeptLost ==
    ASSUME BusInv, BusInv', NEW i, Bound(i),
           LostSlots(i)' \subseteq LostSlots(i),
           After(opened[i].port) \subseteq After(opened[i].port)'
    PROVE  Bound(i)'
<1> DEFINE L == LostSlots(i)
           L2 == LostSlots(i)'
           M == After(opened[i].port)
           M2 == After(opened[i].port)'
<1>1. IsFiniteSet(L)
  BY LostFinite
<1>2. IsFiniteSet(M2)
  <2>1. Len(xfer') \in Nat
    BY DEF BusInv, TypeOK
  <2>2. IsFiniteSet(1 .. Len(xfer'))
    BY <2>1, UpToFinite
  <2>3. M2 \subseteq 1 .. Len(xfer')
    BY DEF After, Current
  <2> QED
    BY <2>2, <2>3, FS_Subset
<1>3. Cardinality(L) <= 2 * Cardinality(M) /\ L2 \subseteq L /\ M \subseteq M2
  BY DEF Bound
<1> HIDE DEF L, L2, M, M2
<1>4. Cardinality(L2) <= 2 * Cardinality(M2)
  BY <1>1, <1>2, <1>3, FewerLost
<1> QED
  BY <1>4 DEF L2, M2, Bound

\* The bound stays when a transfer for a later port takes two slots.
LEMMA TakenLost ==
    ASSUME BusInv, NEW i, Bound(i), NEW a, NEW b,
           LostSlots(i)' \subseteq (LostSlots(i) \cup {a}) \cup {b},
           After(opened[i].port)' = After(opened[i].port) \cup {Current + 1}
    PROVE  Bound(i)'
<1> DEFINE L == LostSlots(i)
           L2 == LostSlots(i)'
           M == After(opened[i].port)
           k == Current + 1
<1>1. IsFiniteSet(L) /\ IsFiniteSet(M)
  BY LostFinite
<1>2. k \notin M
  BY DEF After, Current, BusInv, TypeOK
<1>3. Cardinality(L) <= 2 * Cardinality(M) /\ L2 \subseteq (L \cup {a}) \cup {b}
  BY DEF Bound
<1> HIDE DEF L, L2, M, k
<1>4. Cardinality(L2) <= 2 * Cardinality(M \cup {k})
  BY <1>1, <1>2, <1>3, TwoMoreLost
<1> QED
  BY <1>4 DEF L2, M, k, Bound

\* What a transfer that starts takes.
LEMMA SlotsForTwo ==
    ASSUME NEW kind
    PROVE  \E a, b : SlotsFor(kind) = {a, b}
<1>1. CASE kind \in Config
  <2>1. SlotsFor(kind) = {Now, Now}
    BY <1>1 DEF SlotsFor
  <2> QED
    BY <2>1
<1>2. CASE kind \notin Config
  BY <1>2 DEF SlotsFor
<1> QED
  BY <1>1, <1>2

\* A transfer starts while keyboard i is open: it is for a later port.
LEMMA StartLost ==
    ASSUME BusInv, OpenedInv, Same, NEW i \in DOMAIN opened, Bound(i), pc = "sleep",
           NEW t, xfer' = Append(xfer, t), t \in Transfer, t.port = port,
           NEW S, frame_list' = Link(Xfer(Current + 1), S), \E a, b : S = {a, b}
    PROVE  Bound(i)'
<1>1. PICK a, b : S = {a, b}
  OBVIOUS
<1>2. opened'[i] = opened[i] /\ opened[i].port < port /\ DOMAIN opened' = DOMAIN opened
  BY DEF Same, OpenedInv
<1>3. LostSlots(i)' \subseteq (LostSlots(i) \cup {a}) \cup {b}
  <2>1. ASSUME NEW s \in LostSlots(i)' PROVE s \in LostSlots(i) \/ s \in S
    <3>1. frame_list'[s] = IF s \in S THEN Xfer(Current + 1) ELSE frame_list[s]
      BY <2>1 DEF Link, LostSlots
    <3> QED
      BY <2>1, <3>1 DEF LostSlots, Same
  <2> QED
    BY <1>1, <2>1
<1>4. After(opened[i].port)' = After(opened[i].port) \cup {Current + 1}
  <2>1. /\ Len(xfer') = Len(xfer) + 1 /\ Len(xfer) \in Nat /\ xfer'[Len(xfer) + 1] = t
        /\ \A n \in 1 .. Len(xfer) : xfer'[n] = xfer[n]
    BY DEF BusInv, TypeOK
  <2>2. port \in Nat /\ opened[i].port \in Nat
    BY DEF BusInv, TypeOK, OpenedInv
  <2> DEFINE p == opened[i].port
  <2>3. After(opened[i].port)' = {n \in 1 .. Len(xfer') : xfer'[n].port > p}
    BY <1>2 DEF After, Current
  <2>4. After(p) = {n \in 1 .. Len(xfer) : xfer[n].port > p}
    BY DEF After, Current
  <2>5. {n \in 1 .. Len(xfer') : xfer'[n].port > p}
          = {n \in 1 .. Len(xfer) : xfer[n].port > p} \cup {Len(xfer) + 1}
    BY <1>2, <2>1, <2>2
  <2> QED
    BY <2>3, <2>4, <2>5 DEF Current
<1> QED
  BY <1>3, <1>4, TakenLost

\* The transfers so far keep their ports.
PortsKept == /\ Len(xfer') \in Nat /\ Len(xfer) \in Nat /\ Len(xfer) <= Len(xfer')
             /\ \A n \in 1 .. Len(xfer) : xfer'[n].port = xfer[n].port

\* A step that gives nobody else a slot of keyboard i keeps the bound.
LEMMA QuietLost ==
    ASSUME BusInv, BusInv', NEW i \in DOMAIN opened, Bound(i), PortsKept,
           i \in DOMAIN opened', opened'[i].port = opened[i].port,
           LostSlots(i)' \subseteq LostSlots(i)
    PROVE  Bound(i)'
<1> DEFINE p == opened[i].port
<1>1. After(opened[i].port)' = {n \in 1 .. Len(xfer') : xfer'[n].port > p}
  BY DEF After, Current
<1>2. After(p) = {n \in 1 .. Len(xfer) : xfer[n].port > p}
  BY DEF After, Current
<1> HIDE DEF p
<1>3. {n \in 1 .. Len(xfer) : xfer[n].port > p} \subseteq {n \in 1 .. Len(xfer') : xfer'[n].port > p}
  BY DEF PortsKept
<1>4. After(opened[i].port) \subseteq After(opened[i].port)'
  BY <1>1, <1>2, <1>3 DEF p
<1> QED
  BY <1>4, KeptLost

\* Every step but the start of a transfer keeps the ports of the transfers so far,
\* and the start adds one.
LEMMA PortsStep ==
    ASSUME BusInv, [Next]_vars
    PROVE  PortsKept
<1>0. xfer \in Seq(Transfer) /\ Len(xfer) \in Nat
  BY DEF BusInv, TypeOK
<1>1. CASE UNCHANGED xfer
  BY <1>0, <1>1 DEF PortsKept
<1>2. ASSUME NEW t, xfer' = Append(xfer, t), t \in Transfer PROVE PortsKept
  BY <1>0, <1>2 DEF PortsKept
<1>3. CASE Frame
  BY <1>0, <1>3, FrameLater DEF PortsKept, SameTransfer
<1>4. ASSUME NEW u, u \in Transfer, xfer' = [xfer EXCEPT ![Current] = u], u.port = xfer[Current].port
      PROVE  PortsKept
  <2>1. Len(xfer') = Len(xfer) /\ \A n \in 1 .. Len(xfer) : xfer'[n] = IF n = Current THEN u ELSE xfer[n]
    BY <1>0, <1>4
  <2> QED
    BY <1>0, <1>4, <2>1 DEF PortsKept
<1>5. CASE complete \/ fail
  <2> DEFINE t == xfer[Current]
             h == KeptOnSuccess(t.kind)
             g == KeptOnFailure(t.kind)
  <2>1. t \in Transfer
    BY <1>5 DEF complete, fail, BusInv, TypeOK, WaitInv
  <2>2. h \subseteq Blocks /\ g \subseteq Blocks
    BY DEF KeptOnSuccess, KeptOnFailure, Blocks
  <2> HIDE DEF t, h, g
  <2>3. /\ Freed(t, h) \in Transfer /\ Freed(t, h).port = t.port
        /\ Freed(t, g) \in Transfer /\ Freed(t, g).port = t.port
    <3>1. Freed(t, h) \in Transfer /\ Freed(t, g) \in Transfer
      BY <2>1, <2>2, FreedShape
    <3> QED
      BY <2>1, <3>1 DEF Freed, Transfer
  <2>4. /\ [Freed(t, g) EXCEPT !.failed = TRUE] \in Transfer
        /\ [Freed(t, g) EXCEPT !.failed = TRUE].port = t.port
    BY <2>3 DEF Transfer
  <2>5. \/ xfer' = [xfer EXCEPT ![Current] = Freed(t, h)]
        \/ xfer' = [xfer EXCEPT ![Current] = [Freed(t, g) EXCEPT !.failed = TRUE]]
    BY <1>5 DEF complete, fail, t, h, g
  <2>6. CASE xfer' = [xfer EXCEPT ![Current] = Freed(t, h)]
    BY <1>4, <2>3, <2>6 DEF t
  <2>7. CASE xfer' = [xfer EXCEPT ![Current] = [Freed(t, g) EXCEPT !.failed = TRUE]]
    BY <1>4, <2>4, <2>7 DEF t
  <2> QED
    BY <2>5, <2>6, <2>7
<1>6. CASE begin \/ not_running \/ begin_fails
  <2>1. SlotsFor(Kinds[step]) \subseteq Slot /\ TypeOK /\ {} \subseteq Slot
        /\ {"sp"} \subseteq Blocks
    BY SlotsForType DEF BusInv, Blocks
  <2> DEFINE S == SlotsFor(Kinds[step])
  <2> HIDE DEF S
  <2>2. /\ NewTransfer(S, Blocks) \in Transfer
        /\ [NewTransfer(S, Blocks) EXCEPT !.failed = TRUE] \in Transfer
        /\ [NewTransfer({}, {"sp"}) EXCEPT !.failed = TRUE] \in Transfer
    BY <2>1, NewTransferType DEF S
  <2>3. \/ xfer' = Append(xfer, NewTransfer(S, Blocks))
        \/ xfer' = Append(xfer, [NewTransfer(S, Blocks) EXCEPT !.failed = TRUE])
        \/ xfer' = Append(xfer, [NewTransfer({}, {"sp"}) EXCEPT !.failed = TRUE])
    BY <1>6 DEF begin, not_running, begin_fails, S
  <2> QED
    BY <1>2, <2>2, <2>3
<1>7. CASE sleep_ms \/ wait_ms
  BY <1>3, <1>7 DEF sleep_ms, wait_ms
<1> QED
  BY <1>1, <1>5, <1>6, <1>7 DEF Next, vars, initialize, reset_port, no_device, parse, open_pipe

\* Every step keeps the bound for a keyboard that was open before it and is not
\* dropped after it.
LEMMA OldBound ==
    ASSUME BusInv, OpenedInv, FieldsInv, LinkInv, [Next]_vars,
           NEW i \in DOMAIN opened, Bound(i), i \in DOMAIN opened', ~opened'[i].dropped
    PROVE  Bound(i)'
<1>1. BusInv' /\ PortsKept
  BY BusStep, PortsStep
<1>2. CASE Same /\ UNCHANGED frame_list
  <2>1. opened'[i].port = opened[i].port /\ LostSlots(i)' \subseteq LostSlots(i)
    BY <1>2 DEF Same, LostSlots
  <2> QED
    BY <1>1, <2>1, QuietLost
<1>3. CASE Dropped
  BY <1>3 DEF Dropped
<1>4. CASE Joined
  <2>1. PICK S : /\ frame_list' = Link(Kbd(port), S)
                 /\ DOMAIN opened' = DOMAIN opened \cup {Len(opened) + 1}
                 /\ \A j \in DOMAIN opened : opened'[j] = opened[j] /\ j < Len(opened) + 1
                 /\ opened'[Len(opened) + 1].slots = S
    BY <1>4 DEF Joined
  <2>2. ASSUME NEW s \in LostSlots(i)' PROVE s \in LostSlots(i)
    <3>1. s \in Slot /\ s \notin S
      BY <2>1, <2>2 DEF LostSlots
    <3>2. frame_list'[s] = frame_list[s]
      BY <2>1, <3>1 DEF Link
    <3> QED
      BY <2>1, <2>2, <3>2 DEF LostSlots
  <2>3. opened'[i].port = opened[i].port
    BY <2>1
  <2> QED
    BY <1>1, <2>2, <2>3, QuietLost
<1>5. CASE complete
  <2> DEFINE t == xfer[Current]
  <2>1. /\ frame_list' = Link(Term, t.slots) /\ UNCHANGED opened /\ pc = "wait"
    BY <1>5 DEF complete, Unlink
  <2>2. ASSUME NEW s \in LostSlots(i)' PROVE s \in LostSlots(i)
    <3>1. s \in Slot /\ frame_list'[s] = IF s \in t.slots THEN Term ELSE frame_list[s]
      BY <2>1, <2>2 DEF Link, LostSlots
    <3>2. s \in t.slots => frame_list[s] # Kbd(opened[i].port)
      BY <2>1, <3>1 DEF LinkInv, Xfer, Kbd
    <3> QED
      BY <2>1, <2>2, <3>1, <3>2 DEF LostSlots
  <2>3. opened'[i].port = opened[i].port /\ i \in DOMAIN opened'
    BY <2>1
  <2> QED
    BY <1>1, <2>2, <2>3, QuietLost
<1>6. CASE begin \/ not_running
  <2> DEFINE S == SlotsFor(Kinds[step])
             t == NewTransfer(S, Blocks)
             f == [NewTransfer(S, Blocks) EXCEPT !.failed = TRUE]
  <2>1. S \subseteq Slot /\ TypeOK /\ \E a, b : S = {a, b}
    BY SlotsForType, SlotsForTwo DEF BusInv
  <2>2. /\ frame_list' = Link(Xfer(Current + 1), S) /\ Same /\ pc = "sleep"
        /\ xfer' = Append(xfer, t) \/ xfer' = Append(xfer, f)
    BY <1>6 DEF begin, not_running, Same, Ready
  <2> HIDE DEF S
  <2>3. t \in Transfer /\ f \in Transfer
    BY <2>1, NewTransferType
  <2>4. t.port = port /\ f.port = port
    BY DEF NewTransfer
  <2> HIDE DEF t, f
  <2>5. CASE xfer' = Append(xfer, t)
    BY <2>1, <2>2, <2>3, <2>4, <2>5, StartLost
  <2>6. CASE xfer' = Append(xfer, f)
    BY <2>1, <2>2, <2>3, <2>4, <2>6, StartLost
  <2> QED
    BY <2>2, <2>5, <2>6
<1>7. CASE open_pipe /\ ~Same
  BY <1>3, <1>4, <1>7, OpenedCases
<1>8. CASE open_pipe /\ Same
  <2>1. UNCHANGED frame_list
    <3> SUFFICES ASSUME NEW o, opened' = Append(opened, o) PROVE FALSE
      BY <1>8 DEF open_pipe
    <3> DEFINE R == {opened[j] : j \in DOMAIN opened} \cup {o}
    <3>1. opened \in Seq(R) /\ o \in R
      BY DEF OpenedInv
    <3> HIDE DEF R
    <3>2. Len(opened') = Len(opened) + 1 /\ Len(opened) \in Nat
      BY <3>1
    <3> QED
      BY <1>8, <3>2 DEF Same
  <2> QED
    BY <1>2, <1>8, <2>1
<1>9. CASE initialize
  <2>1. \/ opened' = [j \in DOMAIN opened |-> [opened[j] EXCEPT !.dropped = TRUE]]
        \/ UNCHANGED <<frame_list, opened>>
    BY <1>9 DEF initialize
  <2>2. ASSUME opened' = [j \in DOMAIN opened |-> [opened[j] EXCEPT !.dropped = TRUE]]
        PROVE  FALSE
    <3>1. opened'[i] = [opened[i] EXCEPT !.dropped = TRUE] /\ "dropped" \in DOMAIN opened[i]
      BY <2>2 DEF FieldsInv
    <3>2. opened'[i].dropped
      BY <3>1
    <3> QED
      BY <3>2
  <2> QED
    BY <1>2, <2>1, <2>2 DEF Same
<1> QED
  BY <1>2, <1>5, <1>6, <1>7, <1>8, <1>9
     DEF Next, vars, reset_port, no_device, sleep_ms, begin_fails, wait_ms, parse, fail, Same

\* A keyboard that is just opened has all its slots.
LEMMA NewBound ==
    ASSUME BusInv, OpenedInv, FieldsInv, [Next]_vars, BusInv',
           NEW i \in DOMAIN opened', i \notin DOMAIN opened
    PROVE  Bound(i)'
<1>1. Joined
  BY OpenedCases DEF Same, Dropped
<1>2. PICK S : /\ frame_list' = Link(Kbd(port), S)
               /\ DOMAIN opened' = DOMAIN opened \cup {Len(opened) + 1}
               /\ opened'[Len(opened) + 1].slots = S
               /\ opened'[Len(opened) + 1].port = port
  BY <1>1 DEF Joined
<1>3. i = Len(opened) + 1
  BY <1>2
<1>4. LostSlots(i)' = {}
  BY <1>2, <1>3 DEF LostSlots, Link
<1>5. Cardinality(LostSlots(i)') = 0
  BY <1>4, FS_EmptySet
<1>6. Cardinality(After(opened[i].port)') \in Nat
  <2>1. Len(xfer') \in Nat
    BY DEF BusInv, TypeOK
  <2>2. IsFiniteSet(1 .. Len(xfer'))
    BY <2>1, UpToFinite
  <2>3. After(opened[i].port)' \subseteq 1 .. Len(xfer')
    BY DEF After, Current
  <2> QED
    BY <2>2, <2>3, FS_Subset, FS_CardinalityType
<1> QED
  BY <1>5, <1>6 DEF Bound

\* Every step keeps the bound.
LEMMA SlotsStep ==
    BusInv /\ OpenedInv /\ FieldsInv /\ LinkInv /\ SlotsBound /\ [Next]_vars => SlotsBound'
<1> SUFFICES ASSUME BusInv, OpenedInv, FieldsInv, LinkInv, SlotsBound, [Next]_vars,
                    NEW i \in DOMAIN opened', ~opened'[i].dropped
             PROVE  Bound(i)'
  BY DEF SlotsBound, Bound, After
<1>1. CASE i \in DOMAIN opened
  <2>1. ~opened[i].dropped
    <3> SUFFICES ASSUME opened[i].dropped PROVE FALSE
      OBVIOUS
    <3>1. CASE Same
      BY <3>1 DEF Same
    <3>2. CASE Dropped
      BY <3>2 DEF Dropped
    <3>3. CASE Joined
      BY <1>1, <3>3 DEF Joined
    <3> QED
      BY <3>1, <3>2, <3>3, OpenedCases
  <2>2. Bound(i)
    BY <1>1, <2>1 DEF SlotsBound, Bound, After
  <2> QED
    BY <1>1, <2>2, OldBound
<1>2. CASE i \notin DOMAIN opened
  BY <1>2, BusStep, NewBound
<1> QED
  BY <1>1, <1>2

\* Whatever the transfers of later ports do and however they end, they cost an open
\* keyboard at most two slots each: for lists, intervals and ports of any number.
THEOREM KeyboardKeepsSlots == Spec => []SlotsKept
<1> DEFINE Inv == BusInv /\ OpenedInv /\ FieldsInv /\ LinkInv /\ SlotsBound
<1>1. Init => Inv
  <2> SUFFICES ASSUME Init PROVE OpenedInv /\ FieldsInv /\ LinkInv /\ SlotsBound
    BY InitBus
  <2>1. opened = << >> /\ pc = "init"
    BY Zenon DEF Init
  <2> QED
    BY <2>1 DEF OpenedInv, FieldsInv, LinkInv, SlotsBound
<1>2. Inv /\ [Next]_vars => Inv'
  BY BusStep, OpenedStep, FieldsStep, LinkStep, SlotsStep
<1>3. Inv => SlotsKept
  BY DEF SlotsKept
<1> QED
  BY <1>1, <1>2, <1>3, PTL DEF Spec

\* The slots of keyboard i that no later keyboard took.
OwnSlots(i) == {s \in Slot : /\ s \in opened[i].slots
                             /\ \A j \in DOMAIN opened : j > i => s \notin opened[j].slots}
EnoughPolled ==
    ~wild => \A i \in DOMAIN opened :
        ~opened[i].dropped /\ Cardinality(OwnSlots(i)) > 2 * Cardinality(After(opened[i].port))
            => \E s \in Slot : frame_list[s] = Kbd(opened[i].port)

\* What KeyboardPolled says of a small bus holds of any one on which the keyboard
\* has enough slots: with more than two of its own for each transfer of a later
\* port, the controller still polls it.
THEOREM KeyboardStaysPolled == Spec => []EnoughPolled
<1>1. BusInv /\ SlotsKept => EnoughPolled
  <2> SUFFICES ASSUME BusInv, SlotsKept, ~wild, NEW i \in DOMAIN opened, ~opened[i].dropped,
                      Cardinality(OwnSlots(i)) > 2 * Cardinality(After(opened[i].port)),
                      \A s \in Slot : frame_list[s] # Kbd(opened[i].port)
               PROVE  FALSE
    BY DEF EnoughPolled
  <2>1. LostSlots(i) = OwnSlots(i)
    BY DEF LostSlots, OwnSlots
  <2>2. Cardinality(LostSlots(i)) <= 2 * Cardinality(After(opened[i].port))
    BY DEF SlotsKept, SlotsBound, After
  <2>3. Cardinality(LostSlots(i)) \in Nat /\ Cardinality(After(opened[i].port)) \in Nat
    BY LostFinite, FS_CardinalityType
  <2> QED
    BY <2>1, <2>2, <2>3
<1> QED
  BY <1>1, BusInvariant, KeyboardKeepsSlots, PTL
=============================================================================
