---------------------------- MODULE KeyRingProofs ----------------------------
(***************************************************************************)
(* Proofs about KeyRing for every capacity and every set of elements: the  *)
(* inductive invariant RingInv, and that the ring implements BoundedFifo.  *)
(***************************************************************************)
EXTENDS KeyRing, SequenceTheorems, TLAPS

USE CapAssumption, ZeroAssumption DEF Index

\* The successor of an index, as keyboard_common.c computes it with %, is the
\* next index or wraps to 0.
LEMMA Successor ==
    ASSUME NEW i \in Index
    PROVE  (i + 1) % Cap = IF i + 1 = Cap THEN 0 ELSE i + 1
  OBVIOUS

\* What one push does to the content: nothing when Cap - 1 elements are queued,
\* otherwise the old elements keep their places and e comes after them.
LEMMA PushContent ==
    ASSUME RingInv, NEW e \in Elem, push(e)
    PROVE  /\ Count \in 0 .. Cap - 1
           /\ Count = Cap - 1 => head' = head /\ buf' = buf
           /\ Count < Cap - 1 =>
                /\ Count' = Count + 1
                /\ \A i \in 0 .. Count - 1 : buf'[Slot(i)] = buf[Slot(i)]
                /\ buf'[Slot(Count)] = e
           /\ tail' = tail
  <1>1. /\ head \in 0 .. Cap - 1 /\ tail \in 0 .. Cap - 1
        /\ buf \in [0 .. Cap - 1 -> Elem \cup {Zero}]
    BY DEF RingInv, TypeOK
  <1>2. (head + 1) % Cap = IF head + 1 = Cap THEN 0 ELSE head + 1
    BY <1>1, Successor
  <1>3. tail' = tail
    BY DEF push
  <1>4. Count \in 0 .. Cap - 1
    BY <1>1 DEF Count
  <1>5. (Count = Cap - 1) <=> ((head + 1) % Cap = tail)
    BY <1>1, <1>2 DEF Count
  <1>6. Count = Cap - 1 => head' = head /\ buf' = buf
    BY <1>5 DEF push
  <1>7. ASSUME Count < Cap - 1
        PROVE  /\ Count' = Count + 1
               /\ \A i \in 0 .. Count - 1 : buf'[Slot(i)] = buf[Slot(i)]
               /\ buf'[Slot(Count)] = e
    <2>1. head' = (head + 1) % Cap /\ buf' = [buf EXCEPT ![head] = e]
      BY <1>4, <1>5, <1>7 DEF push
    <2>2. Count' = Count + 1
      BY <1>1, <1>2, <1>3, <1>5, <1>4, <1>7, <2>1 DEF Count
    <2>3. Slot(Count) = head
      BY <1>1 DEF Slot, Count
    <2>4. \A i \in 0 .. Count - 1 : Slot(i) # head /\ Slot(i) \in 0 .. Cap - 1
      BY <1>1 DEF Slot, Count
    <2>5. QED
      BY <1>1, <2>1, <2>2, <2>3, <2>4
  <1>8. QED
    BY <1>3, <1>4, <1>6, <1>7

\* What advancing the tail does to the content: the oldest element goes.
LEMMA AdvanceContent ==
    ASSUME RingInv, read_advance
    PROVE  /\ Count \in 1 .. Cap - 1
           /\ Count' = Count - 1
           /\ Slot(0) = tail
           /\ tail' \in Index
           /\ \A i \in 0 .. Count - 2 : Slot(i)' = Slot(i + 1)
  <1>1. /\ head \in 0 .. Cap - 1 /\ tail \in 0 .. Cap - 1 /\ head # tail
    BY DEF RingInv, TypeOK, LoadedSlotStable, read_advance
  <1>2. tail' = IF tail + 1 = Cap THEN 0 ELSE tail + 1
    BY <1>1, Successor DEF read_advance
  <1>3. head' = head
    BY DEF read_advance
  <1>4. QED
    BY <1>1, <1>2, <1>3 DEF Count, Slot

\* The ring invariant holds in every state: the indices stay in range, the
\* slots between tail and head hold pushed elements, and the slot a reader has
\* loaded is not overwritten before it advances the tail.
THEOREM RingInvariant == Spec => []RingInv
  <1>1. Init => RingInv
    <2> SUFFICES ASSUME Init PROVE RingInv
      OBVIOUS
    <2>1. TypeOK
      <3>1. buf \in [Index -> Elem \cup {Zero}]
        BY DEF Init
      <3>2. head \in Index /\ tail \in Index
        BY DEF Init
      <3>3. QED
        BY <3>1, <3>2 DEF Init, TypeOK, PCs
    <2>2. ContentIsElems
      BY DEF Init, ContentIsElems, Count
    <2>3. LoadedSlotStable /\ BootTail
      BY DEF Init, LoadedSlotStable, BootTail
    <2>4. QED
      BY <2>1, <2>2, <2>3 DEF RingInv
  <1>2. RingInv /\ [Next]_vars => RingInv'
    <2> SUFFICES ASSUME RingInv, [Next]_vars PROVE RingInv'
      OBVIOUS
    <2> USE DEF RingInv
    <2>1. ASSUME NEW e \in Elem, push(e) PROVE RingInv'
      <3>1. TypeOK'
        <4>1. (head + 1) % Cap \in Index
          BY Successor DEF TypeOK
        <4>2. QED
          BY <2>1, <4>1 DEF push, Awake, TypeOK, PCs
      <3>2. ContentIsElems'
        <4>1. \A i : Slot(i)' = Slot(i)
          BY <2>1 DEF push, Slot
        <4>2. CASE Count = Cap - 1
          BY <2>1, <4>1, <4>2, PushContent DEF ContentIsElems, Count
        <4>3. CASE Count < Cap - 1
          <5>1. /\ Count' = Count + 1 /\ Count \in Nat
                /\ \A i \in 0 .. Count - 1 : buf'[Slot(i)] \in Elem
                /\ buf'[Slot(Count)] \in Elem
            BY <2>1, <4>3, PushContent DEF ContentIsElems
          <5>2. QED
            BY <4>1, <5>1 DEF ContentIsElems
        <4>4. QED
          BY <2>1, <4>2, <4>3, PushContent
      <3>3. LoadedSlotStable'
        <4>1. (head + 1) % Cap = IF head + 1 = Cap THEN 0 ELSE head + 1
          BY Successor DEF TypeOK
        <4>2. QED
          BY <2>1, <4>1 DEF push, Awake, LoadedSlotStable, TypeOK
      <3>4. BootTail'
        BY <2>1 DEF push, Awake, BootTail
      <3>5. QED
        BY <3>1, <3>2, <3>3, <3>4
    <2>2. CASE timer_irq
      BY <2>2 DEF timer_irq, Awake, TypeOK, ContentIsElems, LoadedSlotStable,
                  BootTail, Count, Slot, PCs
    <2>3. ASSUME NEW b \in BOOLEAN, call(b) PROVE RingInv'
      BY <2>3 DEF call, TypeOK, ContentIsElems, LoadedSlotStable, BootTail,
                  Count, Slot, PCs
    <2>4. CASE init_tail
      BY <2>4 DEF init_tail, TypeOK, ContentIsElems, LoadedSlotStable, BootTail,
                  Count, Slot, PCs
    <2>5. CASE init_head
      BY <2>5 DEF init_head, TypeOK, ContentIsElems, LoadedSlotStable, BootTail,
                  Count, Slot, PCs
    <2>6. CASE read_empty
      BY <2>6 DEF read_empty, TypeOK, ContentIsElems, LoadedSlotStable, BootTail,
                  Count, Slot, PCs
    <2>7. CASE read_found
      BY <2>7 DEF read_found, TypeOK, ContentIsElems, LoadedSlotStable, BootTail,
                  Count, Slot, PCs
    <2>8. CASE read_load
      BY <2>8 DEF read_load, TypeOK, ContentIsElems, LoadedSlotStable, BootTail,
                  Count, Slot, PCs
    <2>9. CASE read_advance
      <3>1. TypeOK' /\ BootTail'
        BY <2>9, AdvanceContent DEF read_advance, TypeOK, BootTail, PCs
      <3>2. ContentIsElems'
        <4>1. buf' = buf
          BY <2>9 DEF read_advance
        <4>2. QED
          BY <2>9, <4>1, AdvanceContent DEF ContentIsElems
      <3>3. LoadedSlotStable'
        BY <2>9 DEF read_advance, LoadedSlotStable
      <3>4. QED
        BY <3>1, <3>2, <3>3
    <2>10. CASE halt
      BY <2>10 DEF halt, TypeOK, ContentIsElems, LoadedSlotStable, BootTail,
                   Count, Slot, PCs
    <2>11. CASE UNCHANGED vars
      BY <2>11 DEF vars, TypeOK, ContentIsElems, LoadedSlotStable, BootTail,
                   Count, Slot
    <2>12. QED
      BY <2>1, <2>2, <2>3, <2>4, <2>5, <2>6, <2>7, <2>8, <2>9, <2>10, <2>11
         DEF Next, Reader
  <1>3. QED
    BY <1>1, <1>2, PTL DEF Spec

\* The ring, with its reads split at every memory access and interrupts in
\* between, is a bounded queue of KEYBUF_CAP - 1 elements: a read returns the
\* oldest element that was accepted, once, and a push into a full ring drops
\* the new element and nothing else.
THEOREM RingIsFifo == Spec => FifoSpec
  <1>1. Init => Fifo!Init
    BY DEF Init, Fifo!Init, Content, Count, Phase
  <1>2. RingInv /\ [Next]_vars => [Fifo!Next]_(Fifo!fifoVars)
    <2> SUFFICES ASSUME RingInv, [Next]_vars
                 PROVE  Fifo!Next \/ UNCHANGED <<Phase, Content, ret>>
      BY DEF Fifo!fifoVars
    <2>0. /\ Count \in 0 .. Cap - 1
          /\ Content \in Seq(Elem) /\ Len(Content) = Count
          /\ head \in Index /\ tail \in Index
      <3>1. head \in Index /\ tail \in Index
        BY DEF RingInv, TypeOK
      <3>2. Count \in 0 .. Cap - 1
        BY <3>1 DEF Count
      <3>3. \A i \in 1 .. Count : buf[Slot(i - 1)] \in Elem
        BY <3>2 DEF RingInv, ContentIsElems
      <3>4. Content \in [1 .. Count -> Elem]
        BY <3>3 DEF Content
      <3>5. QED
        BY <3>1, <3>2, <3>4
    <2>1. ASSUME NEW e \in Elem, push(e) PROVE Fifo!Put(e)
      <3>1. ret' = ret /\ Phase' = Phase
        BY <2>1 DEF push, Awake, Phase
      <3>2. \A i : Slot(i)' = Slot(i)
        BY <2>1 DEF push, Slot
      <3>3. CASE Count = Cap - 1
        <4>1. Content' = Content
          BY <2>1, <3>2, <3>3, PushContent DEF Content, Count
        <4>2. QED
          BY <2>0, <3>1, <3>3, <4>1 DEF Fifo!Put
      <3>4. CASE Count < Cap - 1
        <4>1. /\ Count' = Count + 1
              /\ \A i \in 0 .. Count - 1 : buf'[Slot(i)] = buf[Slot(i)]
              /\ buf'[Slot(Count)] = e
          BY <2>1, <3>4, PushContent
        <4>2. Content' = [i \in 1 .. Count + 1 |-> buf'[Slot(i - 1)]]
          BY <3>2, <4>1 DEF Content
        <4>3. Content' = Append(Content, e)
          <5>1. /\ Append(Content, e) \in Seq(Elem)
                /\ Len(Append(Content, e)) = Count + 1
                /\ \A i \in 1 .. Count : Append(Content, e)[i] = Content[i]
                /\ Append(Content, e)[Count + 1] = e
            BY <2>0, AppendProperties
          <5>2. \A i \in 1 .. Count : Content[i] = buf[Slot(i - 1)]
            BY DEF Content
          <5>3. \A i \in 1 .. Count + 1 : Content'[i] = Append(Content, e)[i]
            BY <2>0, <4>1, <4>2, <5>1, <5>2
          <5>4. Append(Content, e) \in [1 .. Count + 1 -> Elem]
            BY <5>1, LenProperties
          <5>5. QED
            BY <4>2, <5>3, <5>4
        <4>4. QED
          BY <2>0, <3>1, <3>4, <4>3 DEF Fifo!Put
      <3>5. QED
        BY <2>0, <3>3, <3>4
    <2>2. CASE timer_irq
      BY <2>2 DEF timer_irq, Awake, Phase, Content, Count, Slot
    <2>3. ASSUME NEW b \in BOOLEAN, call(b) PROVE UNCHANGED <<Phase, Content, ret>>
      BY <2>3 DEF call, Phase, Content, Count, Slot
    <2>4. CASE init_tail
      BY <2>4 DEF init_tail, Phase, RingInv, BootTail, Content, Count, Slot
    <2>5. CASE init_head
      <3>0. Phase = "starting" /\ Phase' = "ready"
        BY <2>5 DEF init_head, Phase
      <3>1. Content' = << >> /\ ret' = ret
        BY <2>5 DEF init_head, RingInv, BootTail, Content, Count
      <3>2. QED
        BY <3>0, <3>1 DEF Fifo!Next, Fifo!Clear
    <2>6. CASE read_empty
      <3>1. Content = << >> /\ Content' = Content
        BY <2>0, <2>6 DEF read_empty, Content, Count, Slot
      <3>2. Phase = "ready" /\ Phase' = "ready"
        BY <2>6 DEF read_empty, Phase
      <3>3. QED
        BY <2>6, <3>1, <3>2 DEF read_empty, Fifo!Next, Fifo!GetNothing
    <2>7. CASE read_found
      BY <2>7 DEF read_found, Phase, Content, Count, Slot
    <2>8. CASE read_load
      BY <2>8 DEF read_load, Phase, Content, Count, Slot
    <2>9. CASE read_advance
      <3>1. /\ Count \in 1 .. Cap - 1 /\ Count' = Count - 1 /\ Slot(0) = tail
            /\ \A i \in 0 .. Count - 2 : Slot(i)' = Slot(i + 1)
        BY <2>9, AdvanceContent
      <3>2. Content[1] = buf[tail]
        BY <3>1 DEF Content
      <3>3. got = buf[tail] /\ got \in Elem
        BY <2>0, <2>9, <3>1 DEF read_advance, RingInv, LoadedSlotStable, ContentIsElems
      <3>4. ret' = Head(Content)
        BY <2>0, <2>9, <3>1, <3>2, <3>3 DEF read_advance
      <3>5. Content' = Tail(Content)
        <4>1. buf' = buf
          BY <2>9 DEF read_advance
        <4>2. Content' = [i \in 1 .. Count - 1 |-> buf[Slot(i)]]
          BY <3>1, <4>1 DEF Content
        <4>3. /\ Tail(Content) \in Seq(Elem) /\ Len(Tail(Content)) = Count - 1
              /\ \A i \in 1 .. Count - 1 : Tail(Content)[i] = Content[i + 1]
          <5>1. Content # << >>
            BY <2>0, <3>1
          <5>2. QED
            BY <2>0, <5>1, HeadTailProperties
        <4>4. \A i \in 1 .. Count - 1 : Content[i + 1] = buf[Slot(i)]
          BY <3>1 DEF Content
        <4>5. Tail(Content) \in [1 .. Count - 1 -> Elem]
          BY <4>3, LenProperties
        <4>6. QED
          BY <4>2, <4>3, <4>4, <4>5
      <3>6. Content # << >>
        BY <2>0, <3>1
      <3>7. Phase = "ready" /\ Phase' = "ready"
        BY <2>9 DEF read_advance, Phase
      <3>8. QED
        BY <3>4, <3>5, <3>6, <3>7 DEF Fifo!Next, Fifo!Get
    <2>10. CASE halt
      BY <2>10 DEF halt, Phase, Content, Count, Slot
    <2>11. CASE UNCHANGED vars
      BY <2>11 DEF vars, Phase, Content, Count, Slot
    <2>12. QED
      BY <2>1, <2>2, <2>3, <2>4, <2>5, <2>6, <2>7, <2>8, <2>9, <2>10, <2>11
         DEF Next, Reader, Fifo!Next
  <1>3. QED
    BY <1>1, <1>2, RingInvariant, PTL DEF Spec, FifoSpec, Fifo!Spec
=============================================================================
