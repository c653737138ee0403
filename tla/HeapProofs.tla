----------------------------- MODULE HeapProofs -----------------------------
(***************************************************************************)
(* HeapSafe and UserAligned are invariants of Heap for every heap size and *)
(* all request sizes, as long as every caller asks for the same alignment  *)
(* and that alignment is no larger than a header.  The callers in          *)
(* drivers/usb/uhci all ask for 16.                                        *)
(*                                                                         *)
(* HeapSafe alone is not inductive: a free block that is reused loses its  *)
(* padding after it was found to be large enough.  What saves it is that   *)
(* every header is aligned (Placed), so that the padding is zero.          *)
(***************************************************************************)
EXTENDS Heap, TLAPS

\* The alignments are powers of two up to a header, all the same once those
\* smaller than a pointer are raised to it.
OneAlignment == /\ Aligns \subseteq {1, 2, 4, 8, 16}
                /\ \A a, c \in Aligns : Alignment(a) = Alignment(c)

\* Every header that is live or free lies on a multiple of the alignment.
Placed == \A a \in Aligns :
             /\ \A b \in live : b.hdr % Alignment(a) = 0
             /\ \A i \in DOMAIN free_list : free_list[i].hdr % Alignment(a) = 0

HInv == HeapSafe /\ Placed

\* An alignment is 8 or 16 (the first test of aligned_alloc).
LEMMA AlignmentIs8Or16 ==
    ASSUME OneAlignment, NEW a \in Aligns
    PROVE  Alignment(a) \in {8, 16}
  BY DEF OneAlignment, Alignment, Pointer

\* The user data of a block whose header is aligned needs no padding (padding
\* in aligned_alloc).
LEMMA NoPadding ==
    ASSUME NEW x \in Nat, NEW m \in {8, 16}, x % m = 0
    PROVE  PadTo(x + Header, m) = 0
<1>1. CASE m = 8
  BY <1>1 DEF PadTo, Header
<1>2. CASE m = 16
  BY <1>2 DEF PadTo, Header
<1> QED
  BY <1>1, <1>2

\* A new header lies on a multiple of the alignment, not before the end of the
\* last block (header_padding in aligned_alloc).
LEMMA HeaderPadding ==
    ASSUME NEW m \in {8, 16}, offset \in Nat
    PROVE  /\ header_padding(m) \in Nat
           /\ (Base + offset + header_padding(m)) % m = 0
<1> DEFINE x == Base + offset
           p == PadTo(x, m)
<1>1. x \in Nat
  BY HeapAssumption
<1>2. p \in 0 .. 15 /\ (x + p) % m = 0 /\ (x + p + m) % m = 0
  <2>1. CASE m = 8
    BY <1>1, <2>1 DEF PadTo
  <2>2. CASE m = 16
    BY <1>1, <2>2 DEF PadTo
  <2> QED
    BY <2>1, <2>2
<1>3. header_padding(m) = p + m
  BY <1>2 DEF header_padding, Header
<1>4. Base + offset + (p + m) = x + p + m
  BY <1>2, HeapAssumption
<1>5. p + m \in Nat
  BY <1>2
<1> HIDE DEF p, x
<1> QED
  BY <1>2, <1>3, <1>4, <1>5

\* The blocks of the free list.
LEMMA Elements ==
    ASSUME NEW T, NEW s \in Seq(T)
    PROVE  \A i \in DOMAIN s : s[i] \in T /\ i \in Nat
  OBVIOUS

\* What is left of the free list after the block is taken out of it (*current =
\* alloc_header->next_free): every block of it was there, at a place of its own.
LEMMA WithoutElements ==
    ASSUME NEW T, NEW s \in Seq(T), NEW i \in DOMAIN s
    PROVE  /\ Without(s, i) \in Seq(T)
           /\ DOMAIN Without(s, i) = 1 .. Len(s) - 1
           /\ \A j \in DOMAIN Without(s, i) :
                \E k \in DOMAIN s : /\ k # i
                                    /\ Without(s, i)[j] = s[k]
                                    /\ k = IF j < i THEN j ELSE j + 1
  BY DEF Without

\* The free list with a block put in front of it (free_list = alloc_header).
LEMMA PushElements ==
    ASSUME NEW T, NEW s \in Seq(T), NEW e \in T
    PROVE  /\ <<e>> \o s \in Seq(T)
           /\ DOMAIN (<<e>> \o s) = 1 .. Len(s) + 1
           /\ (<<e>> \o s)[1] = e
           /\ \A j \in DOMAIN (<<e>> \o s) : j # 1 => /\ j - 1 \in DOMAIN s
                                                      /\ (<<e>> \o s)[j] = s[j - 1]
  OBVIOUS

\* HInv holds at the start: nothing is allocated or freed.
LEMMA HeapInitInv == Init => HInv
  BY HeapAssumption DEF Init, HInv, HeapSafe, TypeOK, Disjoint, Contained, Placed

-----------------------------------------------------------------------------
\* A block from the free list: it is taken whole, where it is, and was apart
\* from every other block.
LEMMA FreeListInv ==
    ASSUME HInv, OneAlignment, NEW a \in Aligns, NEW n \in Sizes, alloc_from_free_list(a, n)
    PROVE  HInv'
<1> USE DEF HInv, HeapSafe
<1> DEFINE Block == [hdr : Nat, size : Nat]
<1>1. PICK i \in DOMAIN free_list :
        LET b == free_list[i]
            padding == PadTo(b.hdr + Header, Alignment(a))
        IN /\ Fits(b, n)
           /\ free_list' = Without(free_list, i)
           /\ live' = live \cup {[hdr |-> b.hdr + padding, size |-> b.size - padding,
                                   align |-> a, asked |-> n]}
           /\ UNCHANGED offset
  BY DEF alloc_from_free_list
<1> DEFINE b == free_list[i]
           new == [hdr |-> b.hdr, size |-> b.size, align |-> a, asked |-> n]
<1>2. b \in Block /\ b.hdr \in Nat /\ b.size \in Nat
  <2>1. free_list \in Seq(Block)
    BY DEF TypeOK
  <2>2. b \in Block
    BY <2>1, Elements
  <2> QED
    BY <2>2
<1>3. PadTo(b.hdr + Header, Alignment(a)) = 0
  BY <1>2, AlignmentIs8Or16, NoPadding DEF Placed
<1>4. live' = live \cup {new}
  BY <1>1, <1>2, <1>3
<1>5. /\ free_list' \in Seq(Block)
      /\ DOMAIN free_list' = 1 .. Len(free_list) - 1
      /\ \A j \in DOMAIN free_list' :
           \E k \in DOMAIN free_list : /\ k # i /\ free_list'[j] = free_list[k]
                                       /\ k = IF j < i THEN j ELSE j + 1
  BY <1>1, WithoutElements DEF TypeOK
<1>6. /\ new.hdr = b.hdr /\ new.size = b.size /\ new.align = a /\ new.asked = n
  OBVIOUS
<1> HIDE DEF b, new
<1>7. TypeOK'
  BY <1>1, <1>2, <1>4, <1>5 DEF TypeOK, new
<1>8. Disjoint'
  <2>1. \A k \in DOMAIN free_list : k # i => Apart(b, free_list[k]) /\ Apart(free_list[k], b)
    BY DEF Disjoint, b, Apart
  <2>2. \A c \in live : Apart(c, b)
    BY DEF Disjoint, b
  <2>3. ASSUME NEW c \in live', NEW d \in live' PROVE c = d \/ Apart(c, d)
    BY <2>2, <2>3, <1>4, <1>6 DEF Disjoint, Apart
  <2>4. ASSUME NEW j \in DOMAIN free_list', NEW k \in DOMAIN free_list', j # k
        PROVE Apart(free_list'[j], free_list'[k])
    <3>1. PICK p \in DOMAIN free_list : free_list'[j] = free_list[p]
                                        /\ p = IF j < i THEN j ELSE j + 1
      BY <1>5
    <3>2. PICK q \in DOMAIN free_list : free_list'[k] = free_list[q]
                                        /\ q = IF k < i THEN k ELSE k + 1
      BY <1>5
    <3>3. p # q
      <4>1. i \in Nat /\ j \in Nat /\ k \in Nat
        BY <1>5, Elements DEF TypeOK
      <4> QED
        BY <4>1, <3>1, <3>2, <2>4
    <3> QED
      BY <3>1, <3>2, <3>3 DEF Disjoint
  <2>5. ASSUME NEW c \in live', NEW j \in DOMAIN free_list' PROVE Apart(c, free_list'[j])
    <3>1. PICK p \in DOMAIN free_list : p # i /\ free_list'[j] = free_list[p]
      BY <1>5
    <3>2. CASE c \in live
      BY <3>1, <3>2 DEF Disjoint
    <3>3. CASE c = new
      BY <3>1, <3>3, <2>1, <1>6 DEF Apart
    <3> QED
      BY <3>2, <3>3, <1>4
  <2> QED
    BY <2>3, <2>4, <2>5 DEF Disjoint
<1>9. Contained'
  <2>1. InBuffer(b) /\ b.size >= n + Header
    BY <1>1 DEF Contained, Fits, b
  <2>2. ASSUME NEW c \in live' PROVE InBuffer(c)' /\ c.size >= c.asked + Header
    BY <2>1, <2>2, <1>1, <1>4, <1>6 DEF Contained, InBuffer
  <2>3. ASSUME NEW j \in DOMAIN free_list'
        PROVE InBuffer(free_list[j])' /\ free_list'[j].size >= Header
    BY <2>3, <1>1, <1>5 DEF Contained, InBuffer
  <2> QED
    BY <2>2, <2>3 DEF Contained
<1>10. Placed'
  BY <1>4, <1>5, <1>6 DEF Placed, b
<1> QED
  BY <1>7, <1>8, <1>9, <1>10

\* A block from the rest of the buffer: it begins after the used part, which
\* holds all the others.
LEMMA BufferInv ==
    ASSUME HInv, OneAlignment, NEW a \in Aligns, NEW n \in Sizes, alloc_from_buffer(a, n)
    PROVE  HInv'
<1> USE DEF HInv, HeapSafe
<1> DEFINE p == header_padding(Alignment(a))
           new == [hdr |-> Base + offset + p, size |-> n + Header, align |-> a, asked |-> n]
<1>1. /\ offset + p + n + Header <= HeapSize
      /\ offset' = offset + p + n + Header
      /\ live' = live \cup {new}
      /\ free_list' = free_list
  BY DEF alloc_from_buffer
<1>2. /\ p \in Nat /\ (Base + offset + p) % Alignment(a) = 0
      /\ offset \in Nat /\ n \in Nat /\ Base \in Nat /\ HeapSize \in Nat
  <2>1. offset \in Nat /\ n \in Nat /\ Base \in Nat /\ HeapSize \in Nat
    BY HeapAssumption DEF TypeOK
  <2>2. Alignment(a) \in {8, 16}
    BY AlignmentIs8Or16
  <2> QED
    BY <2>1, <2>2, HeaderPadding
<1>3. /\ new.hdr = Base + offset + p /\ new.size = n + Header
      /\ new.align = a /\ new.asked = n
      /\ new \in [hdr : Nat, size : Nat, align : Aligns, asked : Sizes]
  BY <1>2 DEF Header
<1> HIDE DEF p, new
<1>4. TypeOK'
  BY <1>1, <1>2, <1>3 DEF TypeOK, Header
<1>5. /\ \A c \in live : c.hdr \in Nat /\ c.size \in Nat
      /\ \A i \in DOMAIN free_list : free_list[i].hdr \in Nat /\ free_list[i].size \in Nat
  <2>1. free_list \in Seq([hdr : Nat, size : Nat])
    BY DEF TypeOK
  <2>2. \A i \in DOMAIN free_list : free_list[i] \in [hdr : Nat, size : Nat]
    BY <2>1, Elements
  <2> QED
    BY <2>2 DEF TypeOK
<1>6. /\ \A c \in live : Apart(c, new) /\ Apart(new, c)
      /\ \A i \in DOMAIN free_list : Apart(new, free_list[i])
  BY <1>2, <1>3, <1>5 DEF Contained, InBuffer, Apart
<1>7. Disjoint'
  BY <1>1, <1>6 DEF Disjoint
<1>8. Contained'
  BY <1>1, <1>2, <1>3, <1>5 DEF Contained, InBuffer, Header
<1>9. Placed'
  <2>1. ASSUME NEW c \in Aligns PROVE new.hdr % Alignment(c) = 0
    BY <1>2, <1>3 DEF OneAlignment
  <2> QED
    BY <2>1, <1>1 DEF Placed
<1> QED
  BY <1>4, <1>7, <1>8, <1>9

\* A block that is freed was live, so it is apart from the free ones.
LEMMA FreeInv ==
    ASSUME HInv, NEW b \in live, aligned_free(b)
    PROVE  HInv'
<1> USE DEF HInv, HeapSafe
<1> DEFINE Block == [hdr : Nat, size : Nat]
           e == [hdr |-> b.hdr, size |-> b.size]
<1>1. /\ free_list' = <<e>> \o free_list
      /\ live' = live \ {b}
      /\ offset' = offset
  BY DEF aligned_free
<1>2. /\ b.hdr \in Nat /\ b.size \in Nat /\ b.asked \in Nat
      /\ e \in Block /\ e.hdr = b.hdr /\ e.size = b.size
  BY HeapAssumption DEF TypeOK
<1>3. /\ free_list' \in Seq(Block)
      /\ free_list'[1] = e
      /\ \A j \in DOMAIN free_list' : j \in Nat
      /\ \A j \in DOMAIN free_list' : j # 1 => /\ j - 1 \in DOMAIN free_list
                                               /\ free_list'[j] = free_list[j - 1]
  <2> free_list \in Seq(Block)
    BY DEF TypeOK
  <2> HIDE DEF e, Block
  <2> QED
    BY <1>1, <1>2, PushElements
<1> HIDE DEF e
<1>4. TypeOK'
  BY <1>1, <1>3 DEF TypeOK
<1>5. Disjoint'
  <2>1. ASSUME NEW c \in live' PROVE Apart(c, e)
    BY <1>1, <1>2, <2>1 DEF Disjoint, Apart
  <2>2. \A i \in DOMAIN free_list : Apart(e, free_list[i]) /\ Apart(free_list[i], e)
    BY <1>2 DEF Disjoint, Apart
  <2>3. ASSUME NEW c \in live', NEW d \in live' PROVE c = d \/ Apart(c, d)
    BY <2>3, <1>1 DEF Disjoint
  <2>4. ASSUME NEW j \in DOMAIN free_list', NEW k \in DOMAIN free_list', j # k
        PROVE Apart(free_list'[j], free_list'[k])
    <3>1. CASE j = 1
      BY <3>1, <2>4, <2>2, <1>3
    <3>2. CASE k = 1
      BY <3>2, <2>4, <2>2, <1>3
    <3>3. CASE j # 1 /\ k # 1
      <4>1. j - 1 # k - 1
        BY <2>4, <1>3
      <4> QED
        BY <4>1, <3>3, <1>3 DEF Disjoint
    <3> QED
      BY <3>1, <3>2, <3>3
  <2>5. ASSUME NEW c \in live', NEW j \in DOMAIN free_list' PROVE Apart(c, free_list'[j])
    <3>1. CASE j = 1
      BY <3>1, <2>1, <1>3
    <3>2. CASE j # 1
      BY <3>2, <1>1, <1>3 DEF Disjoint
    <3> QED
      BY <3>1, <3>2
  <2> QED
    BY <2>3, <2>4, <2>5 DEF Disjoint
<1>6. Contained'
  <2>1. Base <= e.hdr /\ e.hdr + e.size <= Base + offset /\ e.size >= Header
    BY <1>2 DEF Contained, InBuffer, Header
  <2>2. ASSUME NEW c \in live' PROVE InBuffer(c)' /\ c.size >= c.asked + Header
    BY <2>2, <1>1 DEF Contained, InBuffer
  <2>3. ASSUME NEW j \in DOMAIN free_list'
        PROVE InBuffer(free_list[j])' /\ free_list'[j].size >= Header
    <3>1. CASE j = 1
      BY <3>1, <2>1, <1>1, <1>3 DEF InBuffer
    <3>2. CASE j # 1
      BY <3>2, <1>1, <1>3 DEF Contained, InBuffer
    <3> QED
      BY <3>1, <3>2
  <2> QED
    BY <2>2, <2>3 DEF Contained
<1>7. Placed'
  <2>1. ASSUME NEW a \in Aligns, NEW j \in DOMAIN free_list'
        PROVE free_list'[j].hdr % Alignment(a) = 0
    <3>1. CASE j = 1
      BY <3>1, <1>2, <1>3 DEF Placed
    <3>2. CASE j # 1
      BY <3>2, <1>3 DEF Placed
    <3> QED
      BY <3>1, <3>2
  <2> QED
    BY <2>1, <1>1 DEF Placed
<1> QED
  BY <1>4, <1>5, <1>6, <1>7

-----------------------------------------------------------------------------
\* HInv holds in every state, whatever callers allocate and free.
THEOREM HeapInvariant == ASSUME OneAlignment PROVE Spec => []HInv
<1>1. HInv /\ [Next]_vars => HInv'
  <2> SUFFICES ASSUME HInv, [Next]_vars PROVE HInv'
    OBVIOUS
  <2>1. ASSUME NEW a \in Aligns, NEW n \in Sizes, alloc_from_free_list(a, n) PROVE HInv'
    BY <2>1, FreeListInv
  <2>2. ASSUME NEW a \in Aligns, NEW n \in Sizes, alloc_from_buffer(a, n) PROVE HInv'
    BY <2>2, BufferInv
  <2>3. ASSUME NEW b \in live, aligned_free(b) PROVE HInv'
    BY <2>3, FreeInv
  <2>4. CASE UNCHANGED vars
    BY <2>4 DEF vars, HInv, HeapSafe, TypeOK, Disjoint, Contained, InBuffer, Placed
  <2> QED
    BY <2>1, <2>2, <2>3, <2>4 DEF Next
<1> QED
  BY HeapInitInv, <1>1, PTL DEF Spec

\* Blocks of aligned_alloc never overlap, lie in the buffer and have the room
\* their callers asked for.
THEOREM HeapIsSafe == ASSUME OneAlignment PROVE Spec => []HeapSafe
<1>1. HInv => HeapSafe
  BY DEF HInv
<1> QED
  BY <1>1, HeapInvariant, PTL

\* What aligned_alloc returns is a multiple of the alignment asked for.
THEOREM HeapIsAligned == ASSUME OneAlignment PROVE Spec => []UserAligned
<1>1. HInv => UserAligned
  <2> SUFFICES ASSUME HInv, NEW b \in live PROVE (b.hdr + Header) % b.align = 0
    BY DEF UserAligned
  <2>1. b.hdr \in Nat /\ b.align \in Aligns /\ b.hdr % Alignment(b.align) = 0
    BY DEF HInv, HeapSafe, TypeOK, Placed
  <2>2. b.align \in {1, 2, 4, 8, 16}
    BY <2>1 DEF OneAlignment
  <2>3. CASE b.align = 1
    BY <2>1, <2>3 DEF Alignment, Pointer, Header
  <2>4. CASE b.align = 2
    BY <2>1, <2>4 DEF Alignment, Pointer, Header
  <2>5. CASE b.align = 4
    BY <2>1, <2>5 DEF Alignment, Pointer, Header
  <2>6. CASE b.align = 8
    BY <2>1, <2>6 DEF Alignment, Pointer, Header
  <2>7. CASE b.align = 16
    BY <2>1, <2>7 DEF Alignment, Pointer, Header
  <2> QED
    BY <2>2, <2>3, <2>4, <2>5, <2>6, <2>7
<1> QED
  BY <1>1, HeapInvariant, PTL
=============================================================================
