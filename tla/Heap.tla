-------------------------------- MODULE Heap --------------------------------
(***************************************************************************)
(* libc/mem.c: aligned_alloc and aligned_free, the allocator behind every  *)
(* descriptor the UHCI controller reads.  A block is [hdr, size]: the      *)
(* address of its header and the size stored there, header included.  A    *)
(* live block also records what its caller asked for.  Addresses are bytes *)
(* counted from Base, the address of allocator_buffer.                     *)
(***************************************************************************)
EXTENDS Integers, Sequences, FiniteSets

CONSTANTS Base,       \* the address of allocator_buffer
          HeapSize,   \* ALLOCATOR_SIZE
          Aligns,     \* the alignments callers ask for, powers of two
          Sizes       \* the sizes callers ask for

Header == 16          \* sizeof(AllocationHeader)
Pointer == 8          \* sizeof(void*)

ASSUME HeapAssumption == /\ Base \in Nat /\ Base % 16 = 0
                         /\ HeapSize \in Nat
                         /\ Aligns \subseteq Nat \ {0}
                         /\ Sizes \subseteq Nat

VARIABLES offset,      \* allocator_offset
          free_list,   \* the free blocks, first one first
          live         \* the blocks callers hold

vars == <<offset, free_list, live>>

Init == offset = 0 /\ free_list = << >> /\ live = {}

\* The distance from x to the next multiple of a.
PadTo(x, a) == (a - (x % a)) % a

Alignment(a) == IF a < Pointer THEN Pointer ELSE a

Without(s, i) == [j \in 1 .. Len(s) - 1 |-> IF j < i THEN s[j] ELSE s[j + 1]]

\* Mutant of Fits: the header is left out of the comparison.
FitsBare(b, n) == b.size >= n

Fits(b, n) == b.size >= n + Header

\* The first free block that is large enough is taken whole.  If the address
\* after its header is not aligned, the header moves up by the padding.
alloc_from_free_list(a, n) ==
    \E i \in DOMAIN free_list :
       LET b == free_list[i]
           padding == PadTo(b.hdr + Header, Alignment(a))
       IN /\ Fits(b, n)
          /\ \A j \in 1 .. i - 1 : ~Fits(free_list[j], n)
          /\ free_list' = Without(free_list, i)
          /\ live' = live \cup {[hdr |-> b.hdr + padding, size |-> b.size - padding,
                                 align |-> a, asked |-> n]}
          /\ UNCHANGED offset

\* Mutant of header_padding: the header is not aligned.
header_padding_none(a) == Header

header_padding(a) == LET p == PadTo(Base + offset, a)
                     IN IF p < Header THEN p + a ELSE p

\* No free block fits: the header goes to the next multiple of the alignment
\* that leaves 16 bytes before it.  Without room, NULL is returned.
alloc_from_buffer(a, n) ==
    LET p == header_padding(Alignment(a))
    IN /\ \A j \in DOMAIN free_list : ~Fits(free_list[j], n)
       /\ offset + p + n + Header <= HeapSize
       /\ offset' = offset + p + n + Header
       /\ live' = live \cup {[hdr |-> Base + offset + p, size |-> n + Header,
                              align |-> a, asked |-> n]}
       /\ UNCHANGED free_list

aligned_free(b) == /\ b \in live
                   /\ free_list' = <<[hdr |-> b.hdr, size |-> b.size]>> \o free_list
                   /\ live' = live \ {b}
                   /\ UNCHANGED offset

Next == \/ \E a \in Aligns, n \in Sizes :
              alloc_from_free_list(a, n) \/ alloc_from_buffer(a, n)
        \/ \E b \in live : aligned_free(b)

Spec == Init /\ [][Next]_vars

-----------------------------------------------------------------------------
\* Type invariant.
TypeOK == /\ offset \in 0 .. HeapSize
          /\ free_list \in Seq([hdr : Nat, size : Nat])
          /\ live \subseteq [hdr : Nat, size : Nat, align : Aligns, asked : Sizes]

Apart(b, c) == b.hdr + b.size <= c.hdr \/ c.hdr + c.size <= b.hdr

\* No byte belongs to two blocks: whatever is live or free at the same time,
\* headers included, lies apart.
Disjoint == /\ \A b, c \in live : b = c \/ Apart(b, c)
            /\ \A i, j \in DOMAIN free_list : i = j \/ Apart(free_list[i], free_list[j])
            /\ \A b \in live, i \in DOMAIN free_list : Apart(b, free_list[i])

InBuffer(b) == Base <= b.hdr /\ b.hdr + b.size <= Base + offset

\* Every block lies in the used part of the buffer, and a live one has the room
\* its caller asked for after its header.
Contained == /\ \A b \in live : InBuffer(b) /\ b.size >= b.asked + Header
             /\ \A i \in DOMAIN free_list :
                   InBuffer(free_list[i]) /\ free_list[i].size >= Header

HeapSafe == TypeOK /\ Disjoint /\ Contained

\* "Return the aligned user data pointer": the address handed to a caller is a
\* multiple of the alignment it asked for.
UserAligned == \A b \in live : (b.hdr + Header) % b.align = 0
=============================================================================
