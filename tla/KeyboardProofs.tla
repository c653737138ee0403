--------------------------- MODULE KeyboardProofs ---------------------------
(***************************************************************************)
(* TypeOK, NoStuckModifier and NoStuckKey are invariants of Keyboard for   *)
(* any number of keyboards, any reports, rings and layout tables.          *)
(*                                                                         *)
(* The loops of keyboard_usb_on_boot_report are recursive functions.  The  *)
(* induction over their passes is by the least pass that would be an       *)
(* exception: the library's theorem about least elements takes a set.      *)
(***************************************************************************)
EXTENDS Keyboard, WellFoundedInduction, TLAPS

\* Every set of numbers that is not empty has a least one.
LEMMA LeastNumber ==
    ASSUME NEW T, T \subseteq Nat, T # {}
    PROVE  \E m \in T : \A k \in T : m <= k
<1>1. PICK m \in T : \A k \in T : ~(<<k, m>> \in OpToRel(<, Nat))
  BY NatLessThanWellFounded, WFMin, Zenon
<1>2. ASSUME NEW k \in T PROVE m <= k
  <2>1. ~(<<k, m>> \in OpToRel(<, Nat))
    BY <1>1, Zenon
  <2>2. ~(<<k, m>> \in {ss \in Nat \X Nat : ss[1] < ss[2]})
    BY <2>1, Zenon DEF OpToRel
  <2> QED
    BY <2>2
<1> QED
  BY <1>2

\* What holds at 0 and from each number to the next, holds at n.
LEMMA UpTo ==
    ASSUME NEW n \in Nat, NEW T, 0 \in T, \A j \in 1 .. n : j - 1 \in T => j \in T
    PROVE  n \in T
<1> DEFINE Bad == {j \in 0 .. n : j \notin T}
<1>1. SUFFICES ASSUME Bad # {} PROVE FALSE
  OBVIOUS
<1>2. Bad \subseteq Nat
  OBVIOUS
<1>3. PICK m \in Bad : \A i \in Bad : m <= i
  BY <1>1, <1>2, LeastNumber, Zenon
<1>4. m # 0 /\ m - 1 \in 0 .. n /\ m - 1 \notin Bad /\ m \in 1 .. n
  BY <1>3
<1> QED
  BY <1>3, <1>4

-----------------------------------------------------------------------------
\* The passes of the loop over the modifiers, as far as the n-th.
Deltas(k, prev, now, dev, n, f) ==
    f = [j \in 0 .. n |-> IF j = 0 THEN k ELSE emit_delta(f[j - 1], ModOrder[j], prev, now, dev)]

\* The recursion of emit_modifier_deltas defines a function.
LEMMA DeltasExist ==
    ASSUME NEW k, NEW prev, NEW now, NEW dev, NEW n \in Nat
    PROVE  \E f : Deltas(k, prev, now, dev, n, f)
<1> DEFINE Bad == {m \in Nat : \A f : ~Deltas(k, prev, now, dev, m, f)}
<1>1. SUFFICES ASSUME Bad # {} PROVE FALSE
  OBVIOUS
<1>2. PICK m \in Bad : \A i \in Bad : m <= i
  BY <1>1, LeastNumber
<1>3. CASE m = 0
  <2> DEFINE g == [j \in 0 .. 0 |-> k]
  <2>1. g = [j \in 0 .. 0 |-> IF j = 0 THEN k ELSE emit_delta(g[j - 1], ModOrder[j], prev, now, dev)]
    OBVIOUS
  <2>2. Deltas(k, prev, now, dev, 0, g)
    BY <2>1, Zenon DEF Deltas
  <2> QED
    BY <1>2, <1>3, <2>2
<1>4. CASE m # 0
  <2>1. m - 1 \in Nat /\ m \in Nat /\ m - 1 \notin Bad
    BY <1>2, <1>4
  <2>2. PICK f : Deltas(k, prev, now, dev, m - 1, f)
    BY <2>1
  <2> DEFINE last == emit_delta(f[m - 1], ModOrder[m], prev, now, dev)
             g == [j \in 0 .. m |-> IF j = m THEN last ELSE f[j]]
             h == [j \in 0 .. m |-> IF j = 0 THEN k ELSE emit_delta(g[j - 1], ModOrder[j], prev, now, dev)]
  <2>3. \A j \in 0 .. m - 1 : f[j] = IF j = 0 THEN k ELSE emit_delta(f[j - 1], ModOrder[j], prev, now, dev)
    BY <2>2 DEF Deltas
  <2>4. ASSUME NEW j \in 0 .. m PROVE g[j] = h[j]
    <3>1. CASE j = m
      <4>1. g[m - 1] = f[m - 1]
        BY <2>1
      <4> QED
        BY <3>1, <4>1, <1>4, <2>1
    <3>2. CASE j # m /\ j # 0
      <4>1. j \in 0 .. m - 1 /\ j - 1 \in 0 .. m /\ j - 1 # m
        BY <3>2, <2>1
      <4>2. g[j] = f[j] /\ g[j - 1] = f[j - 1]
        BY <3>2, <4>1
      <4> QED
        BY <3>2, <4>1, <4>2, <2>3
    <3>3. CASE j = 0
      <4>1. 0 \in 0 .. m - 1 /\ j # m
        BY <3>3, <2>1, <1>4
      <4> QED
        BY <3>3, <4>1, <2>3
    <3> QED
      BY <3>1, <3>2, <3>3
  <2>5. g = h
    BY <2>4
  <2>6. Deltas(k, prev, now, dev, m, g)
    BY <2>5, Zenon DEF Deltas
  <2> QED
    BY <1>2, <2>6
<1> QED
  BY <1>3, <1>4

\* emit_modifier_deltas is the last of a series of passes.
LEMMA DeltasUnfold ==
    ASSUME NEW k, NEW prev, NEW now, NEW dev, Len(ModOrder) \in Nat
    PROVE  \E f : /\ f[0] = k /\ f[Len(ModOrder)] = emit_modifier_deltas(k, prev, now, dev)
                 /\ \A j \in 1 .. Len(ModOrder) : f[j] = emit_delta(f[j - 1], ModOrder[j], prev, now, dev)
<1> DEFINE f == CHOOSE f : Deltas(k, prev, now, dev, Len(ModOrder), f)
<1>1. Deltas(k, prev, now, dev, Len(ModOrder), f)
  BY DeltasExist, Zenon
<1>2. f[Len(ModOrder)] = emit_modifier_deltas(k, prev, now, dev)
  BY Zenon DEF emit_modifier_deltas, Deltas
<1> HIDE DEF f
<1>3. f[0] = k /\ \A j \in 1 .. Len(ModOrder) : f[j] = emit_delta(f[j - 1], ModOrder[j], prev, now, dev)
  BY <1>1 DEF Deltas
<1> QED
  BY <1>2, <1>3

\* The passes of the loop over the keys that were down.
Releases(k, prev, now, dev, n, f) ==
    f = [j \in 0 .. n |-> IF j = 0 THEN k ELSE emit_release(f[j - 1], prev[j], now, dev)]

\* The recursion of emit_releases defines a function.
LEMMA ReleasesExist ==
    ASSUME NEW k, NEW prev, NEW now, NEW dev, NEW n \in Nat
    PROVE  \E f : Releases(k, prev, now, dev, n, f)
<1> DEFINE Bad == {m \in Nat : \A f : ~Releases(k, prev, now, dev, m, f)}
<1>1. SUFFICES ASSUME Bad # {} PROVE FALSE
  OBVIOUS
<1>2. PICK m \in Bad : \A i \in Bad : m <= i
  BY <1>1, LeastNumber
<1>3. CASE m = 0
  <2> DEFINE g == [j \in 0 .. 0 |-> k]
  <2>1. g = [j \in 0 .. 0 |-> IF j = 0 THEN k ELSE emit_release(g[j - 1], prev[j], now, dev)]
    OBVIOUS
  <2>2. Releases(k, prev, now, dev, 0, g)
    BY <2>1, Zenon DEF Releases
  <2> QED
    BY <1>2, <1>3, <2>2
<1>4. CASE m # 0
  <2>1. m - 1 \in Nat /\ m \in Nat /\ m - 1 \notin Bad
    BY <1>2, <1>4
  <2>2. PICK f : Releases(k, prev, now, dev, m - 1, f)
    BY <2>1
  <2> DEFINE last == emit_release(f[m - 1], prev[m], now, dev)
             g == [j \in 0 .. m |-> IF j = m THEN last ELSE f[j]]
             h == [j \in 0 .. m |-> IF j = 0 THEN k ELSE emit_release(g[j - 1], prev[j], now, dev)]
  <2>3. \A j \in 0 .. m - 1 : f[j] = IF j = 0 THEN k ELSE emit_release(f[j - 1], prev[j], now, dev)
    BY <2>2 DEF Releases
  <2>4. ASSUME NEW j \in 0 .. m PROVE g[j] = h[j]
    <3>1. CASE j = m
      <4>1. g[m - 1] = f[m - 1]
        BY <2>1
      <4> QED
        BY <3>1, <4>1, <1>4, <2>1
    <3>2. CASE j # m /\ j # 0
      <4>1. j \in 0 .. m - 1 /\ j - 1 \in 0 .. m /\ j - 1 # m
        BY <3>2, <2>1
      <4>2. g[j] = f[j] /\ g[j - 1] = f[j - 1]
        BY <3>2, <4>1
      <4> QED
        BY <3>2, <4>1, <4>2, <2>3
    <3>3. CASE j = 0
      <4>1. 0 \in 0 .. m - 1 /\ j # m
        BY <3>3, <2>1, <1>4
      <4> QED
        BY <3>3, <4>1, <2>3
    <3> QED
      BY <3>1, <3>2, <3>3
  <2>5. g = h
    BY <2>4
  <2>6. Releases(k, prev, now, dev, m, g)
    BY <2>5, Zenon DEF Releases
  <2> QED
    BY <1>2, <2>6
<1> QED
  BY <1>3, <1>4

\* emit_releases is the last of a series of passes.
LEMMA ReleasesUnfold ==
    ASSUME NEW k, NEW prev, NEW now, NEW dev, Len(prev) \in Nat
    PROVE  \E f : /\ f[0] = k /\ f[Len(prev)] = emit_releases(k, prev, now, dev)
                 /\ \A j \in 1 .. Len(prev) : f[j] = emit_release(f[j - 1], prev[j], now, dev)
<1> DEFINE f == CHOOSE f : Releases(k, prev, now, dev, Len(prev), f)
<1>1. Releases(k, prev, now, dev, Len(prev), f)
  BY ReleasesExist, Zenon
<1>2. f[Len(prev)] = emit_releases(k, prev, now, dev)
  BY Zenon DEF emit_releases, Releases
<1> HIDE DEF f
<1>3. f[0] = k /\ \A j \in 1 .. Len(prev) : f[j] = emit_release(f[j - 1], prev[j], now, dev)
  BY <1>1 DEF Releases
<1> QED
  BY <1>2, <1>3

\* The passes of the loop over the keys that are down.
Presses(k, prev, now, dev, n, f) ==
    f = [j \in 0 .. n |-> IF j = 0 THEN k ELSE emit_press(f[j - 1], now[j], prev, dev)]

\* The recursion of emit_presses defines a function.
LEMMA PressesExist ==
    ASSUME NEW k, NEW prev, NEW now, NEW dev, NEW n \in Nat
    PROVE  \E f : Presses(k, prev, now, dev, n, f)
<1> DEFINE Bad == {m \in Nat : \A f : ~Presses(k, prev, now, dev, m, f)}
<1>1. SUFFICES ASSUME Bad # {} PROVE FALSE
  OBVIOUS
<1>2. PICK m \in Bad : \A i \in Bad : m <= i
  BY <1>1, LeastNumber
<1>3. CASE m = 0
  <2> DEFINE g == [j \in 0 .. 0 |-> k]
  <2>1. g = [j \in 0 .. 0 |-> IF j = 0 THEN k ELSE emit_press(g[j - 1], now[j], prev, dev)]
    OBVIOUS
  <2>2. Presses(k, prev, now, dev, 0, g)
    BY <2>1, Zenon DEF Presses
  <2> QED
    BY <1>2, <1>3, <2>2
<1>4. CASE m # 0
  <2>1. m - 1 \in Nat /\ m \in Nat /\ m - 1 \notin Bad
    BY <1>2, <1>4
  <2>2. PICK f : Presses(k, prev, now, dev, m - 1, f)
    BY <2>1
  <2> DEFINE last == emit_press(f[m - 1], now[m], prev, dev)
             g == [j \in 0 .. m |-> IF j = m THEN last ELSE f[j]]
             h == [j \in 0 .. m |-> IF j = 0 THEN k ELSE emit_press(g[j - 1], now[j], prev, dev)]
  <2>3. \A j \in 0 .. m - 1 : f[j] = IF j = 0 THEN k ELSE emit_press(f[j - 1], now[j], prev, dev)
    BY <2>2 DEF Presses
  <2>4. ASSUME NEW j \in 0 .. m PROVE g[j] = h[j]
    <3>1. CASE j = m
      <4>1. g[m - 1] = f[m - 1]
        BY <2>1
      <4> QED
        BY <3>1, <4>1, <1>4, <2>1
    <3>2. CASE j # m /\ j # 0
      <4>1. j \in 0 .. m - 1 /\ j - 1 \in 0 .. m /\ j - 1 # m
        BY <3>2, <2>1
      <4>2. g[j] = f[j] /\ g[j - 1] = f[j - 1]
        BY <3>2, <4>1
      <4> QED
        BY <3>2, <4>1, <4>2, <2>3
    <3>3. CASE j = 0
      <4>1. 0 \in 0 .. m - 1 /\ j # m
        BY <3>3, <2>1, <1>4
      <4> QED
        BY <3>3, <4>1, <2>3
    <3> QED
      BY <3>1, <3>2, <3>3
  <2>5. g = h
    BY <2>4
  <2>6. Presses(k, prev, now, dev, m, g)
    BY <2>5, Zenon DEF Presses
  <2> QED
    BY <1>2, <2>6
<1> QED
  BY <1>3, <1>4

\* emit_presses is the last of a series of passes.
LEMMA PressesUnfold ==
    ASSUME NEW k, NEW prev, NEW now, NEW dev, Len(now) \in Nat
    PROVE  \E f : /\ f[0] = k /\ f[Len(now)] = emit_presses(k, prev, now, dev)
                 /\ \A j \in 1 .. Len(now) : f[j] = emit_press(f[j - 1], now[j], prev, dev)
<1> DEFINE f == CHOOSE f : Presses(k, prev, now, dev, Len(now), f)
<1>1. Presses(k, prev, now, dev, Len(now), f)
  BY PressesExist, Zenon
<1>2. f[Len(now)] = emit_presses(k, prev, now, dev)
  BY Zenon DEF emit_presses, Presses
<1> HIDE DEF f
<1>3. f[0] = k /\ \A j \in 1 .. Len(now) : f[j] = emit_press(f[j - 1], now[j], prev, dev)
  BY <1>1 DEF Presses
<1> QED
  BY <1>2, <1>3

-----------------------------------------------------------------------------
\* The codes of the key at a usage under the layout in use.
CodesOf(u) == {ext_kc[u], tables[TRUE][u], tables[FALSE][u]} \ {NoCode}

IsSeq(q) == \E S : q \in Seq(S)

\* What the dispatcher owns is well formed.
KbOK(k) == /\ k = [mods |-> k.mods, evq |-> k.evq, chars |-> k.chars,
                   down |-> k.down, odd |-> k.odd]
           /\ k.mods \subseteq ModKeys \cup Locks
           /\ IsSeq(k.evq) /\ Len(k.evq) < Cap
           /\ IsSeq(k.chars) /\ Len(k.chars) < Cap
           /\ \A p \in k.down : p = <<p[1], p[2]>>
           /\ k.odd \in BOOLEAN

\* A queue stays a sequence shorter than the ring.
LEMMA EnqueueBound ==
    ASSUME NEW q, IsSeq(q), Len(q) < Cap, NEW x
    PROVE  IsSeq(Enqueue(q, x)) /\ Len(Enqueue(q, x)) < Cap
<1>1. PICK S : q \in Seq(S)
  BY DEF IsSeq
<1>2. q \in Seq(S \cup {x})
  BY <1>1
<1>3. Append(q, x) \in Seq(S \cup {x}) /\ Len(Append(q, x)) = Len(q) + 1 /\ Len(q) \in Nat
  BY <1>2
<1>4. IsSeq(Append(q, x))
  BY <1>3 DEF IsSeq
<1> QED
  BY <1>3, <1>4, RingAssumption DEF Enqueue

\* A queue that is read stays a sequence shorter than the ring.
LEMMA TailBound ==
    ASSUME NEW q, IsSeq(q), q # << >>, Len(q) < Cap
    PROVE  IsSeq(Tail(q)) /\ Len(Tail(q)) < Cap
<1>1. PICK S : q \in Seq(S)
  BY DEF IsSeq
<1>2. Tail(q) \in Seq(S) /\ Len(Tail(q)) = Len(q) - 1 /\ Len(q) \in Nat
  BY <1>1
<1> QED
  BY <1>2, RingAssumption DEF IsSeq

\* The fields of a dispatched record.
LEMMA DispatchFields ==
    ASSUME NEW k, NEW type, NEW code, NEW dev, NEW e, e = Dispatch(k, type, code, dev)
    PROVE  /\ e = [mods |-> e.mods, evq |-> e.evq, chars |-> e.chars,
                   down |-> e.down, odd |-> e.odd]
           /\ e.mods = ApplySide(ApplyLock(k.mods, type, code), type, code)
           /\ \E x : e.evq = Enqueue(k.evq, x)
           /\ e.chars = k.chars \/ e.chars = Enqueue(k.chars, code)
  BY DEF Dispatch

\* The keys down after a dispatch.
LEMMA DispatchDown ==
    ASSUME NEW k, NEW type, NEW code, NEW dev, NEW e, e = Dispatch(k, type, code, dev)
    PROVE  /\ dev = 0 => e.down = k.down
           /\ dev # 0 /\ type = "PRESS" => e.down = k.down \cup {<<dev, KeyOf(code)>>}
           /\ dev # 0 /\ type # "PRESS" => e.down = k.down \ {<<dev, KeyOf(code)>>}
  BY DEF Dispatch

\* The parity of a dispatched record.
LEMMA DispatchOdd ==
    ASSUME NEW k, NEW type, NEW code, NEW dev, NEW e, e = Dispatch(k, type, code, dev)
    PROVE  /\ type = "PRESS" /\ code = CAPS => e.odd = ~k.odd
           /\ type # "PRESS" \/ code # CAPS => e.odd = k.odd
  BY DEF Dispatch

\* The two steps on g_mods set and clear flags only.
LEMMA ApplyFlags ==
    ASSUME NEW m \in SUBSET (ModKeys \cup Locks), NEW type, NEW code
    PROVE  /\ ApplyLock(m, type, code) \subseteq ModKeys \cup Locks
           /\ ApplySide(m, type, code) \subseteq ModKeys \cup Locks
           /\ code \notin ModKeys => ApplySide(m, type, code) = m
           /\ code \notin Locks => ApplyLock(m, type, code) = m
           /\ ApplyLock(m, type, code) \ Locks = m \ Locks
<1>1. code \in ModKeys => <<"L", code[2]>> \in ModKeys
  BY DEF ModKeys
<1>2. SymDiff(m, {code}) = {y \in m \cup {code} : ~(y \in m /\ y \in {code})}
  BY DEF SymDiff
<1> QED
  BY <1>1, <1>2 DEF ApplyLock, ApplySide

\* A dispatched record is well formed.
LEMMA DispatchOK ==
    ASSUME NEW k, KbOK(k), NEW type, NEW code, NEW dev, NEW e, e = Dispatch(k, type, code, dev)
    PROVE  KbOK(e)
<1>1. e.mods \subseteq ModKeys \cup Locks
  <2>1. e.mods = ApplySide(ApplyLock(k.mods, type, code), type, code)
    BY DispatchFields
  <2>2. ApplyLock(k.mods, type, code) \in SUBSET (ModKeys \cup Locks)
    BY ApplyFlags DEF KbOK
  <2> QED
    BY <2>1, <2>2, ApplyFlags
<1>2. IsSeq(e.evq) /\ Len(e.evq) < Cap
  <2>1. PICK x : e.evq = Enqueue(k.evq, x)
    BY DispatchFields
  <2>2. IsSeq(k.evq) /\ Len(k.evq) < Cap
    BY DEF KbOK
  <2> QED
    BY <2>1, <2>2, EnqueueBound, Zenon
<1>3. IsSeq(e.chars) /\ Len(e.chars) < Cap
  <2>1. e.chars = Enqueue(k.chars, code) \/ e.chars = k.chars
    BY DispatchFields
  <2>2. IsSeq(k.chars) /\ Len(k.chars) < Cap
    BY DEF KbOK
  <2> QED
    BY <2>1, <2>2, EnqueueBound, Zenon
<1>4. \A p \in e.down : p = <<p[1], p[2]>>
  <2>1. e.down \subseteq k.down \cup {<<dev, KeyOf(code)>>}
    BY DispatchDown
  <2> QED
    BY <2>1 DEF KbOK
<1>5. e.odd \in BOOLEAN
  <2>1. k.odd \in BOOLEAN
    BY DEF KbOK
  <2>2. e.odd = k.odd \/ e.odd = ~k.odd
    BY DispatchOdd, Zenon
  <2> QED
    BY <2>1, <2>2, Zenon
<1>6. e = [mods |-> e.mods, evq |-> e.evq, chars |-> e.chars, down |-> e.down, odd |-> e.odd]
  BY DispatchFields
<1> QED
  BY <1>1, <1>2, <1>3, <1>4, <1>5, <1>6, Zenon DEF KbOK

\* A code that is no modifier changes no flag but a lock's.
LEMMA DispatchNoMod ==
    ASSUME NEW k, KbOK(k), NEW type, NEW code, code \notin ModKeys, NEW dev,
           NEW e, e = Dispatch(k, type, code, dev)
    PROVE  e.mods \ Locks = k.mods \ Locks
<1>1. e.mods = ApplySide(ApplyLock(k.mods, type, code), type, code)
  BY DispatchFields
<1>2. k.mods \in SUBSET (ModKeys \cup Locks)
  BY DEF KbOK
<1>3. /\ ApplyLock(k.mods, type, code) \in SUBSET (ModKeys \cup Locks)
      /\ ApplyLock(k.mods, type, code) \ Locks = k.mods \ Locks
  BY <1>2, ApplyFlags
<1>4. ApplySide(ApplyLock(k.mods, type, code), type, code) = ApplyLock(k.mods, type, code)
  BY Zenon DEF ApplySide
<1> QED
  BY <1>1, <1>3, <1>4, Zenon

\* A press of a modifier sets its flag and its kind's.
LEMMA DispatchModPress ==
    ASSUME NEW k, KbOK(k), NEW code \in ModKeys, NEW dev,
           NEW e, e = Dispatch(k, "PRESS", code, dev)
    PROVE  e.mods = k.mods \cup {code, <<"L", code[2]>>}
<1>1. e.mods = ApplySide(ApplyLock(k.mods, "PRESS", code), "PRESS", code)
  BY DispatchFields
<1>2. code \notin Locks
  BY DEF Locks, ModKeys
<1> QED
  BY <1>1, <1>2, Zenon DEF ApplySide, ApplyLock

\* A release of a modifier clears its flag and its kind's.
LEMMA DispatchModRelease ==
    ASSUME NEW k, KbOK(k), NEW code \in ModKeys, NEW dev,
           NEW e, e = Dispatch(k, "RELEASE", code, dev)
    PROVE  e.mods = k.mods \ {code, <<"L", code[2]>>}
<1>1. e.mods = ApplySide(ApplyLock(k.mods, "RELEASE", code), "RELEASE", code)
  BY DispatchFields
<1>2. code \notin Locks
  BY DEF Locks, ModKeys
<1> QED
  BY <1>1, <1>2, Zenon DEF ApplySide, ApplyLock

-----------------------------------------------------------------------------
\* The map of emit_modifier_deltas lists the modifier keys.
LEMMA ModOrderLists ==
    /\ Len(ModOrder) \in Nat
    /\ \A j \in 1 .. Len(ModOrder) : ModOrder[j] \in ModKeys
    /\ \A c \in ModKeys : \E j \in 1 .. Len(ModOrder) : c = ModOrder[j]
<1>1. /\ Len(Kinds) \in Nat /\ DOMAIN Kinds = 1 .. Len(Kinds)
      /\ KindSet = {Kinds[j] : j \in 1 .. Len(Kinds)}
  BY KindsAssumption DEF KindSet, Range
<1>2. Len(ModOrder) = 2 * Len(Kinds) /\ Len(ModOrder) \in Nat
  BY <1>1 DEF ModOrder
<1>3. ASSUME NEW j \in 1 .. Len(ModOrder) PROVE ModOrder[j] \in ModKeys
  <2>1. CASE j <= Len(Kinds)
    <3>1. ModOrder[j] = <<"L", Kinds[j]>> /\ j \in 1 .. Len(Kinds)
      BY <1>1, <1>2, <2>1 DEF ModOrder
    <3> QED
      BY <1>1, <3>1 DEF ModKeys
  <2>2. CASE ~(j <= Len(Kinds))
    <3>1. ModOrder[j] = <<"R", Kinds[j - Len(Kinds)]>> /\ j - Len(Kinds) \in 1 .. Len(Kinds)
      BY <1>1, <1>2, <2>2 DEF ModOrder
    <3> QED
      BY <1>1, <3>1 DEF ModKeys
  <2> QED
    BY <2>1, <2>2
<1>4. ASSUME NEW c \in ModKeys PROVE \E j \in 1 .. Len(ModOrder) : c = ModOrder[j]
  <2>1. PICK i \in 1 .. Len(Kinds) : c = <<"L", Kinds[i]>> \/ c = <<"R", Kinds[i]>>
    BY <1>1 DEF ModKeys
  <2>2. CASE c = <<"L", Kinds[i]>>
    <3>1. i \in 1 .. Len(ModOrder) /\ ModOrder[i] = <<"L", Kinds[i]>>
      BY <1>1, <1>2 DEF ModOrder
    <3> QED
      BY <2>2, <3>1
  <2>3. CASE c = <<"R", Kinds[i]>>
    <3> DEFINE h == i + Len(Kinds)
    <3>1. h \in 1 .. Len(ModOrder) /\ ~(h <= Len(Kinds)) /\ h - Len(Kinds) = i
      BY <1>1, <1>2
    <3>2. h \in 1 .. 2 * Len(Kinds)
      BY <3>1, <1>2
    <3> HIDE DEF h
    <3>3. ModOrder[h] = <<"R", Kinds[i]>>
      BY <3>1, <3>2 DEF ModOrder
    <3> QED
      BY <2>3, <3>1, <3>3
  <2> QED
    BY <2>1, <2>2, <2>3
<1> QED
  BY <1>2, <1>3, <1>4

DeltaRelates(k, e, c, prev, now, dev) ==
    /\ KbOK(e)
    /\ e.mods \subseteq k.mods \cup now
    /\ c \in prev \ now => c \notin e.mods
    /\ \A p \in e.down : p \in k.down \/ (p[1] = dev /\ \E x \in now : p[2] = KeyOf(x))
    /\ c \in prev \ now => <<dev, KeyOf(c)>> \notin e.down

\* One pass over the modifiers: a press sets flags of the report only, a release
\* clears its flag, and the keys down of this keyboard follow.
LEMMA DeltaPass ==
    ASSUME NEW k, KbOK(k), NEW c \in ModKeys, NEW prev \in SUBSET ModKeys,
           NEW now \in SUBSET ModKeys, \A x \in now : <<"L", x[2]>> \in now,
           NEW dev \in Nat \ {0}, NEW e, e = emit_delta(k, c, prev, now, dev)
    PROVE  DeltaRelates(k, e, c, prev, now, dev)
<1>1. SymDiff(prev, now) = {y \in prev \cup now : ~(y \in prev /\ y \in now)}
  BY DEF SymDiff
<1>2. CASE c \in now \ prev
  <2>1. e = Dispatch(k, "PRESS", c, dev)
    BY <1>1, <1>2 DEF emit_delta
  <2>2. e.mods = k.mods \cup {c, <<"L", c[2]>>}
    BY <2>1, DispatchModPress
  <2>3. e.down = k.down \cup {<<dev, KeyOf(c)>>}
    BY <2>1, DispatchDown
  <2>4. KbOK(e)
    BY <2>1, DispatchOK
  <2> QED
    BY <1>2, <2>2, <2>3, <2>4 DEF DeltaRelates
<1>3. CASE c \in prev \ now
  <2>1. e = Dispatch(k, "RELEASE", c, dev)
    BY <1>1, <1>3 DEF emit_delta
  <2>2. e.mods = k.mods \ {c, <<"L", c[2]>>}
    BY <2>1, DispatchModRelease
  <2>3. e.down = k.down \ {<<dev, KeyOf(c)>>}
    BY <2>1, DispatchDown
  <2>4. KbOK(e)
    BY <2>1, DispatchOK
  <2> QED
    BY <1>3, <2>2, <2>3, <2>4 DEF DeltaRelates
<1>4. CASE c \notin prev \ now /\ c \notin now \ prev
  <2>1. e = k
    BY <1>1, <1>4 DEF emit_delta
  <2> QED
    BY <1>4, <2>1, Zenon DEF DeltaRelates
<1> QED
  BY <1>2, <1>3, <1>4

DeltasRelate(k, e, prev, now, dev) ==
    /\ KbOK(e)
    /\ e.mods \subseteq (k.mods \ (prev \ now)) \cup now
    /\ \A p \in e.down : \/ p[1] = dev /\ \E x \in now : p[2] = KeyOf(x)
                         \/ p \in k.down /\ \A c \in prev \ now : p # <<dev, KeyOf(c)>>

\* The loop over the modifiers leaves only flags of the report and flags of other
\* keyboards, and only keys down that belong to the report or were down before.
LEMMA DeltasEffect ==
    ASSUME NEW k, KbOK(k), NEW prev \in SUBSET ModKeys,
           NEW now \in SUBSET ModKeys, \A x \in now : <<"L", x[2]>> \in now,
           NEW dev \in Nat \ {0}, NEW e, e = emit_modifier_deltas(k, prev, now, dev)
    PROVE  DeltasRelate(k, e, prev, now, dev)
<1> DEFINE n == Len(ModOrder)
<1>1. n \in Nat /\ \A j \in 1 .. n : ModOrder[j] \in ModKeys
  BY ModOrderLists
<1>2. PICK f : /\ f[0] = k /\ f[n] = e
               /\ \A j \in 1 .. n : f[j] = emit_delta(f[j - 1], ModOrder[j], prev, now, dev)
  BY <1>1, DeltasUnfold
<1> DEFINE Done(j) == {ModOrder[i] : i \in 1 .. j} \cap (prev \ now)
           P(j) == /\ KbOK(f[j])
                   /\ f[j].mods \subseteq (k.mods \ Done(j)) \cup now
                   /\ \A p \in f[j].down :
                        \/ p[1] = dev /\ \E x \in now : p[2] = KeyOf(x)
                        \/ p \in k.down /\ \A c \in Done(j) : p # <<dev, KeyOf(c)>>
           T == {j \in 0 .. n : P(j)}
<1>3. 0 \in T
  <2>1. Done(0) = {}
    OBVIOUS
  <2>2. P(0)
    BY <1>2, <2>1, Zenon
  <2> QED
    BY <1>1, <2>2
<1>4. ASSUME NEW j \in 1 .. n, j - 1 \in T PROVE j \in T
  <2> DEFINE c == ModOrder[j]
  <2>1. c \in ModKeys /\ P(j - 1) /\ f[j] = emit_delta(f[j - 1], c, prev, now, dev)
    BY <1>1, <1>2, <1>4
  <2>2. Done(j) = Done(j - 1) \cup ({c} \cap (prev \ now))
    BY <1>1
  <2> HIDE DEF c, Done
  <2>3. DeltaRelates(f[j - 1], f[j], c, prev, now, dev)
    BY <2>1, DeltaPass
  <2>4. f[j].mods \subseteq (k.mods \ Done(j)) \cup now
    BY <2>1, <2>2, <2>3 DEF DeltaRelates
  <2>5. ASSUME NEW p \in f[j].down
        PROVE  \/ p[1] = dev /\ \E x \in now : p[2] = KeyOf(x)
               \/ p \in k.down /\ \A y \in Done(j) : p # <<dev, KeyOf(y)>>
    BY <2>1, <2>2, <2>3 DEF DeltaRelates
  <2>6. P(j)
    BY <2>1, <2>3, <2>4, <2>5, Zenon DEF DeltaRelates
  <2> QED
    BY <2>6
<1>5. n \in T
  BY <1>1, <1>3, <1>4, UpTo, Zenon
<1>6. Done(n) = prev \ now
  BY ModOrderLists
<1> QED
  BY <1>2, <1>5, <1>6, Zenon DEF DeltasRelate

-----------------------------------------------------------------------------
\* A character is looked up in one of the two tables, the first without modifiers.
LEMMA AsciiTable ==
    ASSUME NEW u, NEW mods
    PROVE  /\ layout_ascii(u, mods) \in {tables[TRUE][u], tables[FALSE][u]}
           /\ layout_ascii(u, {}) = tables[FALSE][u]
<1>1. (CAPS \in {} \/ <<"L", "SHIFT">> \in {}) = FALSE
  BY Zenon
<1>2. CASE CAPS \in mods \/ <<"L", "SHIFT">> \in mods
  <2>1. (CAPS \in mods \/ <<"L", "SHIFT">> \in mods) = TRUE
    BY <1>2, Zenon
  <2> QED
    BY <1>1, <2>1, Zenon DEF layout_ascii
<1>3. CASE ~(CAPS \in mods \/ <<"L", "SHIFT">> \in mods)
  <2>1. (CAPS \in mods \/ <<"L", "SHIFT">> \in mods) = FALSE
    BY <1>3, Zenon
  <2> QED
    BY <1>1, <2>1, Zenon DEF layout_ascii
<1> QED
  BY <1>2, <1>3, Zenon

\* The codes of a usage are no modifiers and belong to one key.
LEMMA CodesOfUsage ==
    ASSUME layout \in Layouts, NEW u \in Usages
    PROVE  /\ CodesOf(u) \cap ModKeys = {}
           /\ \A c, d \in CodesOf(u) : KeyOf(c) = KeyOf(d)
<1>1. tables = tbl[layout]
  BY DEF tables
<1>2. ASSUME NEW c \in CodesOf(u) PROVE c \notin ModKeys
  <2>1. CASE c = ext_kc[u]
    BY <2>1, CodeAssumption
  <2>2. CASE c \in {tbl[layout][TRUE][u], tbl[layout][FALSE][u]}
    <3>1. c # NoCode
      BY DEF CodesOf
    <3>2. c[1] = "char"
      BY <2>2, <3>1, CodeAssumption
    <3> QED
      BY <3>2 DEF ModKeys
  <2> QED
    BY <1>1, <2>1, <2>2 DEF CodesOf
<1>3. ASSUME NEW c \in CodesOf(u), NEW d \in CodesOf(u) PROVE KeyOf(c) = KeyOf(d)
  BY <1>1, KeyAssumption, Zenon DEF CodesOf
<1> QED
  BY <1>2, <1>3

\* A key with a code has a release code and it is one of them.
LEMMA ReleaseCode ==
    ASSUME layout \in Layouts, NEW u \in Usages
    PROVE  /\ release_code(u) # NoCode => release_code(u) \in CodesOf(u)
           /\ CodesOf(u) # {} => release_code(u) # NoCode
<1>1. release_code(u) = IF ext_kc[u] # NoCode THEN ext_kc[u] ELSE tables[FALSE][u]
  BY AsciiTable, Zenon DEF release_code, hid_usage_to_ext_kc, hid_usage_to_ascii
<1>2. CodesOf(u) # {} => ext_kc[u] # NoCode \/ tables[FALSE][u] # NoCode
  BY KeyAssumption, Zenon DEF CodesOf, tables
<1> QED
  BY <1>1, <1>2 DEF CodesOf

\* The code of a press is one of the key's codes.
LEMMA PressCode ==
    ASSUME NEW u, NEW mods, press_code(u, mods) # NoCode
    PROVE  press_code(u, mods) \in CodesOf(u)
<1>1. hid_usage_to_ascii(u, mods) \in {tables[TRUE][u], tables[FALSE][u]}
  BY AsciiTable, Zenon DEF hid_usage_to_ascii
<1>2. press_code(u, mods) = hid_usage_to_ascii(u, mods) \/ press_code(u, mods) = ext_kc[u]
  BY Zenon DEF press_code, hid_usage_to_ext_kc
<1> QED
  BY <1>1, <1>2 DEF CodesOf

\* What a pass of the two loops over the keys keeps.
Keeps(k, e) == /\ KbOK(e)
               /\ e.mods \ Locks = k.mods \ Locks

\* The dispatch of a code that is no modifier.
LEMMA DispatchKeeps ==
    ASSUME NEW k, KbOK(k), NEW type, NEW code, code \notin ModKeys, NEW dev,
           NEW e, e = Dispatch(k, type, code, dev)
    PROVE  Keeps(k, e)
<1>1. KbOK(e)
  BY DispatchOK
<1>2. e.mods \ Locks = k.mods \ Locks
  BY DispatchNoMod
<1> QED
  BY <1>1, <1>2, Zenon DEF Keeps

\* One pass over the keys that were down: one that left has no code of its down.
LEMMA ReleasePass ==
    ASSUME layout \in Layouts, NEW k, KbOK(k), NEW u \in Usages, NEW now,
           NEW dev \in Nat \ {0}, NEW e, e = emit_release(k, u, now, dev)
    PROVE  /\ Keeps(k, e)
           /\ e.down \subseteq k.down
           /\ u \notin Range(now) => \A c \in CodesOf(u) : <<dev, KeyOf(c)>> \notin e.down
<1>1. CASE u \notin Range(now) /\ release_code(u) # NoCode
  <2>1. e = Dispatch(k, "RELEASE", release_code(u), dev)
    BY <1>1, Zenon DEF emit_release, report_contains
  <2>2. release_code(u) \in CodesOf(u) /\ release_code(u) \notin ModKeys
    BY <1>1, ReleaseCode, CodesOfUsage
  <2>3. Keeps(k, e)
    BY <2>1, <2>2, DispatchKeeps
  <2>4. e.down = k.down \ {<<dev, KeyOf(release_code(u))>>}
    BY <2>1, DispatchDown
  <2>5. \A c \in CodesOf(u) : KeyOf(c) = KeyOf(release_code(u))
    BY <2>2, CodesOfUsage, Zenon
  <2> QED
    BY <2>3, <2>4, <2>5
<1>2. CASE ~(u \notin Range(now) /\ release_code(u) # NoCode)
  <2>1. e = k
    BY <1>2, Zenon DEF emit_release, report_contains
  <2>2. u \notin Range(now) => CodesOf(u) = {}
    BY <1>2, ReleaseCode, Zenon
  <2> QED
    BY <2>1, <2>2, Zenon DEF Keeps
<1> QED
  BY <1>1, <1>2

\* One pass over the keys that are down: only a code of the key goes down.
LEMMA PressPass ==
    ASSUME layout \in Layouts, NEW k, KbOK(k), NEW u \in Usages, NEW prev,
           NEW dev \in Nat \ {0}, NEW e, e = emit_press(k, u, prev, dev)
    PROVE  /\ Keeps(k, e)
           /\ \A p \in e.down : p \in k.down
                \/ (p[1] = dev /\ \E c \in CodesOf(u) : p[2] = KeyOf(c))
<1> DEFINE c == press_code(u, k.mods)
<1>1. CASE u \notin Range(prev) /\ c # NoCode
  <2>1. e = Dispatch(k, "PRESS", c, dev)
    BY <1>1, Zenon DEF emit_press, report_contains
  <2>2. c \in CodesOf(u) /\ c \notin ModKeys
    BY <1>1, PressCode, CodesOfUsage
  <2> HIDE DEF c
  <2>3. Keeps(k, e)
    BY <2>1, <2>2, DispatchKeeps
  <2>4. e.down = k.down \cup {<<dev, KeyOf(c)>>}
    BY <2>1, DispatchDown
  <2> QED
    BY <2>2, <2>3, <2>4
<1>2. CASE ~(u \notin Range(prev) /\ c # NoCode)
  <2>1. e = k
    BY <1>2, Zenon DEF emit_press, report_contains
  <2> QED
    BY <2>1, Zenon DEF Keeps
<1> QED
  BY <1>1, <1>2

\* The loop over the keys that were down: the keys down that are left are in the
\* report, or of no key of the report before.
LEMMA ReleasesEffect ==
    ASSUME layout \in Layouts, NEW k, KbOK(k), NEW prev \in Seq(Usages), NEW now,
           NEW dev \in Nat \ {0}, NEW e, e = emit_releases(k, prev, now, dev)
    PROVE  /\ Keeps(k, e)
           /\ e.down \subseteq k.down
           /\ \A u \in Range(prev) \ Range(now) : \A c \in CodesOf(u) : <<dev, KeyOf(c)>> \notin e.down
<1> DEFINE n == Len(prev)
           Gone(u, x) == u \notin Range(now) => \A c \in CodesOf(u) : <<dev, KeyOf(c)>> \notin x.down
<1>1. n \in Nat /\ \A j \in 1 .. n : prev[j] \in Usages
  OBVIOUS
<1>2. PICK f : /\ f[0] = k /\ f[n] = e
               /\ \A j \in 1 .. n : f[j] = emit_release(f[j - 1], prev[j], now, dev)
  BY <1>1, ReleasesUnfold
<1> DEFINE P(j) == /\ Keeps(k, f[j])
                   /\ f[j].down \subseteq k.down
                   /\ \A i \in 1 .. j : Gone(prev[i], f[j])
           T == {j \in 0 .. n : P(j)}
<1> HIDE DEF Gone
<1>3. 0 \in T
  <2>1. Keeps(k, f[0]) /\ f[0].down \subseteq k.down
    BY <1>2, Zenon DEF Keeps
  <2> QED
    BY <1>1, <2>1
<1>4. ASSUME NEW j \in 1 .. n, j - 1 \in T PROVE j \in T
  <2> DEFINE u == prev[j]
  <2>1. u \in Usages /\ P(j - 1) /\ f[j] = emit_release(f[j - 1], u, now, dev)
    BY <1>1, <1>2, <1>4
  <2> HIDE DEF u
  <2>2. KbOK(f[j - 1])
    BY <2>1, Zenon DEF Keeps
  <2>3. /\ Keeps(f[j - 1], f[j])
        /\ f[j].down \subseteq f[j - 1].down
        /\ Gone(u, f[j])
    BY <2>1, <2>2, ReleasePass DEF Gone
  <2>4. Keeps(k, f[j]) /\ f[j].down \subseteq k.down
    BY <2>1, <2>3, Zenon DEF Keeps
  <2>5. ASSUME NEW i \in 1 .. j PROVE Gone(prev[i], f[j])
    <3>1. CASE i = j
      BY <3>1, <2>3 DEF u
    <3>2. CASE i # j
      <4>1. i \in 1 .. j - 1
        BY <3>2
      <4>2. Gone(prev[i], f[j - 1])
        BY <4>1, <2>1
      <4> QED
        BY <4>2, <2>3, Zenon DEF Gone
    <3> QED
      BY <3>1, <3>2
  <2> QED
    BY <2>4, <2>5
<1>5. n \in T
  BY <1>1, <1>3, <1>4, UpTo, Zenon
<1>6. \A i \in 1 .. n : Gone(prev[i], e)
  BY <1>2, <1>5
<1>7. ASSUME NEW u \in Range(prev) \ Range(now), NEW c \in CodesOf(u)
      PROVE  <<dev, KeyOf(c)>> \notin e.down
  <2>1. PICK i \in 1 .. n : u = prev[i]
    BY <1>1 DEF Range
  <2> QED
    BY <2>1, <1>6, <1>7, Zenon DEF Gone
<1>8. Keeps(k, e) /\ e.down \subseteq k.down
  BY <1>2, <1>5
<1> QED
  BY <1>7, <1>8, Zenon

PressesRelate(k, e, now, dev) ==
    /\ Keeps(k, e)
    /\ \A p \in e.down : p \in k.down
         \/ (p[1] = dev /\ \E u \in Range(now) : \E c \in CodesOf(u) : p[2] = KeyOf(c))

\* The loop over the keys that are down: only keys of the report go down.
LEMMA PressesEffect ==
    ASSUME layout \in Layouts, NEW k, KbOK(k), NEW prev, NEW now \in Seq(Usages),
           NEW dev \in Nat \ {0}, NEW e, e = emit_presses(k, prev, now, dev)
    PROVE  PressesRelate(k, e, now, dev)
<1> DEFINE n == Len(now)
           New(p) == p[1] = dev /\ \E u \in Range(now) : \E c \in CodesOf(u) : p[2] = KeyOf(c)
<1>1. n \in Nat /\ \A j \in 1 .. n : now[j] \in Usages /\ now[j] \in Range(now)
  BY DEF Range
<1>2. PICK f : /\ f[0] = k /\ f[n] = e
               /\ \A j \in 1 .. n : f[j] = emit_press(f[j - 1], now[j], prev, dev)
  BY <1>1, PressesUnfold
<1> DEFINE P(j) == Keeps(k, f[j]) /\ \A p \in f[j].down : p \in k.down \/ New(p)
           T == {j \in 0 .. n : P(j)}
<1> HIDE DEF New
<1>3. 0 \in T
  <2>1. Keeps(k, f[0])
    BY <1>2, Zenon DEF Keeps
  <2> QED
    BY <1>1, <1>2, <2>1
<1>4. ASSUME NEW j \in 1 .. n, j - 1 \in T PROVE j \in T
  <2> DEFINE u == now[j]
  <2>1. u \in Usages /\ u \in Range(now) /\ P(j - 1) /\ f[j] = emit_press(f[j - 1], u, prev, dev)
    BY <1>1, <1>2, <1>4
  <2> HIDE DEF u
  <2>2. KbOK(f[j - 1])
    BY <2>1, Zenon DEF Keeps
  <2>3. /\ Keeps(f[j - 1], f[j])
        /\ \A p \in f[j].down : p \in f[j - 1].down
             \/ (p[1] = dev /\ \E c \in CodesOf(u) : p[2] = KeyOf(c))
    BY <2>1, <2>2, PressPass
  <2>4. Keeps(k, f[j])
    BY <2>1, <2>3, Zenon DEF Keeps
  <2>5. \A p \in f[j].down : p \in k.down \/ New(p)
    BY <2>1, <2>3, Zenon DEF New
  <2> QED
    BY <2>4, <2>5
<1>5. n \in T
  BY <1>1, <1>3, <1>4, UpTo, Zenon
<1>6. Keeps(k, e) /\ \A p \in e.down : p \in k.down \/ New(p)
  BY <1>2, <1>5
<1> QED
  BY <1>6, Zenon DEF New, PressesRelate

-----------------------------------------------------------------------------
\* The inductive invariant.  A slot is free or holds a keyboard.
Free == [init : {FALSE}]
Used == [init : {TRUE}, enabled : BOOLEAN, dev_id : Nat,
         last : [mods : SUBSET ModKeys, keys : Seq(Usages)]]

Shape == /\ layout \in Layouts /\ KbOK(kb) /\ e0 \in BOOLEAN
         /\ next_id \in 1 .. MaxId + 1
         /\ kbds \in [Slots -> Free \cup Used]

\* The ids of the keyboards differ, and no event carries one not given out yet.
IdsDiffer == /\ \A i \in Registered :
                  /\ kbds[i].dev_id \in 1 .. next_id - 1
                  /\ \A j \in Registered : kbds[i].dev_id = kbds[j].dev_id => i = j
             /\ \A p \in kb.down : p[1] \in 1 .. next_id - 1

\* The bytes still to come are those of one key.
Code(k, brk) == [e0 |-> FALSE, raw |-> RawOf(k), brk |-> brk, key |-> k]
WireOK == \/ wire = << >>
          \/ \E k \in Ps2Keys, brk \in BOOLEAN :
               wire = <<Code(k, brk)>> \/ wire = <<[e0 |-> TRUE], Code(k, brk)>>

\* NoStuckModifier, flag by flag.
HeldBy(seen) == mods_from_hid({RawOf(k) : k \in seen} \cap ModKeys)
FlagHeld(m) == \/ \E i \in Registered : m \in mods_from_hid(kbds[i].last.mods)
               \/ m \in HeldBy(ps2_seen) \/ m \in orphaned
ModsOK == \A m \in kb.mods \ Locks : FlagHeld(m)

\* NoStuckKey, key by key.
InReport(r, key) == \/ \E c \in mods_from_hid(r.mods) : key = KeyOf(c)
                    \/ \E u \in Range(r.keys) : \E c \in CodesOf(u) : key = KeyOf(c)
KeysOK == \A i \in Registered : \A p \in kb.down :
            p[1] = kbds[i].dev_id => InReport(kbds[i].last, p[2])

KeyboardInv == Shape /\ IdsDiffer /\ WireOK /\ ModsOK /\ KeysOK

\* A registered slot holds a keyboard, the others are free.
LEMMA SlotShape ==
    ASSUME Shape, NEW i \in Slots
    PROVE  /\ i \in Registered => kbds[i] \in Used
           /\ i \notin Registered => kbds[i] \in Free
<1>1. kbds[i] \in Free \/ kbds[i] \in Used
  BY DEF Shape
<1>2. CASE kbds[i] \in Free
  <2>1. kbds[i].init = FALSE
    BY <1>2 DEF Free
  <2> QED
    BY <1>2, <2>1, Zenon DEF Registered
<1>3. CASE kbds[i] \in Used
  <2>1. kbds[i].init = TRUE
    BY <1>3 DEF Used
  <2> QED
    BY <1>3, <2>1, Zenon DEF Registered
<1> QED
  BY <1>1, <1>2, <1>3, Zenon

\* The flags of a report are flags, and hold that of their kind.
LEMMA HidFlags ==
    ASSUME NEW m \in SUBSET ModKeys
    PROVE  /\ mods_from_hid(m) \in SUBSET ModKeys
           /\ \A x \in mods_from_hid(m) : <<"L", x[2]>> \in mods_from_hid(m)
<1>1. \A x \in ModKeys : <<"L", x[2]>> \in ModKeys
  BY DEF ModKeys
<1>2. mods_from_hid(m) \in SUBSET ModKeys
  BY <1>1 DEF mods_from_hid
<1>3. ASSUME NEW x \in mods_from_hid(m) PROVE <<"L", x[2]>> \in mods_from_hid(m)
  <2>1. PICK y \in m : x = y \/ x = <<"L", y[2]>>
    BY DEF mods_from_hid
  <2>2. x[2] = y[2]
    BY <2>1
  <2> QED
    BY <2>2 DEF mods_from_hid
<1> QED
  BY <1>2, <1>3

\* A step that changes only what the dispatcher owns, and holds no more keys and
\* no more modifiers than before.
LEMMA DispatcherStep ==
    ASSUME KeyboardInv, KbOK(kb'), kb'.mods \ Locks \subseteq kb.mods \ Locks,
           kb'.down \subseteq kb.down, e0' \in BOOLEAN,
           UNCHANGED <<layout, next_id, kbds, wire, ps2_seen, orphaned>>
    PROVE  KeyboardInv'
<1>1. Shape'
  BY DEF KeyboardInv, Shape
<1>2. Registered' = Registered
  BY DEF Registered
<1>3. IdsDiffer'
  BY <1>2 DEF KeyboardInv, IdsDiffer
<1>4. WireOK'
  BY Zenon DEF KeyboardInv, WireOK, Code
<1>5. ModsOK'
  BY <1>2, Zenon DEF KeyboardInv, ModsOK, FlagHeld
<1>6. KeysOK'
  BY <1>2, Zenon DEF KeyboardInv, KeysOK, InReport, CodesOf, tables
<1> QED
  BY <1>1, <1>3, <1>4, <1>5, <1>6 DEF KeyboardInv

\* What a read or a reset leaves of the record.
LEMMA ResetOK ==
    ASSUME NEW k, KbOK(k), NEW e,
           e = [mods |-> e.mods, evq |-> e.evq, chars |-> e.chars, down |-> e.down, odd |-> e.odd],
           e.mods \in SUBSET (ModKeys \cup Locks), e.down \in SUBSET k.down, e.odd \in BOOLEAN,
           IsSeq(e.evq), Len(e.evq) < Cap, IsSeq(e.chars), Len(e.chars) < Cap
    PROVE  KbOK(e)
<1>1. \A p \in e.down : p = <<p[1], p[2]>>
  BY DEF KbOK
<1> QED
  BY <1>1, Zenon DEF KbOK

\* The initial state.
LEMMA KeyboardInit == Init => KeyboardInv
<1> SUFFICES ASSUME Init PROVE KeyboardInv
  OBVIOUS
<1>1. IsSeq(<< >>) /\ Len(<< >>) < Cap
  BY RingAssumption DEF IsSeq
<1>2. KbOK(kb) /\ kb.mods = {} /\ kb.down = {}
  <2>1. /\ kb.mods = {} /\ kb.evq = << >> /\ kb.chars = << >> /\ kb.down = {}
        /\ kb = [mods |-> kb.mods, evq |-> kb.evq, chars |-> kb.chars,
                 down |-> kb.down, odd |-> kb.odd]
    BY DEF Init
  <2>2. kb.odd = FALSE
    BY DEF Init
  <2>3. kb.odd \in BOOLEAN
    BY <2>2, Zenon
  <2> QED
    BY <1>1, <2>1, <2>3, Zenon DEF KbOK
<1>3. ASSUME NEW i \in Slots PROVE kbds[i] \in Free
  <2>1. kbds[i] = [init |-> FALSE]
    BY Zenon DEF Init
  <2> QED
    BY <2>1 DEF Free
<1>4. Registered = {}
  <2>1. \A i \in Slots : kbds[i].init = FALSE
    BY <1>3 DEF Free
  <2> QED
    BY <2>1, Zenon DEF Registered
<1>5. Shape
  <2>1. next_id \in 1 .. MaxId + 1
    BY IdAssumption DEF Init
  <2>2. e0 \in BOOLEAN
    BY Zenon DEF Init
  <2>3. kbds \in [Slots -> Free \cup Used]
    BY <1>3 DEF Init
  <2>4. layout \in Layouts
    BY DEF Init
  <2> QED
    BY <1>2, <2>1, <2>2, <2>3, <2>4, Zenon DEF Shape
<1> QED
  BY <1>2, <1>4, <1>5, Zenon DEF Init, KeyboardInv, IdsDiffer, WireOK, ModsOK, KeysOK

\* The steps of kbd_subsystem_init, of the readers and of the lock state.
LEMMA ResetSteps ==
    ASSUME KeyboardInv,
           \/ init_rings \/ init_mods \/ init_ps2
           \/ \E S \in SUBSET Locks : kbd_set_lock_leds(S)
           \/ kbd_read_event \/ kbd_read_char
    PROVE  KeyboardInv'
<1>1. KbOK(kb) /\ e0 \in BOOLEAN
  BY Zenon DEF KeyboardInv, Shape
<1>2. /\ kb = [mods |-> kb.mods, evq |-> kb.evq, chars |-> kb.chars,
               down |-> kb.down, odd |-> kb.odd]
      /\ kb.mods \in SUBSET (ModKeys \cup Locks)
      /\ IsSeq(kb.evq) /\ Len(kb.evq) < Cap
      /\ IsSeq(kb.chars) /\ Len(kb.chars) < Cap
      /\ kb.odd \in BOOLEAN /\ kb.down \in SUBSET kb.down
  BY <1>1, Zenon DEF KbOK
<1>3. IsSeq(<< >>) /\ Len(<< >>) < Cap
  BY RingAssumption DEF IsSeq
<1>4. CASE init_rings
  <2>1. kb' = [mods |-> kb.mods, evq |-> << >>, chars |-> << >>,
               down |-> kb.down, odd |-> kb.odd]
    BY <1>2, <1>4 DEF init_rings
  <2>2. KbOK(kb') /\ kb'.mods = kb.mods /\ kb'.down = kb.down /\ kb'.odd = kb.odd
    <3>1. /\ kb'.mods = kb.mods /\ kb'.evq = << >> /\ kb'.chars = << >> /\ kb'.down = kb.down
          /\ kb' = [mods |-> kb'.mods, evq |-> kb'.evq, chars |-> kb'.chars,
                    down |-> kb'.down, odd |-> kb'.odd]
      BY <2>1
    <3>2. kb'.odd = kb.odd
      BY <2>1
    <3>3. kb'.odd \in BOOLEAN /\ kb'.mods \in SUBSET (ModKeys \cup Locks)
      BY <1>1, <1>2, <1>3, <2>1, <3>1, <3>2, Zenon
    <3> QED
      BY <1>1, <1>2, <1>3, <2>1, <3>1, <3>2, <3>3, ResetOK, Zenon
  <2>3. UNCHANGED <<layout, next_id, kbds, wire, ps2_seen, orphaned>> /\ e0' = e0
    BY <1>4 DEF init_rings
  <2> QED
    BY <1>1, <2>2, <2>3, DispatcherStep, Zenon
<1>5. CASE init_mods
  <2>1. kb' = [mods |-> {}, evq |-> kb.evq, chars |-> kb.chars,
               down |-> kb.down, odd |-> FALSE]
    BY <1>2, <1>5 DEF init_mods
  <2>2. KbOK(kb') /\ kb'.mods = {} /\ kb'.down = kb.down /\ kb'.odd = FALSE
    <3>1. /\ kb'.mods = {} /\ kb'.evq = kb.evq /\ kb'.chars = kb.chars /\ kb'.down = kb.down
          /\ kb' = [mods |-> kb'.mods, evq |-> kb'.evq, chars |-> kb'.chars,
                    down |-> kb'.down, odd |-> kb'.odd]
      BY <2>1
    <3>2. kb'.odd = FALSE
      BY <2>1
    <3>3. kb'.odd \in BOOLEAN /\ kb'.mods \in SUBSET (ModKeys \cup Locks)
      BY <1>1, <1>2, <2>1, <3>1, <3>2, Zenon
    <3> QED
      BY <1>1, <1>2, <2>1, <3>1, <3>2, <3>3, ResetOK, Zenon
  <2>3. UNCHANGED <<layout, next_id, kbds, wire, ps2_seen, orphaned>> /\ e0' = FALSE
    BY <1>5 DEF init_mods
  <2>4. e0' \in BOOLEAN
    BY <2>3, Zenon
  <2> QED
    BY <2>2, <2>3, <2>4, DispatcherStep, Zenon
<1>6. CASE init_ps2
  <2>1. UNCHANGED <<layout, kb, e0, next_id, kbds, wire, ps2_seen, orphaned>>
    BY <1>6 DEF init_ps2
  <2> QED
    BY <1>1, <2>1, DispatcherStep, Zenon
<1>7. ASSUME NEW S \in SUBSET Locks, kbd_set_lock_leds(S)
      PROVE  KeyboardInv'
  <2> DEFINE m == (kb.mods \ Locks) \cup S
             o == CAPS \in S
  <2>1. kb' = [mods |-> m, evq |-> kb.evq, chars |-> kb.chars, down |-> kb.down, odd |-> o]
    BY <1>2, <1>7 DEF kbd_set_lock_leds
  <2>2. o \in BOOLEAN /\ m \in SUBSET (ModKeys \cup Locks)
    BY <1>2
  <2>3. m \ Locks \subseteq kb.mods \ Locks
    BY <1>2
  <2> HIDE DEF m, o
  <2>4. KbOK(kb') /\ kb'.mods = m /\ kb'.down = kb.down /\ kb'.odd = o
    <3>1. /\ kb'.mods = m /\ kb'.evq = kb.evq /\ kb'.chars = kb.chars /\ kb'.down = kb.down
          /\ kb' = [mods |-> kb'.mods, evq |-> kb'.evq, chars |-> kb'.chars,
                    down |-> kb'.down, odd |-> kb'.odd]
      BY <2>1
    <3>2. kb'.odd = o
      BY <2>1
    <3>3. kb'.odd \in BOOLEAN /\ kb'.mods \in SUBSET (ModKeys \cup Locks)
      BY <1>1, <1>2, <2>1, <2>2, <3>1, <3>2, Zenon
    <3> QED
      BY <1>1, <1>2, <2>1, <2>2, <3>1, <3>2, <3>3, ResetOK, Zenon
  <2>5. UNCHANGED <<layout, next_id, kbds, wire, ps2_seen, orphaned>> /\ e0' = e0
    BY <1>7 DEF kbd_set_lock_leds
  <2> QED
    BY <1>1, <2>3, <2>4, <2>5, DispatcherStep, Zenon
<1>8. CASE kbd_read_event
  <2>1. /\ kb.evq # << >>
        /\ kb' = [mods |-> kb.mods, evq |-> Tail(kb.evq), chars |-> kb.chars,
                  down |-> kb.down, odd |-> kb.odd]
    BY <1>2, <1>8 DEF kbd_read_event
  <2>2. IsSeq(Tail(kb.evq)) /\ Len(Tail(kb.evq)) < Cap
    BY <1>2, <2>1, TailBound
  <2>3. KbOK(kb') /\ kb'.mods = kb.mods /\ kb'.down = kb.down /\ kb'.odd = kb.odd
    <3>1. /\ kb'.mods = kb.mods /\ kb'.evq = Tail(kb.evq) /\ kb'.chars = kb.chars /\ kb'.down = kb.down
          /\ kb' = [mods |-> kb'.mods, evq |-> kb'.evq, chars |-> kb'.chars,
                    down |-> kb'.down, odd |-> kb'.odd]
      BY <2>1
    <3>2. kb'.odd = kb.odd
      BY <2>1
    <3>3. kb'.odd \in BOOLEAN /\ kb'.mods \in SUBSET (ModKeys \cup Locks)
      BY <1>1, <1>2, <2>1, <2>2, <3>1, <3>2, Zenon
    <3> QED
      BY <1>1, <1>2, <2>1, <2>2, <3>1, <3>2, <3>3, ResetOK, Zenon
  <2>4. UNCHANGED <<layout, next_id, kbds, wire, ps2_seen, orphaned>> /\ e0' = e0
    BY <1>8 DEF kbd_read_event
  <2> QED
    BY <1>1, <2>3, <2>4, DispatcherStep, Zenon
<1>9. CASE kbd_read_char
  <2>1. /\ kb.chars # << >>
        /\ kb' = [mods |-> kb.mods, evq |-> kb.evq, chars |-> Tail(kb.chars),
                  down |-> kb.down, odd |-> kb.odd]
    BY <1>2, <1>9 DEF kbd_read_char
  <2>2. IsSeq(Tail(kb.chars)) /\ Len(Tail(kb.chars)) < Cap
    BY <1>2, <2>1, TailBound
  <2>3. KbOK(kb') /\ kb'.mods = kb.mods /\ kb'.down = kb.down /\ kb'.odd = kb.odd
    <3>1. /\ kb'.mods = kb.mods /\ kb'.evq = kb.evq /\ kb'.chars = Tail(kb.chars) /\ kb'.down = kb.down
          /\ kb' = [mods |-> kb'.mods, evq |-> kb'.evq, chars |-> kb'.chars,
                    down |-> kb'.down, odd |-> kb'.odd]
      BY <2>1
    <3>2. kb'.odd = kb.odd
      BY <2>1
    <3>3. kb'.odd \in BOOLEAN /\ kb'.mods \in SUBSET (ModKeys \cup Locks)
      BY <1>1, <1>2, <2>1, <2>2, <3>1, <3>2, Zenon
    <3> QED
      BY <1>1, <1>2, <2>1, <2>2, <3>1, <3>2, <3>3, ResetOK, Zenon
  <2>4. UNCHANGED <<layout, next_id, kbds, wire, ps2_seen, orphaned>> /\ e0' = e0
    BY <1>9 DEF kbd_read_char
  <2> QED
    BY <1>1, <2>3, <2>4, DispatcherStep, Zenon
<1> QED
  BY <1>4, <1>5, <1>6, <1>7, <1>8, <1>9

-----------------------------------------------------------------------------
\* The flags that PS/2 keys hold.
LEMMA HeldByKeys ==
    ASSUME NEW seen, NEW m
    PROVE  m \in HeldBy(seen) <=> \E x \in seen : /\ RawOf(x) \in ModKeys
                                                 /\ m \in {RawOf(x), <<"L", RawOf(x)[2]>>}
  BY DEF HeldBy, mods_from_hid

\* A scancode names a modifier, a lock, a printable key, a keypad key or a key with
\* a code of its own.
LEMMA RawKinds ==
    ASSUME NEW k \in Ps2Keys
    PROVE  \/ RawOf(k) \in ModKeys \cup Locks \cup ({"print"} \X Usages)
           \/ RawOf(k)[1] \in {"ext", "char"}
<1>1. CASE k[1] \in {"ext", "char"}
  <2>1. RawOf(k) = k
    BY <1>1 DEF RawOf
  <2> QED
    BY <1>1, <2>1
<1>2. CASE k \in Locks \cup ({"print"} \X Usages)
  <2>1. k[1] # "R"
    BY <1>2 DEF Locks
  <2>2. RawOf(k) = k
    BY <2>1 DEF RawOf
  <2> QED
    BY <1>2, <2>2
<1>3. CASE k \in ModKeys
  <2>1. <<"L", k[2]>> \in ModKeys
    BY <1>3 DEF ModKeys
  <2> QED
    BY <1>3, <2>1 DEF RawOf
<1> QED
  BY <1>1, <1>2, <1>3, Ps2Assumption

\* What ps2_irq1_handler does with a scancode.
Ps2Event(k, raw, type) ==
    IF e0 /\ raw[1] = "ext" THEN Dispatch(k, type, raw, 0)
    ELSE emit_ps2_event([k EXCEPT !.mods = ApplySide(ApplyLock(k.mods, type, raw), type, raw)],
                        raw, type = "PRESS")

\* The record after the handler's own update of g_mods.
LEMMA EarlyUpdate ==
    ASSUME NEW k, KbOK(k), NEW type, NEW raw, NEW e,
           e = [k EXCEPT !.mods = ApplySide(ApplyLock(k.mods, type, raw), type, raw)]
    PROVE  /\ KbOK(e) /\ e.down = k.down
           /\ e.mods = ApplySide(ApplyLock(k.mods, type, raw), type, raw)
           /\ raw \notin ModKeys => e.mods \ Locks = k.mods \ Locks
<1> DEFINE l == ApplyLock(k.mods, type, raw)
           m == ApplySide(l, type, raw)
<1>1. k = [mods |-> k.mods, evq |-> k.evq, chars |-> k.chars, down |-> k.down, odd |-> k.odd]
  BY Zenon DEF KbOK
<1>2. k.mods \in SUBSET (ModKeys \cup Locks)
  BY DEF KbOK
<1>3. l \in SUBSET (ModKeys \cup Locks) /\ l \ Locks = k.mods \ Locks
  BY <1>2, ApplyFlags
<1>4. m \in SUBSET (ModKeys \cup Locks) /\ (raw \notin ModKeys => m = l)
  BY <1>3, ApplyFlags
<1> HIDE DEF m
<1>6. e = [mods |-> m, evq |-> k.evq, chars |-> k.chars, down |-> k.down, odd |-> k.odd]
  BY <1>1 DEF m
<1>7. /\ e.mods = m /\ e.evq = k.evq /\ e.chars = k.chars /\ e.down = k.down
      /\ e = [mods |-> e.mods, evq |-> e.evq, chars |-> e.chars, down |-> e.down, odd |-> e.odd]
  BY <1>6, <1>1 DEF KbOK
<1>8. e.odd = k.odd
  BY <1>6, Zenon
<1>9. KbOK(e)
  BY <1>4, <1>7, <1>8, ResetOK, Zenon DEF KbOK
<1>10. raw \notin ModKeys => e.mods \ Locks = k.mods \ Locks
  BY <1>3, <1>4, <1>7, Zenon
<1> QED
  BY <1>7, <1>9, <1>10, Zenon DEF m

Ps2Relates(k, e, raw, type) ==
    /\ KbOK(e)
    /\ e.down = k.down
    /\ raw \notin ModKeys => e.mods \ Locks = k.mods \ Locks
    /\ raw \in ModKeys /\ type = "PRESS" => e.mods \subseteq k.mods \cup {raw, <<"L", raw[2]>>}
    /\ raw \in ModKeys /\ type # "PRESS" => e.mods \subseteq k.mods \ {raw, <<"L", raw[2]>>}

\* A modifier's make sets its flags, its break clears them, twice over; no other
\* scancode changes a modifier's flag.
LEMMA Ps2Effect ==
    ASSUME layout \in Layouts, NEW k, KbOK(k), NEW raw,
           raw \in ModKeys \cup Locks \cup ({"print"} \X Usages) \/ raw[1] \in {"ext", "char"},
           NEW type \in {"PRESS", "RELEASE"}, NEW e, e = Ps2Event(k, raw, type)
    PROVE  Ps2Relates(k, e, raw, type)
<1> DEFINE k1 == [k EXCEPT !.mods = ApplySide(ApplyLock(k.mods, type, raw), type, raw)]
<1>1. /\ KbOK(k1) /\ k1.down = k.down
      /\ k1.mods = ApplySide(ApplyLock(k.mods, type, raw), type, raw)
      /\ raw \notin ModKeys => k1.mods \ Locks = k.mods \ Locks
  BY EarlyUpdate
<1>2. raw[1] = "ext" => raw \notin ModKeys
  BY DEF ModKeys
<1>3. CASE e0 /\ raw[1] = "ext"
  <2>1. e = Dispatch(k, type, raw, 0)
    BY <1>3, Zenon DEF Ps2Event
  <2>2. Keeps(k, e)
    BY <1>2, <1>3, <2>1, DispatchKeeps
  <2>3. e.down = k.down
    BY <2>1, DispatchDown
  <2> QED
    BY <1>2, <1>3, <2>2, <2>3, Zenon DEF Keeps, Ps2Relates
<1>4. CASE ~(e0 /\ raw[1] = "ext")
  <2>1. e = emit_ps2_event(k1, raw, type = "PRESS")
    BY <1>4, Zenon DEF Ps2Event
  <2> HIDE DEF k1
  <2>2. CASE e = k1 /\ raw \notin ModKeys
    BY <1>1, <2>2, Zenon DEF Ps2Relates
  <2>3. CASE raw[1] = "print"
    <3> DEFINE ch == layout_ascii(raw[2], k1.mods)
    <3>1. raw \notin ModKeys
      BY <2>3 DEF ModKeys
    <3>2. e = k1 \/ (ch # NoCode /\ e = Dispatch(k1, "PRESS", ch, 0))
      BY <2>1, <2>3, Zenon DEF emit_ps2_event
    <3>3. CASE ch # NoCode /\ e = Dispatch(k1, "PRESS", ch, 0)
      <4>1. raw[2] \in Usages
        BY <2>3 DEF ModKeys, Locks
      <4>2. ch \in CodesOf(raw[2])
        BY <3>3, AsciiTable, Zenon DEF CodesOf
      <4>3. ch \notin ModKeys
        BY <4>1, <4>2, CodesOfUsage
      <4> HIDE DEF ch
      <4>4. Keeps(k1, e)
        BY <1>1, <3>3, <4>3, DispatchKeeps
      <4>5. e.down = k1.down
        BY <3>3, DispatchDown
      <4> QED
        BY <1>1, <3>1, <4>4, <4>5, Zenon DEF Keeps, Ps2Relates
    <3> QED
      BY <2>2, <3>1, <3>2, <3>3, Zenon
  <2>4. CASE raw[1] = "ext"
    <3>1. e = k1
      BY <2>1, <2>4 DEF emit_ps2_event
    <3> QED
      BY <1>2, <2>2, <2>4, <3>1
  <2>5. CASE raw[1] # "print" /\ raw[1] # "ext"
    <3>1. e = Dispatch(k1, type, raw, 0)
      BY <2>1, <2>5 DEF emit_ps2_event
    <3>2. KbOK(e) /\ e.down = k.down
      BY <1>1, <3>1, DispatchOK, DispatchDown
    <3>4. CASE raw \notin ModKeys
      <4>1. e.mods \ Locks = k.mods \ Locks
        BY <1>1, <3>1, <3>4, DispatchNoMod
      <4> QED
        BY <3>2, <3>4, <4>1, Zenon DEF Ps2Relates
    <3>5. CASE raw \in ModKeys /\ type = "PRESS"
      <4>1. e.mods = k1.mods \cup {raw, <<"L", raw[2]>>}
        BY <1>1, <3>1, <3>5, DispatchModPress
      <4>2. raw \notin Locks
        BY <3>5 DEF ModKeys, Locks
      <4>3. k1.mods = k.mods \cup {raw, <<"L", raw[2]>>}
        BY <1>1, <3>5, <4>2, Zenon DEF ApplySide, ApplyLock
      <4> QED
        BY <3>2, <3>5, <4>1, <4>3, Zenon DEF Ps2Relates
    <3>6. CASE raw \in ModKeys /\ type = "RELEASE"
      <4>1. e.mods = k1.mods \ {raw, <<"L", raw[2]>>}
        BY <1>1, <3>1, <3>6, DispatchModRelease
      <4>2. raw \notin Locks
        BY <3>6 DEF ModKeys, Locks
      <4>3. k1.mods \subseteq k.mods
        BY <1>1, <3>6, <4>2 DEF ApplySide, ApplyLock
      <4> QED
        BY <3>2, <3>6, <4>1, <4>3 DEF Ps2Relates
    <3> QED
      BY <3>4, <3>5, <3>6
  <2> QED
    BY <2>3, <2>4, <2>5
<1> QED
  BY <1>3, <1>4

\* A key of the PS/2 keyboard.
LEMMA Ps2KeyStep ==
    ASSUME KeyboardInv, NEW k \in Ps2Keys, NEW brk \in BOOLEAN, ps2_key(k, brk)
    PROVE  KeyboardInv' /\ kb' = kb
<1>1. UNCHANGED <<layout, kb, e0, next_id, kbds, ps2_seen, orphaned>>
  BY DEF ps2_key
<1>2. Registered' = Registered
  BY <1>1 DEF Registered
<1>3. wire' = <<Code(k, brk)>> \/ wire' = <<[e0 |-> TRUE], Code(k, brk)>>
  BY Zenon DEF ps2_key, Code
<1>5. WireOK'
  BY <1>3, Zenon DEF WireOK, Code
<1>6. Shape' /\ IdsDiffer'
  BY <1>1, <1>2, Zenon DEF KeyboardInv, Shape, IdsDiffer
<1>7. ModsOK' /\ KeysOK'
  BY <1>1, <1>2, Zenon DEF KeyboardInv, ModsOK, FlagHeld, KeysOK, InReport, CodesOf, tables
<1> QED
  BY <1>1, <1>5, <1>6, <1>7, Zenon DEF KeyboardInv

\* A byte of the PS/2 keyboard.
LEMMA Ps2HandlerStep ==
    ASSUME KeyboardInv, ps2_irq1_handler
    PROVE  KeyboardInv'
<1>1. KbOK(kb) /\ layout \in Layouts /\ e0 \in BOOLEAN /\ WireOK /\ ModsOK /\ KeysOK
  BY Zenon DEF KeyboardInv, Shape
<1>2. UNCHANGED <<layout, next_id, kbds, orphaned>> /\ wire # << >> /\ wire' = Tail(wire)
  BY DEF ps2_irq1_handler
<1>3. PICK k \in Ps2Keys, brk \in BOOLEAN :
        wire = <<Code(k, brk)>> \/ wire = <<[e0 |-> TRUE], Code(k, brk)>>
  BY <1>1, <1>2, Zenon DEF WireOK
<1>4. CASE wire = <<[e0 |-> TRUE], Code(k, brk)>>
  <2>1. Head(wire) = [e0 |-> TRUE] /\ wire' = <<Code(k, brk)>>
    BY <1>2, <1>4
  <2>2. Head(wire).e0 = TRUE
    BY <2>1
  <2>3. e0' = TRUE /\ UNCHANGED <<kb, ps2_seen>>
    BY <2>2, Zenon DEF ps2_irq1_handler
  <2>4. e0' \in BOOLEAN
    BY <2>3, Zenon
  <2>5. WireOK'
    BY <2>1, Zenon DEF WireOK, Code
  <2>6. Registered' = Registered
    BY <1>2 DEF Registered
  <2>7. Shape' /\ IdsDiffer'
    BY <1>2, <2>3, <2>4, <2>6, Zenon DEF KeyboardInv, Shape, IdsDiffer
  <2>8. ModsOK' /\ KeysOK'
    BY <1>1, <1>2, <2>3, <2>6, Zenon DEF ModsOK, FlagHeld, KeysOK, InReport, CodesOf, tables
  <2> QED
    BY <2>3, <2>5, <2>7, <2>8, Zenon DEF KeyboardInv
<1>5. CASE wire = <<Code(k, brk)>>
  <2> DEFINE raw == RawOf(k)
             type == IF brk THEN "RELEASE" ELSE "PRESS"
  <2>1. Head(wire) = Code(k, brk) /\ wire' = << >>
    BY <1>2, <1>5
  <2>2. Code(k, brk).raw = raw /\ Code(k, brk).key = k
    BY DEF Code
  <2>3. Code(k, brk).e0 = FALSE
    BY DEF Code
  <2>4. Code(k, brk).brk = brk
    BY DEF Code
  <2>5. /\ e0' = FALSE
        /\ ps2_seen' = IF brk THEN ps2_seen \ {k} ELSE ps2_seen \cup {k}
    BY <2>1, <2>2, <2>3, <2>4, Zenon DEF ps2_irq1_handler
  <2>6. kb' = Ps2Event(kb, raw, type)
    <3>1. CASE brk = TRUE
      <4>1. Code(k, brk).brk = TRUE
        BY <2>4, <3>1, Zenon
      <4>2. (type = "PRESS") = FALSE /\ ~TRUE = FALSE /\ type = "RELEASE"
        BY <3>1
      <4> QED
        BY <2>1, <2>2, <2>3, <4>1, <4>2, Zenon DEF ps2_irq1_handler, Ps2Event
    <3>2. CASE brk = FALSE
      <4>1. Code(k, brk).brk = FALSE
        BY <2>4, <3>2, Zenon
      <4>2. (type = "PRESS") = TRUE /\ ~FALSE = TRUE /\ type = "PRESS"
        BY <3>2
      <4> QED
        BY <2>1, <2>2, <2>3, <4>1, <4>2, Zenon DEF ps2_irq1_handler, Ps2Event
    <3> QED
      BY <3>1, <3>2
  <2>7. Ps2Relates(kb, kb', raw, type)
    <3>1. type \in {"PRESS", "RELEASE"}
      OBVIOUS
    <3>2. raw \in ModKeys \cup Locks \cup ({"print"} \X Usages) \/ raw[1] \in {"ext", "char"}
      BY RawKinds
    <3> HIDE DEF raw, type
    <3> QED
      BY <1>1, <2>6, <3>1, <3>2, Ps2Effect
  <2>8. Registered' = Registered
    BY <1>2 DEF Registered
  <2>9. WireOK'
    BY <2>1, Zenon DEF WireOK
  <2>10. Shape'
    <3>1. e0' \in BOOLEAN
      BY <2>5, Zenon
    <3> QED
      BY <1>2, <2>7, <3>1, Zenon DEF KeyboardInv, Shape, Ps2Relates
  <2>11. IdsDiffer'
    BY <1>2, <2>7, <2>8, Zenon DEF KeyboardInv, IdsDiffer, Ps2Relates
  <2>12. KeysOK'
    <3>1. kb'.down = kb.down
      BY <2>7, Zenon DEF Ps2Relates
    <3> QED
      BY <1>1, <1>2, <2>8, <3>1, Zenon DEF KeysOK, InReport, CodesOf, tables
  <2>13. ASSUME NEW m \in (kb.mods \ Locks), m \in HeldBy(ps2_seen) => m \in HeldBy(ps2_seen')
         PROVE  FlagHeld(m)'
    BY <1>1, <1>2, <2>8, <2>13, Zenon DEF ModsOK, FlagHeld
  <2>14. ModsOK'
    <3> SUFFICES ASSUME NEW m \in kb'.mods \ Locks PROVE FlagHeld(m)'
      BY DEF ModsOK
    <3>2. CASE raw \notin ModKeys
      <4>1. m \in kb.mods \ Locks
        BY <2>7, <3>2, Zenon DEF Ps2Relates
      <4>2. m \in HeldBy(ps2_seen) => m \in HeldBy(ps2_seen')
        BY <2>5, <3>2, HeldByKeys
      <4> QED
        BY <2>13, <4>1, <4>2
    <3>3. CASE raw \in ModKeys /\ ~brk
      <4>1. ps2_seen' = ps2_seen \cup {k}
        BY <2>5, <3>3
      <4>2. m \in kb.mods \ Locks \/ m \in {raw, <<"L", raw[2]>>}
        BY <2>7, <3>3 DEF Ps2Relates
      <4>3. CASE m \in {raw, <<"L", raw[2]>>}
        <5>1. m \in HeldBy(ps2_seen')
          BY <3>3, <4>1, <4>3, HeldByKeys
        <5> QED
          BY <5>1 DEF FlagHeld
      <4>4. m \in HeldBy(ps2_seen) => m \in HeldBy(ps2_seen')
        BY <4>1, HeldByKeys
      <4> QED
        BY <2>13, <4>2, <4>3, <4>4
    <3>4. CASE raw \in ModKeys /\ brk
      <4>1. ps2_seen' = ps2_seen \ {k}
        BY <2>5, <3>4
      <4>2. m \in kb.mods \ Locks /\ m \notin {raw, <<"L", raw[2]>>}
        BY <2>7, <3>4 DEF Ps2Relates
      <4>3. m \in HeldBy(ps2_seen) => m \in HeldBy(ps2_seen')
        BY <4>1, <4>2, HeldByKeys
      <4> QED
        BY <2>13, <4>2, <4>3
    <3> QED
      BY <3>2, <3>3, <3>4
  <2> QED
    BY <2>9, <2>10, <2>11, <2>12, <2>14, Zenon DEF KeyboardInv
<1> QED
  BY <1>3, <1>4, <1>5

\* What a change of one slot leaves alone.
LEMMA OtherSlots ==
    ASSUME Shape, NEW i \in Slots, NEW d \in Free \cup Used, kbds' = [kbds EXCEPT ![i] = d]
    PROVE  /\ kbds' \in [Slots -> Free \cup Used] /\ kbds'[i] = d
           /\ \A j \in Slots : j # i => kbds'[j] = kbds[j]
           /\ d \in Used => Registered' = Registered \cup {i}
           /\ d \in Free => Registered' = Registered \ {i}
<1>1. /\ kbds' \in [Slots -> Free \cup Used] /\ kbds'[i] = d
      /\ \A j \in Slots : j # i => kbds'[j] = kbds[j]
  BY DEF Shape
<1>2. d \in Used => d.init = TRUE
  BY DEF Used
<1>3. d \in Free => d.init = FALSE
  BY DEF Free
<1>4. d \in Used => Registered' = Registered \cup {i}
  <2> SUFFICES ASSUME d \in Used PROVE Registered' = Registered \cup {i}
    OBVIOUS
  <2>1. \A j \in Slots : j \in Registered' <=> j \in Registered \cup {i}
    BY <1>1, <1>2, Zenon DEF Registered
  <2>2. Registered' \subseteq Slots /\ Registered \subseteq Slots
    BY Zenon DEF Registered
  <2> QED
    BY <2>1, <2>2
<1>5. d \in Free => Registered' = Registered \ {i}
  <2> SUFFICES ASSUME d \in Free PROVE Registered' = Registered \ {i}
    OBVIOUS
  <2>1. \A j \in Slots : j \in Registered' <=> j \in Registered \ {i}
    BY <1>1, <1>3, Zenon DEF Registered
  <2>2. Registered' \subseteq Slots /\ Registered \subseteq Slots
    BY Zenon DEF Registered
  <2> QED
    BY <2>1, <2>2
<1> QED
  BY <1>1, <1>4, <1>5

\* A registration: its id was in no event, and its last report is empty.
LEMMA RegisterStep ==
    ASSUME KeyboardInv, register_usb_boot_keyboard
    PROVE  KeyboardInv' /\ kb' = kb
<1>1. Shape /\ IdsDiffer /\ WireOK /\ ModsOK /\ KeysOK
  BY Zenon DEF KeyboardInv
<1> DEFINE d == [init |-> TRUE, enabled |-> TRUE, last |-> Empty, dev_id |-> next_id]
<1>2. PICK i \in Slots : /\ next_id <= MaxId /\ ~kbds[i].init
                         /\ kbds' = [kbds EXCEPT ![i] = d]
                         /\ next_id' = (next_id + 1) % IdMod
                         /\ UNCHANGED <<layout, kb, e0, wire, ps2_seen, orphaned>>
  BY Zenon DEF register_usb_boot_keyboard
<1>3. next_id \in 1 .. MaxId + 1 /\ next_id' = next_id + 1 /\ next_id' \in 1 .. MaxId + 1
  <2>1. next_id \in 1 .. MaxId + 1
    BY <1>1 DEF Shape
  <2>2. next_id + 1 \in 0 .. IdMod - 1 /\ IdMod \in Nat \ {0}
    BY <1>2, <2>1, IdAssumption
  <2>3. (next_id + 1) % IdMod = next_id + 1
    BY <2>2
  <2> QED
    BY <1>2, <2>1, <2>3, IdAssumption
<1>4. d \in Used /\ d.last = Empty /\ d.dev_id = next_id
  <2>1. Empty \in [mods : SUBSET ModKeys, keys : Seq(Usages)]
    BY DEF Empty
  <2> QED
    BY <1>3, <2>1, IdAssumption DEF Used
<1>5. i \notin Registered
  BY <1>2, Zenon DEF Registered
<1> HIDE DEF d
<1>6. /\ kbds' \in [Slots -> Free \cup Used] /\ kbds'[i] = d
      /\ \A j \in Slots : j # i => kbds'[j] = kbds[j]
      /\ Registered' = Registered \cup {i} /\ Registered \subseteq Slots
  BY <1>1, <1>2, <1>4, OtherSlots DEF Registered
<1>7. \A j \in Registered : kbds'[j] = kbds[j] /\ j # i
  BY <1>5, <1>6
<1>8. Shape'
  BY <1>1, <1>2, <1>3, <1>6, Zenon DEF Shape
<1>9. IdsDiffer'
  <2>1. ASSUME NEW j \in Registered' PROVE kbds'[j].dev_id \in 1 .. next_id' - 1
    BY <1>1, <1>3, <1>4, <1>6, <1>7 DEF IdsDiffer
  <2>2. ASSUME NEW j \in Registered', NEW h \in Registered', kbds'[j].dev_id = kbds'[h].dev_id
        PROVE  j = h
    <3>1. \A g \in Registered : kbds'[g].dev_id \in 1 .. next_id - 1
      BY <1>1, <1>7 DEF IdsDiffer
    <3>2. kbds'[i].dev_id = next_id
      BY <1>4, <1>6
    <3>3. CASE j \in Registered /\ h \in Registered
      BY <1>1, <1>7, <2>2, <3>3 DEF IdsDiffer
    <3> QED
      BY <1>3, <1>6, <2>2, <3>1, <3>2, <3>3
  <2>3. ASSUME NEW p \in kb'.down PROVE p[1] \in 1 .. next_id' - 1
    BY <1>1, <1>2, <1>3 DEF IdsDiffer
  <2> QED
    BY <2>1, <2>2, <2>3, Zenon DEF IdsDiffer
<1>10. WireOK'
  BY <1>1, <1>2, Zenon DEF WireOK, Code
<1>11. ModsOK'
  BY <1>1, <1>2, <1>6, <1>7, Zenon DEF ModsOK, FlagHeld
<1>12. KeysOK'
  <2> SUFFICES ASSUME NEW j \in Registered', NEW p \in kb.down, p[1] = kbds'[j].dev_id
               PROVE  InReport(kbds[j].last, p[2])' 
    BY <1>2, Zenon DEF KeysOK
  <2>1. j # i
    BY <1>1, <1>3, <1>4, <1>6 DEF IdsDiffer
  <2>2. j \in Registered /\ kbds'[j] = kbds[j]
    BY <1>6, <1>7, <2>1
  <2>3. InReport(kbds[j].last, p[2])
    BY <1>1, <2>2, Zenon DEF KeysOK
  <2> QED
    BY <1>2, <2>2, <2>3, Zenon DEF InReport, CodesOf, tables
<1> QED
  BY <1>2, <1>8, <1>9, <1>10, <1>11, <1>12, Zenon DEF KeyboardInv

\* A keyboard is enabled or disabled.
LEMMA EnableStep ==
    ASSUME KeyboardInv, NEW i \in Slots, NEW on \in BOOLEAN, usb_set_enabled(i, on)
    PROVE  KeyboardInv' /\ kb' = kb
<1>1. Shape /\ IdsDiffer /\ WireOK /\ ModsOK /\ KeysOK
  BY Zenon DEF KeyboardInv
<1>2. /\ kbds[i].init /\ kbds' = [kbds EXCEPT ![i].enabled = on]
      /\ UNCHANGED <<layout, kb, e0, next_id, wire, ps2_seen, orphaned>>
  BY Zenon DEF usb_set_enabled
<1>3. i \in Registered /\ kbds[i] \in Used
  <2>1. i \in Registered
    BY <1>2, Zenon DEF Registered
  <2> QED
    BY <1>1, <2>1, SlotShape
<1> DEFINE d == [kbds[i] EXCEPT !.enabled = on]
<1>4. d \in Used /\ d.last = kbds[i].last /\ d.dev_id = kbds[i].dev_id
  BY <1>3 DEF Used
<1>5. kbds' = [kbds EXCEPT ![i] = d]
  BY <1>2
<1> HIDE DEF d
<1>6. /\ kbds' \in [Slots -> Free \cup Used]
      /\ Registered' = Registered /\ Registered \subseteq Slots
      /\ \A j \in Registered : kbds'[j].last = kbds[j].last /\ kbds'[j].dev_id = kbds[j].dev_id
  BY <1>1, <1>3, <1>4, <1>5, OtherSlots DEF Registered
<1>7. Shape' /\ IdsDiffer'
  <2>1. Shape'
    BY <1>1, <1>2, <1>6, Zenon DEF Shape
  <2>2. IdsDiffer'
    BY <1>1, <1>2, <1>6 DEF IdsDiffer
  <2> QED
    BY <2>1, <2>2
<1>8. WireOK'
  BY <1>1, <1>2, Zenon DEF WireOK, Code
<1>9. ModsOK'
  BY <1>1, <1>2, <1>6, Zenon DEF ModsOK, FlagHeld
<1>10. KeysOK'
  <2> SUFFICES ASSUME NEW j \in Registered, NEW p \in kb.down, p[1] = kbds[j].dev_id
               PROVE  InReport(kbds[j].last, p[2])'
    BY <1>2, <1>6 DEF KeysOK
  <2>1. InReport(kbds[j].last, p[2])
    BY <1>1 DEF KeysOK
  <2> QED
    BY <1>2, <1>6, <2>1, Zenon DEF InReport, CodesOf, tables
<1> QED
  BY <1>2, <1>7, <1>8, <1>9, <1>10, Zenon DEF KeyboardInv

\* A keyboard goes: what it holds is orphaned, and no event of it is left.
LEMMA UnregisterStep ==
    ASSUME KeyboardInv, NEW i \in Slots, usb_unregister(i)
    PROVE  KeyboardInv'
<1>1. Shape /\ IdsDiffer /\ WireOK /\ ModsOK /\ KeysOK
  BY Zenon DEF KeyboardInv
<1> DEFINE d == [init |-> FALSE]
           left == {p \in kb.down : p[1] # kbds[i].dev_id}
<1>2. /\ kbds[i].init /\ kbds' = [kbds EXCEPT ![i] = d]
      /\ orphaned' = orphaned \cup mods_from_hid(kbds[i].last.mods)
      /\ kb' = [kb EXCEPT !.down = left]
      /\ UNCHANGED <<layout, e0, next_id, wire, ps2_seen>>
  BY DEF usb_unregister
<1>3. i \in Registered
  BY <1>2, Zenon DEF Registered
<1>4. d \in Free
  BY DEF Free
<1> HIDE DEF d
<1>5. /\ kbds' \in [Slots -> Free \cup Used]
      /\ Registered' = Registered \ {i} /\ Registered \subseteq Slots
      /\ \A j \in Registered' : j \in Registered /\ j # i /\ kbds'[j] = kbds[j]
  BY <1>1, <1>2, <1>4, OtherSlots DEF Registered
<1>6. KbOK(kb') /\ kb'.mods = kb.mods /\ kb'.down = left /\ kb'.odd = kb.odd
  <2>1. /\ kb = [mods |-> kb.mods, evq |-> kb.evq, chars |-> kb.chars,
                 down |-> kb.down, odd |-> kb.odd]
        /\ kb.mods \in SUBSET (ModKeys \cup Locks)
        /\ IsSeq(kb.evq) /\ Len(kb.evq) < Cap
        /\ IsSeq(kb.chars) /\ Len(kb.chars) < Cap
        /\ kb.odd \in BOOLEAN
    BY <1>1, Zenon DEF Shape, KbOK
  <2>2. left \in SUBSET kb.down
    OBVIOUS
  <2> HIDE DEF left
  <2>3. kb' = [mods |-> kb.mods, evq |-> kb.evq, chars |-> kb.chars,
               down |-> left, odd |-> kb.odd]
    BY <1>2, <2>1
  <2>4. /\ kb'.mods = kb.mods /\ kb'.evq = kb.evq /\ kb'.chars = kb.chars /\ kb'.down = left
        /\ kb' = [mods |-> kb'.mods, evq |-> kb'.evq, chars |-> kb'.chars,
                  down |-> kb'.down, odd |-> kb'.odd]
    BY <2>3
  <2>5. kb'.odd = kb.odd
    BY <2>3
  <2>6. KbOK(kb)
    BY <1>1 DEF Shape
  <2> QED
    BY <2>1, <2>2, <2>4, <2>5, <2>6, ResetOK, Zenon
<1>7. Shape'
  BY <1>1, <1>2, <1>5, <1>6, Zenon DEF Shape
<1>8. IdsDiffer'
  BY <1>1, <1>2, <1>5, <1>6 DEF IdsDiffer
<1>9. WireOK'
  BY <1>1, <1>2, Zenon DEF WireOK, Code
<1>10. ModsOK'
  <2> SUFFICES ASSUME NEW m \in kb.mods \ Locks PROVE FlagHeld(m)'
    BY <1>6, Zenon DEF ModsOK
  <2>1. FlagHeld(m)
    BY <1>1 DEF ModsOK
  <2>2. CASE m \in HeldBy(ps2_seen) \/ m \in orphaned \/ m \in mods_from_hid(kbds[i].last.mods)
    BY <1>2, <2>2, Zenon DEF FlagHeld
  <2>3. ASSUME NEW j \in Registered, j # i, m \in mods_from_hid(kbds[j].last.mods) PROVE FlagHeld(m)'
    <3>1. j \in Registered' /\ kbds'[j] = kbds[j]
      BY <1>5, <2>3
    <3> QED
      BY <2>3, <3>1, Zenon DEF FlagHeld
  <2> QED
    BY <2>1, <2>2, <2>3, Zenon DEF FlagHeld
<1>11. KeysOK'
  <2> SUFFICES ASSUME NEW j \in Registered', NEW p \in kb.down, p[1] = kbds[j].dev_id
               PROVE  InReport(kbds[j].last, p[2])'
    BY <1>5, <1>6 DEF KeysOK
  <2>1. InReport(kbds[j].last, p[2])
    BY <1>1, <1>5 DEF KeysOK
  <2> QED
    BY <1>2, <1>5, <2>1, Zenon DEF InReport, CodesOf, tables
<1> QED
  BY <1>7, <1>8, <1>9, <1>10, <1>11, Zenon DEF KeyboardInv

\* A report: the modifiers and the keys that the events of the keyboard leave
\* down are those of the report, and no other keyboard's change.
LEMMA ReportStep ==
    ASSUME KeyboardInv, NEW i \in Slots, NEW r \in Reports, usb_on_boot_report(i, r)
    PROVE  KeyboardInv'
<1>1. /\ Shape /\ IdsDiffer /\ WireOK /\ ModsOK /\ KeysOK
      /\ layout \in Layouts /\ KbOK(kb)
  BY Zenon DEF KeyboardInv, Shape
<1> DEFINE d == kbds[i]
           dev == d.dev_id
           prev == mods_from_hid(d.last.mods)
           now == mods_from_hid(r.mods)
           k1 == emit_modifier_deltas(kb, prev, now, dev)
           k2 == emit_releases(k1, d.last.keys, r.keys, dev)
<1>2. /\ d.init /\ kbds' = [kbds EXCEPT ![i].last = r]
      /\ kb' = emit_presses(k2, d.last.keys, r.keys, dev)
      /\ UNCHANGED <<layout, e0, next_id, wire, ps2_seen, orphaned>>
  BY Zenon DEF usb_on_boot_report
<1>3. i \in Registered /\ d \in Used
  <2>1. i \in Registered
    BY <1>2, Zenon DEF Registered
  <2> QED
    BY <1>1, <2>1, SlotShape
<1>4. /\ d.last.mods \in SUBSET ModKeys /\ d.last.keys \in Seq(Usages)
      /\ r \in [mods : SUBSET ModKeys, keys : Seq(Usages)]
      /\ r.mods \in SUBSET ModKeys /\ r.keys \in Seq(Usages)
  BY <1>3, ReportAssumption DEF Used
<1>5. dev \in Nat \ {0} /\ dev \in 1 .. next_id - 1
  BY <1>1, <1>3 DEF IdsDiffer, Shape
<1>6. /\ prev \in SUBSET ModKeys /\ now \in SUBSET ModKeys
      /\ \A x \in now : <<"L", x[2]>> \in now
  BY <1>4, HidFlags
<1> DEFINE nd == [d EXCEPT !.last = r]
<1>7. nd \in Used /\ nd.last = r /\ nd.dev_id = dev
  BY <1>3, <1>4 DEF Used
<1>8. kbds' = [kbds EXCEPT ![i] = nd]
  BY <1>2
<1> HIDE DEF nd
<1>9. /\ kbds' \in [Slots -> Free \cup Used] /\ Registered' = Registered
      /\ kbds'[i].last = r /\ kbds'[i].dev_id = dev
      /\ \A j \in Registered : j # i => kbds'[j] = kbds[j] /\ kbds[j].dev_id # dev
  <2>1. /\ kbds' \in [Slots -> Free \cup Used] /\ kbds'[i] = nd
        /\ Registered' = Registered /\ Registered \subseteq Slots
        /\ \A j \in Slots : j # i => kbds'[j] = kbds[j]
    BY <1>1, <1>3, <1>7, <1>8, OtherSlots DEF Registered
  <2> QED
    BY <1>1, <1>3, <1>7, <2>1 DEF IdsDiffer
<1> HIDE DEF d, dev, prev, now
<1>k1. k1 = emit_modifier_deltas(kb, prev, now, dev)
  OBVIOUS
<1> HIDE DEF k1
<1>10. /\ KbOK(k1)
       /\ k1.mods \subseteq (kb.mods \ (prev \ now)) \cup now
       /\ \A p \in k1.down : \/ p[1] = dev /\ \E x \in now : p[2] = KeyOf(x)
                             \/ p \in kb.down /\ \A c \in prev \ now : p # <<dev, KeyOf(c)>>
  <2>1. DeltasRelate(kb, k1, prev, now, dev)
    BY <1>1, <1>5, <1>6, <1>k1, DeltasEffect
  <2> QED
    BY <2>1, Zenon DEF DeltasRelate
<1>11. /\ Keeps(k1, k2) /\ k2.down \subseteq k1.down
       /\ \A u \in Range(d.last.keys) \ Range(r.keys) :
            \A c \in CodesOf(u) : <<dev, KeyOf(c)>> \notin k2.down
  BY <1>1, <1>4, <1>5, <1>10, ReleasesEffect
<1> HIDE DEF k2
<1>12. /\ Keeps(k2, kb')
       /\ \A p \in kb'.down : p \in k2.down
            \/ (p[1] = dev /\ \E u \in Range(r.keys) : \E c \in CodesOf(u) : p[2] = KeyOf(c))
  <2>1. KbOK(k2)
    BY <1>11 DEF Keeps
  <2>2. kb' = emit_presses(k2, d.last.keys, r.keys, dev)
    BY <1>2 DEF k2, k1, dev, d, prev, now
  <2>3. PressesRelate(k2, kb', r.keys, dev)
    BY <1>1, <1>4, <1>5, <2>1, <2>2, PressesEffect
  <2> QED
    BY <2>3, Zenon DEF PressesRelate
<1>13. KbOK(kb') /\ kb'.mods \ Locks = k1.mods \ Locks
  BY <1>11, <1>12, Zenon DEF Keeps
<1>14. \A p \in kb'.down : p[1] = dev \/ p \in kb.down
  BY <1>10, <1>11, <1>12
<1>15. Shape'
  BY <1>1, <1>2, <1>9, <1>13, Zenon DEF Shape
<1>16. IdsDiffer'
  <2>1. \A j \in Registered : kbds'[j].dev_id = kbds[j].dev_id
    BY <1>9 DEF dev, d
  <2> QED
    BY <1>1, <1>2, <1>5, <1>9, <1>14, <2>1 DEF IdsDiffer
<1>17. WireOK'
  BY <1>1, <1>2, Zenon DEF WireOK, Code
<1>18. ModsOK'
  <2> SUFFICES ASSUME NEW m \in kb'.mods \ Locks PROVE FlagHeld(m)'
    BY DEF ModsOK
  <2>1. CASE m \in now
    <3>1. m \in mods_from_hid(kbds'[i].last.mods) /\ i \in Registered'
      BY <1>3, <1>9, <2>1 DEF now
    <3> QED
      BY <3>1, Zenon DEF FlagHeld
  <2>2. CASE m \notin now
    <3>1. m \in kb.mods \ Locks /\ m \notin prev
      BY <1>10, <1>13, <2>2
    <3>2. FlagHeld(m)
      BY <1>1, <3>1 DEF ModsOK
    <3>3. CASE m \in HeldBy(ps2_seen) \/ m \in orphaned
      BY <1>2, <3>3, Zenon DEF FlagHeld
    <3>4. ASSUME NEW j \in Registered, m \in mods_from_hid(kbds[j].last.mods) PROVE FlagHeld(m)'
      <4>1. j # i
        BY <3>1, <3>4 DEF prev, d
      <4>2. j \in Registered' /\ kbds'[j] = kbds[j]
        BY <1>9, <4>1
      <4> QED
        BY <3>4, <4>2, Zenon DEF FlagHeld
    <3> QED
      BY <3>2, <3>3, <3>4, Zenon DEF FlagHeld
  <2> QED
    BY <2>1, <2>2
<1>19. KeysOK'
  <2> SUFFICES ASSUME NEW j \in Registered, NEW p \in kb'.down, p[1] = kbds'[j].dev_id
               PROVE  InReport(kbds[j].last, p[2])'
    BY <1>9 DEF KeysOK
  <2>1. CASE j # i
    <3>1. kbds'[j] = kbds[j] /\ p[1] # dev
      BY <1>9, <2>1
    <3>2. InReport(kbds[j].last, p[2])
      BY <1>1, <1>14, <3>1 DEF KeysOK
    <3> QED
      BY <1>2, <3>1, <3>2, Zenon DEF InReport, CodesOf, tables
  <2>2. CASE j = i
    <3>1. p[1] = dev /\ kbds'[j].last = r
      BY <1>9, <2>2
    <3>2. CASE InReport(r, p[2])
      BY <1>2, <3>1, <3>2, Zenon DEF InReport, CodesOf, tables
    <3>3. CASE ~InReport(r, p[2])
      <4>1. p \in k2.down /\ p \in k1.down
        BY <1>11, <1>12, <3>3 DEF InReport
      <4>2. p \in kb.down /\ \A c \in prev \ now : p # <<dev, KeyOf(c)>>
        BY <1>10, <3>3, <4>1 DEF InReport, now
      <4>3. InReport(d.last, p[2])
        BY <1>1, <1>3, <3>1, <4>2, Zenon DEF KeysOK, dev, d
      <4>4. p = <<dev, p[2]>>
        BY <1>1, <3>1, <4>2 DEF KbOK
      <4>5. ~\E c \in prev : p[2] = KeyOf(c)
        BY <3>3, <4>2, <4>4 DEF InReport, now
      <4>6. ~\E u \in Range(d.last.keys) : \E c \in CodesOf(u) : p[2] = KeyOf(c)
        BY <1>11, <3>3, <4>1, <4>4 DEF InReport
      <4> QED
        BY <4>3, <4>5, <4>6, Zenon DEF InReport, prev
    <3> QED
      BY <3>2, <3>3
  <2> QED
    BY <2>1, <2>2
<1> QED
  BY <1>15, <1>16, <1>17, <1>18, <1>19, Zenon DEF KeyboardInv

-----------------------------------------------------------------------------
\* Every step keeps the invariant.
LEMMA KeyboardStep ==
    ASSUME KeyboardInv, [Next]_vars
    PROVE  KeyboardInv'
<1>1. CASE \/ init_rings \/ init_mods \/ init_ps2
           \/ \E S \in SUBSET Locks : kbd_set_lock_leds(S)
           \/ kbd_read_event \/ kbd_read_char
  BY <1>1, ResetSteps, Zenon
<1>2. CASE \E k \in Ps2Keys, brk \in BOOLEAN : ps2_key(k, brk)
  BY <1>2, Ps2KeyStep, Zenon
<1>3. CASE ps2_irq1_handler
  BY <1>3, Ps2HandlerStep, Zenon
<1>4. CASE register_usb_boot_keyboard
  BY <1>4, RegisterStep, Zenon
<1>5. CASE \E i \in Slots, on \in BOOLEAN : usb_set_enabled(i, on)
  BY <1>5, EnableStep, Zenon
<1>6. CASE \E i \in Slots : usb_unregister(i)
  BY <1>6, UnregisterStep, Zenon
<1>7. CASE \E i \in Slots, r \in Reports : usb_on_boot_report(i, r)
  BY <1>7, ReportStep, Zenon
<1>8. CASE UNCHANGED vars
  <2>1. UNCHANGED <<layout, kb, e0, next_id, kbds, wire, ps2_seen, orphaned>>
    BY <1>8 DEF vars
  <2>2. KbOK(kb) /\ e0 \in BOOLEAN
    BY Zenon DEF KeyboardInv, Shape
  <2> QED
    BY <2>1, <2>2, DispatcherStep, Zenon
<1> QED
  BY <1>1, <1>2, <1>3, <1>4, <1>5, <1>6, <1>7, <1>8, Zenon DEF Next

\* The inductive invariant holds in every reachable state of the keyboard layer.
THEOREM KeyboardInvariant == Spec => []KeyboardInv
<1>1. KeyboardInv /\ [Next]_vars => KeyboardInv'
  BY KeyboardStep, Zenon
<1> QED
  BY KeyboardInit, <1>1, PTL DEF Spec

\* g_mods holds flags only, the rings never overflow and ids do not wrap, whatever
\* the keyboards, their reports and the layout tables.
THEOREM KeyboardTyped == Spec => []TypeOK
<1>1. KeyboardInv => TypeOK
  <2> SUFFICES ASSUME KeyboardInv PROVE TypeOK
    OBVIOUS
  <2>1. /\ kb.mods \subseteq ModKeys \cup Locks /\ Len(kb.evq) < Cap /\ Len(kb.chars) < Cap
        /\ e0 \in BOOLEAN /\ next_id \in 1 .. MaxId + 1 /\ IdsDiffer
    BY Zenon DEF KeyboardInv, Shape, KbOK
  <2>2. next_id \in 0 .. IdMod - 1
    BY <2>1, IdAssumption
  <2>3. \A i \in Registered : kbds[i].dev_id \in 1 .. IdMod - 1
    BY <2>1, IdAssumption DEF IdsDiffer
  <2>4. \A i \in Slots : kbds[i].init => kbds[i].dev_id \in 1 .. IdMod - 1
    BY <2>3, Zenon DEF Registered
  <2> QED
    BY <2>1, <2>2, <2>4, Zenon DEF TypeOK
<1> QED
  BY KeyboardInvariant, <1>1, PTL

\* However many keyboards share g_mods, a modifier flag is set only while a key
\* of some keyboard holds it, or was held when its keyboard was unregistered.
THEOREM ModifiersAreHeld == Spec => []NoStuckModifier
<1>1. KeyboardInv => NoStuckModifier
  <2> SUFFICES ASSUME KeyboardInv, NEW m \in kb.mods \ Locks
               PROVE  m \in (UNION {mods_from_hid(kbds[i].last.mods) : i \in Registered})
                            \cup mods_from_hid({RawOf(k) : k \in ps2_seen} \cap ModKeys)
                            \cup orphaned
    BY Zenon DEF NoStuckModifier
  <2>1. FlagHeld(m)
    BY DEF KeyboardInv, ModsOK
  <2>2. CASE \E i \in Registered : m \in mods_from_hid(kbds[i].last.mods)
    <3>1. PICK i \in Registered : m \in mods_from_hid(kbds[i].last.mods)
      BY <2>2
    <3>2. m \in UNION {mods_from_hid(kbds[j].last.mods) : j \in Registered}
      BY <3>1
    <3> QED
      BY <3>2, Zenon
  <2>3. CASE m \in HeldBy(ps2_seen) \/ m \in orphaned
    <3>1. HeldBy(ps2_seen) = mods_from_hid({RawOf(k) : k \in ps2_seen} \cap ModKeys)
      BY DEF HeldBy
    <3> HIDE DEF HeldBy
    <3> QED
      BY <2>3, <3>1
  <2> QED
    BY <2>1, <2>2, <2>3, Zenon DEF FlagHeld
<1> QED
  BY KeyboardInvariant, <1>1, PTL

\* A key that the events of a USB keyboard leave down is in its last report: each
\* press is undone by a release of the same key, whatever modifiers changed.
THEOREM KeysAreHeld == Spec => []NoStuckKey
<1>1. KeyboardInv => NoStuckKey
  <2> SUFFICES ASSUME KeyboardInv, NEW i \in Registered, NEW p \in kb.down,
                      p[1] = kbds[i].dev_id
               PROVE  \/ \E c \in mods_from_hid(kbds[i].last.mods) : p[2] = KeyOf(c)
                      \/ \E u \in Range(kbds[i].last.keys) :
                           p[2] \in {KeyOf(c) : c \in {ext_kc[u], tables[TRUE][u], tables[FALSE][u]} \ {NoCode}}
    BY DEF NoStuckKey
  <2>1. InReport(kbds[i].last, p[2])
    BY Zenon DEF KeyboardInv, KeysOK
  <2> QED
    BY <2>1, Zenon DEF InReport, CodesOf
<1> QED
  BY KeyboardInvariant, <1>1, PTL
=============================================================================
