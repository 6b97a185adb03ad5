--------------------------- MODULE UsageMapsProofs ---------------------------
(***************************************************************************)
(* Proofs about UsageMaps for any number of maps and pages and any sizes of*)
(* windows and bitmap pages: through conversions and growth that place     *)
(* bitmap pages in the very file the maps describe, every page stays in    *)
(* exactly one use.                                                        *)
(***************************************************************************)
EXTENDS UsageMaps, Integers, TLAPS, WellFoundedInduction

-----------------------------------------------------------------------------
(* Numbers. *)

Below == {ss \in Nat \X Nat : ss[1] < ss[2]}

\* A set of natural numbers has a least one.
LEMMA Least ==
  ASSUME NEW T \in SUBSET Nat, T # {}
  PROVE  \E x \in T : \A y \in T : x <= y
<1>1. OpToRel(<, Nat) = Below
  BY Zenon DEF OpToRel, Below
<1>2. IsWellFoundedOn(Below, Nat)
  BY <1>1, NatLessThanWellFounded, Zenon
<1>3. \E x \in T : \A y \in T : ~(<<y, x>> \in Below)
  BY <1>2, WFMin, Zenon
<1>4. \A x, y \in Nat : y < x => <<y, x>> \in Below
  BY DEF Below
<1>5. PICK x \in T : \A y \in T : ~(<<y, x>> \in Below)
  BY <1>3
<1>6. \A y \in T : x <= y
  <2> SUFFICES ASSUME NEW y \in T
               PROVE  x <= y
    OBVIOUS
  <2>1. x \in Nat /\ y \in Nat /\ ~(y < x)
    BY <1>4, <1>5
  <2> QED
    BY <2>1
<1> QED
  BY <1>6

\* A set of natural numbers up to n has a greatest one.
LEMMA Greatest ==
  ASSUME NEW T \in SUBSET Nat, T # {}, NEW n \in Nat, \A y \in T : y <= n
  PROVE  \E x \in T : \A y \in T : y <= x
<1> DEFINE U == {n - y : y \in T}
<1>1. \A y \in T : n - y \in Nat
  OBVIOUS
<1>2. U \in SUBSET Nat /\ U # {}
  BY <1>1
<1>3. PICK d \in U : \A e \in U : d <= e
  BY <1>2, Least
<1>4. PICK x \in T : d = n - x
  BY <1>3
<1>5. \A y \in T : n - x <= n - y
  BY <1>3, <1>4
<1> QED
  BY <1>5

\* Products grow with their factors.
LEMMA Products ==
  ASSUME NEW a \in Nat, NEW b \in Nat, NEW c \in Nat, a <= b
  PROVE  a * c \in Nat /\ b * c \in Nat /\ a * c <= b * c
<1>1. PICK d \in Nat : b = a + d
  <2>1. b - a \in Nat /\ b = a + (b - a)
    OBVIOUS
  <2> QED
    BY <2>1
<1>2. b * c = a * c + d * c /\ d * c \in Nat /\ a * c \in Nat
  BY <1>1
<1> QED
  BY <1>2

\* A page is in its slot.
LEMMA SlotHolds ==
  ASSUME NEW p \in Nat
  PROVE  /\ SlotOf(p) \in Nat /\ p < (SlotOf(p) + 1) * SlotBits
         /\ \A n \in Nat : n <= SlotOf(p) => n * SlotBits <= p
         /\ \A n \in Nat : SlotOf(p) < n => p < n * SlotBits
<1> DEFINE s == SlotOf(p)
<1>1. SlotBits \in Nat \ {0}
  BY UsageMapsAssumption
<1>2. s \in Nat /\ SlotBits * s <= p /\ p < SlotBits * s + SlotBits
  BY <1>1 DEF SlotOf
<1> HIDE DEF s
<1>3. (s + 1) * SlotBits = SlotBits * s + SlotBits /\ s * SlotBits = SlotBits * s /\ s * SlotBits \in Nat
  BY <1>1, <1>2
<1>4. p < (s + 1) * SlotBits /\ s * SlotBits <= p
  BY <1>2, <1>3
<1>5. ASSUME NEW n \in Nat, n <= s
      PROVE  n * SlotBits <= p
  <2>1. n * SlotBits <= s * SlotBits /\ n * SlotBits \in Nat
    BY <1>1, <1>2, <1>5, Products
  <2> QED
    BY <1>3, <1>4, <2>1
<1>6. ASSUME NEW n \in Nat, s < n
      PROVE  p < n * SlotBits
  <2>1. s + 1 \in Nat /\ s + 1 <= n
    BY <1>2, <1>6
  <2>2. (s + 1) * SlotBits <= n * SlotBits /\ (s + 1) * SlotBits \in Nat /\ n * SlotBits \in Nat
    BY <1>1, <2>1, Products
  <2> QED
    BY <1>4, <2>2
<1> QED
  BY <1>2, <1>4, <1>5, <1>6 DEF s

\* The slots for a set of pages hold them all.
LEMMA SlotsHold ==
  ASSUME NEW S \in SUBSET Nat, NEW n \in Nat, \A p \in S : p <= n
  PROVE  SlotsFor(S) \in Nat /\ \A p \in S : p < SlotsFor(S) * SlotBits
<1>1. CASE S = {}
  BY <1>1 DEF SlotsFor
<1>2. CASE S # {}
  <2> DEFINE T == {SlotOf(p) : p \in S}
             top == CHOOSE k \in T : \A p \in S : SlotOf(p) <= k
  <2>1. T \in SUBSET Nat /\ T # {}
    BY <1>2, SlotHolds
  <2>2. \A k \in T : k <= n
    <3> SUFFICES ASSUME NEW p \in S
                 PROVE  SlotOf(p) <= n
      OBVIOUS
    <3>1. p \in Nat /\ p <= n /\ SlotBits \in Nat \ {0} /\ SlotOf(p) \in Nat
      BY SlotHolds, UsageMapsAssumption
    <3>2. SlotOf(p) * SlotBits <= p
      BY <3>1, SlotHolds
    <3>3. SlotOf(p) * 1 <= SlotOf(p) * SlotBits
      BY <3>1
    <3> QED
      BY <3>1, <3>2, <3>3
  <2>3. \E k \in T : \A y \in T : y <= k
    <3> HIDE DEF T
    <3> QED
      BY <2>1, <2>2, Greatest
  <2>4. \E k \in T : \A p \in S : SlotOf(p) <= k
    BY <2>3
  <2>5. top \in T /\ \A p \in S : SlotOf(p) <= top
    BY <2>4
  <2>6. SlotsFor(S) = top + 1 /\ top \in Nat
    BY <1>2, <2>1, <2>5 DEF SlotsFor
  <2> HIDE DEF top, T
  <2>7. ASSUME NEW p \in S
        PROVE  p < SlotsFor(S) * SlotBits
    <3>1. p \in Nat /\ SlotOf(p) \in Nat /\ SlotOf(p) < SlotsFor(S) /\ SlotsFor(S) \in Nat
      BY <2>5, <2>6, SlotHolds
    <3> QED
      BY <3>1, SlotHolds
  <2> QED
    BY <2>6, <2>7
<1> QED
  BY <1>1, <1>2

-----------------------------------------------------------------------------
(* One map. *)

MapRecords == [layout : {"inline", "indirect"}, base : Nat, refs : Seq(Nat), bits : SUBSET Nat]

\* A map that covers the first pages of the file with its window.
Covers(m, mp) ==
  /\ mp \in MapRecords /\ mp.bits \subseteq Window(mp)
  /\ mp.layout = "inline" => mp.refs = <<>> /\ mp.base <= 2 /\ (m = Global => mp.base = 0)
  /\ mp.layout = "indirect" => InlineBits <= Len(mp.refs) * SlotBits

\* References added for slots up to the nth.
Added(mp, n) == IF n > Len(mp.refs) THEN n - Len(mp.refs) ELSE 0

\* What ensure_slot makes of an indirect map.
Grown(m, mp, r, n, at) ==
  /\ r \in MapRecords /\ r.layout = "indirect" /\ r.base = mp.base
  /\ Len(r.refs) = Len(mp.refs) + Added(mp, n)
  /\ \A i \in 1 .. Len(mp.refs) : r.refs[i] = mp.refs[i]
  /\ \A i \in 1 .. Added(mp, n) : r.refs[Len(mp.refs) + i] = at + i - 1
  /\ r.bits = mp.bits \union Preset(m, Len(mp.refs) * SlotBits, n * SlotBits)

\* The references of a map are numbered from 1.
LEMMA References ==
  ASSUME NEW mp \in MapRecords
  PROVE  /\ mp.refs \in Seq(Nat) /\ Len(mp.refs) \in Nat /\ DOMAIN mp.refs = 1 .. Len(mp.refs)
         /\ mp.base \in Nat /\ mp.bits \in SUBSET Nat /\ mp.layout \in {"inline", "indirect"}
         /\ mp = [layout |-> mp.layout, base |-> mp.base, refs |-> mp.refs, bits |-> mp.bits]
<1>1. mp.refs \in Seq(Nat) /\ mp.base \in Nat /\ mp.bits \in SUBSET Nat /\ mp.layout \in {"inline", "indirect"}
      /\ mp = [layout |-> mp.layout, base |-> mp.base, refs |-> mp.refs, bits |-> mp.bits]
  BY DEF MapRecords
<1> QED
  BY <1>1

\* ensure_slot appends a reference for each missing slot and presets its bits.
LEMMA SlotEnsured ==
  ASSUME NEW m, NEW mp \in MapRecords, mp.layout = "indirect", NEW n \in Nat, NEW at \in Nat
  PROVE  Grown(m, mp, EnsureSlot(m, mp, n, at), n, at)
<1> DEFINE k == Added(mp, n)
           new == [i \in 1 .. k |-> at + i - 1]
           pre == Preset(m, Len(mp.refs) * SlotBits, n * SlotBits)
           r == EnsureSlot(m, mp, n, at)
<1>1. mp.refs \in Seq(Nat) /\ Len(mp.refs) \in Nat /\ mp.base \in Nat /\ mp.bits \in SUBSET Nat
  BY References
<1>2. k \in Nat
  BY <1>1 DEF Added
<1>3. new \in Seq(Nat) /\ Len(new) = k
  <2>1. \A i \in 1 .. k : at + i - 1 \in Nat
    BY <1>2
  <2> QED
    BY <1>2, <2>1
<1>4. pre \in SUBSET Nat
  <2>1. Len(mp.refs) * SlotBits \in Nat /\ n * SlotBits \in Nat
    BY <1>1, UsageMapsAssumption
  <2> QED
    BY <2>1 DEF Preset
<1>5. r = [mp EXCEPT !.refs = mp.refs \o new, !.bits = mp.bits \union pre]
  BY DEF EnsureSlot, Added
<1> HIDE DEF pre, r
<1>6. /\ r.refs = mp.refs \o new /\ r.bits = mp.bits \union pre /\ r.layout = mp.layout /\ r.base = mp.base
      /\ r = [layout |-> r.layout, base |-> r.base, refs |-> r.refs, bits |-> r.bits]
  <2> HIDE DEF new
  <2> QED
    BY <1>5 DEF MapRecords
<1>7. r.refs \in Seq(Nat) /\ Len(r.refs) = Len(mp.refs) + k
  <2> DEFINE old == mp.refs
  <2> HIDE DEF new, k, old
  <2>1. old \in Seq(Nat) /\ new \in Seq(Nat)
    BY <1>1, <1>3 DEF old
  <2>2. old \o new \in Seq(Nat) /\ Len(old \o new) = Len(old) + Len(new)
    BY <2>1
  <2> QED
    BY <1>3, <1>6, <2>2 DEF old
<1>8. r \in MapRecords
  BY <1>1, <1>4, <1>6, <1>7 DEF MapRecords
<1>9. \A i \in 1 .. Len(mp.refs) : r.refs[i] = mp.refs[i]
  <2> HIDE DEF new
  <2> QED
    BY <1>1, <1>3, <1>6
<1>10. \A i \in 1 .. k : r.refs[Len(mp.refs) + i] = at + i - 1
  <2>1. \A i \in 1 .. k : new[i] = at + i - 1
    OBVIOUS
  <2> HIDE DEF new, k
  <2>2. \A i \in 1 .. k : (mp.refs \o new)[Len(mp.refs) + i] = new[i]
    BY <1>1, <1>2, <1>3
  <2> QED
    BY <1>6, <2>1, <2>2
<1> QED
  BY <1>6, <1>7, <1>8, <1>9, <1>10 DEF Grown, pre, r, k

\* A bit put into, or taken out of, the members B.
WithBit(B, p, desired) == IF desired THEN B \union {p} ELSE B \ {p}

\* What an indirect map becomes when a page's bit is set in it.
Placed(m, mp, r, p, desired, at) ==
  /\ r \in MapRecords /\ r.layout = "indirect" /\ Len(mp.refs) <= Len(r.refs)
  /\ \A i \in 1 .. Len(mp.refs) : r.refs[i] = mp.refs[i]
  /\ \A i \in 1 .. Len(r.refs) - Len(mp.refs) : r.refs[Len(mp.refs) + i] = at + i - 1
  /\ r.bits = WithBit(mp.bits \union Preset(m, Len(mp.refs) * SlotBits, Len(r.refs) * SlotBits), p, desired)
  /\ p < Len(r.refs) * SlotBits
  /\ \A q \in r.bits : q < Len(r.refs) * SlotBits
  /\ Len(r.refs) # Len(mp.refs) => Len(mp.refs) * SlotBits <= p

\* ensure_slot and put_bit.
LEMMA BitPlaced ==
  ASSUME NEW m, NEW mp \in MapRecords, mp.layout = "indirect", \A q \in mp.bits : q < Len(mp.refs) * SlotBits,
         NEW p \in Nat, NEW desired \in BOOLEAN, NEW at \in Nat
  PROVE  Placed(m, mp, PutBit(EnsureSlot(m, mp, SlotOf(p) + 1, at), p, desired), p, desired, at)
<1> DEFINE n == SlotOf(p) + 1
           l == Len(mp.refs)
           e == EnsureSlot(m, mp, n, at)
           r == PutBit(e, p, desired)
           k == Len(r.refs)
<1>1. n \in Nat /\ SlotOf(p) \in Nat /\ p < n * SlotBits
  BY SlotHolds
<1>2. l \in Nat /\ mp.bits \in SUBSET Nat
  BY References
<1>3. Grown(m, mp, e, n, at)
  <2> HIDE DEF n, e
  <2> QED
    BY <1>1, SlotEnsured DEF e
<1> HIDE DEF e, n, l
<1>4. /\ e \in MapRecords /\ e.layout = "indirect" /\ Len(e.refs) = l + Added(mp, n)
      /\ \A i \in 1 .. l : e.refs[i] = mp.refs[i]
      /\ \A i \in 1 .. Added(mp, n) : e.refs[l + i] = at + i - 1
      /\ e.bits = mp.bits \union Preset(m, l * SlotBits, n * SlotBits)
  BY <1>3 DEF Grown, l
<1>5. r.refs = e.refs /\ r.layout = e.layout /\ r.base = e.base /\ r.bits = WithBit(e.bits, p, desired)
      /\ r = [layout |-> r.layout, base |-> r.base, refs |-> r.refs, bits |-> r.bits]
  <2>1. r = [e EXCEPT !.bits = WithBit(e.bits, p, desired)]
    BY DEF PutBit, WithBit
  <2>2. e = [layout |-> e.layout, base |-> e.base, refs |-> e.refs, bits |-> e.bits]
    BY <1>4, References
  <2> HIDE DEF r
  <2> QED
    BY <2>1, <2>2
<1>6. e.bits \in SUBSET Nat /\ e.refs \in Seq(Nat) /\ e.base \in Nat
  BY <1>4, References
<1>7. r.bits \in SUBSET Nat
  BY <1>5, <1>6 DEF WithBit
<1>8. r \in MapRecords
  BY <1>4, <1>5, <1>6, <1>7 DEF MapRecords
<1> HIDE DEF r
<1>9. Added(mp, n) = IF n > l THEN n - l ELSE 0
  BY DEF Added, l
<1>10. k = (IF n > l THEN n ELSE l) /\ k \in Nat /\ l <= k /\ k - l = Added(mp, n) /\ n <= k
  <2>1. k = l + Added(mp, n)
    BY <1>4, <1>5
  <2> HIDE DEF k
  <2> QED
    BY <1>1, <1>2, <1>9, <2>1
<1>11. SlotBits \in Nat /\ l * SlotBits \in Nat /\ k * SlotBits \in Nat /\ n * SlotBits \in Nat
       /\ n * SlotBits <= k * SlotBits /\ l * SlotBits <= k * SlotBits
  BY <1>1, <1>2, <1>10, Products, UsageMapsAssumption
<1> HIDE DEF k
<1>12. Preset(m, l * SlotBits, n * SlotBits) = Preset(m, l * SlotBits, k * SlotBits)
  <2>1. CASE n > l
    BY <1>1, <1>2, <1>10, <2>1
  <2>2. CASE n <= l
    <3>1. n * SlotBits <= l * SlotBits /\ k = l
      BY <1>1, <1>2, <1>10, <1>11, <2>2, Products
    <3>2. l * SlotBits .. n * SlotBits - 1 = {} /\ l * SlotBits .. k * SlotBits - 1 = {}
      <4> DEFINE a == l * SlotBits
                 b == n * SlotBits
      <4>1. a \in Nat /\ b \in Nat /\ b <= a
        BY <1>11, <3>1
      <4> HIDE DEF a, b
      <4>2. a .. b - 1 = {} /\ a .. a - 1 = {}
        BY <4>1
      <4> QED
        BY <3>1, <4>2 DEF a, b
    <3> QED
      BY <3>2 DEF Preset
  <2> QED
    BY <1>1, <1>2, <2>1, <2>2
<1>13. p < k * SlotBits
  BY <1>1, <1>11
<1>14. ASSUME NEW q \in r.bits
       PROVE  q < k * SlotBits
  <2>1. q = p \/ q \in mp.bits \/ q \in Preset(m, l * SlotBits, k * SlotBits)
    BY <1>4, <1>5, <1>12, <1>14 DEF WithBit
  <2>2. CASE q \in mp.bits
    <3>1. q \in Nat /\ q < l * SlotBits
      BY <1>2, <2>2 DEF l
    <3> QED
      BY <1>11, <3>1
  <2>3. CASE q \in Preset(m, l * SlotBits, k * SlotBits)
    <3>1. q \in l * SlotBits .. k * SlotBits - 1
      BY <2>3 DEF Preset
    <3> QED
      BY <1>11, <3>1
  <2> QED
    BY <1>13, <2>1, <2>2, <2>3
<1>15. ASSUME k # l
       PROVE  l * SlotBits <= p
  <2>1. l <= SlotOf(p)
    BY <1>1, <1>2, <1>10, <1>15 DEF n
  <2> QED
    BY <1>2, <2>1, SlotHolds
<1>16. \A i \in 1 .. k - l : r.refs[l + i] = at + i - 1
  BY <1>4, <1>5, <1>10
<1> QED
  BY <1>4, <1>5, <1>8, <1>10, <1>12, <1>13, <1>14, <1>15, <1>16 DEF Placed, k, l, r, e, n

\* What an inline map becomes when it gets bitmap pages.
Converted(m, mp, c, at) ==
  /\ c \in MapRecords /\ c.layout = "indirect"
  /\ \A i \in 1 .. Len(c.refs) : c.refs[i] = at + i - 1
  /\ c.bits = mp.bits \union Preset(m, 0, Len(c.refs) * SlotBits)
  /\ \A q \in c.bits : q < Len(c.refs) * SlotBits

\* convert keeps every member of the window.
LEMMA MapConverts ==
  ASSUME NEW m, NEW mp, Covers(m, mp), mp.layout = "inline", NEW at \in Nat
  PROVE  Converted(m, mp, Convert(m, mp, at), at)
<1> DEFINE empty == [layout |-> "indirect", base |-> 0, refs |-> <<>>, bits |-> {}]
           k == SlotsFor(mp.bits)
           e == EnsureSlot(m, empty, k, at)
           c == Convert(m, mp, at)
<1>1. mp \in MapRecords /\ mp.bits \in SUBSET Nat /\ mp.base \in Nat
  BY References DEF Covers
<1>2. InlineBits \in Nat /\ SlotBits \in Nat
  BY UsageMapsAssumption
<1>3. \A q \in mp.bits : q \in Nat /\ q <= mp.base + InlineBits
  <2>1. \A q \in mp.bits : q \in mp.base .. mp.base + InlineBits - 1
    BY DEF Covers, Window
  <2> QED
    BY <1>1, <1>2, <2>1
<1>4. k \in Nat /\ \A q \in mp.bits : q < k * SlotBits
  <2>1. mp.base + InlineBits \in Nat
    BY <1>1, <1>2
  <2> QED
    BY <1>1, <1>3, <2>1, SlotsHold
<1>5. empty \in MapRecords /\ empty.layout = "indirect" /\ Len(empty.refs) = 0 /\ empty.bits = {}
  BY DEF MapRecords
<1>6. c = [e EXCEPT !.bits = e.bits \union mp.bits]
  BY DEF Convert
<1> HIDE DEF empty, k, c
<1>7. Grown(m, empty, e, k, at)
  BY <1>4, <1>5, SlotEnsured
<1> HIDE DEF e
<1>8. Added(empty, k) = k
  BY <1>4, <1>5 DEF Added
<1>9. 0 * SlotBits = 0
  BY <1>2
<1>10. /\ e \in MapRecords /\ e.layout = "indirect" /\ Len(e.refs) = k
       /\ \A i \in 1 .. k : e.refs[i] = at + i - 1
       /\ e.bits = Preset(m, 0, k * SlotBits)
  <2>1. /\ e \in MapRecords /\ e.layout = "indirect" /\ Len(e.refs) = 0 + k
        /\ \A i \in 1 .. k : e.refs[0 + i] = at + i - 1
        /\ e.bits = {} \union Preset(m, 0, k * SlotBits)
    BY <1>5, <1>7, <1>8, <1>9 DEF Grown
  <2>2. \A i \in 1 .. k : 0 + i = i
    BY <1>4
  <2> QED
    BY <1>4, <2>1, <2>2
<1>11. c.refs = e.refs /\ c.layout = e.layout /\ c.base = e.base /\ c.bits = mp.bits \union e.bits
       /\ c = [layout |-> c.layout, base |-> c.base, refs |-> c.refs, bits |-> c.bits]
  <2>1. e = [layout |-> e.layout, base |-> e.base, refs |-> e.refs, bits |-> e.bits]
    BY <1>10, References
  <2> QED
    BY <1>6, <2>1
<1>12. e.bits \in SUBSET Nat /\ e.refs \in Seq(Nat) /\ e.base \in Nat
  BY <1>10, References
<1>13. c.bits \in SUBSET Nat
  BY <1>1, <1>11, <1>12
<1>14. c \in MapRecords
  BY <1>10, <1>11, <1>12, <1>13 DEF MapRecords
<1>15. ASSUME NEW q \in c.bits
       PROVE  q < k * SlotBits
  <2>1. q \in mp.bits \/ q \in 0 .. k * SlotBits - 1
    BY <1>10, <1>11, <1>15 DEF Preset
  <2>2. k * SlotBits \in Nat
    BY <1>2, <1>4
  <2> QED
    BY <1>4, <2>1, <2>2
<1> QED
  BY <1>10, <1>11, <1>14, <1>15 DEF Converted, c

\* What set makes of a map: the page's bit is as desired, other members stay, new
\* bitmap pages follow each other from page at, and only in the global map do bits
\* come on, for pages from the end of the file on.
SetTo(m, mp, r, p, desired, at) ==
  /\ Covers(m, r) /\ Len(mp.refs) <= Len(r.refs)
  /\ \A i \in 1 .. Len(mp.refs) : r.refs[i] = mp.refs[i]
  /\ \A i \in 1 .. Len(r.refs) - Len(mp.refs) : r.refs[Len(mp.refs) + i] = at + i - 1
  /\ m # Global => r.bits = WithBit(mp.bits, p, desired)
  /\ m = Global =>
       /\ p \in Window(r) /\ (p \in r.bits <=> desired)
       /\ \A q \in mp.bits : q # p => q \in r.bits
       /\ \A q \in r.bits : q # p => q \in mp.bits
             \/ (q >= eof /\ (mp.layout = "indirect" => Len(mp.refs) * SlotBits <= q))
       /\ \A q \in Window(r) : q >= eof /\ q # p => q \in r.bits \/ q \in Window(mp) \ mp.bits
       /\ InlineBits <= p => r.layout = "indirect"
       /\ r.layout = "inline" => r.bits \subseteq mp.bits \union {p}
  /\ r.layout # mp.layout \/ Len(r.refs) # Len(mp.refs) => InlineBits <= p
  /\ mp.layout = "indirect" => r.layout = "indirect"

\* A page not in the window of an indirect map's members.
LEMMA WindowOfIndirect ==
  ASSUME NEW mp \in MapRecords, mp.layout = "indirect"
  PROVE  /\ Len(mp.refs) * SlotBits \in Nat
         /\ \A q : q \in Window(mp) <=> q \in Nat /\ q < Len(mp.refs) * SlotBits
<1> DEFINE n == Len(mp.refs) * SlotBits
<1>1. n \in Nat
  BY References, UsageMapsAssumption
<1>2. Window(mp) = 0 .. n - 1
  BY DEF Window
<1> HIDE DEF n
<1> QED
  BY <1>1, <1>2 DEF n

\* set on a map that is indirect.
LEMMA SetIndirect ==
  ASSUME NEW m \in Maps, NEW mp, Covers(m, mp), mp.layout = "indirect", eof \in Nat,
         NEW p \in Nat, p >= 2, NEW desired \in BOOLEAN, NEW at \in Nat
  PROVE  SetTo(m, mp, SetBit(m, mp, p, desired, at), p, desired, at)
<1> DEFINE l == Len(mp.refs)
           r == SetBit(m, mp, p, desired, at)
<1>1. mp \in MapRecords /\ l \in Nat /\ mp.bits \subseteq Window(mp) /\ mp.bits \in SUBSET Nat
  BY References DEF Covers
<1>2. l * SlotBits \in Nat /\ \A q : q \in Window(mp) <=> q \in Nat /\ q < l * SlotBits
  BY <1>1, WindowOfIndirect
<1>3. InlineBits <= l * SlotBits /\ InlineBits \in Nat
  BY UsageMapsAssumption DEF Covers
<1>4. CASE NoWindowNeeded(m, mp, p, desired)
  <2>1. r = mp
    BY <1>4 DEF SetBit
  <2>2. ~desired /\ m # Global /\ p \notin mp.bits
    BY <1>1, <1>4 DEF NoWindowNeeded, Represents
  <2>3. mp.bits = WithBit(mp.bits, p, desired)
    BY <2>2 DEF WithBit
  <2>4. l <= l /\ l - l = 0 /\ 1 .. 0 = {}
    BY <1>1
  <2> QED
    BY <1>1, <2>1, <2>2, <2>3, <2>4 DEF SetTo
<1>5. CASE ~NoWindowNeeded(m, mp, p, desired)
  <2>1. r = PutBit(EnsureSlot(m, mp, SlotOf(p) + 1, at + (l - l)), p, desired)
    BY <1>5 DEF SetBit
  <2>2. at + (l - l) = at
    BY <1>1
  <2> HIDE DEF l, r
  <2>3. Placed(m, mp, r, p, desired, at)
    BY <1>1, <1>2, <2>1, <2>2, BitPlaced DEF l
  <2> DEFINE k == Len(r.refs)
  <2>4. /\ r \in MapRecords /\ r.layout = "indirect" /\ l <= k
        /\ \A i \in 1 .. l : r.refs[i] = mp.refs[i]
        /\ \A i \in 1 .. k - l : r.refs[l + i] = at + i - 1
        /\ r.bits = WithBit(mp.bits \union Preset(m, l * SlotBits, k * SlotBits), p, desired)
        /\ p < k * SlotBits
        /\ \A q \in r.bits : q < k * SlotBits
        /\ k # l => l * SlotBits <= p
    BY <2>3 DEF Placed, l
  <2>5. k * SlotBits \in Nat /\ \A q : q \in Window(r) <=> q \in Nat /\ q < k * SlotBits
    BY <2>4, WindowOfIndirect
  <2>6. k \in Nat /\ l * SlotBits <= k * SlotBits /\ r.bits \in SUBSET Nat
    <3>1. k \in Nat /\ r.bits \in SUBSET Nat
      BY <2>4, References
    <3>2. SlotBits \in Nat
      BY UsageMapsAssumption
    <3> HIDE DEF k
    <3> QED
      BY <1>1, <2>4, <3>1, <3>2, Products
  <2> HIDE DEF k
  <2>7. Covers(m, r)
    <3>1. InlineBits <= k * SlotBits
      BY <1>2, <1>3, <2>5, <2>6
    <3> QED
      BY <2>4, <2>5, <2>6, <3>1 DEF Covers, k
  <2>8. ASSUME m # Global
        PROVE  r.bits = WithBit(mp.bits, p, desired)
    <3>1. Preset(m, l * SlotBits, k * SlotBits) = {}
      BY <2>8 DEF Preset
    <3> QED
      BY <2>4, <3>1
  <2>9. ASSUME m = Global
        PROVE  /\ p \in Window(r) /\ (p \in r.bits <=> desired)
               /\ \A q \in mp.bits : q # p => q \in r.bits
               /\ \A q \in r.bits : q # p => q \in mp.bits
                     \/ (q >= eof /\ (mp.layout = "indirect" => l * SlotBits <= q))
               /\ \A q \in Window(r) : q >= eof /\ q # p => q \in r.bits \/ q \in Window(mp) \ mp.bits
    <3> DEFINE pre == Preset(m, l * SlotBits, k * SlotBits)
    <3>1. pre = {q \in l * SlotBits .. k * SlotBits - 1 : q >= eof}
      BY <2>9 DEF Preset
    <3>2. \A q : q \in pre <=> q \in Nat /\ l * SlotBits <= q /\ q < k * SlotBits /\ q >= eof
      <4> DEFINE a == l * SlotBits
                 b == k * SlotBits
      <4>1. a \in Nat /\ b \in Nat
        BY <1>2, <2>5
      <4> HIDE DEF a, b
      <4>2. \A q : q \in a .. b - 1 <=> q \in Nat /\ a <= q /\ q < b
        BY <4>1
      <4> QED
        BY <3>1, <4>2 DEF a, b
    <3> HIDE DEF pre
    <3>3. p \in Window(r) /\ (p \in r.bits <=> desired)
      BY <2>4, <2>5 DEF WithBit, pre
    <3>4. \A q : q # p => (q \in r.bits <=> q \in mp.bits \/ q \in pre)
      BY <2>4 DEF WithBit, pre
    <3>5. ASSUME NEW q \in Window(r), q >= eof, q # p
          PROVE  q \in r.bits \/ q \in Window(mp) \ mp.bits
      <4>1. q \in Nat /\ q < k * SlotBits
        BY <2>5, <3>5
      <4>2. CASE q < l * SlotBits
        BY <1>2, <3>4, <3>5, <4>1, <4>2
      <4>3. CASE l * SlotBits <= q
        BY <3>2, <3>4, <3>5, <4>1, <4>3
      <4> QED
        BY <1>2, <4>1, <4>2, <4>3
    <3>6. \A q \in mp.bits : q # p => q \in r.bits
      BY <3>4
    <3>7. ASSUME NEW q \in r.bits, q # p
          PROVE  q \in mp.bits \/ (q >= eof /\ (mp.layout = "indirect" => l * SlotBits <= q))
      <4>1. q \in mp.bits \/ q \in pre
        BY <3>4, <3>7
      <4>2. q \in pre => q >= eof /\ l * SlotBits <= q
        BY <3>2
      <4> QED
        BY <4>1, <4>2
    <3> QED
      BY <3>3, <3>5, <3>6, <3>7
  <2>10. r.layout # mp.layout \/ k # l => InlineBits <= p
    BY <1>2, <1>3, <2>4
  <2> QED
    BY <2>4, <2>7, <2>8, <2>9, <2>10 DEF SetTo, l, k, r
<1> QED
  BY <1>4, <1>5

\* set on a map that is still inline.
LEMMA SetInline ==
  ASSUME NEW m \in Maps, NEW mp, Covers(m, mp), mp.layout = "inline", eof \in Nat,
         NEW p \in Nat, p >= 2, NEW desired \in BOOLEAN, NEW at \in Nat
  PROVE  SetTo(m, mp, SetBit(m, mp, p, desired, at), p, desired, at)
<1> DEFINE r == SetBit(m, mp, p, desired, at)
<1>1. /\ mp \in MapRecords /\ mp.refs = <<>> /\ mp.bits \subseteq Window(mp) /\ mp.bits \in SUBSET Nat
      /\ mp.base \in Nat /\ mp.base <= 2 /\ (m = Global => mp.base = 0)
      /\ mp = [layout |-> mp.layout, base |-> mp.base, refs |-> mp.refs, bits |-> mp.bits]
  BY References DEF Covers
<1>2. Len(mp.refs) = 0
  BY <1>1
<1>3. Window(mp) = mp.base .. mp.base + InlineBits - 1 /\ InlineBits \in Nat /\ SlotBits \in Nat
  BY UsageMapsAssumption DEF Window
<1>4. p \notin Window(mp) => InlineBits <= p
  BY <1>1, <1>3
<1>5. m = Global /\ InlineBits <= p => p \notin Window(mp)
  BY <1>1, <1>3
<1>6. CASE p \in Window(mp)
  <2>1. r = PutBit(mp, p, desired)
    BY <1>6 DEF SetBit, Represents
  <2>2. r = [mp EXCEPT !.bits = WithBit(mp.bits, p, desired)]
    BY <2>1 DEF PutBit, WithBit
  <2> HIDE DEF r
  <2>3. /\ r.layout = "inline" /\ r.base = mp.base /\ r.refs = <<>> /\ r.bits = WithBit(mp.bits, p, desired)
        /\ r = [layout |-> r.layout, base |-> r.base, refs |-> r.refs, bits |-> r.bits]
    BY <1>1, <2>2
  <2>4. Window(r) = Window(mp)
    BY <1>3, <2>3 DEF Window
  <2>5. r.bits \subseteq Window(r) /\ r.bits \in SUBSET Nat
    BY <1>1, <1>6, <2>3, <2>4 DEF WithBit
  <2>6. r \in MapRecords
    BY <1>1, <2>3, <2>5 DEF MapRecords
  <2>7. Covers(m, r)
    BY <1>1, <2>3, <2>5, <2>6 DEF Covers
  <2>8. Len(r.refs) = 0 /\ 0 <= 0 /\ 0 - 0 = 0 /\ 1 .. 0 = {}
    BY <2>3
  <2>9. ASSUME m = Global
        PROVE  /\ p \in Window(r) /\ (p \in r.bits <=> desired)
               /\ \A q \in mp.bits : q # p => q \in r.bits
               /\ \A q \in r.bits : q # p => q \in mp.bits
               /\ \A q \in Window(r) : q # p => q \in r.bits \/ q \in Window(mp) \ mp.bits
               /\ ~(InlineBits <= p)
    <3>1. p \in Window(r) /\ (p \in r.bits <=> desired)
      BY <1>6, <2>3, <2>4 DEF WithBit
    <3>2. \A q : q # p => (q \in r.bits <=> q \in mp.bits)
      BY <2>3 DEF WithBit
    <3> QED
      BY <1>5, <1>6, <2>4, <2>9, <3>1, <3>2
  <2> QED
    BY <1>2, <2>3, <2>7, <2>8, <2>9 DEF SetTo, r
<1>7. CASE p \notin Window(mp) /\ NoWindowNeeded(m, mp, p, desired)
  <2>1. r = mp
    BY <1>7 DEF SetBit, Represents
  <2>2. ~desired /\ m # Global /\ p \notin mp.bits
    BY <1>1, <1>7 DEF NoWindowNeeded
  <2>3. mp.bits = WithBit(mp.bits, p, desired)
    BY <2>2 DEF WithBit
  <2>4. 0 <= 0 /\ 0 - 0 = 0 /\ 1 .. 0 = {}
    OBVIOUS
  <2> QED
    BY <1>2, <2>1, <2>2, <2>3, <2>4 DEF SetTo
<1>8. CASE p \notin Window(mp) /\ ~NoWindowNeeded(m, mp, p, desired)
  <2> DEFINE c == Convert(m, mp, at)
             l == Len(c.refs)
             k == Len(r.refs)
  <2>1. r = PutBit(EnsureSlot(m, c, SlotOf(p) + 1, at + (Len(c.refs) - Len(mp.refs))), p, desired)
    BY <1>8 DEF SetBit, Represents
  <2>2. Converted(m, mp, c, at)
    BY <1>1, MapConverts
  <2> HIDE DEF c, r
  <2>3. /\ c \in MapRecords /\ c.layout = "indirect"
        /\ \A i \in 1 .. l : c.refs[i] = at + i - 1
        /\ c.bits = mp.bits \union Preset(m, 0, l * SlotBits)
        /\ \A q \in c.bits : q < l * SlotBits
    BY <2>2 DEF Converted
  <2>4. l \in Nat /\ at + (Len(c.refs) - Len(mp.refs)) = at + l /\ at + l \in Nat
    BY <1>2, <2>3, References
  <2> HIDE DEF l
  <2>5. Placed(m, c, r, p, desired, at + l)
    BY <2>1, <2>3, <2>4, BitPlaced, ZenonT(40) DEF l
  <2>6. /\ r \in MapRecords /\ r.layout = "indirect" /\ l <= k
        /\ \A i \in 1 .. l : r.refs[i] = c.refs[i]
        /\ \A i \in 1 .. k - l : r.refs[l + i] = at + l + i - 1
        /\ r.bits = WithBit(c.bits \union Preset(m, l * SlotBits, k * SlotBits), p, desired)
        /\ p < k * SlotBits
        /\ \A q \in r.bits : q < k * SlotBits
    BY <2>5 DEF Placed, l
  <2>7. k * SlotBits \in Nat /\ \A q : q \in Window(r) <=> q \in Nat /\ q < k * SlotBits
    BY <2>6, WindowOfIndirect
  <2>8. k \in Nat /\ l * SlotBits \in Nat /\ l * SlotBits <= k * SlotBits /\ r.bits \in SUBSET Nat
    <3>1. k \in Nat /\ r.bits \in SUBSET Nat
      BY <2>6, References
    <3> HIDE DEF k
    <3> QED
      BY <1>3, <2>4, <2>6, <3>1, Products
  <2> HIDE DEF k
  <2>9. Covers(m, r)
    <3>1. InlineBits <= k * SlotBits
      BY <1>3, <1>4, <1>8, <2>6, <2>7
    <3> QED
      BY <2>6, <2>7, <2>8, <3>1 DEF Covers, k
  <2>10. \A i \in 1 .. k : r.refs[i] = at + i - 1
    <3> SUFFICES ASSUME NEW i \in 1 .. k
                 PROVE  r.refs[i] = at + i - 1
      OBVIOUS
    <3>1. CASE i <= l
      BY <2>3, <2>4, <2>6, <2>8, <3>1
    <3>2. CASE l < i
      <4>1. i - l \in 1 .. k - l /\ l + (i - l) = i /\ at + l + (i - l) - 1 = at + i - 1
        BY <2>4, <2>8, <3>2
      <4>2. r.refs[l + (i - l)] = at + l + (i - l) - 1
        BY <2>6, <4>1
      <4> QED
        BY <4>1, <4>2
    <3> QED
      BY <2>4, <2>8, <3>1, <3>2
  <2>11. ASSUME m # Global
         PROVE  r.bits = WithBit(mp.bits, p, desired)
    <3>1. Preset(m, l * SlotBits, k * SlotBits) = {} /\ Preset(m, 0, l * SlotBits) = {}
      BY <2>11 DEF Preset
    <3> QED
      BY <2>3, <2>6, <3>1
  <2>12. ASSUME m = Global
         PROVE  /\ p \in Window(r) /\ (p \in r.bits <=> desired)
                /\ \A q \in mp.bits : q # p => q \in r.bits
                /\ \A q \in r.bits : q # p => q \in mp.bits \/ q >= eof
                /\ \A q \in Window(r) : q >= eof /\ q # p => q \in r.bits
    <3> DEFINE pre == Preset(m, 0, l * SlotBits) \union Preset(m, l * SlotBits, k * SlotBits)
    <3>1. \A q : q \in pre <=> q \in Nat /\ q < k * SlotBits /\ q >= eof
      <4> DEFINE a == l * SlotBits
                 b == k * SlotBits
      <4>1. a \in Nat /\ b \in Nat /\ a <= b
        BY <2>7, <2>8
      <4>2. pre = {q \in 0 .. a - 1 : q >= eof} \union {q \in a .. b - 1 : q >= eof}
        BY <2>12 DEF Preset
      <4> HIDE DEF a, b, pre
      <4>3. \A q : q \in 0 .. a - 1 \/ q \in a .. b - 1 <=> q \in Nat /\ q < b
        BY <4>1
      <4> QED
        BY <4>2, <4>3 DEF b
    <3>2. p \in Window(r) /\ (p \in r.bits <=> desired)
      BY <2>6, <2>7 DEF WithBit
    <3>3. \A q : q # p => (q \in r.bits <=> q \in mp.bits \/ q \in pre)
      BY <2>3, <2>6 DEF WithBit
    <3> HIDE DEF pre
    <3>4. ASSUME NEW q \in Window(r), q >= eof, q # p
          PROVE  q \in r.bits
      <4>1. q \in Nat /\ q < k * SlotBits
        BY <2>7, <3>4
      <4> QED
        BY <3>1, <3>3, <3>4, <4>1
    <3>5. ASSUME NEW q \in r.bits, q # p
          PROVE  q \in mp.bits \/ q >= eof
      BY <3>1, <3>3, <3>5
    <3>6. \A q \in mp.bits : q # p => q \in r.bits
      BY <3>3
    <3> QED
      BY <3>2, <3>4, <3>5, <3>6
  <2>13. InlineBits <= p
    BY <1>4, <1>8
  <2>14. 0 <= k /\ k - 0 = k /\ 1 .. 0 = {} /\ \A i \in 1 .. k : 0 + i = i
    BY <2>8
  <2> QED
    BY <1>2, <2>6, <2>9, <2>10, <2>11, <2>12, <2>13, <2>14 DEF SetTo, k, r
<1> QED
  BY <1>6, <1>7, <1>8

\* set, on any map of the file.
LEMMA BitSet ==
  ASSUME NEW m \in Maps, NEW mp, Covers(m, mp), eof \in Nat,
         NEW p \in Nat, p >= 2, NEW desired \in BOOLEAN, NEW at \in Nat
  PROVE  SetTo(m, mp, SetBit(m, mp, p, desired, at), p, desired, at)
<1>1. mp.layout \in {"inline", "indirect"}
  BY References DEF Covers
<1> QED
  BY <1>1, SetInline, SetIndirect

-----------------------------------------------------------------------------
(* The file and the plan. *)

\* No inline window starts after the first page a table can take.
WindowsFromTheStart == Bases \subseteq 0 .. 2

Uses == Roles \union {"meta", "free", "bitmap"}
ChangeRecords == [page : Nat, desired : BOOLEAN]

\* The pages of a file of n pages and the bitmap pages among them.
PagesUsed(n, f) == n \in Nat /\ n >= 2 /\ f \in [0 .. n - 1 -> Uses] /\ f[0] = "meta" /\ f[1] = "meta"
RefsPlaced(mp, n, f) ==
  /\ \A i, j \in DOMAIN mp.refs : mp.refs[i] = mp.refs[j] => i = j
  /\ \A i \in DOMAIN mp.refs : mp.refs[i] \in 0 .. n - 1 /\ f[mp.refs[i]] = "bitmap"
RefsApart(ms) ==
  \A m, o \in Maps : m # o => \A i \in DOMAIN ms[m].refs, j \in DOMAIN ms[o].refs : ms[m].refs[i] # ms[o].refs[j]
MapsFit(ms, n, f) ==
  /\ ms = [m \in Maps |-> ms[m]]
  /\ \A m \in Maps : Covers(m, ms[m]) /\ RefsPlaced(ms[m], n, f)
  /\ RefsApart(ms)

\* EveryPageAccounted of a file of n pages, their uses f and the maps ms.
Accounted(n, f, ms) ==
  /\ \A m \in Roles : ms[m].bits = {p \in DOMAIN f : f[p] = m}
  /\ \A p \in DOMAIN f : p \in ms[Global].bits <=> f[p] = "free"
  /\ \A p \in Window(ms[Global]) : p >= n => p \in ms[Global].bits

FileInv(n, f, ms) ==
  /\ PagesUsed(n, f) /\ MapsFit(ms, n, f)
  /\ Accounted(n, f, ms)
  /\ ms[Global].layout = "inline" => n <= InlineBits

\* What a list of changes says of a page, and whether the plan leaves it in a map with
\* the members bits.
Has(list, p) == \E i \in DOMAIN list : list[i].page = p
Wants(list, p) == \E i \in DOMAIN list : list[i].page = p /\ list[i].desired
Final(list, bits, p) == Wants(list, p) \/ (~Has(list, p) /\ p \in bits)

\* A plan on a file of e pages: n pages with the uses f, the maps ms and the changes
\* ch still to be applied to them.
RoleFits(m, n, f, list, bits) ==
  (\A p \in bits : p < n) /\ (\A p \in 0 .. n - 1 : Final(list, bits, p) <=> f[p] = m)
RolesPlanned(n, f, ms, ch) ==
  \A m \in Roles : RoleFits(m, n, f, ch[m], ms[m].bits)
FreePlanned(e, n, f, ms, ch) ==
  /\ \A p \in e .. n - 1 : f[p] # "free"
  /\ \A p \in 0 .. e - 1 : Final(ch[Global], ms[Global].bits, p) <=> f[p] = "free"
  /\ \A p \in Window(ms[Global]) : p >= n => p \in ms[Global].bits
WorkInv(e, n, f, ms, ch) ==
  /\ PagesUsed(n, f) /\ MapsFit(ms, n, f) /\ e <= n
  /\ RolesPlanned(n, f, ms, ch) /\ FreePlanned(e, n, f, ms, ch)

\* One entry per page, and a page of the plan.
Listed(list, n) ==
  /\ list \in Seq(ChangeRecords)
  /\ \A i \in DOMAIN list : list[i].page \in 2 .. n - 1
  /\ \A i, j \in DOMAIN list : list[i].page = list[j].page => i = j
ChangesInv(n, ch) == ch = [m \in Maps |-> ch[m]] /\ \A m \in Maps : Listed(ch[m], n)

\* A page a table wants is in the global map's list too: so the global map is converted
\* by its list before the final loop, if the file grows beyond its window.
Mirrored(ch) == \A m \in Roles : \A p : Has(ch[m], p) => Has(ch[Global], p)
Beyond(ch) == \E p \in Nat : Has(ch[Global], p) /\ p >= InlineBits
PendingInv(n, ms, ch) == Mirrored(ch) /\ (ms[Global].layout = "inline" => n <= InlineBits \/ Beyond(ch))

\* The final loop at page k: what it passed stays clear.
IncludeInv(e, n, ms, ch, k) ==
  /\ \A m \in Maps : ch[m] = <<>>
  /\ k \in e .. n
  /\ ms[Global].layout = "inline" => n <= InlineBits
  /\ \A p \in e .. k - 1 : p \notin ms[Global].bits
  /\ ms[Global].layout = "indirect" /\ e < k => k <= Len(ms[Global].refs) * SlotBits

IInv ==
  /\ pc \in {"plan", "tables", "include"} /\ (pc = "plan" => work = maps)
  /\ FileInv(eof, used, maps)
  /\ WorkInv(eof, next, placed, work, changes) /\ ChangesInv(next, changes)
  /\ pc \in {"plan", "tables"} => PendingInv(next, work, changes)
  /\ pc = "include" => IncludeInv(eof, next, work, changes, number)

NoChanges == [m \in Maps |-> <<>>]

\* A plan whose changes are not all applied.
Planned(e, n, f, ms, ch) == WorkInv(e, n, f, ms, ch) /\ ChangesInv(n, ch) /\ PendingInv(n, ms, ch)

\* The published file is what the next plan starts from.
LEMMA PlanStarts ==
  ASSUME NEW n, NEW f, NEW ms, FileInv(n, f, ms)
  PROVE  Planned(n, n, f, ms, NoChanges)
<1>1. PagesUsed(n, f) /\ MapsFit(ms, n, f) /\ Accounted(n, f, ms)
      /\ (ms[Global].layout = "inline" => n <= InlineBits)
  BY DEF FileInv
<1>2. n \in Nat /\ InlineBits \in Nat /\ DOMAIN f = 0 .. n - 1
  BY <1>1, UsageMapsAssumption DEF PagesUsed
<1>3. \A m \in Maps : NoChanges[m] = <<>> /\ DOMAIN NoChanges[m] = {}
  <2>1. \A m \in Maps : NoChanges[m] = <<>>
    BY DEF NoChanges
  <2>2. DOMAIN <<>> = {}
    OBVIOUS
  <2> QED
    BY <2>1, <2>2
<1>4. Global \in Maps /\ Roles \subseteq Maps
  BY DEF Maps
<1>5. \A m \in Maps : \A p : Final(NoChanges[m], ms[m].bits, p) <=> p \in ms[m].bits
  BY <1>3 DEF Final, Has, Wants
<1>6. RolesPlanned(n, f, ms, NoChanges)
  <2> SUFFICES ASSUME NEW m \in Roles
               PROVE  /\ \A p \in ms[m].bits : p < n
                      /\ \A p \in 0 .. n - 1 : Final(NoChanges[m], ms[m].bits, p) <=> f[p] = m
    BY DEF RolesPlanned, RoleFits
  <2>1. ms[m].bits = {p \in 0 .. n - 1 : f[p] = m}
    BY <1>1, <1>2 DEF Accounted
  <2>2. \A p \in 0 .. n - 1 : p < n
    BY <1>2
  <2>3. \A p : Final(NoChanges[m], ms[m].bits, p) <=> p \in ms[m].bits
    BY <1>4, <1>5
  <2> QED
    BY <2>1, <2>2, <2>3
<1>7. FreePlanned(n, n, f, ms, NoChanges)
  <2>1. \A p \in n .. n - 1 : FALSE
    BY <1>2
  <2>2. \A p \in 0 .. n - 1 : Final(NoChanges[Global], ms[Global].bits, p) <=> f[p] = "free"
    BY <1>1, <1>2, <1>4, <1>5 DEF Accounted
  <2>3. \A p \in Window(ms[Global]) : p >= n => p \in ms[Global].bits
    BY <1>1 DEF Accounted
  <2> QED
    BY <2>1, <2>2, <2>3 DEF FreePlanned
<1>8. WorkInv(n, n, f, ms, NoChanges)
  BY <1>1, <1>2, <1>6, <1>7 DEF WorkInv
<1>9. ChangesInv(n, NoChanges)
  <2>1. <<>> \in Seq(ChangeRecords) /\ DOMAIN <<>> = {}
    OBVIOUS
  <2>2. NoChanges = [m \in Maps |-> NoChanges[m]]
    BY DEF NoChanges
  <2> QED
    BY <1>3, <2>1, <2>2 DEF ChangesInv, Listed
<1>10. PendingInv(n, ms, NoChanges)
  BY <1>1, <1>3, <1>4 DEF PendingInv, Mirrored, Has
<1> QED
  BY <1>8, <1>9, <1>10 DEF Planned

\* The maps of a new file.
LEMMA Starts ==
  ASSUME WindowsFromTheStart, Init
  PROVE  IInv
<1>1. PICK base \in [Roles -> Bases] :
        maps = [m \in Maps |-> IF m = Global THEN InlineMap(0, 2 .. InlineBits - 1) ELSE InlineMap(base[m], {})]
  BY DEF Init
<1>2. /\ eof = 2 /\ used = [p \in {0, 1} |-> "meta"] /\ pc = "plan" /\ next = eof /\ placed = used /\ work = maps
      /\ changes = [m \in Maps |-> <<>>]
  BY DEF Init
<1>3. InlineBits \in Nat /\ InlineBits >= 2 /\ SlotBits \in Nat /\ Global \in Maps /\ Roles \subseteq Maps
  BY UsageMapsAssumption DEF Maps
<1>4. /\ Global \notin Roles
      /\ \A m \in Roles : m \in Maps /\ m # Global /\ m # "meta" /\ m # "free" /\ m # "bitmap"
  BY UsageMapsAssumption DEF Maps
<1>5. PagesUsed(eof, used)
  <2>1. {0, 1} = 0 .. 2 - 1
    OBVIOUS
  <2>2. used \in [0 .. 2 - 1 -> Uses] /\ used[0] = "meta" /\ used[1] = "meta"
    BY <1>2, <2>1 DEF Uses
  <2> QED
    BY <1>2, <2>2 DEF PagesUsed
<1>6. maps[Global] = InlineMap(0, 2 .. InlineBits - 1)
  BY <1>1, <1>3
<1>7. \A m \in Roles : maps[m] = InlineMap(base[m], {}) /\ base[m] \in 0 .. 2
  BY <1>1, <1>4 DEF WindowsFromTheStart
<1>8. Covers(Global, maps[Global])
  <2> DEFINE mp == maps[Global]
  <2>1. mp.layout = "inline" /\ mp.base = 0 /\ mp.refs = <<>> /\ mp.bits = 2 .. InlineBits - 1
    BY <1>6 DEF InlineMap
  <2>2. mp \in MapRecords
    BY <1>3, <1>6 DEF InlineMap, MapRecords
  <2>3. mp.bits \subseteq Window(mp)
    BY <1>3, <2>1 DEF Window
  <2> QED
    BY <2>1, <2>2, <2>3 DEF Covers
<1>9. ASSUME NEW m \in Roles
      PROVE  Covers(m, maps[m]) /\ maps[m].bits = {} /\ maps[m].refs = <<>>
  <2> DEFINE mp == maps[m]
             b == base[m]
  <2> HIDE DEF mp, b
  <2>3. mp = InlineMap(b, {}) /\ b \in 0 .. 2
    BY <1>7, <1>9 DEF mp, b
  <2>1. mp.layout = "inline" /\ mp.base \in 0 .. 2 /\ mp.refs = <<>> /\ mp.bits = {}
    BY <2>3 DEF InlineMap
  <2>2. mp \in MapRecords
    BY <2>3 DEF InlineMap, MapRecords
  <2> QED
    BY <1>4, <2>1, <2>2 DEF Covers, mp
<1>10. \A m \in Maps : Covers(m, maps[m]) /\ maps[m].refs = <<>> /\ DOMAIN maps[m].refs = {}
  <2>1. maps[Global].refs = <<>> /\ DOMAIN <<>> = {}
    BY <1>6 DEF InlineMap
  <2> QED
    BY <1>8, <1>9, <2>1 DEF Maps
<1>11. MapsFit(maps, eof, used)
  <2>1. maps = [m \in Maps |-> maps[m]]
    BY <1>1
  <2> QED
    BY <1>10, <2>1 DEF MapsFit, RefsPlaced, RefsApart
<1>12. Accounted(eof, used, maps)
  <2>1. ASSUME NEW m \in Roles
        PROVE  maps[m].bits = {p \in DOMAIN used : used[p] = m}
    BY <1>2, <1>4, <1>9
  <2>2. \A p \in DOMAIN used : p \in maps[Global].bits <=> used[p] = "free"
    <3>1. maps[Global].bits = 2 .. InlineBits - 1
      BY <1>6 DEF InlineMap
    <3>2. 0 \notin 2 .. InlineBits - 1 /\ 1 \notin 2 .. InlineBits - 1
      BY <1>3
    <3> QED
      BY <1>2, <3>1, <3>2
  <2>3. \A p \in Window(maps[Global]) : p >= eof => p \in maps[Global].bits
    BY <1>2, <1>3, <1>6 DEF Window, InlineMap
  <2> QED
    BY <2>1, <2>2, <2>3 DEF Accounted
<1>13. FileInv(eof, used, maps)
  BY <1>2, <1>3, <1>5, <1>11, <1>12 DEF FileInv
<1>14. Planned(eof, eof, used, maps, NoChanges)
  BY <1>13, PlanStarts
<1> QED
  BY <1>2, <1>13, <1>14 DEF IInv, Planned, NoChanges

\* The checks of the next plan accept a file whose pages are accounted for.
LEMMA GuardPasses ==
  ASSUME FileInv(eof, used, maps)
  PROVE  GuardAccepts
<1>1. PagesUsed(eof, used) /\ MapsFit(maps, eof, used) /\ Accounted(eof, used, maps)
  BY DEF FileInv
<1>2. eof \in Nat /\ eof >= 2 /\ DOMAIN used = 0 .. eof - 1 /\ used[0] = "meta" /\ used[1] = "meta"
  BY <1>1 DEF PagesUsed
<1>3. \A m \in Maps : RefsPlaced(maps[m], eof, used) /\ maps[m] \in MapRecords
  BY <1>1 DEF MapsFit, Covers
<1>4. \A m \in Roles : m # "meta" /\ m # "bitmap"
  BY UsageMapsAssumption
<1>5. ASSUME NEW m \in Maps, NEW p \in BitmapPages(maps[m])
      PROVE  p \in 0 .. eof - 1 /\ used[p] = "bitmap" /\ p # 1 /\ p < eof
  <2>1. p \in 0 .. eof - 1 /\ used[p] = "bitmap"
    BY <1>3, <1>5 DEF BitmapPages, RefsPlaced
  <2> QED
    BY <1>2, <2>1
<1>6. \A m \in Maps : Loads(maps[m])
  BY <1>3, <1>5 DEF Loads, RefsPlaced, MapRowPage
<1>7. ASSUME NEW m \in Maps, NEW p \in Metadata(maps[m])
      PROVE  p \in DOMAIN used /\ used[p] \in {"meta", "bitmap"}
  <2>1. p = 1 \/ p \in BitmapPages(maps[m])
    BY <1>7 DEF Metadata, MapRowPage
  <2> QED
    BY <1>2, <1>5, <2>1
<1>8. \A m \in Maps : \A p \in Metadata(maps[m]) : ~Contains(maps[Global], p)
  BY <1>1, <1>7 DEF Accounted, Contains
<1>9. \A m, o \in Maps : m # o => BitmapPages(maps[m]) \intersect BitmapPages(maps[o]) = {}
  BY <1>1 DEF MapsFit, RefsApart, BitmapPages
<1>10. \A m \in Maps, r \in Roles : \A p \in Metadata(maps[m]) : ~Contains(maps[r], p)
  BY <1>1, <1>4, <1>7 DEF Accounted, Contains
<1> QED
  BY <1>6, <1>8, <1>9, <1>10 DEF GuardAccepts

-----------------------------------------------------------------------------
(* The list of changes. *)

\* A list in which page p is wanted as desired, all others as before.
Changed(list, new, p, desired, n) ==
  /\ Listed(new, n) /\ Has(new, p) /\ (Wants(new, p) <=> desired)
  /\ \A q : q # p => (Has(new, q) <=> Has(list, q)) /\ (Wants(new, q) <=> Wants(list, q))

\* PendingMap::change keeps one entry per page.
LEMMA ChangeKept ==
  ASSUME NEW m \in Maps, NEW n \in Nat, Listed(changes[m], n), NEW k \in Nat, n <= k,
         NEW p \in 2 .. k - 1, NEW desired \in BOOLEAN
  PROVE  Changed(changes[m], Change(m, p, desired), p, desired, k)
<1> DEFINE list == changes[m]
           entry == [page |-> p, desired |-> desired]
           new == Change(m, p, desired)
<1>1. list \in Seq(ChangeRecords) /\ Len(list) \in Nat /\ DOMAIN list = 1 .. Len(list)
  BY DEF Listed
<1>2. \A i \in DOMAIN list : list[i].page \in 2 .. k - 1 /\ list[i] \in ChangeRecords
  BY <1>1 DEF Listed
<1>3. \A i, j \in DOMAIN list : list[i].page = list[j].page => i = j
  BY DEF Listed
<1>4. entry \in ChangeRecords /\ entry.page = p /\ entry.desired = desired
  BY DEF ChangeRecords
<1>5. Has(list, p) <=> Recorded(m, p) # {}
  BY DEF Has, Recorded
<1> HIDE DEF entry
<1>6. CASE Has(list, p)
  <2>1. PICK x \in DOMAIN list : list[x].page = p
    BY <1>6 DEF Has
  <2>2. Recorded(m, p) = {x}
    BY <1>3, <2>1 DEF Recorded
  <2>3. new = [i \in DOMAIN list |-> IF i = x THEN entry ELSE list[i]]
    BY <2>2 DEF Change, entry
  <2> HIDE DEF new
  <2>4. DOMAIN new = DOMAIN list /\ \A i \in DOMAIN list : new[i] = IF i = x THEN entry ELSE list[i]
    BY <2>3
  <2>5. new \in Seq(ChangeRecords)
    BY <1>1, <1>2, <1>4, <2>3
  <2>6. \A i \in DOMAIN new : new[i].page = list[i].page
    BY <1>4, <2>1, <2>4
  <2>7. Listed(new, k)
    BY <1>2, <1>3, <2>4, <2>5, <2>6 DEF Listed
  <2>8. Has(new, p) /\ (Wants(new, p) <=> desired)
    BY <1>3, <1>4, <2>1, <2>4, <2>6 DEF Has, Wants
  <2>9. \A q : q # p => (Has(new, q) <=> Has(list, q))
    BY <2>4, <2>6 DEF Has
  <2>10. \A q : q # p => (Wants(new, q) <=> Wants(list, q))
    BY <1>4, <2>1, <2>4, <2>6 DEF Wants
  <2> QED
    BY <2>7, <2>8, <2>9, <2>10 DEF Changed, new
<1>7. CASE ~Has(list, p)
  <2> DEFINE l == Len(list)
  <2>1. new = Append(list, entry)
    BY <1>5, <1>7 DEF Change, entry
  <2> HIDE DEF new, list
  <2>2. /\ new \in Seq(ChangeRecords) /\ Len(new) = l + 1 /\ new[l + 1] = entry
        /\ \A i \in 1 .. l : new[i] = list[i]
    BY <1>1, <1>4, <2>1
  <2> HIDE DEF l
  <2>3. DOMAIN new = 1 .. l + 1 /\ l \in Nat /\ DOMAIN list = 1 .. l
    BY <1>1, <2>2 DEF l
  <2>4. \A i \in DOMAIN new : i = l + 1 \/ i \in DOMAIN list
    BY <2>3
  <2>5. DOMAIN list \subseteq DOMAIN new /\ l + 1 \in DOMAIN new /\ l + 1 \notin DOMAIN list
    BY <2>3
  <2>6. \A i \in DOMAIN list : new[i] = list[i] /\ list[i].page # p
    BY <1>7, <2>2, <2>3 DEF Has
  <2>7. Listed(new, k)
    <3>1. \A i \in DOMAIN new : new[i].page \in 2 .. k - 1
      BY <1>2, <1>4, <2>2, <2>4, <2>6
    <3>2. \A i, j \in DOMAIN new : new[i].page = new[j].page => i = j
      BY <1>3, <1>4, <2>2, <2>4, <2>6
    <3> QED
      BY <2>2, <3>1, <3>2 DEF Listed
  <2>8. Has(new, p) /\ (Wants(new, p) <=> desired)
    BY <1>4, <2>2, <2>4, <2>5, <2>6 DEF Has, Wants
  <2>9. \A q : q # p => (Has(new, q) <=> Has(list, q))
    BY <1>4, <2>2, <2>4, <2>5, <2>6 DEF Has
  <2>10. \A q : q # p => (Wants(new, q) <=> Wants(list, q))
    BY <1>4, <2>2, <2>4, <2>5, <2>6 DEF Wants
  <2> QED
    BY <2>7, <2>8, <2>9, <2>10 DEF Changed, new, list
<1> QED
  BY <1>6, <1>7

\* A list without its first change.
Shorter(list, new, p, desired, n) ==
  /\ Listed(new, n) /\ p \in 2 .. n - 1 /\ desired \in BOOLEAN
  /\ Has(list, p) /\ (Wants(list, p) <=> desired) /\ ~Has(new, p)
  /\ \A q : q # p => (Has(new, q) <=> Has(list, q)) /\ (Wants(new, q) <=> Wants(list, q))

\* The first change is the only one of its page.
LEMMA FirstTaken ==
  ASSUME NEW list, NEW n \in Nat, Listed(list, n), list # <<>>
  PROVE  Shorter(list, Tail(list), Head(list).page, Head(list).desired, n)
<1> DEFINE new == Tail(list)
           l == Len(list)
           h == list[1]
<1>1. list \in Seq(ChangeRecords) /\ l \in Nat /\ DOMAIN list = 1 .. l
  BY DEF Listed
<1>2. l > 0 /\ Head(list) = h /\ new \in Seq(ChangeRecords) /\ Len(new) = l - 1
  BY <1>1
<1>3. \A i \in 1 .. l - 1 : new[i] = list[i + 1]
  BY <1>1, <1>2
<1> HIDE DEF new, l
<1>4. DOMAIN new = 1 .. l - 1 /\ 1 \in DOMAIN list
  BY <1>1, <1>2
<1>5. \A i \in DOMAIN new : i + 1 \in DOMAIN list /\ i + 1 # 1
  BY <1>1, <1>2, <1>4
<1>6. \A i \in DOMAIN list : i = 1 \/ (i - 1 \in DOMAIN new /\ new[i - 1] = list[i])
  <2> SUFFICES ASSUME NEW i \in DOMAIN list, i # 1
               PROVE  i - 1 \in DOMAIN new /\ new[i - 1] = list[i]
    OBVIOUS
  <2>1. i - 1 \in 1 .. l - 1 /\ (i - 1) + 1 = i
    BY <1>1, <1>2
  <2> QED
    BY <1>3, <1>4, <2>1
<1>7. \A i, j \in DOMAIN list : list[i].page = list[j].page => i = j
  BY DEF Listed
<1>8. \A i \in DOMAIN list : list[i] \in ChangeRecords /\ list[i].page \in 2 .. n - 1
  BY <1>1 DEF Listed
<1>9. Listed(new, n)
  <2>1. \A i \in DOMAIN new : new[i].page \in 2 .. n - 1
    BY <1>3, <1>4, <1>5, <1>8
  <2>2. ASSUME NEW i \in DOMAIN new, NEW j \in DOMAIN new, new[i].page = new[j].page
        PROVE  i = j
    <3>1. list[i + 1].page = list[j + 1].page /\ i + 1 \in DOMAIN list /\ j + 1 \in DOMAIN list /\ i \in Nat /\ j \in Nat
      BY <1>2, <1>3, <1>4, <1>5, <2>2
    <3>2. i + 1 = j + 1
      BY <1>7, <3>1
    <3> QED
      BY <3>1, <3>2
  <2> QED
    BY <1>2, <2>1, <2>2 DEF Listed
<1>10. h.page \in 2 .. n - 1 /\ h.desired \in BOOLEAN
  BY <1>4, <1>8 DEF ChangeRecords
<1>11. Has(list, h.page) /\ (Wants(list, h.page) <=> h.desired)
  BY <1>4, <1>7 DEF Has, Wants
<1>12. ~Has(new, h.page)
  BY <1>3, <1>4, <1>5, <1>7 DEF Has
<1>13. \A q : q # h.page => (Has(new, q) <=> Has(list, q))
  BY <1>3, <1>4, <1>5, <1>6 DEF Has
<1>14. \A q : q # h.page => (Wants(new, q) <=> Wants(list, q))
  BY <1>3, <1>4, <1>5, <1>6 DEF Wants
<1> QED
  BY <1>2, <1>9, <1>10, <1>11, <1>12, <1>13, <1>14 DEF Shorter, new

-----------------------------------------------------------------------------
(* Planning. *)

\* While planning, the membership map_bit looks at is the one the plan leaves; a page
\* beyond the end of the file can be free only through its window.
LEMMA OldIsFinal ==
  ASSUME IInv, pc = "plan", NEW m \in Maps, NEW p \in Nat, m # Global \/ p < eof
  PROVE  Old(m, p) <=> Final(changes[m], work[m].bits, p)
<1>1. work = maps /\ Listed(changes[m], next) /\ eof \in Nat
  BY DEF IInv, ChangesInv, FileInv, PagesUsed
<1>2. ~(m = Global /\ p >= eof /\ ~Represents(maps[m], p))
  BY <1>1
<1>3. CASE Recorded(m, p) = {}
  BY <1>1, <1>2, <1>3 DEF Old, Final, Has, Wants, Recorded, Contains
<1>4. CASE Recorded(m, p) # {}
  <2> DEFINE x == CHOOSE i \in Recorded(m, p) : TRUE
  <2>1. x \in Recorded(m, p)
    BY <1>4
  <2>2. Old(m, p) = changes[m][x].desired
    BY <1>4 DEF Old
  <2> HIDE DEF x
  <2>3. x \in DOMAIN changes[m] /\ changes[m][x].page = p
    BY <2>1 DEF Recorded
  <2>4. \A i \in DOMAIN changes[m] : changes[m][i].page = p => i = x
    BY <1>1, <2>3 DEF Listed
  <2>5. Has(changes[m], p) /\ (Wants(changes[m], p) <=> changes[m][x].desired)
    BY <2>3, <2>4 DEF Has, Wants
  <2> QED
    BY <2>2, <2>5 DEF Final
<1> QED
  BY <1>3, <1>4

\* Page p of k pages moves to the map m, or from it to the free ones.
Moves(e, n, f, ms, ch, m, k, p, desired, g, new) ==
  /\ k = n \/ k = n + 1
  /\ p \in 2 .. k - 1
  /\ g = [q \in 0 .. k - 1 |-> IF q = p THEN (IF desired THEN m ELSE "free") ELSE f[q]]
  /\ new = [o \in Maps |-> new[o]]
  /\ Changed(ch[m], new[m], p, desired, k) /\ Changed(ch[Global], new[Global], p, ~desired, k)
  /\ \A o \in Maps : o # m /\ o # Global => new[o] = ch[o]
  /\ \A o \in Roles : o # m => ~Final(ch[o], ms[o].bits, p)
  /\ p < e => f[p] # "bitmap" /\ k = n
  /\ p >= e => p = n /\ k = n + 1 /\ desired

\* The page was in no other map, so every page stays in one use.
LEMMA MoveKeeps ==
  ASSUME NEW e \in Nat, NEW n \in Nat, NEW f, NEW ms, NEW ch, NEW m \in Roles, NEW k \in Nat, NEW p \in Nat,
         NEW desired \in BOOLEAN, NEW g, NEW new,
         Planned(e, n, f, ms, ch), Moves(e, n, f, ms, ch, m, k, p, desired, g, new)
  PROVE  Planned(e, k, g, ms, new)
<1> USE DEF Moves
<1> DEFINE wanted == IF desired THEN m ELSE "free"
<1>1. /\ PagesUsed(n, f) /\ MapsFit(ms, n, f) /\ e <= n /\ RolesPlanned(n, f, ms, ch) /\ FreePlanned(e, n, f, ms, ch)
      /\ ChangesInv(n, ch) /\ PendingInv(n, ms, ch)
  BY DEF Planned, WorkInv
<1>2. n >= 2 /\ f \in [0 .. n - 1 -> Uses] /\ f[0] = "meta" /\ f[1] = "meta"
  BY <1>1 DEF PagesUsed
<1>3. /\ m \in Maps /\ Global \in Maps /\ m # Global /\ m # "free" /\ m # "bitmap" /\ m \in Uses /\ "free" \in Uses
      /\ \A o \in Roles : o \in Maps /\ o # Global /\ o # "free"
  BY UsageMapsAssumption DEF Maps, Uses
<1>4. k >= 2 /\ n <= k /\ 2 .. n - 1 \subseteq 2 .. k - 1 /\ 0 .. n - 1 \subseteq 0 .. k - 1 /\ p \in 0 .. k - 1
      /\ p # 0 /\ p # 1 /\ 0 \in 0 .. k - 1 /\ 1 \in 0 .. k - 1
  BY <1>2
<1>5. /\ DOMAIN g = 0 .. k - 1 /\ g[p] = wanted
      /\ \A q \in 0 .. k - 1 : q # p => q \in 0 .. n - 1 /\ g[q] = f[q]
  <2>1. \A q \in 0 .. k - 1 : q # p => q \in 0 .. n - 1
    OBVIOUS
  <2> QED
    BY <1>4, <2>1
<1>6. PagesUsed(k, g)
  <2>1. g[0] = "meta" /\ g[1] = "meta"
    BY <1>2, <1>4, <1>5
  <2>2. \A q \in 0 .. k - 1 : g[q] \in Uses
    BY <1>2, <1>3, <1>5
  <2>3. g \in [0 .. k - 1 -> Uses]
    BY <1>5, <2>2
  <2> QED
    BY <1>4, <2>1, <2>3 DEF PagesUsed
<1>7. \A q \in 0 .. n - 1 : f[q] = "bitmap" => q \in 0 .. k - 1 /\ g[q] = "bitmap"
  <2> SUFFICES ASSUME NEW q \in 0 .. n - 1, f[q] = "bitmap"
               PROVE  q \in 0 .. k - 1 /\ g[q] = "bitmap"
    OBVIOUS
  <2>1. q # p
    OBVIOUS
  <2> QED
    BY <1>4, <1>5, <2>1
<1>8. MapsFit(ms, k, g)
  <2>1. ASSUME NEW o \in Maps
        PROVE  RefsPlaced(ms[o], k, g)
    <3>1. RefsPlaced(ms[o], n, f)
      BY <1>1 DEF MapsFit
    <3> QED
      BY <1>7, <3>1 DEF RefsPlaced
  <2> QED
    BY <1>1, <2>1 DEF MapsFit
<1>9. ASSUME NEW o \in Maps
      PROVE  Listed(new[o], k)
  <2>1. CASE o = m \/ o = Global
    BY <2>1 DEF Changed
  <2>2. CASE o # m /\ o # Global
    <3>1. Listed(ch[o], n) /\ new[o] = ch[o]
      BY <1>1, <2>2 DEF ChangesInv
    <3> QED
      BY <1>4, <3>1 DEF Listed
  <2> QED
    BY <2>1, <2>2
<1>10. ChangesInv(k, new)
  BY <1>9 DEF ChangesInv
<1>11. /\ Final(new[m], ms[m].bits, p) <=> desired
       /\ Final(new[Global], ms[Global].bits, p) <=> ~desired
       /\ \A q : q # p => (Final(new[m], ms[m].bits, q) <=> Final(ch[m], ms[m].bits, q))
       /\ \A q : q # p => (Final(new[Global], ms[Global].bits, q) <=> Final(ch[Global], ms[Global].bits, q))
  BY DEF Changed, Final
<1>12. RolesPlanned(k, g, ms, new)
  <2> SUFFICES ASSUME NEW o \in Roles
               PROVE  /\ \A q \in ms[o].bits : q < k
                      /\ \A q \in 0 .. k - 1 : Final(new[o], ms[o].bits, q) <=> g[q] = o
    BY DEF RolesPlanned, RoleFits
  <2>1. /\ \A q \in ms[o].bits : q < n
        /\ \A q \in 0 .. n - 1 : Final(ch[o], ms[o].bits, q) <=> f[q] = o
    BY <1>1 DEF RolesPlanned, RoleFits
  <2>2. \A q \in ms[o].bits : q < k
    <3>1. \A q \in ms[o].bits : q \in Nat
      BY <1>1, <1>3, References DEF MapsFit, Covers
    <3> QED
      BY <1>4, <2>1, <3>1
  <2>3. ASSUME NEW q \in 0 .. k - 1, q # p
        PROVE  Final(new[o], ms[o].bits, q) <=> g[q] = o
    <3>1. q \in 0 .. n - 1 /\ g[q] = f[q]
      BY <1>5, <2>3
    <3>2. Final(new[o], ms[o].bits, q) <=> Final(ch[o], ms[o].bits, q)
      BY <1>3, <1>11, <2>3
    <3> QED
      BY <2>1, <3>1, <3>2
  <2>4. Final(new[o], ms[o].bits, p) <=> g[p] = o
    <3>1. CASE o = m
      BY <1>3, <1>5, <1>11, <3>1
    <3>2. CASE o # m
      <4>1. new[o] = ch[o] /\ g[p] # o
        BY <1>3, <1>5, <3>2
      <4> QED
        BY <3>2, <4>1
    <3> QED
      BY <3>1, <3>2
  <2> QED
    BY <2>2, <2>3, <2>4
<1>13. FreePlanned(e, k, g, ms, new)
  <2>1. /\ \A q \in e .. n - 1 : f[q] # "free"
        /\ \A q \in 0 .. e - 1 : Final(ch[Global], ms[Global].bits, q) <=> f[q] = "free"
        /\ \A q \in Window(ms[Global]) : q >= n => q \in ms[Global].bits
    BY <1>1 DEF FreePlanned
  <2>2. ASSUME NEW q \in e .. k - 1
        PROVE  g[q] # "free"
    <3>1. CASE q = p
      BY <1>3, <1>5, <2>2, <3>1
    <3>2. CASE q # p
      <4>1. q \in 0 .. k - 1
        BY <2>2
      <4>2. q \in 0 .. n - 1 /\ g[q] = f[q] /\ q \in e .. n - 1
        BY <1>5, <2>2, <3>2, <4>1
      <4> QED
        BY <2>1, <4>2
    <3> QED
      BY <3>1, <3>2
  <2>3. ASSUME NEW q \in 0 .. e - 1
        PROVE  Final(new[Global], ms[Global].bits, q) <=> g[q] = "free"
    <3>1. CASE q = p
      BY <1>3, <1>5, <1>11, <3>1
    <3>2. CASE q # p
      <4>1. q \in 0 .. k - 1
        BY <1>1, <1>4, <2>3
      <4>2. g[q] = f[q]
        BY <1>5, <3>2, <4>1
      <4> QED
        BY <1>11, <2>1, <3>2, <4>2
    <3> QED
      BY <3>1, <3>2
  <2>4. ASSUME NEW q \in Window(ms[Global]), q >= k
        PROVE  q \in ms[Global].bits
    <3>1. q \in Int
      <4>1. ms[Global] \in MapRecords
        BY <1>1, <1>3 DEF MapsFit, Covers
      <4>2. ms[Global].base \in Nat /\ Len(ms[Global].refs) \in Nat
        BY <4>1, References
      <4> QED
        BY <2>4, <4>2 DEF Window
    <3> QED
      BY <1>4, <2>1, <2>4, <3>1
  <2> QED
    BY <2>2, <2>3, <2>4 DEF FreePlanned
<1>14. Mirrored(new)
  <2> SUFFICES ASSUME NEW o \in Roles, NEW q, Has(new[o], q)
               PROVE  Has(new[Global], q)
    BY DEF Mirrored
  <2>1. CASE q = p
    BY <2>1 DEF Changed
  <2>2. CASE q # p
    <3>1. Has(ch[o], q)
      BY <1>3, <2>2 DEF Changed
    <3>2. Has(ch[Global], q)
      BY <1>1, <3>1 DEF PendingInv, Mirrored
    <3> QED
      BY <2>2, <3>2 DEF Changed
  <2> QED
    BY <2>1, <2>2
<1>15. ASSUME ms[Global].layout = "inline"
       PROVE  k <= InlineBits \/ Beyond(new)
  <2>1. n <= InlineBits \/ Beyond(ch)
    BY <1>1, <1>15 DEF PendingInv
  <2>2. Has(new[Global], p) /\ \A q : Has(ch[Global], q) => Has(new[Global], q)
    BY DEF Changed
  <2>3. Beyond(ch) => Beyond(new)
    BY <2>2 DEF Beyond
  <2>4. CASE p >= InlineBits
    BY <2>2, <2>4 DEF Beyond
  <2>5. CASE n <= InlineBits /\ p < InlineBits
    BY <2>5, UsageMapsAssumption
  <2> QED
    BY <2>1, <2>3, <2>4, <2>5, UsageMapsAssumption
<1> QED
  BY <1>1, <1>4, <1>6, <1>8, <1>10, <1>12, <1>13, <1>14, <1>15 DEF Planned, WorkInv, PendingInv

\* A step of the plan that moves page p.
MoveStep(m, k, p, desired) ==
  /\ pc = "plan" /\ (k = next \/ k = next + 1) /\ p \in 2 .. k - 1
  /\ changes' = [changes EXCEPT ![Global] = Change(Global, p, ~desired), ![m] = Change(m, p, desired)]
  /\ placed' = [q \in 0 .. k - 1 |-> IF q = p THEN (IF desired THEN m ELSE "free") ELSE placed[q]]
  /\ next' = k /\ UNCHANGED <<file, pc, work>>
  /\ \A o \in Roles : o # m => ~Final(changes[o], work[o].bits, p)
  /\ p < eof => placed[p] # "bitmap" /\ k = next
  /\ p >= eof => p = next /\ k = next + 1 /\ desired

\* The same of the variables.
LEMMA MoveSteps ==
  ASSUME IInv, NEW m \in Roles, NEW k \in Nat, NEW p \in Nat, NEW desired \in BOOLEAN, MoveStep(m, k, p, desired)
  PROVE  IInv'
<1>1. Planned(eof, next, placed, work, changes) /\ FileInv(eof, used, maps) /\ work = maps
  BY DEF IInv, Planned, MoveStep
<1>2. eof \in Nat /\ next \in Nat /\ next <= k
  <2>1. eof \in Nat /\ next \in Nat
    BY <1>1 DEF Planned, WorkInv, FileInv, PagesUsed
  <2> QED
    BY <2>1 DEF MoveStep
<1>3. m \in Maps /\ Global \in Maps /\ m # Global /\ (~desired) \in BOOLEAN /\ p \in 2 .. k - 1
  BY UsageMapsAssumption DEF Maps, MoveStep
<1>4. \A o \in Maps : Listed(changes[o], next)
  BY <1>1 DEF Planned, ChangesInv
<1>5. changes = [o \in Maps |-> changes[o]]
  BY <1>1 DEF Planned, ChangesInv
<1>6. Changed(changes[m], Change(m, p, desired), p, desired, k)
  BY <1>2, <1>3, <1>4, ChangeKept
<1>7. Changed(changes[Global], Change(Global, p, ~desired), p, ~desired, k)
  BY <1>2, <1>3, <1>4, ChangeKept
<1>8. /\ Changed(changes[m], changes'[m], p, desired, k) /\ Changed(changes[Global], changes'[Global], p, ~desired, k)
      /\ \A o \in Maps : o # m /\ o # Global => changes'[o] = changes[o]
      /\ changes' = [o \in Maps |-> changes'[o]]
  <2> DEFINE a == Change(m, p, desired)
             b == Change(Global, p, ~desired)
  <2>1. changes' = [changes EXCEPT ![Global] = b, ![m] = a]
    BY DEF MoveStep
  <2> HIDE DEF a, b
  <2>2. /\ changes'[m] = a /\ changes'[Global] = b
        /\ \A o \in Maps : o # m /\ o # Global => changes'[o] = changes[o]
        /\ changes' = [o \in Maps |-> changes'[o]]
    BY <1>3, <1>5, <2>1
  <2> QED
    BY <1>6, <1>7, <2>2 DEF a, b
<1>9. Moves(eof, next, placed, work, changes, m, k, p, desired, placed', changes')
  BY <1>8 DEF Moves, MoveStep
<1>10. Planned(eof, k, placed', work, changes')
  BY <1>1, <1>2, <1>9, MoveKeeps
<1>11. eof' = eof /\ used' = used /\ maps' = maps /\ pc' = "plan" /\ work' = work /\ next' = k
  BY DEF file, MoveStep
<1> QED
  BY <1>1, <1>10, <1>11 DEF IInv, Planned

\* PageEdits::append.
LEMMA AppendKeeps ==
  ASSUME IInv, NEW m \in Roles, AppendPage(m)
  PROVE  IInv'
<1>1. /\ pc = "plan" /\ Old(Global, next) /\ ~Old(m, next) /\ placed' = Extend(placed, next, 1, m)
      /\ next' = next + 1 /\ UNCHANGED <<file, pc, work>>
      /\ changes' = [changes EXCEPT ![Global] = Change(Global, next, FALSE), ![m] = Change(m, next, TRUE)]
  BY DEF AppendPage, Planning, Take, file
<1>2. /\ RolesPlanned(next, placed, work, changes) /\ MapsFit(work, next, placed) /\ eof \in Nat /\ next \in Nat
      /\ next >= 2 /\ eof <= next /\ ChangesInv(next, changes)
  BY DEF IInv, WorkInv, PagesUsed, FileInv
<1>3. placed' = [q \in 0 .. (next + 1) - 1 |-> IF q = next THEN m ELSE placed[q]]
  <2>1. \A q \in 0 .. (next + 1) - 1 : q < next <=> q # next
    BY <1>2
  <2> QED
    BY <1>1, <1>2, <2>1 DEF Extend
<1>4. ASSUME NEW o \in Roles
      PROVE  ~Final(changes[o], work[o].bits, next)
  <2>1. o \in Maps
    BY DEF Maps
  <2>2. next \notin work[o].bits
    BY <1>2 DEF RolesPlanned, RoleFits
  <2>3. Listed(changes[o], next) /\ next \notin 2 .. next - 1
    BY <1>2, <2>1 DEF ChangesInv
  <2>4. ~Has(changes[o], next)
    BY <2>3 DEF Listed, Has
  <2> QED
    BY <2>2, <2>4 DEF Final, Has, Wants
<1>5. next + 1 \in Nat /\ next \in 2 .. (next + 1) - 1 /\ ~(next < eof)
  BY <1>2
<1> DEFINE k == next + 1
<1>6. /\ k \in Nat /\ k = next + 1 /\ next \in 2 .. k - 1 /\ next' = k
      /\ placed' = [q \in 0 .. k - 1 |-> IF q = next THEN m ELSE placed[q]]
  BY <1>1, <1>3, <1>5
<1> HIDE DEF k
<1>7. changes' = [changes EXCEPT ![Global] = Change(Global, next, ~TRUE), ![m] = Change(m, next, TRUE)]
  BY <1>1
<1>8. MoveStep(m, k, next, TRUE)
  BY <1>1, <1>4, <1>5, <1>6, <1>7 DEF MoveStep
<1> QED
  BY <1>2, <1>6, <1>8, MoveSteps

\* A page the file uses, in the plan.
LEMMA PlannedUse ==
  ASSUME IInv, pc = "plan", NEW p \in DOMAIN used
  PROVE  /\ p \in Nat /\ p < eof /\ next \in Nat /\ p \in 0 .. next - 1
         /\ \A m \in Roles : Old(m, p) <=> placed[p] = m
         /\ Old(Global, p) <=> placed[p] = "free"
         /\ placed[p] # "meta" => p \in 2 .. next - 1
         /\ \A m \in Roles : Final(changes[m], work[m].bits, p) <=> placed[p] = m
<1>1. /\ RolesPlanned(next, placed, work, changes) /\ FreePlanned(eof, next, placed, work, changes)
      /\ PagesUsed(eof, used) /\ PagesUsed(next, placed) /\ eof <= next
  BY DEF IInv, WorkInv, FileInv
<1>2. eof \in Nat /\ next \in Nat /\ DOMAIN used = 0 .. eof - 1 /\ placed[0] = "meta" /\ placed[1] = "meta"
  BY <1>1 DEF PagesUsed
<1>3. p \in Nat /\ p < eof /\ p \in 0 .. eof - 1 /\ p \in 0 .. next - 1
  BY <1>1, <1>2
<1>4. \A m \in Roles : Final(changes[m], work[m].bits, p) <=> placed[p] = m
  BY <1>1, <1>3 DEF RolesPlanned, RoleFits
<1>5. Final(changes[Global], work[Global].bits, p) <=> placed[p] = "free"
  BY <1>1, <1>3 DEF FreePlanned
<1>6. \A m \in Maps : Old(m, p) <=> Final(changes[m], work[m].bits, p)
  BY <1>3, OldIsFinal
<1>7. placed[p] # "meta" => p \in 2 .. next - 1
  BY <1>2, <1>3
<1> QED
  BY <1>2, <1>3, <1>4, <1>5, <1>6, <1>7 DEF Maps

\* A free page is taken again.
LEMMA ReuseKeeps ==
  ASSUME IInv, NEW m \in Roles, NEW p \in DOMAIN used, ReusePage(m, p)
  PROVE  IInv'
<1>1. /\ pc = "plan" /\ Old(Global, p) /\ placed' = [placed EXCEPT ![p] = m]
      /\ next' = next /\ UNCHANGED <<file, pc, work>>
      /\ changes' = [changes EXCEPT ![Global] = Change(Global, p, ~TRUE), ![m] = Change(m, p, TRUE)]
  BY DEF ReusePage, Planning, Take, file
<1>2. /\ p \in Nat /\ p < eof /\ next \in Nat /\ placed[p] = "free" /\ p \in 2 .. next - 1
      /\ \A o \in Roles : ~Final(changes[o], work[o].bits, p)
  <2>1. \A o \in Roles : o # "free"
    BY UsageMapsAssumption
  <2> QED
    BY <1>1, <2>1, PlannedUse
<1>3. placed' = [q \in 0 .. next - 1 |-> IF q = p THEN m ELSE placed[q]]
  <2>1. DOMAIN placed = 0 .. next - 1
    BY DEF IInv, WorkInv, PagesUsed
  <2> QED
    BY <1>1, <2>1
<1>4. ~(p >= eof)
  <2>1. eof \in Nat
    BY DEF IInv, FileInv, PagesUsed
  <2> QED
    BY <1>2, <2>1
<1>5. MoveStep(m, next, p, TRUE)
  BY <1>1, <1>2, <1>3, <1>4 DEF MoveStep
<1> QED
  BY <1>2, <1>5, MoveSteps

\* A page of a table is given back.
LEMMA ReleaseKeeps ==
  ASSUME IInv, NEW m \in Roles, NEW p \in DOMAIN used, ReleasePage(m, p)
  PROVE  IInv'
<1>1. /\ pc = "plan" /\ Old(m, p) /\ placed' = [placed EXCEPT ![p] = "free"]
      /\ next' = next /\ UNCHANGED <<file, pc, work>>
      /\ changes' = [changes EXCEPT ![Global] = Change(Global, p, ~FALSE), ![m] = Change(m, p, FALSE)]
  BY DEF ReleasePage, Planning, file
<1>2. m # "meta" /\ m # "bitmap"
  BY UsageMapsAssumption
<1>3. /\ p \in Nat /\ p < eof /\ next \in Nat /\ placed[p] = m /\ p \in 2 .. next - 1
      /\ \A o \in Roles : o # m => ~Final(changes[o], work[o].bits, p)
  BY <1>1, <1>2, PlannedUse
<1>4. placed' = [q \in 0 .. next - 1 |-> IF q = p THEN "free" ELSE placed[q]]
  <2>1. DOMAIN placed = 0 .. next - 1
    BY DEF IInv, WorkInv, PagesUsed
  <2> QED
    BY <1>1, <2>1
<1>5. ~(p >= eof)
  <2>1. eof \in Nat
    BY DEF IInv, FileInv, PagesUsed
  <2> QED
    BY <1>3, <2>1
<1>6. MoveStep(m, next, p, FALSE)
  BY <1>1, <1>2, <1>3, <1>4, <1>5 DEF MoveStep
<1> QED
  BY <1>3, <1>6, MoveSteps

-----------------------------------------------------------------------------
(* Applying the changes. *)

\* One bit of map m is set in a file of n pages, and the file has k pages after it.
Spread(n, f, ms, m, p, desired, k, g, ns) ==
  /\ n <= k /\ PagesUsed(k, g) /\ MapsFit(ns, k, g)
  /\ \A q \in 0 .. n - 1 : g[q] = f[q]
  /\ \A q \in n .. k - 1 : g[q] = "bitmap"
  /\ SetTo(m, ms[m], ns[m], p, desired, n)
  /\ \A o \in Maps : o # m => ns[o] = ms[o]
  /\ k # n => Len(ns[m].refs) # Len(ms[m].refs)

\* As many pages are added as the map gets references.
Placing(n, f, ms, m, p, desired, k, g, ns) ==
  /\ n <= k /\ MapsFit(ms, n, f) /\ SetTo(m, ms[m], ns[m], p, desired, n)
  /\ ns = [o \in Maps |-> ns[o]] /\ \A o \in Maps : o # m => ns[o] = ms[o]
  /\ k - n = Len(ns[m].refs) - Len(ms[m].refs)
  /\ \A q \in 0 .. n - 1 : g[q] = f[q]
  /\ \A q \in n .. k - 1 : g[q] = "bitmap"

\* The bitmap pages placed by set are at the new end of the file and only in the map
\* that was set.
LEMMA RefsSpread ==
  ASSUME NEW n \in Nat, NEW k \in Nat, NEW f, NEW g, NEW ms, NEW ns, NEW m \in Maps, NEW p, NEW desired,
         Placing(n, f, ms, m, p, desired, k, g, ns)
  PROVE  MapsFit(ns, k, g)
<1> USE DEF Placing
<1> DEFINE old == ms[m].refs
           new == ns[m].refs
           l == Len(old)
<1>1. /\ \A o \in Maps : Covers(o, ms[o]) /\ RefsPlaced(ms[o], n, f)
      /\ RefsApart(ms) /\ Covers(m, ns[m])
  BY DEF MapsFit, SetTo
<1>2. ms[m] \in MapRecords /\ ns[m] \in MapRecords
  BY <1>1 DEF Covers
<1>3. l \in Nat /\ DOMAIN old = 1 .. l /\ Len(new) \in Nat /\ DOMAIN new = 1 .. Len(new)
  BY <1>2, References
<1>4. /\ l <= Len(new) /\ \A i \in 1 .. l : new[i] = old[i]
      /\ \A i \in 1 .. Len(new) - l : new[l + i] = n + i - 1
  BY DEF SetTo
<1>5. 0 .. n - 1 \subseteq 0 .. k - 1 /\ n .. k - 1 \subseteq 0 .. k - 1
  OBVIOUS
<1> HIDE DEF l, new, old
<1>6. \A i \in 1 .. Len(new) : i \in 1 .. l \/ (l < i /\ new[i] = n + (i - l) - 1 /\ new[i] \in n .. k - 1)
  <2> SUFFICES ASSUME NEW i \in 1 .. Len(new), ~(i \in 1 .. l)
               PROVE  l < i /\ new[i] = n + (i - l) - 1 /\ new[i] \in n .. k - 1
    OBVIOUS
  <2>1. l < i /\ i - l \in 1 .. Len(new) - l /\ l + (i - l) = i
    BY <1>3, <1>4
  <2>2. new[i] = n + (i - l) - 1
    BY <1>4, <2>1
  <2>3. k - n = Len(new) - l
    BY DEF new, l, old
  <2>4. n + (i - l) - 1 \in n .. k - 1
    BY <1>3, <2>1, <2>3, SMTT(30)
  <2> QED
    BY <2>1, <2>2, <2>4
<1>7. /\ \A i, j \in 1 .. l : old[i] = old[j] => i = j
      /\ \A i \in 1 .. l : old[i] \in 0 .. n - 1 /\ f[old[i]] = "bitmap"
  BY <1>1, <1>3 DEF RefsPlaced, old
<1>8. \A i \in 1 .. Len(new) : new[i] \in 0 .. k - 1 /\ g[new[i]] = "bitmap"
  BY <1>4, <1>5, <1>6, <1>7
<1>9. ASSUME NEW i \in 1 .. Len(new), NEW j \in 1 .. Len(new), new[i] = new[j]
      PROVE  i = j
  <2>1. CASE i \in 1 .. l /\ j \in 1 .. l
    BY <1>4, <1>7, <1>9, <2>1
  <2>2. CASE i \in 1 .. l /\ j \notin 1 .. l
    <3>1. new[i] \in 0 .. n - 1 /\ new[j] \in n .. k - 1
      BY <1>4, <1>6, <1>7, <2>2
    <3> QED
      BY <1>9, <3>1
  <2>3. CASE i \notin 1 .. l /\ j \in 1 .. l
    <3>1. new[j] \in 0 .. n - 1 /\ new[i] \in n .. k - 1
      BY <1>4, <1>6, <1>7, <2>3
    <3> QED
      BY <1>9, <3>1
  <2>4. CASE i \notin 1 .. l /\ j \notin 1 .. l
    <3>1. n + (i - l) - 1 = n + (j - l) - 1
      BY <1>6, <1>9, <2>4
    <3> QED
      BY <1>3, <3>1
  <2> QED
    BY <2>1, <2>2, <2>3, <2>4
<1>10. RefsPlaced(ns[m], k, g)
  BY <1>3, <1>8, <1>9 DEF RefsPlaced, new
<1>11. ASSUME NEW o \in Maps, o # m
       PROVE  RefsPlaced(ns[o], k, g) /\ Covers(o, ns[o])
  <2>1. RefsPlaced(ms[o], n, f) /\ Covers(o, ms[o]) /\ ns[o] = ms[o]
    BY <1>1, <1>11
  <2> QED
    BY <1>5, <2>1 DEF RefsPlaced
<1>12. ASSUME NEW o \in Maps, o # m, NEW i \in DOMAIN ns[o].refs, NEW j \in DOMAIN new
       PROVE  ns[o].refs[i] # new[j]
  <2>1. ns[o] = ms[o] /\ ms[o].refs[i] \in 0 .. n - 1 /\ i \in DOMAIN ms[o].refs
    BY <1>1, <1>12 DEF RefsPlaced
  <2>2. CASE j \in 1 .. l
    <3>1. ms[o].refs[i] # old[j]
      BY <1>1, <1>3, <1>12, <2>1, <2>2 DEF RefsApart, old
    <3> QED
      BY <1>4, <2>1, <2>2, <3>1
  <2>3. CASE j \notin 1 .. l
    <3>1. new[j] \in n .. k - 1
      BY <1>3, <1>6, <1>12, <2>3
    <3> QED
      BY <2>1, <3>1
  <2> QED
    BY <2>2, <2>3
<1>13. RefsApart(ns)
  <2> SUFFICES ASSUME NEW o \in Maps, NEW u \in Maps, o # u, NEW i \in DOMAIN ns[o].refs, NEW j \in DOMAIN ns[u].refs
               PROVE  ns[o].refs[i] # ns[u].refs[j]
    BY DEF RefsApart
  <2>1. CASE o = m
    BY <1>12, <2>1 DEF new
  <2>2. CASE u = m
    BY <1>12, <2>2 DEF new
  <2>3. CASE o # m /\ u # m
    BY <1>1, <2>3 DEF RefsApart
  <2> QED
    BY <2>1, <2>2, <2>3
<1> QED
  BY <1>1, <1>10, <1>11, <1>13 DEF MapsFit

\* set, with the bitmap pages it places at the end of the file.
LEMMA SetSpreads ==
  ASSUME eof \in Nat, next \in Nat, PagesUsed(next, placed), MapsFit(work, next, placed),
         NEW m \in Maps, NEW p \in Nat, p >= 2, NEW desired \in BOOLEAN, Set(m, p, desired)
  PROVE  \E k \in Nat : next' = k /\ Spread(next, placed, work, m, p, desired, k, placed', work')
<1> DEFINE r == SetBit(m, work[m], p, desired, next)
           grown == Len(r.refs) - Len(work[m].refs)
           k == next + grown
<1>1. work' = [work EXCEPT ![m] = r] /\ placed' = Extend(placed, next, grown, "bitmap") /\ next' = k
  BY DEF Set
<1>2. Covers(m, work[m]) /\ work = [o \in Maps |-> work[o]]
  BY DEF MapsFit
<1>3. SetTo(m, work[m], r, p, desired, next)
  BY <1>2, BitSet
<1> HIDE DEF r
<1>4. grown \in Nat
  <2>1. work[m] \in MapRecords /\ r \in MapRecords /\ Len(work[m].refs) <= Len(r.refs)
    BY <1>2, <1>3 DEF Covers, SetTo
  <2>2. Len(work[m].refs) \in Nat /\ Len(r.refs) \in Nat
    BY <2>1, References
  <2> QED
    BY <2>1, <2>2
<1>5. /\ work'[m] = r /\ (\A o \in Maps : o # m => work'[o] = work[o]) /\ work' = [o \in Maps |-> work'[o]]
  BY <1>1, <1>2
<1>6. k - next = Len(work'[m].refs) - Len(work[m].refs)
  <2>1. k - next = grown
    <3> HIDE DEF grown
    <3> QED
      BY <1>4
  <2> QED
    BY <1>5, <2>1
<1> HIDE DEF grown
<1>7. k \in Nat /\ next <= k /\ next + grown - 1 = k - 1
  BY <1>4
<1>8. placed' = [q \in 0 .. k - 1 |-> IF q < next THEN placed[q] ELSE "bitmap"]
  BY <1>1, <1>7 DEF Extend
<1>9. k # next => Len(work'[m].refs) # Len(work[m].refs)
  <2>1. k # next => grown # 0
    BY <1>4
  <2>2. Len(r.refs) \in Nat
    BY <1>3, References DEF Covers, SetTo
  <2>3. Len(r.refs) = Len(work[m].refs) => grown = 0
    BY <2>2 DEF grown
  <2> QED
    BY <1>5, <2>1, <2>3
<1> HIDE DEF k
<1>10. \A q \in 0 .. next - 1 : q \in 0 .. k - 1 /\ q < next
  BY <1>7
<1>11. \A q \in next .. k - 1 : q \in 0 .. k - 1 /\ ~(q < next)
  BY <1>7
<1>12. (\A q \in 0 .. next - 1 : placed'[q] = placed[q]) /\ (\A q \in next .. k - 1 : placed'[q] = "bitmap")
  BY <1>8, <1>10, <1>11
<1>13. Placing(next, placed, work, m, p, desired, k, placed', work')
  BY <1>3, <1>5, <1>6, <1>7, <1>12 DEF Placing
<1>14. MapsFit(work', k, placed')
  BY <1>7, <1>13, RefsSpread
<1>15. PagesUsed(k, placed')
  <2>1. next >= 2 /\ placed \in [0 .. next - 1 -> Uses] /\ placed[0] = "meta" /\ placed[1] = "meta"
    BY DEF PagesUsed
  <2>2. k >= 2 /\ 0 \in 0 .. next - 1 /\ 1 \in 0 .. next - 1
    BY <1>7, <2>1
  <2>3. \A q \in 0 .. k - 1 : q \in 0 .. next - 1 \/ q \in next .. k - 1
    BY <1>7
  <2>4. \A q \in 0 .. k - 1 : placed'[q] \in Uses
    BY <1>12, <2>1, <2>3 DEF Uses
  <2>5. placed' \in [0 .. k - 1 -> Uses]
    BY <1>8, <2>4
  <2> QED
    BY <1>7, <1>12, <2>1, <2>2, <2>5 DEF PagesUsed
<1>16. Spread(next, placed, work, m, p, desired, k, placed', work')
  BY <1>3, <1>5, <1>7, <1>9, <1>12, <1>14, <1>15 DEF Spread
<1> QED
  BY <1>1, <1>7, <1>16

\* Bitmap pages are added to the file.
Lengthened(n, f, k, g) ==
  n <= k /\ (\A q \in 0 .. n - 1 : g[q] = f[q]) /\ (\A q \in n .. k - 1 : g[q] = "bitmap")

\* A bitmap page that is added is in no table's map.
LEMMA RoleKept ==
  ASSUME NEW o \in Roles, NEW n \in Nat, NEW k \in Nat, NEW f, NEW g, NEW list, NEW bits \in SUBSET Nat,
         Listed(list, n), RoleFits(o, n, f, list, bits), Lengthened(n, f, k, g)
  PROVE  RoleFits(o, k, g, list, bits)
<1> USE DEF Lengthened
<1>1. \A q \in bits : q < k
  <2>1. \A q \in bits : q < n
    BY DEF RoleFits
  <2> QED
    BY <2>1
<1>2. ASSUME NEW q \in 0 .. k - 1
      PROVE  Final(list, bits, q) <=> g[q] = o
  <2>1. CASE q < n
    <3>1. q \in 0 .. n - 1
      BY <2>1
    <3> QED
      BY <3>1 DEF RoleFits
  <2>2. CASE ~(q < n)
    <3>1. q \in n .. k - 1 /\ q \notin 2 .. n - 1 /\ q \notin bits
      BY <2>2 DEF RoleFits
    <3>2. ~Final(list, bits, q)
      BY <3>1 DEF Final, Has, Wants, Listed
    <3>3. o # "bitmap"
      BY UsageMapsAssumption
    <3> QED
      BY <3>1, <3>2, <3>3
  <2> QED
    BY <2>1, <2>2
<1> QED
  BY <1>1, <1>2 DEF RoleFits

\* What one change leaves of the plan for a table, before the bitmap pages.
LEMMA RoleApplied ==
  ASSUME NEW m, NEW n \in Nat, NEW f, NEW list, NEW rest, NEW bits, NEW p, NEW desired,
         Shorter(list, rest, p, desired, n), RoleFits(m, n, f, list, bits)
  PROVE  RoleFits(m, n, f, rest, WithBit(bits, p, desired))
<1>1. p \in 2 .. n - 1
  BY DEF Shorter
<1>2. \A q : Final(rest, WithBit(bits, p, desired), q) <=> Final(list, bits, q)
  <2>1. ~Wants(rest, p)
    BY DEF Shorter, Has, Wants
  <2> SUFFICES ASSUME NEW q
               PROVE  Final(rest, WithBit(bits, p, desired), q) <=> Final(list, bits, q)
    OBVIOUS
  <2>2. CASE q = p
    BY <2>1, <2>2 DEF Shorter, Final, WithBit
  <2>3. CASE q # p
    BY <2>3 DEF Shorter, Final, WithBit
  <2> QED
    BY <2>2, <2>3
<1>3. \A q \in WithBit(bits, p, desired) : q < n
  BY <1>1 DEF WithBit, RoleFits
<1> QED
  BY <1>2, <1>3 DEF RoleFits

\* The members and windows of the maps are page numbers.
LEMMA PageNumbers ==
  ASSUME NEW n, NEW f, NEW ms, MapsFit(ms, n, f), NEW m \in Maps
  PROVE  ms[m] \in MapRecords /\ ms[m].bits \in SUBSET Nat /\ Window(ms[m]) \subseteq Nat
<1>1. ms[m] \in MapRecords
  BY DEF MapsFit, Covers
<1>2. ms[m].base \in Nat /\ Len(ms[m].refs) \in Nat /\ ms[m].bits \in SUBSET Nat
  BY <1>1, References
<1>3. Window(ms[m]) \subseteq Nat
  <2>1. Len(ms[m].refs) * SlotBits \in Nat /\ InlineBits \in Nat
    BY <1>2, UsageMapsAssumption
  <2> QED
    BY <1>2, <2>1 DEF Window
<1> QED
  BY <1>1, <1>2, <1>3

\* The first change of map m is applied.
Applies(n, f, ms, ch, m, p, desired, k, g, ns, new) ==
  /\ Shorter(ch[m], new[m], p, desired, n) /\ Spread(n, f, ms, m, p, desired, k, g, ns)
  /\ new = [o \in Maps |-> new[o]] /\ \A o \in Maps : o # m => new[o] = ch[o]

\* The lists of a longer file.
LEMMA ListsApplied ==
  ASSUME NEW n \in Nat, NEW f, NEW ms, NEW ch, NEW m \in Maps, NEW p, NEW desired,
         NEW k \in Nat, NEW g, NEW ns, NEW new,
         ChangesInv(n, ch), Applies(n, f, ms, ch, m, p, desired, k, g, ns, new)
  PROVE  ChangesInv(k, new) /\ Lengthened(n, f, k, g) /\ \A o \in Maps : Listed(new[o], n)
<1>1. Lengthened(n, f, k, g)
  BY DEF Applies, Spread, Lengthened
<1>2. 2 .. n - 1 \subseteq 2 .. k - 1
  BY <1>1 DEF Lengthened
<1>3. \A o \in Maps : Listed(new[o], n)
  BY DEF ChangesInv, Applies, Shorter
<1>4. \A o \in Maps : Listed(new[o], k)
  BY <1>2, <1>3 DEF Listed
<1>5. new = [o \in Maps |-> new[o]]
  BY DEF Applies
<1> QED
  BY <1>1, <1>3, <1>4, <1>5 DEF ChangesInv

\* A change of a table's map.  If it places a bitmap page, the page it is about is
\* outside the global map's window and still in that map's list.
LEMMA TableApplied ==
  ASSUME NEW e \in Nat, NEW n \in Nat, NEW f, NEW ms, NEW ch, NEW m \in Roles, NEW p \in Nat, NEW desired,
         NEW k \in Nat, NEW g, NEW ns, NEW new,
         Planned(e, n, f, ms, ch), Applies(n, f, ms, ch, m, p, desired, k, g, ns, new)
  PROVE  Planned(e, k, g, ns, new)
<1>1. /\ MapsFit(ms, n, f) /\ e <= n /\ RolesPlanned(n, f, ms, ch) /\ FreePlanned(e, n, f, ms, ch)
      /\ ChangesInv(n, ch) /\ PendingInv(n, ms, ch)
  BY DEF Planned, WorkInv
<1>2. /\ PagesUsed(k, g) /\ MapsFit(ns, k, g) /\ SetTo(m, ms[m], ns[m], p, desired, n)
      /\ (\A o \in Maps : o # m => ns[o] = ms[o] /\ new[o] = ch[o]) /\ Shorter(ch[m], new[m], p, desired, n)
      /\ (k # n => Len(ns[m].refs) # Len(ms[m].refs))
  BY DEF Applies, Spread
<1>3. m \in Maps /\ Global \in Maps /\ m # Global /\ \A o \in Roles : o \in Maps
  BY UsageMapsAssumption DEF Maps
<1>4. ChangesInv(k, new) /\ Lengthened(n, f, k, g) /\ \A o \in Maps : Listed(new[o], n)
  BY <1>1, <1>3, ListsApplied
<1>5. n <= k
  BY <1>4 DEF Lengthened
<1>6. ASSUME NEW o \in Roles
      PROVE  RoleFits(o, k, g, new[o], ns[o].bits)
  <2>1. RoleFits(o, n, f, ch[o], ms[o].bits)
    BY <1>1 DEF RolesPlanned
  <2>2. RoleFits(o, n, f, new[o], ns[o].bits)
    <3>1. CASE o # m
      BY <1>2, <1>3, <2>1, <3>1
    <3>2. CASE o = m
      <4>1. ns[m].bits = WithBit(ms[m].bits, p, desired)
        BY <1>2, <1>3 DEF SetTo
      <4>2. RoleFits(m, n, f, new[m], WithBit(ms[m].bits, p, desired))
        BY <1>2, <2>1, <3>2, RoleApplied
      <4> QED
        BY <3>2, <4>1, <4>2
    <3> QED
      BY <3>1, <3>2
  <2>3. ns[o].bits \in SUBSET Nat /\ Listed(new[o], n)
    BY <1>2, <1>3, <1>4, PageNumbers
  <2> QED
    BY <1>4, <2>2, <2>3, RoleKept
<1>7. RolesPlanned(k, g, ns, new)
  BY <1>6 DEF RolesPlanned
<1>8. ns[Global] = ms[Global] /\ new[Global] = ch[Global]
  BY <1>2, <1>3
<1>9. FreePlanned(e, k, g, ns, new)
  <2>1. /\ \A q \in e .. n - 1 : f[q] # "free"
        /\ \A q \in 0 .. e - 1 : Final(ch[Global], ms[Global].bits, q) <=> f[q] = "free"
        /\ \A q \in Window(ms[Global]) : q >= n => q \in ms[Global].bits
    BY <1>1 DEF FreePlanned
  <2>2. ASSUME NEW q \in e .. k - 1
        PROVE  g[q] # "free"
    <3>1. CASE q < n
      <4>1. q \in e .. n - 1 /\ q \in 0 .. n - 1
        BY <2>2, <3>1
      <4> QED
        BY <1>4, <2>1, <4>1 DEF Lengthened
    <3>2. CASE ~(q < n)
      <4>1. q \in n .. k - 1
        BY <2>2, <3>2
      <4> QED
        BY <1>4, <4>1 DEF Lengthened
    <3> QED
      BY <3>1, <3>2
  <2>3. \A q \in 0 .. e - 1 : g[q] = f[q]
    <3>1. 0 .. e - 1 \subseteq 0 .. n - 1
      BY <1>1
    <3> QED
      BY <1>4, <3>1 DEF Lengthened
  <2>4. ASSUME NEW q \in Window(ms[Global]), q >= k
        PROVE  q \in ms[Global].bits
    <3>1. q \in Nat
      BY <1>1, <1>3, PageNumbers
    <3>2. q >= n
      BY <1>5, <2>4, <3>1
    <3> QED
      BY <2>1, <3>2
  <2>5. \A q \in 0 .. e - 1 : Final(new[Global], ns[Global].bits, q) <=> g[q] = "free"
    BY <1>8, <2>1, <2>3
  <2> QED
    BY <1>8, <2>2, <2>4, <2>5 DEF FreePlanned
<1>10. Mirrored(new)
  <2>1. \A q : Has(new[m], q) => Has(ch[m], q)
    BY <1>2 DEF Shorter
  <2> QED
    BY <1>1, <1>2, <1>3, <1>8, <2>1 DEF Mirrored, PendingInv
<1>11. ASSUME ns[Global].layout = "inline"
       PROVE  k <= InlineBits \/ Beyond(new)
  <2>1. n <= InlineBits \/ Beyond(ch)
    BY <1>1, <1>8, <1>11 DEF PendingInv
  <2>2. Beyond(ch) => Beyond(new)
    BY <1>8 DEF Beyond
  <2>3. ASSUME k # n
        PROVE  Beyond(new)
    <3>1. InlineBits <= p /\ InlineBits \in Nat
      BY <1>2, <2>3, UsageMapsAssumption DEF SetTo
    <3>2. Has(ch[m], p)
      BY <1>2 DEF Shorter
    <3>3. Has(new[Global], p) /\ p >= InlineBits
      BY <1>1, <1>8, <3>1, <3>2 DEF PendingInv, Mirrored
    <3> QED
      BY <3>3 DEF Beyond
  <2> QED
    BY <2>1, <2>2, <2>3
<1>12. e <= k
  BY <1>1, <1>5
<1> QED
  BY <1>2, <1>4, <1>7, <1>9, <1>10, <1>11, <1>12 DEF Planned, WorkInv, PendingInv

\* A bit of the global map is set: the pages before the old end of the file keep
\* theirs, the pages beyond the new end stay free.
LEMMA FreeKept ==
  ASSUME eof \in Nat, NEW n \in Nat, NEW f, NEW ms, NEW ch, NEW p \in Nat, NEW desired,
         NEW k \in Nat, NEW g, NEW ns, NEW new, eof <= n, p < n, MapsFit(ms, n, f),
         FreePlanned(eof, n, f, ms, ch), Spread(n, f, ms, Global, p, desired, k, g, ns),
         \A q \in 0 .. eof - 1 : Final(new[Global], ns[Global].bits, q) <=> Final(ch[Global], ms[Global].bits, q)
  PROVE  FreePlanned(eof, k, g, ns, new)
<1>1. /\ \A q \in eof .. n - 1 : f[q] # "free"
      /\ \A q \in 0 .. eof - 1 : Final(ch[Global], ms[Global].bits, q) <=> f[q] = "free"
      /\ \A q \in Window(ms[Global]) : q >= n => q \in ms[Global].bits
  BY DEF FreePlanned
<1>2. /\ n <= k /\ MapsFit(ns, k, g) /\ SetTo(Global, ms[Global], ns[Global], p, desired, n)
      /\ (\A q \in 0 .. n - 1 : g[q] = f[q]) /\ (\A q \in n .. k - 1 : g[q] = "bitmap")
  BY DEF Spread
<1>3. Global \in Maps
  BY DEF Maps
<1>4. ASSUME NEW q \in eof .. k - 1
      PROVE  g[q] # "free"
  <2>1. CASE q < n
    <3>1. q \in eof .. n - 1 /\ q \in 0 .. n - 1
      BY <1>4, <2>1
    <3> QED
      BY <1>1, <1>2, <3>1
  <2>2. CASE ~(q < n)
    <3>1. q \in n .. k - 1
      BY <1>4, <2>2
    <3> QED
      BY <1>2, <3>1
  <2> QED
    BY <2>1, <2>2
<1>5. \A q \in 0 .. eof - 1 : Final(new[Global], ns[Global].bits, q) <=> g[q] = "free"
  <2>1. 0 .. eof - 1 \subseteq 0 .. n - 1
    OBVIOUS
  <2> QED
    BY <1>1, <1>2, <2>1
<1>6. ASSUME NEW q \in Window(ns[Global]), q >= k
      PROVE  q \in ns[Global].bits
  <2>1. q \in Nat
    BY <1>2, <1>3, PageNumbers
  <2>2. q >= n /\ q >= eof /\ q # p
    BY <1>2, <1>6, <2>1
  <2>3. q \in ns[Global].bits \/ q \in Window(ms[Global]) \ ms[Global].bits
    BY <1>2, <2>2 DEF SetTo
  <2> QED
    BY <1>1, <2>2, <2>3
<1> QED
  BY <1>4, <1>5, <1>6 DEF FreePlanned

RolesDone(ch) == \A o \in Roles : ch[o] = <<>>

\* A change of the global map.  If the map stays inline, another change beyond its
\* window is still to come, or the file ends in its window.
LEMMA GlobalApplied ==
  ASSUME eof \in Nat, NEW n \in Nat, NEW f, NEW ms, NEW ch, NEW p \in Nat, NEW desired,
         NEW k \in Nat, NEW g, NEW ns, NEW new, RolesDone(ch),
         Planned(eof, n, f, ms, ch), Applies(n, f, ms, ch, Global, p, desired, k, g, ns, new)
  PROVE  Planned(eof, k, g, ns, new)
<1>1. /\ MapsFit(ms, n, f) /\ eof <= n /\ RolesPlanned(n, f, ms, ch) /\ FreePlanned(eof, n, f, ms, ch)
      /\ ChangesInv(n, ch) /\ PendingInv(n, ms, ch)
  BY DEF Planned, WorkInv
<1>2. /\ PagesUsed(k, g) /\ MapsFit(ns, k, g) /\ SetTo(Global, ms[Global], ns[Global], p, desired, n)
      /\ (\A o \in Maps : o # Global => ns[o] = ms[o] /\ new[o] = ch[o])
      /\ Shorter(ch[Global], new[Global], p, desired, n) /\ Spread(n, f, ms, Global, p, desired, k, g, ns)
      /\ (k # n => Len(ns[Global].refs) # Len(ms[Global].refs))
  BY DEF Applies, Spread
<1>3. Global \in Maps /\ Global \notin Roles /\ \A o \in Roles : o \in Maps /\ o # Global
  BY UsageMapsAssumption DEF Maps
<1>4. ChangesInv(k, new) /\ Lengthened(n, f, k, g) /\ \A o \in Maps : Listed(new[o], n)
  BY <1>1, <1>3, ListsApplied
<1>5. n <= k /\ p < n
  <2>1. p \in 2 .. n - 1
    BY <1>2 DEF Shorter
  <2> QED
    BY <1>4, <2>1 DEF Lengthened
<1>6. ASSUME NEW o \in Roles
      PROVE  RoleFits(o, k, g, new[o], ns[o].bits)
  <2>1. RoleFits(o, n, f, new[o], ns[o].bits)
    BY <1>1, <1>2, <1>3 DEF RolesPlanned
  <2>2. ns[o].bits \in SUBSET Nat /\ Listed(new[o], n)
    BY <1>2, <1>3, <1>4, PageNumbers
  <2> QED
    BY <1>4, <2>1, <2>2, RoleKept
<1>7. RolesPlanned(k, g, ns, new)
  BY <1>6 DEF RolesPlanned
<1>8. ASSUME NEW q \in 0 .. eof - 1
      PROVE  Final(new[Global], ns[Global].bits, q) <=> Final(ch[Global], ms[Global].bits, q)
  <2>1. CASE q = p
    <3>1. ~Has(new[Global], p) /\ ~Wants(new[Global], p) /\ Has(ch[Global], p) /\ (Wants(ch[Global], p) <=> desired)
      BY <1>2 DEF Shorter, Has, Wants
    <3>2. p \in ns[Global].bits <=> desired
      BY <1>2 DEF SetTo
    <3> QED
      BY <2>1, <3>1, <3>2 DEF Final
  <2>2. CASE q # p
    <3>1. ~(q >= eof)
      BY <1>8
    <3>2. q \in ns[Global].bits <=> q \in ms[Global].bits
      BY <1>2, <2>2, <3>1 DEF SetTo
    <3>3. (Has(new[Global], q) <=> Has(ch[Global], q)) /\ (Wants(new[Global], q) <=> Wants(ch[Global], q))
      BY <1>2, <2>2 DEF Shorter
    <3> QED
      BY <3>2, <3>3 DEF Final
  <2> QED
    BY <2>1, <2>2
<1>9. FreePlanned(eof, k, g, ns, new)
  BY <1>1, <1>2, <1>5, <1>8, FreeKept
<1>10. Mirrored(new)
  <2>1. \A o \in Roles : \A q : ~Has(new[o], q)
    BY <1>2, <1>3 DEF Has, RolesDone
  <2> QED
    BY <2>1 DEF Mirrored
<1>11. ASSUME ns[Global].layout = "inline"
       PROVE  k <= InlineBits \/ Beyond(new)
  <2>1. ms[Global].layout = "inline" /\ ~(InlineBits <= p) /\ k = n
    <3>1. ns[Global].layout # "indirect"
      BY <1>11
    <3>2. ms[Global].layout # "indirect" /\ ~(InlineBits <= p)
      BY <1>2, <3>1 DEF SetTo
    <3>3. k = n
      BY <1>2, <3>2 DEF SetTo
    <3>4. ms[Global].layout \in {"inline", "indirect"}
      BY <1>1, <1>3, PageNumbers, References
    <3> QED
      BY <3>2, <3>3, <3>4
  <2>2. n <= InlineBits \/ Beyond(ch)
    BY <1>1, <2>1 DEF PendingInv
  <2>3. ASSUME Beyond(ch)
        PROVE  Beyond(new)
    <3>1. PICK q \in Nat : Has(ch[Global], q) /\ q >= InlineBits
      BY <2>3 DEF Beyond
    <3>2. q # p
      BY <2>1, <3>1, UsageMapsAssumption
    <3>3. Has(new[Global], q)
      BY <1>2, <3>1, <3>2 DEF Shorter
    <3> QED
      BY <3>1, <3>3 DEF Beyond
  <2> QED
    BY <2>1, <2>2, <2>3
<1>12. eof <= k
  BY <1>1, <1>5
<1> QED
  BY <1>2, <1>4, <1>7, <1>9, <1>10, <1>11, <1>12 DEF Planned, WorkInv, PendingInv

\* The plan while the final loop is at page j.
Including(n, f, ms, ch, j) == WorkInv(eof, n, f, ms, ch) /\ ChangesInv(n, ch) /\ IncludeInv(eof, n, ms, ch, j)

\* One round of the final loop.  Inside the inline window nothing is converted; an
\* indirect map already has the slots of the pages that were passed, so the bits a new
\* slot starts with are not theirs.
LEMMA RoundKeeps ==
  ASSUME eof \in Nat, NEW n \in Nat, NEW f, NEW ms, NEW ch, NEW j \in Nat, j < n, NEW k \in Nat, NEW g, NEW ns,
         Including(n, f, ms, ch, j), Spread(n, f, ms, Global, j, FALSE, k, g, ns)
  PROVE  Including(k, g, ns, ch, j + 1)
<1>1. /\ MapsFit(ms, n, f) /\ eof <= n /\ RolesPlanned(n, f, ms, ch) /\ FreePlanned(eof, n, f, ms, ch)
      /\ ChangesInv(n, ch)
  BY DEF Including, WorkInv
<1>2. /\ \A o \in Maps : ch[o] = <<>>
      /\ j \in eof .. n
      /\ ms[Global].layout = "inline" => n <= InlineBits
      /\ \A q \in eof .. j - 1 : q \notin ms[Global].bits
      /\ ms[Global].layout = "indirect" /\ eof < j => j <= Len(ms[Global].refs) * SlotBits
  BY DEF Including, IncludeInv
<1>3. /\ n <= k /\ PagesUsed(k, g) /\ MapsFit(ns, k, g) /\ SetTo(Global, ms[Global], ns[Global], j, FALSE, n)
      /\ (\A o \in Maps : o # Global => ns[o] = ms[o]) /\ Lengthened(n, f, k, g)
      /\ (k # n => Len(ns[Global].refs) # Len(ms[Global].refs))
  BY DEF Spread, Lengthened
<1>4. Global \in Maps /\ \A o \in Roles : o \in Maps /\ o # Global
  BY UsageMapsAssumption DEF Maps
<1>5. InlineBits \in Nat /\ SlotBits \in Nat /\ eof <= k /\ j >= eof
  BY <1>1, <1>2, <1>3, UsageMapsAssumption
<1>6. /\ ms[Global] \in MapRecords /\ ns[Global] \in MapRecords
      /\ ms[Global].layout \in {"inline", "indirect"} /\ ns[Global].layout \in {"inline", "indirect"}
      /\ Len(ms[Global].refs) * SlotBits \in Nat
  <2>1. ms[Global] \in MapRecords /\ ns[Global] \in MapRecords
    BY <1>1, <1>3, <1>4, PageNumbers
  <2>2. Len(ms[Global].refs) \in Nat
    BY <2>1, References
  <2> QED
    BY <1>5, <2>1, <2>2, References, SMTT(30)
<1>7. ChangesInv(k, ch)
  <2>1. 2 .. n - 1 \subseteq 2 .. k - 1
    BY <1>3
  <2> QED
    BY <1>1, <2>1 DEF ChangesInv, Listed
<1>8. RolesPlanned(k, g, ns, ch)
  <2> SUFFICES ASSUME NEW o \in Roles
               PROVE  RoleFits(o, k, g, ch[o], ns[o].bits)
    BY DEF RolesPlanned
  <2>1. RoleFits(o, n, f, ch[o], ns[o].bits)
    BY <1>1, <1>3, <1>4 DEF RolesPlanned
  <2>2. ns[o].bits \in SUBSET Nat /\ Listed(ch[o], n)
    BY <1>1, <1>3, <1>4, PageNumbers DEF ChangesInv
  <2> QED
    BY <1>3, <2>1, <2>2, RoleKept
<1>9. FreePlanned(eof, k, g, ns, ch)
  <2>1. ASSUME NEW q \in 0 .. eof - 1
        PROVE  Final(ch[Global], ns[Global].bits, q) <=> Final(ch[Global], ms[Global].bits, q)
    <3>1. ~(q >= eof) /\ q # j
      BY <1>5, <2>1
    <3>2. q \in ns[Global].bits <=> q \in ms[Global].bits
      BY <1>3, <3>1 DEF SetTo
    <3> QED
      BY <3>2 DEF Final
  <2> QED
    BY <1>1, <2>1, FreeKept
<1>10. ns[Global].layout = "inline" => ms[Global].layout = "inline" /\ k = n
  <2> SUFFICES ASSUME ns[Global].layout # "indirect"
               PROVE  ms[Global].layout = "inline" /\ k = n
    OBVIOUS
  <2>1. ms[Global].layout # "indirect" /\ ~(InlineBits <= j)
    BY <1>3 DEF SetTo
  <2>2. k = n
    BY <1>3, <2>1 DEF SetTo
  <2> QED
    BY <1>6, <2>1, <2>2
<1>11. ASSUME NEW q \in eof .. (j + 1) - 1
       PROVE  q \notin ns[Global].bits
  <2>1. CASE q = j
    BY <1>3, <2>1 DEF SetTo
  <2>2. CASE q # j
    <3>1. q \in eof .. j - 1 /\ eof < j /\ q \in Nat /\ q < j
      BY <1>11, <2>2
    <3>2. q \notin ms[Global].bits
      BY <1>2, <3>1
    <3>3. CASE ms[Global].layout = "indirect"
      <4>1. ~(Len(ms[Global].refs) * SlotBits <= q)
        BY <1>2, <1>6, <3>1, <3>3
      <4> QED
        BY <1>3, <2>2, <3>2, <3>3, <4>1 DEF SetTo
    <3>4. CASE ms[Global].layout = "inline"
      <4>1. ~(InlineBits <= j)
        BY <1>2, <1>5, <3>4
      <4>2. ns[Global].layout = "inline"
        BY <1>3, <3>4, <4>1 DEF SetTo
      <4> QED
        BY <1>3, <2>2, <3>2, <4>2 DEF SetTo
    <3> QED
      BY <1>6, <3>3, <3>4
  <2> QED
    BY <2>1, <2>2
<1>12. ns[Global].layout = "indirect" => j + 1 <= Len(ns[Global].refs) * SlotBits
  <2> SUFFICES ASSUME ns[Global].layout = "indirect"
               PROVE  j + 1 <= Len(ns[Global].refs) * SlotBits
    OBVIOUS
  <2>1. j \in Window(ns[Global])
    BY <1>3 DEF SetTo
  <2>2. Len(ns[Global].refs) * SlotBits \in Nat /\ j < Len(ns[Global].refs) * SlotBits
    BY <1>6, <2>1, WindowOfIndirect
  <2> QED
    BY <2>2
<1>13. IncludeInv(eof, k, ns, ch, j + 1)
  <2>1. j + 1 \in eof .. k
    BY <1>2, <1>3, <1>5
  <2>2. ns[Global].layout = "inline" => k <= InlineBits
    BY <1>2, <1>10
  <2> QED
    BY <1>2, <1>11, <1>12, <2>1, <2>2 DEF IncludeInv
<1> QED
  BY <1>3, <1>5, <1>7, <1>8, <1>9, <1>13 DEF Including, WorkInv

-----------------------------------------------------------------------------
(* The steps of finish_maps. *)

\* The numbers of pages of the file and of the plan.
LEMMA Counts ==
  ASSUME IInv
  PROVE  /\ eof \in Nat /\ eof >= 2 /\ next \in Nat /\ eof <= next /\ PagesUsed(next, placed) /\ MapsFit(work, next, placed)
         /\ Global \in Maps /\ \A m \in Roles : m \in Maps /\ m # Global
<1>1. PagesUsed(eof, used) /\ PagesUsed(next, placed) /\ MapsFit(work, next, placed) /\ eof <= next
  BY DEF IInv, FileInv, WorkInv
<1>2. Global \in Maps /\ \A m \in Roles : m \in Maps /\ m # Global
  BY UsageMapsAssumption DEF Maps
<1> QED
  BY <1>1, <1>2 DEF PagesUsed

\* One change of a list is applied.
LEMMA ChangeApplies ==
  ASSUME IInv, NEW m \in Maps, ApplyChange(m)
  PROVE  \E p \in Nat, k \in Nat : \E desired \in BOOLEAN :
           next' = k /\ Applies(next, placed, work, changes, m, p, desired, k, placed', work', changes')
<1> DEFINE p == Head(changes[m]).page
           desired == Head(changes[m]).desired
<1>1. changes[m] # <<>> /\ Set(m, p, desired) /\ changes' = [changes EXCEPT ![m] = Tail(changes[m])]
  BY DEF ApplyChange
<1>2. eof \in Nat /\ next \in Nat /\ PagesUsed(next, placed) /\ MapsFit(work, next, placed)
  BY Counts
<1>3. Listed(changes[m], next) /\ changes = [o \in Maps |-> changes[o]]
  BY DEF IInv, ChangesInv
<1>4. Shorter(changes[m], Tail(changes[m]), p, desired, next)
  BY <1>1, <1>2, <1>3, FirstTaken
<1> HIDE DEF p, desired
<1>5. p \in Nat /\ p >= 2 /\ desired \in BOOLEAN
  <2>1. p \in 2 .. next - 1 /\ desired \in BOOLEAN
    BY <1>4 DEF Shorter
  <2> QED
    BY <1>2, <2>1
<1>6. PICK k \in Nat : next' = k /\ Spread(next, placed, work, m, p, desired, k, placed', work')
  BY <1>1, <1>2, <1>5, SetSpreads
<1>7. /\ changes'[m] = Tail(changes[m]) /\ (\A o \in Maps : o # m => changes'[o] = changes[o])
      /\ changes' = [o \in Maps |-> changes'[o]]
  <2> DEFINE t == Tail(changes[m])
  <2>1. changes' = [changes EXCEPT ![m] = t]
    BY <1>1
  <2> HIDE DEF t
  <2>2. /\ changes'[m] = t /\ (\A o \in Maps : o # m => changes'[o] = changes[o])
        /\ changes' = [o \in Maps |-> changes'[o]]
    BY <1>3, <2>1
  <2> QED
    BY <2>2 DEF t
<1>8. Applies(next, placed, work, changes, m, p, desired, k, placed', work', changes')
  BY <1>4, <1>6, <1>7 DEF Applies
<1> QED
  BY <1>5, <1>6, <1>8

\* The maps of the tables.
LEMMA TableStep ==
  ASSUME IInv, NEW m \in Roles, ApplyToTable(m)
  PROVE  IInv'
<1>1. pc = "tables" /\ ApplyChange(m) /\ UNCHANGED <<file, pc>> /\ m \in Maps
  BY Counts DEF ApplyToTable, ApplyChange
<1>2. PICK p \in Nat, k \in Nat : \E desired \in BOOLEAN :
        next' = k /\ Applies(next, placed, work, changes, m, p, desired, k, placed', work', changes')
  BY <1>1, ChangeApplies
<1>3. PICK desired \in BOOLEAN :
        next' = k /\ Applies(next, placed, work, changes, m, p, desired, k, placed', work', changes')
  BY <1>2
<1>4. Planned(eof, next, placed, work, changes) /\ FileInv(eof, used, maps) /\ eof \in Nat /\ next \in Nat
  BY <1>1, Counts DEF IInv, Planned
<1>5. Planned(eof, k, placed', work', changes')
  BY <1>3, <1>4, TableApplied
<1>6. eof' = eof /\ used' = used /\ maps' = maps /\ pc' = "tables" /\ next' = k
  BY <1>1, <1>3 DEF file
<1> QED
  BY <1>4, <1>5, <1>6 DEF IInv, Planned

\* The global map, after them.
LEMMA GlobalStep ==
  ASSUME IInv, ApplyToGlobal
  PROVE  IInv'
<1>1. pc = "tables" /\ ApplyChange(Global) /\ UNCHANGED <<file, pc>> /\ Global \in Maps
  BY Counts DEF ApplyToGlobal, ApplyChange
<1>2. RolesDone(changes)
  BY DEF ApplyToGlobal, TablesApplied, RolesDone
<1>3. PICK p \in Nat, k \in Nat : \E desired \in BOOLEAN :
        next' = k /\ Applies(next, placed, work, changes, Global, p, desired, k, placed', work', changes')
  BY <1>1, ChangeApplies
<1>4. PICK desired \in BOOLEAN :
        next' = k /\ Applies(next, placed, work, changes, Global, p, desired, k, placed', work', changes')
  BY <1>3
<1>5. Planned(eof, next, placed, work, changes) /\ FileInv(eof, used, maps) /\ eof \in Nat /\ next \in Nat
  BY <1>1, Counts DEF IInv, Planned
<1>6. Planned(eof, k, placed', work', changes')
  BY <1>2, <1>4, <1>5, GlobalApplied
<1>7. eof' = eof /\ used' = used /\ maps' = maps /\ pc' = "tables" /\ next' = k
  BY <1>1, <1>4 DEF file
<1> QED
  BY <1>5, <1>6, <1>7 DEF IInv, Planned

\* All changes are applied: a file that grew beyond the window has converted the map.
LEMMA StartStep ==
  ASSUME IInv, StartInclude
  PROVE  IInv'
<1>1. /\ pc = "tables" /\ (\A o \in Roles : changes[o] = <<>>) /\ changes[Global] = <<>> /\ pc' = "include" /\ number' = eof
      /\ UNCHANGED <<file, next, placed, changes, work>>
  BY DEF StartInclude, TablesApplied
<1>2. /\ FileInv(eof, used, maps) /\ WorkInv(eof, next, placed, work, changes) /\ ChangesInv(next, changes)
      /\ PendingInv(next, work, changes)
  BY <1>1 DEF IInv
<1>3. eof \in Nat /\ next \in Nat /\ eof <= next
  BY Counts
<1>4. IncludeInv(eof, next, work, changes, eof)
  <2>1. \A m \in Maps : changes[m] = <<>>
    BY <1>1 DEF Maps
  <2>2. ~Beyond(changes)
    BY <1>1 DEF Beyond, Has
  <2>3. eof \in eof .. next /\ ~(eof < eof) /\ eof .. eof - 1 = {}
    BY <1>3
  <2> QED
    BY <1>2, <2>1, <2>2, <2>3 DEF IncludeInv, PendingInv
<1>5. eof' = eof /\ used' = used /\ maps' = maps /\ next' = next /\ placed' = placed /\ changes' = changes /\ work' = work
  BY <1>1 DEF file
<1> QED
  BY <1>1, <1>2, <1>4, <1>5 DEF IInv

\* One round of the final loop.
LEMMA RoundStep ==
  ASSUME IInv, IncludeNext
  PROVE  IInv'
<1>1. /\ pc = "include" /\ number < next /\ Set(Global, number, FALSE) /\ number' = number + 1
      /\ UNCHANGED <<file, pc, changes>>
  BY DEF IncludeNext, MoreToInclude, After
<1>2. FileInv(eof, used, maps) /\ Including(next, placed, work, changes, number)
  BY <1>1 DEF IInv, Including
<1>3. eof \in Nat /\ eof >= 2 /\ next \in Nat /\ PagesUsed(next, placed) /\ MapsFit(work, next, placed) /\ Global \in Maps
  BY Counts
<1>4. number \in Nat /\ number >= 2
  <2>1. number \in eof .. next
    BY <1>2 DEF Including, IncludeInv
  <2> QED
    BY <1>3, <2>1
<1>5. PICK k \in Nat : next' = k /\ Spread(next, placed, work, Global, number, FALSE, k, placed', work')
  BY <1>1, <1>3, <1>4, SetSpreads
<1>6. Including(k, placed', work', changes, number + 1)
  BY <1>1, <1>2, <1>3, <1>4, <1>5, RoundKeeps
<1>7. eof' = eof /\ used' = used /\ maps' = maps /\ pc' = "include" /\ next' = k /\ changes' = changes
  BY <1>1, <1>5 DEF file
<1> QED
  BY <1>1, <1>2, <1>6, <1>7 DEF IInv, Including

\* A plan that is dropped, or published, leaves the file to the next one.
LEMMA PlanEnds ==
  ASSUME NEW n, NEW f, NEW ms, FileInv(n, f, ms), EndPlan(n, f, ms), eof' = n, used' = f, maps' = ms
  PROVE  IInv'
<1>1. Planned(n, n, f, ms, NoChanges)
  BY PlanStarts
<1>2. pc' = "plan" /\ changes' = NoChanges /\ next' = n /\ placed' = f /\ work' = ms
  BY DEF EndPlan, NoChanges
<1> QED
  BY <1>1, <1>2 DEF IInv, Planned

\* The published file: the loop has passed every page up to its end.
LEMMA PublishStep ==
  ASSUME IInv, Publish
  PROVE  IInv'
<1>1. /\ pc = "include" /\ ~(number < next) /\ eof' = next /\ used' = placed /\ maps' = work
      /\ EndPlan(next, placed, work)
  BY DEF Publish, MoreToInclude
<1>2. /\ PagesUsed(next, placed) /\ MapsFit(work, next, placed) /\ RolesPlanned(next, placed, work, changes)
      /\ FreePlanned(eof, next, placed, work, changes) /\ IncludeInv(eof, next, work, changes, number)
  BY <1>1 DEF IInv, WorkInv
<1>3. eof \in Nat /\ next \in Nat /\ eof <= next /\ Global \in Maps /\ \A m \in Roles : m \in Maps
  BY Counts
<1>4. number = next
  <2>1. number \in eof .. next
    BY <1>2 DEF IncludeInv
  <2> QED
    BY <1>1, <1>3, <2>1
<1>5. \A m \in Maps : \A p : Final(changes[m], work[m].bits, p) <=> p \in work[m].bits
  <2>1. \A m \in Maps : changes[m] = <<>> /\ DOMAIN <<>> = {}
    BY <1>2 DEF IncludeInv
  <2> QED
    BY <2>1 DEF Final, Has, Wants
<1>6. DOMAIN placed = 0 .. next - 1
  BY <1>2 DEF PagesUsed
<1>7. ASSUME NEW m \in Roles
      PROVE  work[m].bits = {p \in DOMAIN placed : placed[p] = m}
  <2>1. /\ \A p \in work[m].bits : p < next
        /\ \A p \in 0 .. next - 1 : Final(changes[m], work[m].bits, p) <=> placed[p] = m
    BY <1>2 DEF RolesPlanned, RoleFits
  <2>2. work[m].bits \in SUBSET Nat
    BY <1>2, <1>3, PageNumbers
  <2>3. \A p \in work[m].bits : p \in 0 .. next - 1
    BY <1>3, <2>1, <2>2
  <2>4. \A p \in 0 .. next - 1 : p \in work[m].bits <=> placed[p] = m
    BY <1>3, <1>5, <2>1
  <2> QED
    BY <1>6, <2>3, <2>4
<1>8. ASSUME NEW p \in DOMAIN placed
      PROVE  p \in work[Global].bits <=> placed[p] = "free"
  <2>1. CASE p < eof
    <3>1. p \in 0 .. eof - 1
      BY <1>3, <1>6, <1>8, <2>1
    <3> QED
      BY <1>2, <1>3, <1>5, <3>1 DEF FreePlanned
  <2>2. CASE ~(p < eof)
    <3>1. p \in eof .. next - 1
      BY <1>3, <1>6, <1>8, <2>2
    <3> QED
      BY <1>2, <1>4, <3>1 DEF FreePlanned, IncludeInv
  <2> QED
    BY <2>1, <2>2
<1>9. Accounted(next, placed, work)
  BY <1>2, <1>7, <1>8 DEF Accounted, FreePlanned
<1>10. FileInv(next, placed, work)
  BY <1>2, <1>9 DEF FileInv, IncludeInv
<1> QED
  BY <1>1, <1>10, PlanEnds

\* Every step.
LEMMA StepKeeps == IInv /\ [Next]_vars => IInv'
<1> SUFFICES ASSUME IInv, [Next]_vars
             PROVE  IInv'
  OBVIOUS
<1>1. ASSUME NEW m \in Roles, AppendPage(m)
      PROVE  IInv'
  BY <1>1, AppendKeeps
<1>2. ASSUME NEW m \in Roles, NEW p \in DOMAIN used, ReusePage(m, p)
      PROVE  IInv'
  BY <1>2, ReuseKeeps
<1>3. ASSUME NEW m \in Roles, NEW p \in DOMAIN used, ReleasePage(m, p)
      PROVE  IInv'
  BY <1>3, ReleaseKeeps
<1>4. CASE Finish
  <2>1. pc = "plan" /\ pc' = "tables" /\ UNCHANGED <<file, next, placed, changes, work, number>>
    BY <1>4 DEF Finish
  <2> QED
    BY <2>1 DEF IInv, file
<1>5. FileInv(eof, used, maps)
  BY DEF IInv
<1>6. CASE Refuse
  <2>1. EndPlan(eof, used, maps) /\ eof' = eof /\ used' = used /\ maps' = maps
    BY <1>6 DEF Refuse, file
  <2> QED
    BY <1>5, <2>1, PlanEnds
<1>7. CASE SlotsExhausted
  <2>1. EndPlan(eof, used, maps) /\ eof' = eof /\ used' = used /\ maps' = maps
    BY <1>7 DEF SlotsExhausted, file
  <2> QED
    BY <1>5, <2>1, PlanEnds
<1>8. ASSUME NEW m \in Roles, ApplyToTable(m)
      PROVE  IInv'
  BY <1>8, TableStep
<1>9. CASE ApplyToGlobal
  BY <1>9, GlobalStep
<1>10. CASE StartInclude
  BY <1>10, StartStep
<1>11. CASE IncludeNext
  BY <1>11, RoundStep
<1>12. CASE Publish
  BY <1>12, PublishStep
<1>13. CASE UNCHANGED vars
  BY <1>13 DEF IInv, vars
<1> QED
  BY <1>1, <1>2, <1>3, <1>4, <1>6, <1>7, <1>8, <1>9, <1>10, <1>11, <1>12, <1>13 DEF Next, Progress

-----------------------------------------------------------------------------

\* Whatever number of maps grow in one plan, and wherever their bitmap pages land, the
\* published maps say exactly what each page is used for, when every map of a table
\* starts with a window from the start of the file, as all maps the program writes do.
THEOREM PagesStayAccounted == WindowsFromTheStart => (Spec => []EveryPageAccounted)
<1> SUFFICES ASSUME WindowsFromTheStart
             PROVE  Spec => []EveryPageAccounted
  OBVIOUS
<1>1. Init => IInv
  BY Starts
<1>2. IInv /\ [Next]_vars => IInv'
  BY StepKeeps
<1>3. IInv => EveryPageAccounted
  BY DEF IInv, FileInv, Accounted, EveryPageAccounted, Contains
<1> QED
  BY <1>1, <1>2, <1>3, PTL DEF Spec

\* The checks of MapBits::load and of the guard accept what any plan published: no
\* bitmap page, the global map's own included, is free or another map's.
THEOREM PlansFollow == WindowsFromTheStart => (Spec => []NextPlanAccepted)
<1> SUFFICES ASSUME WindowsFromTheStart
             PROVE  Spec => []NextPlanAccepted
  OBVIOUS
<1>1. Init => IInv
  BY Starts
<1>2. IInv /\ [Next]_vars => IInv'
  BY StepKeeps
<1>3. IInv => NextPlanAccepted
  BY GuardPasses DEF IInv, NextPlanAccepted
<1> QED
  BY <1>1, <1>2, <1>3, PTL DEF Spec
=============================================================================
