-------------------------- MODULE PageLayoutProofs --------------------------
(***************************************************************************)
(* Proofs about PageLayout for every page size, row length and number of   *)
(* slots: the byte movements of the data page editor never tear a row.     *)
(***************************************************************************)
EXTENDS PageLayout, Integers, TLAPS

-----------------------------------------------------------------------------
(* A page of rows. *)

SlotRecords == Storable \union {Tombstone}
FlagRecords == [hidden : BOOLEAN, overflow : BOOLEAN]
WordRecords == [start : Nat, flags : FlagRecords]

\* Where row i starts; the row before the first one would start at the end of the page.
Start(ws, i) == IF i = 0 THEN PageBytes ELSE ws[i].start

SamePage(ws, cs, slots) ==
  /\ ws \in Seq(WordRecords) /\ slots \in Seq(SlotRecords) /\ Len(slots) = Len(ws) /\ Len(ws) # 0
  /\ DOMAIN cs = 0 .. PageBytes - 1
\* Every slot word says what its slot holds.
Described(ws, slots) ==
  \A s \in 1 .. Len(ws) :
    ws[s].flags = Flags(slots[s].kind) /\ Start(ws, s) + slots[s].len = Start(ws, s - 1)
\* Rows descend, over any number of slots, and only rows make them.
Descending(ws) == \A i, j \in 0 .. Len(ws) : i < j => Start(ws, j) <= Start(ws, i)
OnlyRows(ws, slots) ==
  \A i, j \in 0 .. Len(ws) :
    i < j /\ (\A k \in i + 1 .. j : slots[k].len = 0) => Start(ws, i) = Start(ws, j)
Contents(ws, cs, slots) ==
  \A s \in 1 .. Len(ws) : \A k \in 0 .. slots[s].len - 1 : cs[ws[s].start + k] = <<slots[s].val, k>>

Laid(ws, cs, slots) ==
  /\ SamePage(ws, cs, slots) /\ Described(ws, slots) /\ Descending(ws) /\ OnlyRows(ws, slots)
  /\ Contents(ws, cs, slots) /\ DirectoryEnd(ws) <= Lowest(ws)

\* Only a removed slot is empty.
LEMMA SlotLength ==
  ASSUME NEW slot \in SlotRecords
  PROVE  /\ slot.len \in Nat /\ (slot.len = 0 <=> slot.kind = "deleted")
         /\ slot.kind \in {"ordinary", "link", "storage", "storage_link", "deleted"}
         /\ slot.len = 0 => slot = Tombstone
BY LayoutAssumption, PageConstants DEF SlotRecords, Storable, Tombstone, Slot

\* Flags and words have their types.
LEMMA WordType ==
  ASSUME NEW n \in Nat, NEW kind
  PROVE  /\ Word(n, kind) \in WordRecords /\ Word(n, kind).start = n
         /\ Word(n, kind).flags = Flags(kind)
BY DEF Word, WordRecords, Flags, FlagRecords

\* The directory and the rows of a page are numbers of bytes.
LEMMA PageNumbers ==
  ASSUME NEW ws, NEW cs, NEW slots, Laid(ws, cs, slots)
  PROVE  /\ Len(ws) \in Nat \ {0} /\ DirectoryEnd(ws) \in Nat /\ PageBytes \in Nat
         /\ DOMAIN ws = 1 .. Len(ws) /\ DOMAIN slots = 1 .. Len(ws)
         /\ \A i \in 0 .. Len(ws) : Start(ws, i) \in Nat /\ Start(ws, i) <= PageBytes
         /\ Lowest(ws) = Start(ws, Len(ws))
         /\ \A i \in 0 .. Len(ws) : Lowest(ws) <= Start(ws, i)
<1>1. ws \in Seq(WordRecords) /\ slots \in Seq(SlotRecords) /\ Len(slots) = Len(ws) /\ Len(ws) # 0
  BY DEF Laid, SamePage
<1>2. Len(ws) \in Nat \ {0} /\ DOMAIN ws = 1 .. Len(ws) /\ DOMAIN slots = 1 .. Len(ws) /\ PageBytes \in Nat
  BY <1>1, PageConstants
<1>3. \A i \in 0 .. Len(ws) : Start(ws, i) \in Nat
  <2>1. \A i \in 1 .. Len(ws) : ws[i].start \in Nat
    <3>1. \A i \in 1 .. Len(ws) : ws[i] \in WordRecords
      BY <1>1
    <3>2. \A w \in WordRecords : w.start \in Nat
      BY DEF WordRecords
    <3> QED
      BY <3>1, <3>2
  <2> QED
    BY <1>2, <2>1 DEF Start
<1>4. DirectoryEnd(ws) \in Nat
  BY <1>2, PageConstants DEF DirectoryEnd
<1>5. Lowest(ws) = Start(ws, Len(ws))
  BY <1>2 DEF Lowest, Start
<1>6. Descending(ws)
  BY DEF Laid
<1>7. \A i \in 0 .. Len(ws) : Start(ws, i) <= PageBytes
  <2>1. Start(ws, 0) = PageBytes
    BY DEF Start
  <2> QED
    BY <1>2, <1>3, <1>6, <2>1 DEF Descending
<1>8. \A i \in 0 .. Len(ws) : Lowest(ws) <= Start(ws, i)
  BY <1>2, <1>3, <1>5, <1>6 DEF Descending
<1> QED
  BY <1>2, <1>3, <1>4, <1>5, <1>7, <1>8

\* Reading a slot gives what it holds.
LEMMA ReadsBack ==
  ASSUME NEW ws, NEW cs, NEW slots, Laid(ws, cs, slots), NEW s \in 1 .. Len(ws)
  PROVE  /\ RowEnd(ws, s) = Start(ws, s - 1) /\ RowEnd(ws, s) \in Nat /\ ws[s].start \in Nat
         /\ RowLen(ws, s) = slots[s].len /\ slots[s] \in SlotRecords
         /\ ReadSlot(ws, s) = slots[s].kind
<1>1. slots[s] \in SlotRecords
  BY DEF Laid, SamePage
<1>2. Start(ws, s) = ws[s].start /\ s - 1 \in 0 .. Len(ws) /\ s \in 0 .. Len(ws)
  BY PageNumbers DEF Start
<1>3. RowEnd(ws, s) = Start(ws, s - 1) /\ RowEnd(ws, s) \in Nat /\ ws[s].start \in Nat
  BY <1>2, PageNumbers DEF RowEnd, Start
<1>4. RowLen(ws, s) = slots[s].len
  BY <1>1, <1>2, <1>3, SlotLength DEF RowLen, Laid, Described
<1>5. ws[s].flags = Flags(slots[s].kind)
  BY DEF Laid, Described
<1>6. ReadSlot(ws, s) = slots[s].kind
  <2> DEFINE kind == slots[s].kind
             len == slots[s].len
  <2>1. /\ len \in Nat /\ (len = 0 <=> kind = "deleted")
        /\ kind \in {"ordinary", "link", "storage", "storage_link", "deleted"}
    BY <1>1, SlotLength
  <2>2. /\ ws[s].flags.hidden = (kind \in {"storage", "storage_link", "deleted"})
        /\ ws[s].flags.overflow = (kind \in {"link", "storage_link", "deleted"})
    BY <1>5 DEF Flags
  <2>3. RowLen(ws, s) = len
    BY <1>4
  <2> HIDE DEF kind, len
  <2>4. CASE kind = "ordinary"
    BY <2>2, <2>4 DEF ReadSlot, kind
  <2>5. CASE kind = "link"
    BY <2>2, <2>5 DEF ReadSlot, kind
  <2>6. CASE kind = "storage"
    BY <2>2, <2>6 DEF ReadSlot, kind
  <2>7. CASE kind = "storage_link"
    BY <2>1, <2>2, <2>3, <2>7 DEF ReadSlot, kind
  <2>8. CASE kind = "deleted"
    BY <2>1, <2>2, <2>3, <2>8 DEF ReadSlot, kind
  <2> QED
    BY <2>1, <2>4, <2>5, <2>6, <2>7, <2>8
<1> QED
  BY <1>1, <1>3, <1>4, <1>6

-----------------------------------------------------------------------------
(* A row changes its length by -d: its start and the rows below move by d. *)

\* The slot words afterwards.
MovedWords(ws, new, slots, s, slot, d) ==
  /\ new \in Seq(WordRecords) /\ Len(new) = Len(ws)
  /\ \A i \in 1 .. Len(ws) : i < s => new[i] = ws[i]
  /\ \A i \in 1 .. Len(ws) : s <= i => new[i].start = ws[i].start + d
  /\ \A i \in 1 .. Len(ws) : s < i => new[i].flags = Flags(slots[i].kind)
  /\ new[s].flags = Flags(slot.kind)
\* The bytes afterwards: above the row, in the row, below the row.
MovedBytes(ws, cs, new, s, slot, d) ==
  /\ DOMAIN new = DOMAIN cs
  /\ \A b \in 0 .. PageBytes - 1 : Start(ws, s - 1) <= b => new[b] = cs[b]
  /\ \A k \in 0 .. slot.len - 1 : new[ws[s].start + d + k] = <<slot.val, k>>
  /\ \A b \in Lowest(ws) .. ws[s].start - 1 : new[b + d] = cs[b]

\* The words and the bytes moved that way are a page of the new rows.
LEMMA RowsMove ==
  ASSUME NEW ws, NEW cs, NEW slots, Laid(ws, cs, slots), NEW s \in 1 .. Len(ws),
         NEW slot \in SlotRecords, NEW d \in Int, d = slots[s].len - slot.len,
         DirectoryEnd(ws) <= Lowest(ws) + d, NEW ws2, MovedWords(ws, ws2, slots, s, slot, d),
         NEW cs2, MovedBytes(ws, cs, cs2, s, slot, d)
  PROVE  /\ Laid(ws2, cs2, [slots EXCEPT ![s] = slot])
         /\ Lowest(ws2) = Lowest(ws) + d /\ DirectoryEnd(ws2) = DirectoryEnd(ws)
<1> DEFINE n == Len(ws)
           after == [slots EXCEPT ![s] = slot]
           S(i) == Start(ws, i)
           T(i) == Start(ws2, i)
<1>1. /\ n \in Nat \ {0} /\ DirectoryEnd(ws) \in Nat /\ PageBytes \in Nat
      /\ DOMAIN slots = 1 .. n /\ DOMAIN ws = 1 .. n
  BY PageNumbers
<1>2. \A i \in 0 .. n : S(i) \in Nat /\ S(i) <= PageBytes
  BY PageNumbers
<1>3. Lowest(ws) = S(n) /\ \A i \in 0 .. n : S(n) <= S(i)
  BY PageNumbers
<1>4. s \in 1 .. n /\ d \in Int
  OBVIOUS
<1>5. slots \in Seq(SlotRecords) /\ ws \in Seq(WordRecords) /\ Len(slots) = n /\ DOMAIN cs = 0 .. PageBytes - 1
  BY DEF Laid, SamePage
<1>6. after \in Seq(SlotRecords) /\ Len(after) = n /\ after[s] = slot
      /\ \A i \in 1 .. n : i # s => after[i] = slots[i]
  BY <1>1, <1>5
<1>7. \A i \in 1 .. n : slots[i].len \in Nat /\ after[i].len \in Nat
  <2>1. \A i \in 1 .. n : slots[i] \in SlotRecords /\ after[i] \in SlotRecords
    BY <1>5, <1>6
  <2> QED
    BY <2>1, SlotLength
<1>8. slot.len \in Nat /\ after[s].len = slot.len
  BY <1>6, SlotLength
<1>9. \A i \in 0 .. n : T(i) = IF i < s THEN S(i) ELSE S(i) + d
  <2>1. T(0) = S(0)
    BY DEF Start
  <2>2. ASSUME NEW i \in 1 .. n
        PROVE  T(i) = IF i < s THEN S(i) ELSE S(i) + d
    <3>1. T(i) = ws2[i].start /\ S(i) = ws[i].start
      BY <1>1 DEF Start
    <3> QED
      BY <1>1, <3>1 DEF MovedWords
  <2> QED
    BY <1>1, <1>4, <2>1, <2>2
<1>10. S(s) + slots[s].len = S(s - 1) /\ \A i \in 1 .. n : S(i) + slots[i].len = S(i - 1)
  BY DEF Laid, Described
<1>11. \A i, j \in 0 .. n : i < j => S(j) <= S(i)
  BY DEF Laid, Descending
<1>12. \A i, j \in 0 .. n : i < j /\ (\A k \in i + 1 .. j : slots[k].len = 0) => S(i) = S(j)
  BY DEF Laid, OnlyRows
<1>13. \A i \in 1 .. n : \A k \in 0 .. slots[i].len - 1 : cs[S(i) + k] = <<slots[i].val, k>>
  <2>1. \A i \in 1 .. n : S(i) = ws[i].start
    BY <1>1 DEF Start
  <2>2. Contents(ws, cs, slots)
    BY DEF Laid
  <2> HIDE DEF S
  <2> QED
    BY <2>1, <2>2 DEF Contents
<1>14. /\ \A i \in 1 .. n : i < s => ws2[i] = ws[i]
       /\ ws2[s].flags = Flags(slot.kind)
       /\ \A i \in 1 .. n : s < i => ws2[i].flags = Flags(slots[i].kind)
       /\ ws2 \in Seq(WordRecords) /\ Len(ws2) = n
  BY DEF MovedWords
<1>15. \A i \in 1 .. n : i < s => ws2[i].flags = Flags(slots[i].kind)
  BY <1>14 DEF Laid, Described
<1>16. /\ DOMAIN cs2 = 0 .. PageBytes - 1
       /\ \A b \in 0 .. PageBytes - 1 : S(s - 1) <= b => cs2[b] = cs[b]
       /\ \A k \in 0 .. slot.len - 1 : cs2[S(s) + d + k] = <<slot.val, k>>
       /\ \A b \in S(n) .. S(s) - 1 : cs2[b + d] = cs[b]
  BY <1>1, <1>3, <1>5 DEF MovedBytes, Start
<1>17. d = slots[s].len - slot.len /\ DirectoryEnd(ws) <= S(n) + d
  BY <1>3
<1> HIDE DEF n, after, S, T
<1>25. /\ s \in 0 .. n /\ s - 1 \in 0 .. n /\ n \in 0 .. n
       /\ \A i \in 1 .. n : i \in 0 .. n /\ i - 1 \in 0 .. n
  BY <1>1, <1>4
<1>26. /\ S(s) \in Nat /\ S(s - 1) \in Nat /\ S(n) \in Nat
       /\ \A i \in 1 .. n : S(i) \in Nat /\ S(i - 1) \in Nat /\ S(i - 1) <= PageBytes
  BY <1>2, <1>25
<1>18. SamePage(ws2, cs2, after)
  BY <1>1, <1>6, <1>14, <1>16 DEF SamePage, n
<1>19. Described(ws2, after)
  <2> SUFFICES ASSUME NEW i \in 1 .. n
               PROVE  ws2[i].flags = Flags(after[i].kind) /\ T(i) + after[i].len = T(i - 1)
    BY <1>14 DEF Described, n, T
  <2>1. ws2[i].flags = Flags(after[i].kind)
    <3>1. CASE i < s
      BY <1>1, <1>4, <1>6, <1>15, <3>1
    <3>2. CASE i = s
      BY <1>6, <1>14, <3>2
    <3>3. CASE s < i
      BY <1>1, <1>4, <1>6, <1>14, <3>3
    <3> QED
      BY <1>1, <1>4, <3>1, <3>2, <3>3
  <2>2. T(i) + after[i].len = T(i - 1)
    <3>1. /\ S(i) + slots[i].len = S(i - 1) /\ S(i) \in Nat /\ S(i - 1) \in Nat
          /\ slots[i].len \in Nat /\ slot.len \in Nat /\ slots[s].len \in Nat
      BY <1>4, <1>7, <1>8, <1>10, <1>26
    <3>2. /\ T(i) = IF i < s THEN S(i) ELSE S(i) + d
          /\ T(i - 1) = IF i - 1 < s THEN S(i - 1) ELSE S(i - 1) + d
      BY <1>1, <1>9
    <3>3. after[i].len = IF i = s THEN slot.len ELSE slots[i].len
      BY <1>6
    <3> QED
      BY <1>1, <1>4, <1>17, <3>1, <3>2, <3>3, SMTT(30)
  <2> QED
    BY <2>1, <2>2
<1>20. Descending(ws2)
  <2> SUFFICES ASSUME NEW i \in 0 .. n, NEW j \in 0 .. n, i < j
               PROVE  T(j) <= T(i)
    BY <1>14 DEF Descending, n, T
  <2>1. S(j) <= S(i) /\ S(i) \in Nat /\ S(j) \in Nat
    BY <1>2, <1>11
  <2>2. /\ T(i) = IF i < s THEN S(i) ELSE S(i) + d
        /\ T(j) = IF j < s THEN S(j) ELSE S(j) + d
    BY <1>9
  <2>3. CASE i < s /\ s <= j
    <3>1. S(j) <= S(s)
      <4>1. j = s \/ s < j
        BY <1>1, <1>4, <2>3
      <4> QED
        BY <1>11, <1>25, <1>26, <4>1
    <3>2. S(s - 1) <= S(i)
      <4>1. i = s - 1 \/ i < s - 1
        BY <1>1, <1>4, <2>3
      <4> QED
        BY <1>11, <1>25, <1>26, <4>1
    <3>3. T(i) = S(i) /\ T(j) = S(j) + d
      BY <1>1, <1>4, <2>2, <2>3
    <3>4. S(s) + d <= S(s - 1)
      <4> DEFINE old == slots[s].len
                 new == slot.len
      <4>1. old \in Nat /\ new \in Nat /\ S(s) + old = S(s - 1) /\ d = old - new
        BY <1>4, <1>7, <1>8, <1>10, <1>17
      <4> HIDE DEF old, new
      <4> QED
        BY <1>26, <4>1
    <3> QED
      BY <1>4, <1>26, <2>1, <3>1, <3>2, <3>3, <3>4, SMTT(30)
  <2>4. CASE s <= i \/ j < s
    BY <1>1, <1>4, <2>1, <2>2, <2>4
  <2> QED
    BY <1>1, <1>4, <2>3, <2>4
<1>21. OnlyRows(ws2, after)
  <2> SUFFICES ASSUME NEW i \in 0 .. n, NEW j \in 0 .. n, i < j,
                      \A k \in i + 1 .. j : after[k].len = 0
               PROVE  T(i) = T(j)
    BY <1>14 DEF OnlyRows, n, T
  <2>1. S(i) \in Nat /\ S(j) \in Nat
    BY <1>2
  <2>2. /\ T(i) = IF i < s THEN S(i) ELSE S(i) + d
        /\ T(j) = IF j < s THEN S(j) ELSE S(j) + d
    BY <1>9
  <2>3. \A k \in i + 1 .. j : k # s => slots[k].len = 0
    BY <1>1, <1>6
  <2>4. CASE i < s /\ s <= j
    <3>1. S(i) = S(s - 1)
      <4>1. CASE i = s - 1
        BY <4>1
      <4>2. CASE i < s - 1
        <5>1. \A k \in i + 1 .. s - 1 : slots[k].len = 0
          BY <1>1, <1>4, <2>3, <2>4
        <5> QED
          BY <1>1, <1>4, <1>12, <4>2, <5>1
      <4> QED
        BY <1>1, <1>4, <2>4, <4>1, <4>2
    <3>2. S(s) = S(j)
      <4>1. CASE j = s
        BY <4>1
      <4>2. CASE s < j
        <5>1. \A k \in s + 1 .. j : slots[k].len = 0
          BY <1>1, <1>4, <2>3, <2>4
        <5> QED
          BY <1>1, <1>4, <1>12, <4>2, <5>1
      <4> QED
        BY <1>1, <1>4, <2>4, <4>1, <4>2
    <3>3. slot.len = 0
      BY <1>1, <1>4, <1>8, <2>4
    <3> QED
      BY <1>4, <1>7, <1>8, <1>10, <1>17, <2>1, <2>2, <2>4, <3>1, <3>2, <3>3
  <2>5. CASE s <= i \/ j < s
    <3>1. \A k \in i + 1 .. j : slots[k].len = 0
      BY <1>1, <1>4, <2>3, <2>5
    <3> QED
      BY <1>1, <1>4, <1>12, <2>1, <2>2, <2>5, <3>1
  <2> QED
    BY <1>1, <1>4, <2>4, <2>5
<1>22. Contents(ws2, cs2, after)
  <2> SUFFICES ASSUME NEW i \in 1 .. n, NEW k \in 0 .. after[i].len - 1
               PROVE  cs2[T(i) + k] = <<after[i].val, k>>
    <3>1. \A i \in 1 .. n : T(i) = ws2[i].start
      BY <1>1, <1>14 DEF Start, T
    <3> QED
      BY <1>14, <3>1 DEF Contents
  <2>1. /\ S(i) \in Nat /\ S(i - 1) \in Nat /\ S(i - 1) <= PageBytes /\ k \in Nat
        /\ S(i) + slots[i].len = S(i - 1) /\ slots[i].len \in Nat
    BY <1>7, <1>10, <1>6, <1>26
  <2>2. T(i) = IF i < s THEN S(i) ELSE S(i) + d
    BY <1>9
  <2>3. CASE i < s
    <3>1. S(s - 1) <= S(i)
      <4>1. i = s - 1 \/ i < s - 1
        BY <1>1, <1>4, <2>3
      <4> QED
        BY <1>11, <1>25, <1>26, <4>1
    <3>2. after[i] = slots[i] /\ k \in 0 .. slots[i].len - 1
      BY <1>6, <2>3
    <3>3. S(i) + k \in 0 .. PageBytes - 1 /\ S(s - 1) <= S(i) + k
      <4> DEFINE l == slots[i].len
      <4>1. l \in Nat /\ k < l /\ S(i) + l <= PageBytes
        BY <2>1, <3>2
      <4>2. S(i) \in Nat /\ k \in Nat /\ PageBytes \in Nat
        BY <1>1, <2>1
      <4>3. S(s - 1) \in Nat
        BY <1>26
      <4> HIDE DEF l
      <4>4. S(i) + k \in Nat /\ S(i) + k < PageBytes
        BY <4>1, <4>2
      <4>5. S(s - 1) <= S(i) + k
        BY <3>1, <4>2, <4>3
      <4> QED
        BY <4>2, <4>4, <4>5
    <3> QED
      BY <1>13, <1>16, <2>2, <2>3, <3>2, <3>3
  <2>4. CASE i = s
    BY <1>6, <1>16, <2>2, <2>4
  <2>5. CASE s < i
    <3>1. S(i - 1) <= S(s) /\ S(n) <= S(i)
      <4>1. i - 1 = s \/ s < i - 1
        BY <1>1, <1>4, <2>5
      <4> QED
        BY <1>3, <1>11, <1>25, <1>26, <4>1, SMTT(30)
    <3>2. after[i] = slots[i] /\ k \in 0 .. slots[i].len - 1
      BY <1>6, <2>5
    <3>4. S(i) + k \in S(n) .. S(s) - 1
      <4> DEFINE l == slots[i].len
      <4>1. l \in Nat /\ k < l /\ S(i) + l = S(i - 1)
        BY <2>1, <3>2
      <4> HIDE DEF l
      <4>2. S(i) + k < S(s)
        BY <1>26, <2>1, <3>1, <4>1, SMTT(30)
      <4> QED
        BY <1>26, <2>1, <3>1, <4>2, SMTT(30)
    <3>5. cs2[S(i) + k + d] = cs[S(i) + k]
      BY <1>16, <3>4
    <3>6. T(i) + k = S(i) + k + d
      BY <1>4, <2>1, <2>2, <2>5
    <3> QED
      BY <1>13, <3>2, <3>5, <3>6
  <2> QED
    BY <1>1, <1>4, <2>3, <2>4, <2>5
<1>23. Lowest(ws2) = T(n)
  BY <1>1, <1>14 DEF Lowest, T, Start
<1>24. Lowest(ws2) = S(n) + d /\ DirectoryEnd(ws2) = DirectoryEnd(ws)
  BY <1>1, <1>4, <1>9, <1>14, <1>23 DEF DirectoryEnd, n
<1> QED
  BY <1>3, <1>17, <1>18, <1>19, <1>20, <1>21, <1>22, <1>24 DEF Laid, after, n

-----------------------------------------------------------------------------
(* A row more, a new page, a released page. *)

\* A row put below the lowest one, with the slot word the directory grows by.
LEMMA RowAdded ==
  ASSUME NEW ws, NEW cs, NEW slots, Laid(ws, cs, slots), NEW slot \in SlotRecords, slot.len # 0,
         DirectoryEnd(ws) + EntryLen <= Lowest(ws) - slot.len,
         NEW cs2, DOMAIN cs2 = DOMAIN cs,
         \A b \in 0 .. PageBytes - 1 : Lowest(ws) <= b => cs2[b] = cs[b],
         \A k \in 0 .. slot.len - 1 : cs2[Lowest(ws) - slot.len + k] = <<slot.val, k>>
  PROVE  LET ws2 == Append(ws, Word(Lowest(ws) - slot.len, slot.kind))
         IN  /\ Laid(ws2, cs2, Append(slots, slot))
             /\ Lowest(ws2) = Lowest(ws) - slot.len /\ DirectoryEnd(ws2) = DirectoryEnd(ws) + EntryLen
<1> DEFINE n == Len(ws)
           start == Lowest(ws) - slot.len
           ws2 == Append(ws, Word(start, slot.kind))
           after == Append(slots, slot)
           S(i) == Start(ws, i)
           T(i) == Start(ws2, i)
<1>1. /\ n \in Nat \ {0} /\ DirectoryEnd(ws) \in Nat /\ PageBytes \in Nat /\ EntryLen \in Nat
      /\ DOMAIN slots = 1 .. n /\ DOMAIN ws = 1 .. n
  BY PageNumbers, PageConstants
<1>2. \A i \in 0 .. n : S(i) \in Nat /\ S(i) <= PageBytes
  BY PageNumbers
<1>3. Lowest(ws) = S(n) /\ (\A i \in 0 .. n : S(n) <= S(i)) /\ S(n) \in Nat /\ S(n) <= PageBytes
  BY PageNumbers
<1>4. slot.len \in Nat \ {0}
  BY SlotLength
<1>5. start \in Nat /\ start + slot.len = S(n) /\ start < S(n)
  BY <1>1, <1>3, <1>4
<1>6. slots \in Seq(SlotRecords) /\ ws \in Seq(WordRecords) /\ Len(slots) = n /\ DOMAIN cs = 0 .. PageBytes - 1
  BY DEF Laid, SamePage
<1>7. Word(start, slot.kind) \in WordRecords /\ Word(start, slot.kind).start = start
      /\ Word(start, slot.kind).flags = Flags(slot.kind)
  BY <1>5, WordType
<1>8. /\ after \in Seq(SlotRecords) /\ Len(after) = n + 1 /\ after[n + 1] = slot
      /\ \A i \in 1 .. n : after[i] = slots[i]
  BY <1>1, <1>6
<1>9. /\ ws2 \in Seq(WordRecords) /\ Len(ws2) = n + 1 /\ ws2[n + 1] = Word(start, slot.kind)
      /\ \A i \in 1 .. n : ws2[i] = ws[i]
  BY <1>1, <1>6, <1>7
<1>10. \A i \in 0 .. n : T(i) = S(i)
  BY <1>1, <1>9 DEF Start
<1>11. T(n + 1) = start
  BY <1>1, <1>7, <1>9 DEF Start
<1>12. \A i \in 1 .. n : ws[i].flags = Flags(slots[i].kind) /\ S(i) + slots[i].len = S(i - 1)
  BY DEF Laid, Described
<1>13. \A i, j \in 0 .. n : i < j => S(j) <= S(i)
  BY DEF Laid, Descending
<1>14. \A i, j \in 0 .. n : i < j /\ (\A k \in i + 1 .. j : slots[k].len = 0) => S(i) = S(j)
  BY DEF Laid, OnlyRows
<1>15. \A i \in 1 .. n : \A k \in 0 .. slots[i].len - 1 : cs[S(i) + k] = <<slots[i].val, k>>
  <2>1. \A i \in 1 .. n : S(i) = ws[i].start
    BY <1>1 DEF Start
  <2>2. Contents(ws, cs, slots)
    BY DEF Laid
  <2> HIDE DEF S
  <2> QED
    BY <2>1, <2>2 DEF Contents
<1>16. /\ DOMAIN cs2 = 0 .. PageBytes - 1
       /\ \A b \in 0 .. PageBytes - 1 : S(n) <= b => cs2[b] = cs[b]
       /\ \A k \in 0 .. slot.len - 1 : cs2[start + k] = <<slot.val, k>>
  BY <1>3, <1>6
<1>17. \A i \in 1 .. n : slots[i].len \in Nat
  <2>1. \A i \in 1 .. n : slots[i] \in SlotRecords
    BY <1>6
  <2> QED
    BY <2>1, SlotLength
<1>18. DirectoryEnd(ws2) = DirectoryEnd(ws) + EntryLen
  <2>1. \A e, m \in Nat : e * (m + 1) = e * m + e /\ e * m \in Nat
    OBVIOUS
  <2>2. EntryLen * (n + 1) = EntryLen * n + EntryLen /\ EntryLen * n \in Nat
    BY <1>1, <2>1
  <2>3. DirectoryEnd(ws2) = DirectoryOffset + EntryLen * (n + 1) /\ DirectoryEnd(ws) = DirectoryOffset + EntryLen * n
    BY <1>9 DEF DirectoryEnd
  <2> QED
    BY <1>1, <2>2, <2>3, PageConstants
<1>19. Lowest(ws2) = start /\ DirectoryEnd(ws) + EntryLen <= start
  BY <1>1, <1>7, <1>9 DEF Lowest
<1> HIDE DEF n, start, ws2, after, S, T
<1>20. \A i \in 1 .. n : i \in 0 .. n /\ i - 1 \in 0 .. n /\ S(i) \in Nat /\ S(i - 1) \in Nat /\ S(i - 1) <= PageBytes
  <2>1. \A i \in 1 .. n : i \in 0 .. n /\ i - 1 \in 0 .. n
    BY <1>1
  <2> QED
    BY <1>2, <2>1
<1>21. SamePage(ws2, cs2, after)
  BY <1>1, <1>8, <1>9, <1>16 DEF SamePage
<1>22. Described(ws2, after)
  <2> SUFFICES ASSUME NEW i \in 1 .. n + 1
               PROVE  ws2[i].flags = Flags(after[i].kind) /\ T(i) + after[i].len = T(i - 1)
    BY <1>9 DEF Described, T
  <2>1. CASE i \in 1 .. n
    BY <1>8, <1>9, <1>10, <1>12, <1>20, <2>1
  <2>2. CASE i = n + 1
    <3>1. i - 1 = n /\ n \in 0 .. n
      BY <1>1, <2>2
    <3> QED
      BY <1>5, <1>7, <1>8, <1>9, <1>10, <1>11, <2>2, <3>1
  <2> QED
    BY <1>1, <2>1, <2>2
<1>23. Descending(ws2)
  <2> SUFFICES ASSUME NEW i \in 0 .. n + 1, NEW j \in 0 .. n + 1, i < j
               PROVE  T(j) <= T(i)
    BY <1>9 DEF Descending, T
  <2>1. i \in 0 .. n
    BY <1>1
  <2>2. CASE j \in 0 .. n
    BY <1>10, <1>13, <2>1, <2>2
  <2>3. CASE j = n + 1
    <3>1. S(n) <= S(i) /\ S(i) \in Nat
      BY <1>2, <1>3, <2>1
    <3> QED
      BY <1>3, <1>5, <1>10, <1>11, <2>1, <2>3, <3>1
  <2> QED
    BY <1>1, <2>2, <2>3
<1>24. OnlyRows(ws2, after)
  <2> SUFFICES ASSUME NEW i \in 0 .. n + 1, NEW j \in 0 .. n + 1, i < j,
                      \A k \in i + 1 .. j : after[k].len = 0
               PROVE  T(i) = T(j)
    BY <1>9 DEF OnlyRows, T
  <2>1. i \in 0 .. n
    BY <1>1
  <2>2. CASE j \in 0 .. n
    <3>1. \A k \in i + 1 .. j : slots[k].len = 0
      BY <1>1, <1>8, <2>2
    <3> QED
      BY <1>10, <1>14, <2>1, <2>2, <3>1
  <2>3. CASE j = n + 1
    <3>1. after[j].len = 0
      BY <1>1, <2>1
    <3> QED
      BY <1>4, <1>8, <2>3, <3>1
  <2> QED
    BY <1>1, <2>2, <2>3
<1>25. Contents(ws2, cs2, after)
  <2> SUFFICES ASSUME NEW i \in 1 .. n + 1, NEW k \in 0 .. after[i].len - 1
               PROVE  cs2[T(i) + k] = <<after[i].val, k>>
    <3>1. \A i \in 1 .. n + 1 : T(i) = ws2[i].start
      BY <1>1, <1>9 DEF Start, T
    <3> QED
      BY <1>9, <3>1 DEF Contents
  <2>1. CASE i \in 1 .. n
    <3>1. after[i] = slots[i] /\ T(i) = S(i) /\ k \in 0 .. slots[i].len - 1
      BY <1>8, <1>10, <1>20, <2>1
    <3> DEFINE l == slots[i].len
    <3>2. l \in Nat /\ k \in Nat /\ k < l /\ S(i) + l = S(i - 1) /\ S(i - 1) <= PageBytes
      BY <1>12, <1>17, <1>20, <2>1, <3>1
    <3>3. S(i) \in Nat /\ S(n) <= S(i) /\ S(i - 1) \in Nat
      BY <1>3, <1>20, <2>1
    <3> HIDE DEF l
    <3>4. S(i) + k \in Nat /\ S(i) + k < PageBytes
      BY <1>1, <3>2, <3>3
    <3>5. S(n) <= S(i) + k
      BY <1>3, <3>2, <3>3
    <3>6. S(i) + k \in 0 .. PageBytes - 1
      BY <1>1, <3>4
    <3> QED
      BY <1>15, <1>16, <2>1, <3>1, <3>5, <3>6
  <2>2. CASE i = n + 1
    BY <1>8, <1>11, <1>16, <2>2
  <2> QED
    BY <1>1, <2>1, <2>2
<1>26. Laid(ws2, cs2, after)
  BY <1>18, <1>19, <1>21, <1>22, <1>23, <1>24, <1>25 DEF Laid
<1> QED
  BY <1>18, <1>19, <1>26 DEF ws2, after, start

\* A page built with one row.
LEMMA OneRow ==
  ASSUME NEW slot \in SlotRecords, slot.len # 0, NewPageFits(slot.len),
         NEW cs, DOMAIN cs = 0 .. PageBytes - 1,
         \A k \in 0 .. slot.len - 1 : cs[PageBytes - slot.len + k] = <<slot.val, k>>
  PROVE  LET ws == <<Word(PageBytes - slot.len, slot.kind)>>
         IN  /\ Laid(ws, cs, <<slot>>)
             /\ Lowest(ws) = PageBytes - slot.len /\ DirectoryEnd(ws) = DirectoryOffset + EntryLen
<1> DEFINE start == PageBytes - slot.len
           ws == <<Word(start, slot.kind)>>
           S(i) == Start(ws, i)
<1>1. slot.len \in Nat \ {0} /\ PageBytes \in Nat /\ DirectoryOffset \in Nat /\ EntryLen \in Nat
  BY SlotLength, PageConstants
<1>2. start \in Nat /\ DirectoryOffset + EntryLen <= start /\ start < PageBytes /\ start + slot.len = PageBytes
  BY <1>1 DEF NewPageFits
<1>3. Word(start, slot.kind) \in WordRecords /\ Word(start, slot.kind).start = start
      /\ Word(start, slot.kind).flags = Flags(slot.kind)
  BY <1>2, WordType
<1>4. ws \in Seq(WordRecords) /\ Len(ws) = 1 /\ ws[1] = Word(start, slot.kind)
  BY <1>3
<1>5. <<slot>> \in Seq(SlotRecords) /\ Len(<<slot>>) = 1 /\ <<slot>>[1] = slot
  OBVIOUS
<1>6. S(0) = PageBytes /\ S(1) = start
  BY <1>3, <1>4 DEF Start
<1>7. Lowest(ws) = start /\ DirectoryEnd(ws) = DirectoryOffset + EntryLen
  BY <1>1, <1>3, <1>4 DEF Lowest, DirectoryEnd
<1>8. \A k \in 0 .. slot.len - 1 : cs[start + k] = <<slot.val, k>>
  OBVIOUS
<1> HIDE DEF start, ws, S
<1>9. SamePage(ws, cs, <<slot>>)
  BY <1>4, <1>5 DEF SamePage
<1>10. Described(ws, <<slot>>)
  <2>1. ws[1].flags = Flags(slot.kind) /\ S(1) + slot.len = S(0)
    BY <1>2, <1>3, <1>4, <1>6
  <2> QED
    BY <1>4, <1>5, <2>1 DEF Described, S
<1>11. Descending(ws)
  <2>1. \A i, j \in 0 .. 1 : i < j => i = 0 /\ j = 1
    OBVIOUS
  <2> QED
    BY <1>1, <1>2, <1>4, <1>6, <2>1 DEF Descending, S
<1>12. OnlyRows(ws, <<slot>>)
  <2>1. \A i, j \in 0 .. 1 : i < j => 1 \in i + 1 .. j
    OBVIOUS
  <2> QED
    BY <1>4, <1>5, <2>1 DEF OnlyRows
<1>13. Contents(ws, cs, <<slot>>)
  BY <1>3, <1>4, <1>5, <1>8 DEF Contents
<1>14. Laid(ws, cs, <<slot>>)
  BY <1>2, <1>7, <1>9, <1>10, <1>11, <1>12, <1>13 DEF Laid
<1> QED
  BY <1>7, <1>14 DEF start, ws

\* The page afterwards.
Emptied(ws, new, cs, slots, s) ==
  /\ Laid(new, cs, [i \in DOMAIN slots |-> Tombstone])
  /\ Lowest(new) = Lowest(ws) + slots[s].len /\ DirectoryEnd(new) = DirectoryEnd(ws)

\* A page whose last row went: the rows beside the one removed hold no bytes.
LEMMA NoRows ==
  ASSUME NEW ws, NEW cs, NEW slots, Laid(ws, cs, slots), NEW s \in 1 .. Len(ws),
         \A i \in 1 .. Len(ws) : i # s => slots[i].len = 0
  PROVE  Emptied(ws, [i \in DOMAIN ws |-> Word(PageBytes, "deleted")], cs, slots, s)
<1> DEFINE n == Len(ws)
           w == Word(PageBytes, "deleted")
           ws2 == [i \in DOMAIN ws |-> w]
           after == [i \in DOMAIN slots |-> Tombstone]
           S(i) == Start(ws, i)
           T(i) == Start(ws2, i)
<1>1. /\ n \in Nat \ {0} /\ DirectoryEnd(ws) \in Nat /\ PageBytes \in Nat
      /\ DOMAIN slots = 1 .. n /\ DOMAIN ws = 1 .. n /\ s \in 1 .. n
  BY PageNumbers
<1>2. \A i \in 0 .. n : S(i) \in Nat /\ S(i) <= PageBytes
  BY PageNumbers
<1>3. Lowest(ws) = S(n) /\ DirectoryEnd(ws) <= S(n) /\ S(0) = PageBytes
  BY PageNumbers DEF Laid, Start
<1>4. w \in WordRecords /\ w.start = PageBytes /\ w.flags = Flags("deleted")
  BY <1>1, WordType
<1>5. Tombstone \in SlotRecords /\ Tombstone.len = 0 /\ Tombstone.kind = "deleted"
  BY DEF SlotRecords, Tombstone, Slot
<1>6. ws2 \in Seq(WordRecords) /\ Len(ws2) = n /\ \A i \in 1 .. n : ws2[i] = w
  BY <1>1, <1>4
<1>7. after \in Seq(SlotRecords) /\ Len(after) = n /\ \A i \in 1 .. n : after[i] = Tombstone
  BY <1>1, <1>5
<1>8. \A i \in 0 .. n : T(i) = PageBytes
  BY <1>1, <1>4, <1>6 DEF Start
<1>9. DOMAIN cs = 0 .. PageBytes - 1
  BY DEF Laid, SamePage
<1>10. \A i, j \in 0 .. n : i < j /\ (\A k \in i + 1 .. j : slots[k].len = 0) => S(i) = S(j)
  BY DEF Laid, OnlyRows
<1>11. S(s) + slots[s].len = S(s - 1)
  BY DEF Laid, Described
<1>12. Lowest(ws2) = T(n) /\ DirectoryEnd(ws2) = DirectoryEnd(ws)
  BY <1>1, <1>6 DEF Lowest, Start, DirectoryEnd
<1>13. \A i \in 1 .. n : i # s => slots[i].len = 0
  OBVIOUS
<1> HIDE DEF n, w, ws2, after, S, T
<1>14. S(s - 1) = PageBytes
  <2>1. CASE s = 1
    BY <1>3, <2>1
  <2>2. CASE 1 < s
    <3>1. s - 1 \in 0 .. n /\ 0 \in 0 .. n /\ 0 < s - 1
      BY <1>1, <2>2
    <3>2. \A k \in 0 + 1 .. s - 1 : slots[k].len = 0
      BY <1>1, <1>13
    <3> QED
      BY <1>3, <1>10, <3>1, <3>2
  <2> QED
    BY <1>1, <2>1, <2>2
<1>15. S(s) = S(n)
  <2>1. CASE s = n
    BY <2>1
  <2>2. CASE s < n
    <3>1. s \in 0 .. n /\ n \in 0 .. n
      BY <1>1
    <3>2. \A k \in s + 1 .. n : slots[k].len = 0
      BY <1>1, <1>13
    <3> QED
      BY <1>10, <2>2, <3>1, <3>2
  <2> QED
    BY <1>1, <2>1, <2>2
<1>16. SamePage(ws2, cs, after)
  BY <1>1, <1>6, <1>7, <1>9 DEF SamePage
<1>17. Described(ws2, after)
  <2> SUFFICES ASSUME NEW i \in 1 .. n
               PROVE  ws2[i].flags = Flags(after[i].kind) /\ T(i) + after[i].len = T(i - 1)
    BY <1>6 DEF Described, T
  <2>1. i \in 0 .. n /\ i - 1 \in 0 .. n
    BY <1>1
  <2> QED
    BY <1>1, <1>4, <1>5, <1>6, <1>7, <1>8, <2>1
<1>18. Descending(ws2)
  BY <1>1, <1>6, <1>8 DEF Descending, T
<1>19. OnlyRows(ws2, after)
  BY <1>1, <1>6, <1>8 DEF OnlyRows, T
<1>20. Contents(ws2, cs, after)
  BY <1>5, <1>6, <1>7 DEF Contents
<1>21. n \in 0 .. n /\ S(n) \in Nat /\ S(n) <= PageBytes
  <2>1. n \in 0 .. n
    BY <1>1
  <2> QED
    BY <1>2, <2>1
<1>22. T(n) = PageBytes /\ DirectoryEnd(ws2) <= Lowest(ws2)
  BY <1>1, <1>3, <1>8, <1>12, <1>21
<1>23. Laid(ws2, cs, after)
  BY <1>16, <1>17, <1>18, <1>19, <1>20, <1>22 DEF Laid
<1> QED
  BY <1>3, <1>11, <1>12, <1>14, <1>15, <1>22, <1>23 DEF ws2, after, w, Emptied

-----------------------------------------------------------------------------
(* The page in every state. *)

PageType == [tag : {"data", "released"}, owner : {NIL}, free : Nat, slots : Seq(SlotRecords)]

\* The bytes are the model's page, and the stored count is the gap below the rows.
IInv ==
  /\ Laid(words, cells, model.slots)
  /\ model \in PageType
  /\ Packed(words, free) /\ model.free = free
  /\ released = (model.tag = "released")

\* What IInv says of the numbers of the page.
LEMMA PageFacts ==
  ASSUME IInv
  PROVE  /\ Len(words) \in Nat \ {0} /\ DOMAIN words = 1 .. Len(words)
         /\ DirectoryEnd(words) \in Nat /\ Lowest(words) \in Nat /\ free \in Nat
         /\ Lowest(words) = DirectoryEnd(words) + free /\ Lowest(words) <= PageBytes
         /\ DOMAIN cells = 0 .. PageBytes - 1 /\ PageBytes \in Nat /\ EntryLen \in Nat
         /\ model.slots \in Seq(SlotRecords) /\ DOMAIN model.slots = 1 .. Len(words)
<1>1. Laid(words, cells, model.slots) /\ Packed(words, free) /\ model.free = free
  BY DEF IInv
<1>2. /\ Len(words) \in Nat \ {0} /\ DOMAIN words = 1 .. Len(words) /\ DirectoryEnd(words) \in Nat
      /\ PageBytes \in Nat /\ DOMAIN model.slots = 1 .. Len(words)
  BY <1>1, PageNumbers
<1>3. Lowest(words) \in Nat /\ Lowest(words) <= PageBytes
  <2>1. Len(words) \in 0 .. Len(words)
    BY <1>2
  <2> QED
    BY <1>1, <2>1, PageNumbers
<1>4. free \in Nat
  BY <1>1 DEF IInv, PageType
<1>5. Lowest(words) = DirectoryEnd(words) + free
  BY <1>1, <1>2, <1>3 DEF Packed
<1>6. DOMAIN cells = 0 .. PageBytes - 1 /\ model.slots \in Seq(SlotRecords)
  BY <1>1 DEF Laid, SamePage
<1> QED
  BY <1>2, <1>3, <1>4, <1>5, <1>6, PageConstants

\* A write changes the bytes it is given and no others.
LEMMA Writing ==
  ASSUME NEW c, DOMAIN c = 0 .. PageBytes - 1, NEW offset, NEW n, NEW source
  PROVE  /\ DOMAIN WriteAt(c, offset, n, source) = 0 .. PageBytes - 1
         /\ \A b \in 0 .. PageBytes - 1 :
              WriteAt(c, offset, n, source)[b]
                = IF b \in offset .. offset + n - 1 THEN source[b - offset] ELSE c[b]
BY DEF WriteAt

\* The page holds the row, and its other bytes.
Written(c, after, offset, n, v) ==
  /\ DOMAIN after = 0 .. PageBytes - 1
  /\ \A k \in 0 .. n - 1 : after[offset + k] = <<v, k>>
  /\ \A b \in 0 .. PageBytes - 1 : offset + n <= b \/ b < offset => after[b] = c[b]

\* An encoded row written inside the page is there afterwards.
LEMMA RowWritten ==
  ASSUME NEW c, DOMAIN c = 0 .. PageBytes - 1, NEW offset \in Nat, NEW n \in Nat, NEW v,
         offset + n <= PageBytes
  PROVE  Written(c, WriteAt(c, offset, n, Encoded(v, n)), offset, n, v)
<1> DEFINE after == WriteAt(c, offset, n, Encoded(v, n))
<1>1. PageBytes \in Nat
  BY PageConstants
<1>2. DOMAIN after = 0 .. PageBytes - 1
  BY Writing
<1>3. \A b \in 0 .. PageBytes - 1 :
        after[b] = IF b \in offset .. offset + n - 1 THEN Encoded(v, n)[b - offset] ELSE c[b]
  BY DEF WriteAt
<1>4. \A k \in 0 .. n - 1 : Encoded(v, n)[k] = <<v, k>>
  BY DEF Encoded
<1> HIDE DEF after
<1>5. ASSUME NEW k \in 0 .. n - 1
      PROVE  after[offset + k] = <<v, k>>
  <2>1. offset + k \in 0 .. PageBytes - 1 /\ offset + k \in offset .. offset + n - 1 /\ offset + k - offset = k
    BY <1>1
  <2>2. after[offset + k] = Encoded(v, n)[offset + k - offset]
    BY <1>3, <2>1
  <2> QED
    BY <1>4, <2>1, <2>2
<1>6. ASSUME NEW b \in 0 .. PageBytes - 1, offset + n <= b \/ b < offset
      PROVE  after[b] = c[b]
  <2>1. b \notin offset .. offset + n - 1
    BY <1>1, <1>6
  <2> QED
    BY <1>3, <2>1
<1> QED
  BY <1>2, <1>5, <1>6 DEF after, Written

\* What a page stores is a row, storage or a pointer.
LEMMA StorableRows ==
  ASSUME NEW slot \in Storable
  PROVE  slot \in SlotRecords /\ slot.len \in Nat \ {0}
<1>1. slot \in SlotRecords /\ slot.kind # "deleted"
  BY DEF SlotRecords, Storable, Slot
<1> QED
  BY <1>1, SlotLength

\* A page built with one row, whatever its bytes were.
LEMMA BuildKeeps ==
  ASSUME NEW slot \in Storable, NEW c, DOMAIN c = 0 .. PageBytes - 1, NewPageFits(slot.len),
         cells' = WriteAt(c, PageBytes - slot.len, slot.len, Encoded(slot.val, slot.len)),
         words' = <<Word(PageBytes - slot.len, slot.kind)>>,
         free' = PageBytes - slot.len - DirectoryOffset - EntryLen,
         released' = FALSE,
         model' = NewPage(NIL, slot)
  PROVE  IInv'
<1> DEFINE start == PageBytes - slot.len
<1>1. slot \in SlotRecords /\ slot.len \in Nat \ {0}
  BY StorableRows
<1>2. PageBytes \in Nat /\ DirectoryOffset \in Nat /\ EntryLen \in Nat
  BY PageConstants
<1>3. start \in Nat /\ start + slot.len <= PageBytes /\ DirectoryOffset + EntryLen <= start
  BY <1>1, <1>2 DEF NewPageFits
<1>4. /\ DOMAIN cells' = 0 .. PageBytes - 1
      /\ \A k \in 0 .. slot.len - 1 : cells'[start + k] = <<slot.val, k>>
  <2>1. cells' = WriteAt(c, start, slot.len, Encoded(slot.val, slot.len)) /\ slot.len \in Nat
    BY <1>1
  <2> HIDE DEF start
  <2>2. Written(c, cells', start, slot.len, slot.val)
    BY <1>3, <2>1, RowWritten
  <2> QED
    BY <2>2 DEF Written
<1>5. model'.slots = <<slot>> /\ model'.tag = "data" /\ model'.owner = NIL
      /\ model'.free = PageBytes - DirectoryOffset - EntryLen - slot.len
      /\ model' = [tag |-> model'.tag, owner |-> model'.owner, free |-> model'.free, slots |-> model'.slots]
  BY DEF NewPage
<1>6. Laid(words', cells', model'.slots) /\ Lowest(words') = start
      /\ DirectoryEnd(words') = DirectoryOffset + EntryLen
  BY <1>1, <1>4, <1>5, OneRow
<1>7. free' = start - (DirectoryOffset + EntryLen) /\ free' \in Nat /\ model'.free = free'
  <2> DEFINE len == slot.len
  <2>1. len \in Nat
    BY <1>1
  <2>2. free' = PageBytes - len - DirectoryOffset - EntryLen /\ model'.free = PageBytes - DirectoryOffset - EntryLen - len
    BY <1>1, <1>5
  <2>3. DirectoryOffset + EntryLen <= PageBytes - len
    BY <1>3
  <2> HIDE DEF len
  <2>4. PageBytes - len - DirectoryOffset - EntryLen \in Nat
        /\ PageBytes - len - DirectoryOffset - EntryLen = PageBytes - len - (DirectoryOffset + EntryLen)
        /\ PageBytes - len - DirectoryOffset - EntryLen = PageBytes - DirectoryOffset - EntryLen - len
    BY <1>2, <2>1, <2>3
  <2> QED
    BY <2>2, <2>4 DEF len
<1>8. <<slot>> \in Seq(SlotRecords)
  BY <1>1
<1>9. model' \in PageType
  BY <1>5, <1>7, <1>8 DEF PageType
<1> QED
  BY <1>5, <1>6, <1>7, <1>9 DEF IInv, Packed

\* A page starts with one row.
LEMMA PageStarts == Init => IInv
<1> SUFFICES ASSUME Init
             PROVE  IInv
  OBVIOUS
<1>1. PICK slot \in Storable :
        /\ NewPageFits(slot.len)
        /\ cells = WriteAt([b \in 0 .. PageBytes - 1 |-> NIL], PageBytes - slot.len, slot.len,
                           Encoded(slot.val, slot.len))
        /\ words = <<Word(PageBytes - slot.len, slot.kind)>>
        /\ free = PageBytes - slot.len - DirectoryOffset - EntryLen
        /\ released = FALSE
        /\ model = NewPage(NIL, slot)
  BY DEF Init
<1> DEFINE start == PageBytes - slot.len
           zero == [b \in 0 .. PageBytes - 1 |-> NIL]
<1>2. slot \in SlotRecords /\ slot.len \in Nat \ {0}
  BY StorableRows
<1>3. PageBytes \in Nat /\ DirectoryOffset \in Nat /\ EntryLen \in Nat
  BY PageConstants
<1>4. start \in Nat /\ start + slot.len <= PageBytes /\ DirectoryOffset + EntryLen <= start
  BY <1>1, <1>2, <1>3 DEF NewPageFits
<1>5. DOMAIN zero = 0 .. PageBytes - 1
  OBVIOUS
<1>6. /\ DOMAIN cells = 0 .. PageBytes - 1
      /\ \A k \in 0 .. slot.len - 1 : cells[start + k] = <<slot.val, k>>
  <2>1. cells = WriteAt(zero, start, slot.len, Encoded(slot.val, slot.len))
    BY <1>1
  <2> HIDE DEF zero, start
  <2> QED
    <3>1. slot.len \in Nat
      BY <1>2
    <3>2. Written(zero, cells, start, slot.len, slot.val)
      BY <1>4, <1>5, <2>1, <3>1, RowWritten
    <3> QED
      BY <3>2 DEF Written
<1>7. model.slots = <<slot>> /\ model.tag = "data" /\ model.owner = NIL
      /\ model.free = PageBytes - DirectoryOffset - EntryLen - slot.len
      /\ model = [tag |-> model.tag, owner |-> model.owner, free |-> model.free, slots |-> model.slots]
  BY <1>1 DEF NewPage
<1>8. Laid(words, cells, model.slots) /\ Lowest(words) = start
      /\ DirectoryEnd(words) = DirectoryOffset + EntryLen
  BY <1>1, <1>2, <1>6, <1>7, OneRow
<1>9. free = start - (DirectoryOffset + EntryLen) /\ free \in Nat /\ model.free = free
  <2> DEFINE len == slot.len
  <2>1. len \in Nat
    BY <1>2
  <2>2. free = PageBytes - len - DirectoryOffset - EntryLen /\ model.free = PageBytes - DirectoryOffset - EntryLen - len
    BY <1>1, <1>7
  <2>3. DirectoryOffset + EntryLen <= PageBytes - len
    BY <1>4
  <2> HIDE DEF len
  <2>4. PageBytes - len - DirectoryOffset - EntryLen \in Nat
        /\ PageBytes - len - DirectoryOffset - EntryLen = PageBytes - len - (DirectoryOffset + EntryLen)
        /\ PageBytes - len - DirectoryOffset - EntryLen = PageBytes - DirectoryOffset - EntryLen - len
    BY <1>3, <2>1, <2>3
  <2> QED
    BY <2>2, <2>4 DEF len
<1>10. <<slot>> \in Seq(SlotRecords)
  BY <1>2
<1>11. model \in PageType
  BY <1>7, <1>9, <1>10 DEF PageType
<1> QED
  BY <1>1, <1>7, <1>8, <1>9, <1>11 DEF IInv, Packed

\* A released page becomes a page of one row.
LEMMA ReuseKeeps == IInv /\ Reuse => IInv'
<1> SUFFICES ASSUME IInv, Reuse
             PROVE  IInv'
  OBVIOUS
<1>1. PICK slot \in Storable : Build(slot, cells)
  BY DEF Reuse
<1>2. DOMAIN cells = 0 .. PageBytes - 1
  BY PageFacts
<1> QED
  BY <1>1, <1>2, BuildKeeps DEF Build

\* append: the row goes below the lowest one.
LEMMA AppendKeeps == \A slot \in Storable : IInv /\ AppendBytes(slot) => IInv'
<1> SUFFICES ASSUME NEW slot \in Storable, IInv, AppendBytes(slot)
             PROVE  IInv'
  OBVIOUS
<1> DEFINE low == Lowest(words)
           len == slot.len
           start == low - len
<1>1. slot \in SlotRecords /\ len \in Nat \ {0}
  BY StorableRows
<1>2. /\ low \in Nat /\ DirectoryEnd(words) \in Nat /\ free \in Nat /\ EntryLen \in Nat /\ PageBytes \in Nat
      /\ low = DirectoryEnd(words) + free /\ low <= PageBytes /\ DOMAIN cells = 0 .. PageBytes - 1
      /\ model.slots \in Seq(SlotRecords)
  BY PageFacts
<1>3. /\ free >= len + EntryLen
      /\ cells' = WriteAt(cells, start, len, Encoded(slot.val, len))
      /\ words' = Append(words, Word(start, slot.kind))
      /\ free' = free - len - EntryLen
      /\ released' = released
      /\ model' = AppendRow(model, slot)
  BY DEF AppendBytes, RoomFor
<1> HIDE DEF len, low
<1>4. start \in Nat /\ start + len = low /\ DirectoryEnd(words) + EntryLen <= start /\ free' \in Nat
      /\ free' = start - (DirectoryEnd(words) + EntryLen)
  BY <1>1, <1>2, <1>3, SMTT(30)
<1>5. /\ DOMAIN cells' = 0 .. PageBytes - 1
      /\ \A k \in 0 .. len - 1 : cells'[start + k] = <<slot.val, k>>
      /\ \A b \in 0 .. PageBytes - 1 : start + len <= b \/ b < start => cells'[b] = cells[b]
  <2> HIDE DEF start
  <2>1. start \in Nat /\ len \in Nat /\ start + len <= PageBytes
    BY <1>1, <1>2, <1>4
  <2>2. cells' = WriteAt(cells, start, len, Encoded(slot.val, len))
    BY <1>3
  <2> QED
    <3>1. Written(cells, cells', start, len, slot.val)
      BY <1>2, <2>1, <2>2, RowWritten
    <3> QED
      BY <3>1 DEF Written
<1>6. \A b \in 0 .. PageBytes - 1 : low <= b => cells'[b] = cells[b]
  BY <1>4, <1>5
<1>7. model \in PageType /\ model.free = free /\ released = (model.tag = "released")
  BY DEF IInv
<1>8. model' = [model EXCEPT !.slots = Append(model.slots, slot), !.free = model.free - slot.len - EntryLen]
  BY <1>3 DEF AppendRow
<1>9. /\ model'.slots = Append(model.slots, slot) /\ model'.free = free' /\ model'.tag = model.tag
      /\ model'.owner = model.owner
      /\ model' = [tag |-> model'.tag, owner |-> model'.owner, free |-> model'.free, slots |-> model'.slots]
  BY <1>3, <1>7, <1>8 DEF PageType, len
<1>10. /\ Laid(words', cells', model'.slots)
       /\ Lowest(words') = start /\ DirectoryEnd(words') = DirectoryEnd(words) + EntryLen
  <2>1. Laid(words, cells, model.slots)
    BY DEF IInv
  <2>2. slot.len # 0 /\ DirectoryEnd(words) + EntryLen <= Lowest(words) - slot.len
    BY <1>1, <1>4 DEF len, low
  <2>3. /\ DOMAIN cells' = DOMAIN cells
        /\ \A b \in 0 .. PageBytes - 1 : Lowest(words) <= b => cells'[b] = cells[b]
        /\ \A k \in 0 .. slot.len - 1 : cells'[Lowest(words) - slot.len + k] = <<slot.val, k>>
    BY <1>2, <1>5, <1>6 DEF len, low
  <2>4. words' = Append(words, Word(Lowest(words) - slot.len, slot.kind))
    BY <1>3 DEF len, low
  <2>5. start = Lowest(words) - slot.len
    BY DEF len, low
  <2> HIDE DEF start
  <2> QED
    BY <1>1, <1>9, <2>1, <2>2, <2>3, <2>4, <2>5, RowAdded, ZenonT(40)
<1>11. model'.slots \in Seq(SlotRecords)
  BY <1>1, <1>2, <1>9
<1>12. model' \in PageType
  BY <1>4, <1>7, <1>9, <1>11 DEF PageType
<1> QED
  BY <1>3, <1>4, <1>7, <1>9, <1>10, <1>12 DEF IInv, Packed

\* The bytes below a row, moved.
Shifted(c, after, low, to, n) ==
  /\ DOMAIN after = 0 .. PageBytes - 1
  /\ \A k \in 0 .. n - 1 : after[to + k] = c[low + k]
  /\ \A b \in 0 .. PageBytes - 1 : to + n <= b => after[b] = c[b]

\* Bytes written from a copy of others are those bytes, wherever the two overlap.
LEMMA BytesShift ==
  ASSUME NEW c, DOMAIN c = 0 .. PageBytes - 1, NEW low \in Nat, NEW to \in Nat, NEW n \in Nat,
         to + n <= PageBytes
  PROVE  Shifted(c, WriteAt(c, to, n, ReadAt(c, low, n)), low, to, n)
<1> DEFINE after == WriteAt(c, to, n, ReadAt(c, low, n))
<1>1. PageBytes \in Nat
  BY PageConstants
<1>2. DOMAIN after = 0 .. PageBytes - 1
  BY Writing
<1>3. \A b \in 0 .. PageBytes - 1 :
        after[b] = IF b \in to .. to + n - 1 THEN ReadAt(c, low, n)[b - to] ELSE c[b]
  BY DEF WriteAt
<1>4. \A k \in 0 .. n - 1 : ReadAt(c, low, n)[k] = c[low + k]
  BY DEF ReadAt
<1> HIDE DEF after
<1>5. ASSUME NEW k \in 0 .. n - 1
      PROVE  after[to + k] = c[low + k]
  <2>1. to + k \in 0 .. PageBytes - 1 /\ to + k \in to .. to + n - 1 /\ to + k - to = k
    BY <1>1
  <2>2. after[to + k] = ReadAt(c, low, n)[to + k - to]
    BY <1>3, <2>1
  <2> QED
    BY <1>4, <2>1, <2>2
<1>6. ASSUME NEW b \in 0 .. PageBytes - 1, to + n <= b
      PROVE  after[b] = c[b]
  <2>1. b \notin to .. to + n - 1
    BY <1>1, <1>6
  <2> QED
    BY <1>3, <2>1
<1> QED
  BY <1>2, <1>5, <1>6 DEF after, Shifted

\* What a row of the page says of the words and counts around it.
LEMMA RowFacts ==
  ASSUME IInv, NEW s \in DOMAIN words
  PROVE  /\ s \in 1 .. Len(words) /\ model.slots[s] \in SlotRecords
         /\ RowLen(words, s) = model.slots[s].len /\ model.slots[s].len \in Nat
         /\ words[s].start \in Nat /\ Start(words, s) = words[s].start
         /\ RowEnd(words, s) = Start(words, s - 1)
         /\ words[s].start + model.slots[s].len = RowEnd(words, s)
         /\ RowEnd(words, s) \in Nat /\ RowEnd(words, s) <= PageBytes
         /\ Lowest(words) <= words[s].start
<1>1. Laid(words, cells, model.slots) /\ s \in 1 .. Len(words) /\ Len(words) \in Nat
  BY PageFacts DEF IInv
<1>2. model.slots[s] \in SlotRecords /\ RowLen(words, s) = model.slots[s].len
      /\ RowEnd(words, s) = Start(words, s - 1) /\ RowEnd(words, s) \in Nat /\ words[s].start \in Nat
  BY <1>1, ReadsBack
<1>3. model.slots[s].len \in Nat
  BY <1>2, SlotLength
<1>4. s \in 0 .. Len(words) /\ s - 1 \in 0 .. Len(words) /\ Start(words, s) = words[s].start
  BY <1>1 DEF Start
<1>5. RowEnd(words, s) <= PageBytes /\ Lowest(words) <= words[s].start
  BY <1>1, <1>2, <1>4, PageNumbers
<1>6. words[s].start + model.slots[s].len = RowEnd(words, s)
  BY <1>1, <1>2, <1>4 DEF Laid, Described
<1> QED
  BY <1>1, <1>2, <1>3, <1>4, <1>5, <1>6

\* The distances of a replacement: rows from low up to top move by d, and the
\* replaced row, from top to end, keeps its end.
Apart(low, dir, gap, top, old, len, end, d) ==
  /\ d \in Int /\ low + d \in Nat /\ dir <= low + d /\ gap + old - len \in Nat
  /\ dir + (gap + old - len) = low + d /\ top - low \in Nat
  /\ low + d + (top - low) = top + d /\ top + d + len = end /\ top + d \in Nat
  /\ end - len = top + d
  /\ \A b \in Nat : low <= b => b + old - len = b + d /\ b + d \in Nat
  /\ \A b \in low .. top - 1 :
       /\ b + d \in Nat /\ b + d < top + d /\ b + d < end /\ b - low \in 0 .. (top - low) - 1
       /\ low + d + (b - low) = b + d /\ low + (b - low) = b

\* They follow from the gap below the rows being dir + gap and large enough.
LEMMA Distances ==
  ASSUME NEW low \in Nat, NEW dir \in Nat, NEW gap \in Nat, NEW top \in Nat, NEW old \in Nat,
         NEW len \in Nat, NEW end \in Nat, NEW d,
         low = dir + gap, top + old = end, low <= top, gap + old >= len, d = old - len
  PROVE  Apart(low, dir, gap, top, old, len, end, d)
<1>1. d \in Int /\ gap + old - len \in Nat /\ dir + (gap + old - len) = low + d /\ low + d \in Nat
  OBVIOUS
<1>2. dir <= low + d /\ top - low \in Nat /\ low + d + (top - low) = top + d
  BY <1>1
<1>3. top + d + len = end /\ top + d \in Nat /\ end - len = top + d
  BY <1>1
<1>4. ASSUME NEW b \in Nat, low <= b
      PROVE  b + old - len = b + d /\ b + d \in Nat
  BY <1>1, <1>4
<1>5. ASSUME NEW b \in low .. top - 1
      PROVE  /\ b + d \in Nat /\ b + d < top + d /\ b + d < end /\ b - low \in 0 .. (top - low) - 1
             /\ low + d + (b - low) = b + d /\ low + (b - low) = b
  <2>1. b \in Nat /\ low <= b /\ b < top
    OBVIOUS
  <2>2. b + d \in Nat /\ b + d < top + d /\ b + d < end
    BY <1>1, <1>3, <2>1
  <2>3. b - low \in 0 .. (top - low) - 1 /\ low + d + (b - low) = b + d /\ low + (b - low) = b
    BY <1>1, <2>1
  <2> QED
    BY <2>2, <2>3
<1> QED
  BY <1>1, <1>2, <1>3, <1>4, <1>5 DEF Apart

\* replace: the row keeps its end, the rows below follow its start.
LEMMA ReplaceKeeps ==
  \A s \in DOMAIN words, slot \in Storable : IInv /\ ReplaceBytes(s, slot) => IInv'
<1> SUFFICES ASSUME NEW s \in DOMAIN words, NEW slot \in Storable, IInv, ReplaceBytes(s, slot)
             PROVE  IInv'
  OBVIOUS
<1> DEFINE low == Lowest(words)
           top == words[s].start
           old == model.slots[s].len
           len == slot.len
           d == old - len
           shifted == WriteAt(cells, low + d, top - low, ReadAt(cells, low, top - low))
<1>1. slot \in SlotRecords /\ len \in Nat \ {0}
  BY StorableRows
<1>2. /\ low \in Nat /\ DirectoryEnd(words) \in Nat /\ free \in Nat /\ PageBytes \in Nat
      /\ low = DirectoryEnd(words) + free /\ low <= PageBytes /\ DOMAIN cells = 0 .. PageBytes - 1
      /\ model.slots \in Seq(SlotRecords) /\ DOMAIN words = 1 .. Len(words) /\ Len(words) \in Nat
      /\ DOMAIN model.slots = 1 .. Len(words)
  BY PageFacts
<1>3. /\ s \in 1 .. Len(words) /\ RowLen(words, s) = old /\ old \in Nat /\ top \in Nat
      /\ top + old = RowEnd(words, s) /\ RowEnd(words, s) \in Nat /\ RowEnd(words, s) <= PageBytes
      /\ low <= top /\ Start(words, s - 1) = RowEnd(words, s)
  BY RowFacts
<1>4. /\ free + old >= len
      /\ cells' = WriteAt(WriteAt(cells, MovedTo(free + old - len), top - low,
                                  ReadAt(cells, low, top - low)),
                          RowEnd(words, s) - len, len, Encoded(slot.val, len))
      /\ words' = [i \in DOMAIN words |->
                     IF i < s THEN words[i]
                     ELSE Word(words[i].start + old - len,
                               IF i = s THEN slot.kind ELSE ReadSlot(words, i))]
      /\ free' = free + old - len /\ released' = released
      /\ model' = ReplaceRow(model, s, slot)
  BY <1>3 DEF ReplaceBytes
<1>5. Laid(words, cells, model.slots) /\ model \in PageType /\ model.free = free
      /\ released = (model.tag = "released")
  BY DEF IInv
<1> HIDE DEF low, top, old, len
<1>6. /\ d \in Int /\ low + d \in Nat /\ DirectoryEnd(words) <= low + d /\ free + old - len \in Nat
      /\ DirectoryEnd(words) + (free + old - len) = low + d /\ top - low \in Nat
      /\ low + d + (top - low) = top + d /\ top + d + len = RowEnd(words, s) /\ top + d \in Nat
      /\ RowEnd(words, s) - len = top + d
      /\ \A b \in Nat : low <= b => b + old - len = b + d /\ b + d \in Nat
      /\ \A b \in low .. top - 1 :
           /\ b + d \in Nat /\ b + d < top + d /\ b + d < RowEnd(words, s)
           /\ b - low \in 0 .. (top - low) - 1
           /\ low + d + (b - low) = b + d /\ low + (b - low) = b
  <2>1. len \in Nat /\ free + old >= len /\ d = old - len
    BY <1>1, <1>4
  <2> HIDE DEF d
  <2> QED
    <3>1. Apart(low, DirectoryEnd(words), free, top, old, len, RowEnd(words, s), d)
      BY <1>2, <1>3, <2>1, Distances
    <3> QED
      BY <3>1 DEF Apart
<1>7. cells' = WriteAt(shifted, top + d, len, Encoded(slot.val, len))
  BY <1>4, <1>6 DEF MovedTo
<1> HIDE DEF d
<1>8. Shifted(cells, shifted, low, low + d, top - low)
  <2>1. low + d \in Nat /\ top - low \in Nat /\ low + d + (top - low) <= PageBytes
    BY <1>1, <1>2, <1>3, <1>6
  <2> QED
    BY <1>2, <2>1, BytesShift
<1> HIDE DEF shifted
<1>9. Written(shifted, cells', top + d, len, slot.val)
  <2>1. top + d + len <= PageBytes /\ len \in Nat /\ DOMAIN shifted = 0 .. PageBytes - 1
    BY <1>1, <1>3, <1>6, <1>8 DEF Shifted
  <2> QED
    BY <1>6, <1>7, <2>1, RowWritten
<1>10. \A b \in 0 .. PageBytes - 1 : RowEnd(words, s) <= b => cells'[b] = cells[b]
  <2> SUFFICES ASSUME NEW b \in 0 .. PageBytes - 1, RowEnd(words, s) <= b
               PROVE  cells'[b] = cells[b]
    OBVIOUS
  <2>1. top + d + len <= b /\ low + d + (top - low) <= b
    <3>1. b \in Nat /\ top + d + len <= b
      BY <1>2, <1>6
    <3>2. top + d <= b
      BY <1>1, <1>6, <3>1
    <3> QED
      BY <1>6, <3>1, <3>2
  <2> QED
    BY <1>8, <1>9, <2>1 DEF Written, Shifted
<1>11. \A b \in low .. top - 1 : cells'[b + d] = cells[b]
  <2> SUFFICES ASSUME NEW b \in low .. top - 1
               PROVE  cells'[b + d] = cells[b]
    OBVIOUS
  <2>1. /\ b + d < top + d /\ b + d \in 0 .. PageBytes - 1 /\ b - low \in 0 .. (top - low) - 1
        /\ low + d + (b - low) = b + d /\ low + (b - low) = b
    <3> DEFINE c == b + d
    <3>1. c \in Nat /\ c < RowEnd(words, s)
      BY <1>6
    <3> HIDE DEF c
    <3>2. c < PageBytes /\ c \in Nat
      BY <1>2, <1>3, <3>1
    <3>3. b + d \in 0 .. PageBytes - 1
      BY <1>2, <3>2 DEF c
    <3> QED
      BY <1>6, <3>3
  <2>2. cells'[b + d] = shifted[b + d]
    BY <1>9, <2>1 DEF Written
  <2>3. shifted[low + d + (b - low)] = cells[low + (b - low)]
    BY <1>8, <2>1 DEF Shifted
  <2> QED
    BY <2>1, <2>2, <2>3
<1>12. MovedBytes(words, cells, cells', s, slot, d)
  <2>1. DOMAIN cells' = DOMAIN cells /\ \A k \in 0 .. len - 1 : cells'[top + d + k] = <<slot.val, k>>
    BY <1>2, <1>9 DEF Written
  <2> QED
    BY <1>3, <1>10, <1>11, <2>1 DEF MovedBytes, low, top, len
<1>13. \A i \in 1 .. Len(words) : words[i].start \in Nat /\ low <= words[i].start
                                  /\ ReadSlot(words, i) = model.slots[i].kind
  <2> SUFFICES ASSUME NEW i \in 1 .. Len(words)
               PROVE  words[i].start \in Nat /\ low <= words[i].start
                      /\ ReadSlot(words, i) = model.slots[i].kind
    OBVIOUS
  <2>1. ReadSlot(words, i) = model.slots[i].kind
    BY <1>5, ReadsBack
  <2>2. words[i].start \in Nat /\ Lowest(words) <= words[i].start
    BY <1>2, RowFacts
  <2> QED
    BY <2>1, <2>2 DEF low
<1>14. \A i \in 1 .. Len(words) : words[i].start + old - len = words[i].start + d /\ words[i].start + d \in Nat
  BY <1>6, <1>13
<1>15. MovedWords(words, words', model.slots, s, slot, d)
  <2>1. /\ DOMAIN words' = 1 .. Len(words)
        /\ \A i \in 1 .. Len(words) : i < s => words'[i] = words[i]
        /\ \A i \in 1 .. Len(words) : s <= i =>
             words'[i] = Word(words[i].start + d, IF i = s THEN slot.kind ELSE model.slots[i].kind)
    <3>1. DOMAIN words' = 1 .. Len(words)
      BY <1>2, <1>4
    <3>2. \A i \in 1 .. Len(words) :
            words'[i] = IF i < s THEN words[i]
                        ELSE Word(words[i].start + old - len,
                                  IF i = s THEN slot.kind ELSE ReadSlot(words, i))
      BY <1>2, <1>4
    <3>3. \A i \in 1 .. Len(words) : s <= i => ~(i < s)
      BY <1>2, <1>3
    <3>4. \A i \in 1 .. Len(words) : i < s => words'[i] = words[i]
      BY <3>2
    <3>5. \A i \in 1 .. Len(words) : s <= i =>
            words'[i] = Word(words[i].start + d, IF i = s THEN slot.kind ELSE model.slots[i].kind)
      BY <1>13, <1>14, <3>2, <3>3
    <3> QED
      BY <3>1, <3>4, <3>5
  <2>2. \A i \in 1 .. Len(words) : s <= i =>
          /\ words'[i] \in WordRecords /\ words'[i].start = words[i].start + d
          /\ words'[i].flags = Flags(IF i = s THEN slot.kind ELSE model.slots[i].kind)
    BY <1>14, <2>1, WordType
  <2>3. \A i \in 1 .. Len(words) : words[i] \in WordRecords
    BY <1>5 DEF Laid, SamePage
  <2>4. \A i \in 1 .. Len(words) : words'[i] \in WordRecords
    BY <1>2, <1>3, <2>1, <2>2, <2>3, SMTT(30)
  <2>5. words' \in Seq(WordRecords) /\ Len(words') = Len(words)
    <3>1. words' = [i \in 1 .. Len(words) |-> words'[i]]
      BY <1>2, <1>4
    <3> QED
      BY <1>2, <2>4, <3>1
  <2>6. words'[s].flags = Flags(slot.kind)
    <3>1. s <= s
      BY <1>2, <1>3
    <3> QED
      BY <1>3, <2>2, <3>1
  <2>7. \A i \in 1 .. Len(words) : s < i => words'[i].flags = Flags(model.slots[i].kind)
    <3>1. \A i \in 1 .. Len(words) : s < i => s <= i /\ i # s
      BY <1>2, <1>3
    <3> QED
      BY <2>2, <3>1
  <2> QED
    BY <2>1, <2>2, <2>5, <2>6, <2>7 DEF MovedWords
<1>16. /\ model'.slots = [model.slots EXCEPT ![s] = slot] /\ model'.free = free + old - len
       /\ model'.tag = model.tag /\ model'.owner = model.owner
       /\ model' = [tag |-> model'.tag, owner |-> model'.owner, free |-> model'.free, slots |-> model'.slots]
  <2>1. model' = [model EXCEPT !.slots[s] = slot, !.free = model.free + model.slots[s].len - slot.len]
    BY <1>4 DEF ReplaceRow
  <2> QED
    BY <1>5, <2>1 DEF PageType, old, len
<1>17. /\ Laid(words', cells', model'.slots)
       /\ Lowest(words') = low + d /\ DirectoryEnd(words') = DirectoryEnd(words)
  <2>1. d = model.slots[s].len - slot.len /\ DirectoryEnd(words) <= Lowest(words) + d /\ d \in Int
    BY <1>6 DEF d, old, len, low
  <2> QED
    <3>1. /\ Laid(words', cells', [model.slots EXCEPT ![s] = slot])
          /\ Lowest(words') = Lowest(words) + d /\ DirectoryEnd(words') = DirectoryEnd(words)
      BY <1>1, <1>3, <1>5, <1>12, <1>15, <2>1, RowsMove, SMTT(30)
    <3> QED
      BY <1>16, <3>1 DEF low
<1>18. model'.slots \in Seq(SlotRecords)
  BY <1>1, <1>2, <1>3, <1>16, SMTT(30)
<1>19. model' \in PageType
  BY <1>5, <1>6, <1>16, <1>18 DEF PageType
<1>20. Packed(words', free')
  <2> DEFINE f == free + old - len
  <2>1. free' = f /\ f \in Nat /\ DirectoryEnd(words) + f = low + d /\ low + d \in Nat
    BY <1>4, <1>6
  <2> DEFINE x == low + d
             y == DirectoryEnd(words)
  <2>2. y \in Nat /\ x \in Nat /\ y + f = x
    BY <1>2, <2>1
  <2>3. Lowest(words') = x /\ DirectoryEnd(words') = y
    BY <1>17
  <2> HIDE DEF f, x, y
  <2>4. f = x - y
    BY <2>1, <2>2
  <2> QED
    BY <2>1, <2>3, <2>4 DEF Packed
<1> QED
  BY <1>4, <1>5, <1>16, <1>17, <1>19, <1>20 DEF IInv

\* remove: the last row releases the page, another leaves an empty slot at its
\* old end and the rows below move up over it.
LEMMA RemoveKeeps == \A s \in DOMAIN words : IInv /\ RemoveBytes(s) => IInv'
<1> SUFFICES ASSUME NEW s \in DOMAIN words, IInv, RemoveBytes(s)
             PROVE  IInv'
  OBVIOUS
<1> DEFINE low == Lowest(words)
           top == words[s].start
           old == model.slots[s].len
           live == {i \in DOMAIN words : ReadSlot(words, i) # "deleted"}
<1>1. /\ low \in Nat /\ DirectoryEnd(words) \in Nat /\ free \in Nat /\ PageBytes \in Nat
      /\ low = DirectoryEnd(words) + free /\ low <= PageBytes /\ DOMAIN cells = 0 .. PageBytes - 1
      /\ model.slots \in Seq(SlotRecords) /\ DOMAIN words = 1 .. Len(words) /\ Len(words) \in Nat
      /\ DOMAIN model.slots = 1 .. Len(words)
  BY PageFacts
<1>2. /\ s \in 1 .. Len(words) /\ RowLen(words, s) = old /\ old \in Nat /\ top \in Nat
      /\ top + old = RowEnd(words, s) /\ RowEnd(words, s) \in Nat /\ RowEnd(words, s) <= PageBytes
      /\ low <= top /\ Start(words, s - 1) = RowEnd(words, s)
  BY RowFacts
<1>3. /\ old # 0 /\ free' = free + old
      /\ model' = RemoveRow(model, s)
  BY <1>2 DEF RemoveBytes
<1>4. Laid(words, cells, model.slots) /\ model \in PageType /\ model.free = free
      /\ released = (model.tag = "released")
  BY DEF IInv
<1>5. \A i \in 1 .. Len(words) : words[i].start \in Nat /\ low <= words[i].start
                                 /\ ReadSlot(words, i) = model.slots[i].kind
                                 /\ RowLen(words, i) = model.slots[i].len
  <2> SUFFICES ASSUME NEW i \in 1 .. Len(words)
               PROVE  words[i].start \in Nat /\ low <= words[i].start
                      /\ ReadSlot(words, i) = model.slots[i].kind
                      /\ RowLen(words, i) = model.slots[i].len
    OBVIOUS
  <2>1. ReadSlot(words, i) = model.slots[i].kind /\ RowLen(words, i) = model.slots[i].len
    BY <1>4, ReadsBack
  <2>2. words[i].start \in Nat /\ Lowest(words) <= words[i].start
    BY <1>1, RowFacts
  <2> QED
    BY <2>1, <2>2
<1>6. live = LiveSlots(model)
  BY <1>1, <1>5 DEF LiveSlots
<1>7. Tombstone \in SlotRecords /\ Tombstone.len = 0 /\ Tombstone.kind = "deleted"
  BY DEF SlotRecords, Tombstone, Slot
<1>8. free' \in Nat /\ DirectoryEnd(words) + free' = low + old
  <2> HIDE DEF low, old
  <2> QED
    BY <1>1, <1>2, <1>3, SMTT(30)
<1>9. CASE live = {s}
  <2>1. /\ released' = TRUE /\ cells' = cells
        /\ words' = [i \in DOMAIN words |-> Word(PageBytes, "deleted")]
    BY <1>9 DEF RemoveBytes
  <2>2. \A i \in 1 .. Len(words) : i # s => model.slots[i].len = 0
    <3> SUFFICES ASSUME NEW i \in 1 .. Len(words), i # s
                 PROVE  model.slots[i].len = 0
      OBVIOUS
    <3>1. model.slots[i].kind = "deleted"
      BY <1>1, <1>5, <1>9
    <3>2. model.slots[i] \in SlotRecords
      BY <1>1
    <3> QED
      BY <3>1, <3>2, SlotLength
  <2> DEFINE after == [i \in DOMAIN model.slots |-> Tombstone]
  <2>3. model' = [model EXCEPT !.tag = "released", !.free = model.free + model.slots[s].len, !.slots = after]
    BY <1>3, <1>6, <1>9 DEF RemoveRow
  <2>4. /\ model'.slots = after /\ model'.free = free' /\ model'.tag = "released" /\ model'.owner = model.owner
        /\ model' = [tag |-> model'.tag, owner |-> model'.owner, free |-> model'.free, slots |-> model'.slots]
    BY <1>3, <1>4, <2>3 DEF PageType
  <2>5. /\ Laid(words', cells', model'.slots)
        /\ Lowest(words') = low + old /\ DirectoryEnd(words') = DirectoryEnd(words)
    <3>1. words' = [i \in DOMAIN words |-> Word(PageBytes, "deleted")] /\ cells' = cells /\ model'.slots = after
      BY <2>1, <2>4
    <3>2. s \in 1 .. Len(words)
      BY <1>2
    <3> QED
      <4>1. Emptied(words, words', cells, model.slots, s)
        BY <1>4, <2>2, <3>1, <3>2, NoRows
      <4> QED
        BY <3>1, <4>1 DEF Emptied
  <2>6. model'.slots \in Seq(SlotRecords)
    BY <1>1, <1>7, <2>4
  <2>7. model' \in PageType
    BY <1>4, <1>8, <2>4, <2>6 DEF PageType
  <2>8. Packed(words', free')
    BY <1>1, <1>2, <1>8, <2>5 DEF Packed
  <2> QED
    BY <2>1, <2>4, <2>5, <2>7, <2>8 DEF IInv
<1>10. CASE live # {s}
  <2>1. /\ cells' = WriteAt(cells, low + old, top - low, ReadAt(cells, low, top - low))
        /\ words' = [i \in DOMAIN words |->
                       IF i < s THEN words[i]
                       ELSE IF i = s THEN Word(RowEnd(words, s), "deleted")
                       ELSE Word(words[i].start + old, model.slots[i].kind)]
        /\ released' = released
    <3>1. /\ cells' = WriteAt(cells, low + RowLen(words, s), top - low, ReadAt(cells, low, top - low))
          /\ words' = [i \in DOMAIN words |->
                         IF i < s THEN words[i]
                         ELSE IF i = s THEN Word(RowEnd(words, s), "deleted")
                         ELSE Word(StartMoved(s, i), FlagsKept(s, i))]
          /\ released' = released
      BY <1>10 DEF RemoveBytes
    <3>2. \A i \in DOMAIN words :
            StartMoved(s, i) = words[i].start + old /\ FlagsKept(s, i) = model.slots[i].kind
      BY <1>1, <1>2, <1>5 DEF StartMoved, FlagsKept
    <3> QED
      BY <1>2, <3>1, <3>2
  <2>2. Apart(low, DirectoryEnd(words), free, top, old, 0, RowEnd(words, s), old)
    <3>1. 0 \in Nat /\ free + old >= 0 /\ old = old - 0
      BY <1>1, <1>2, SMTT(30)
    <3> HIDE DEF low, top, old
    <3> QED
      BY <1>1, <1>2, <3>1, Distances
  <2> HIDE DEF low, top, old, live
  <2>3. Shifted(cells, cells', low, low + old, top - low)
    <3>1. low + old \in Nat /\ top - low \in Nat /\ low + old + (top - low) = top + old
      BY <2>2 DEF Apart
    <3> QED
      BY <1>1, <1>2, <2>1, <3>1, BytesShift
  <2>4. \A b \in 0 .. PageBytes - 1 : RowEnd(words, s) <= b => cells'[b] = cells[b]
    <3>1. low + old + (top - low) = RowEnd(words, s)
      BY <1>2, <2>2 DEF Apart
    <3> QED
      BY <2>3, <3>1 DEF Shifted
  <2>5. \A b \in low .. top - 1 : cells'[b + old] = cells[b]
    <3> SUFFICES ASSUME NEW b \in low .. top - 1
                 PROVE  cells'[b + old] = cells[b]
      OBVIOUS
    <3>1. b - low \in 0 .. (top - low) - 1 /\ low + old + (b - low) = b + old /\ low + (b - low) = b
      BY <2>2 DEF Apart
    <3>2. cells'[low + old + (b - low)] = cells[low + (b - low)]
      BY <2>3, <3>1 DEF Shifted
    <3> QED
      BY <3>1, <3>2
  <2>6. MovedBytes(words, cells, cells', s, Tombstone, old)
    <3>1. DOMAIN cells' = DOMAIN cells
      BY <1>1, <2>3 DEF Shifted
    <3>2. \A k \in 0 .. Tombstone.len - 1 : FALSE
      BY <1>7
    <3> QED
      BY <1>2, <2>4, <2>5, <3>1, <3>2 DEF MovedBytes, low, top
  <2>7. MovedWords(words, words', model.slots, s, Tombstone, old)
    <3>1. DOMAIN words' = 1 .. Len(words)
      BY <1>1, <2>1
    <3>2. \A i \in 1 .. Len(words) :
            words'[i] = IF i < s THEN words[i]
                        ELSE IF i = s THEN Word(RowEnd(words, s), "deleted")
                        ELSE Word(words[i].start + old, model.slots[i].kind)
      BY <1>1, <2>1
    <3>3. \A i \in 1 .. Len(words) : i < s => words'[i] = words[i]
      BY <3>2
    <3>4. words'[s] = Word(words[s].start + old, "deleted")
      <4>1. ~(s < s) /\ words[s].start + old = RowEnd(words, s)
        BY <1>1, <1>2 DEF top
      <4> QED
        BY <1>2, <3>2, <4>1
    <3>5. \A i \in 1 .. Len(words) : s < i => words'[i] = Word(words[i].start + old, model.slots[i].kind)
      <4>1. \A i \in 1 .. Len(words) : s < i => ~(i < s) /\ i # s
        BY <1>1, <1>2
      <4> QED
        BY <3>2, <4>1
    <3>6. \A i \in 1 .. Len(words) : words[i].start + old \in Nat
      BY <1>2, <1>5
    <3>7. /\ words'[s] \in WordRecords /\ words'[s].start = words[s].start + old
          /\ words'[s].flags = Flags("deleted")
      BY <1>2, <3>4, <3>6, WordType
    <3>8. \A i \in 1 .. Len(words) : s < i =>
            /\ words'[i] \in WordRecords /\ words'[i].start = words[i].start + old
            /\ words'[i].flags = Flags(model.slots[i].kind)
      BY <3>5, <3>6, WordType
    <3>9. \A i \in 1 .. Len(words) : words[i] \in WordRecords
      BY <1>4 DEF Laid, SamePage
    <3>10. \A i \in 1 .. Len(words) : i < s \/ i = s \/ s < i
      BY <1>1, <1>2
    <3>11. \A i \in 1 .. Len(words) : words'[i] \in WordRecords
      BY <3>3, <3>7, <3>8, <3>9, <3>10
    <3>12. words' \in Seq(WordRecords) /\ Len(words') = Len(words)
      <4>1. words' = [i \in 1 .. Len(words) |-> words'[i]]
        BY <1>1, <2>1
      <4> QED
        BY <1>1, <3>11, <4>1
    <3>13. \A i \in 1 .. Len(words) : s <= i => words'[i].start = words[i].start + old
      <4>1. \A i \in 1 .. Len(words) : s <= i => i = s \/ s < i
        BY <1>1, <1>2
      <4> QED
        BY <3>7, <3>8, <4>1
    <3> QED
      BY <1>7, <3>3, <3>7, <3>8, <3>12, <3>13 DEF MovedWords
  <2>8. model' = [model EXCEPT !.slots[s] = Tombstone, !.free = model.free + model.slots[s].len]
    BY <1>3, <1>6, <1>10 DEF RemoveRow, live
  <2>9. /\ model'.slots = [model.slots EXCEPT ![s] = Tombstone] /\ model'.free = free'
        /\ model'.tag = model.tag /\ model'.owner = model.owner
        /\ model' = [tag |-> model'.tag, owner |-> model'.owner, free |-> model'.free, slots |-> model'.slots]
    BY <1>3, <1>4, <2>8 DEF PageType, old
  <2>10. /\ Laid(words', cells', model'.slots)
         /\ Lowest(words') = low + old /\ DirectoryEnd(words') = DirectoryEnd(words)
    <3>1. old = model.slots[s].len - Tombstone.len /\ old \in Int
      BY <1>2, <1>7 DEF old
    <3>2. DirectoryEnd(words) <= Lowest(words) + old
      BY <2>2 DEF Apart, low
    <3>3. /\ Laid(words', cells', [model.slots EXCEPT ![s] = Tombstone])
          /\ Lowest(words') = Lowest(words) + old /\ DirectoryEnd(words') = DirectoryEnd(words)
      BY <1>2, <1>4, <1>7, <2>6, <2>7, <3>1, <3>2, RowsMove
    <3> QED
      BY <2>9, <3>3 DEF low
  <2>11. model'.slots \in Seq(SlotRecords)
    BY <1>1, <1>2, <1>7, <2>9
  <2>12. model' \in PageType
    BY <1>4, <1>8, <2>9, <2>11 DEF PageType
  <2>13. Packed(words', free')
    BY <1>1, <1>2, <1>8, <2>10, SMTT(30) DEF Packed
  <2> QED
    BY <1>4, <2>1, <2>9, <2>10, <2>12, <2>13 DEF IInv
<1> QED
  BY <1>9, <1>10

-----------------------------------------------------------------------------
(* The theorems. *)

\* Every edit leaves such a page.
LEMMA EditsKeep == IInv /\ [Next]_vars => IInv'
<1> SUFFICES ASSUME IInv, [Next]_vars
             PROVE  IInv'
  OBVIOUS
<1>1. CASE Reuse
  BY <1>1, ReuseKeeps
<1>2. CASE \E slot \in Storable : AppendBytes(slot)
  BY <1>2, AppendKeeps
<1>3. CASE \E s \in DOMAIN words, slot \in Storable : ReplaceBytes(s, slot)
  BY <1>3, ReplaceKeeps
<1>4. CASE \E s \in DOMAIN words : RemoveBytes(s)
  BY <1>4, RemoveKeeps
<1>5. CASE UNCHANGED vars
  BY <1>5 DEF vars, IInv, Packed
<1> QED
  BY <1>1, <1>2, <1>3, <1>4, <1>5 DEF Next

\* Such a page is one validate_entry accepts.
LEMMA PageIsValid == IInv => DirectoryValid
<1> SUFFICES ASSUME IInv
             PROVE  DirectoryValid
  OBVIOUS
<1>1. Packed(words, free) /\ Laid(words, cells, model.slots)
  BY DEF IInv
<1>2. /\ DirectoryEnd(words) \in Nat /\ Lowest(words) \in Nat /\ DirectoryEnd(words) <= Lowest(words)
      /\ DOMAIN words = 1 .. Len(words)
  BY <1>1, PageFacts DEF Laid
<1>3. ASSUME NEW s \in DOMAIN words
      PROVE  /\ words[s].start <= RowEnd(words, s)
             /\ words[s].start = RowEnd(words, s) => words[s].flags.hidden
             /\ DirectoryEnd(words) <= words[s].start
  <2> DEFINE old == model.slots[s].len
  <2>1. /\ s \in 1 .. Len(words) /\ words[s].start \in Nat /\ old \in Nat
        /\ words[s].start + old = RowEnd(words, s) /\ Lowest(words) <= words[s].start
        /\ model.slots[s] \in SlotRecords
    BY RowFacts
  <2>2. words[s].flags = Flags(model.slots[s].kind)
    BY <1>1, <2>1 DEF Laid, Described
  <2>3. old = 0 => words[s].flags.hidden
    <3>1. old = 0 => model.slots[s].kind = "deleted"
      BY <2>1, SlotLength
    <3> QED
      <4>1. words[s].flags.hidden = (model.slots[s].kind \in {"storage", "storage_link", "deleted"})
        BY <2>2 DEF Flags
      <4> QED
        BY <3>1, <4>1
  <2> HIDE DEF old
  <2> QED
    BY <1>2, <2>1, <2>3
<1> QED
  BY <1>1, <1>3 DEF DirectoryValid

\* The directory a later edit checks is valid after any sequence of edits, on a
\* page of any size with rows of any length: ranges descend without overlap,
\* clear of the directory, and the free-byte count is the gap.
THEOREM DirectoryStaysValid == Spec => []DirectoryValid
<1>1. Init => IInv
  BY PageStarts
<1>2. IInv /\ [Next]_vars => IInv'
  BY EditsKeep
<1>3. IInv => DirectoryValid
  BY PageIsValid
<1> QED
  BY <1>1, <1>2, <1>3, PTL DEF Spec

\* Such a page reads as the model's slots.
LEMMA PageReads == IInv => BytesMatchSlots
<1> SUFFICES ASSUME IInv
             PROVE  BytesMatchSlots
  OBVIOUS
<1>1. Laid(words, cells, model.slots) /\ free = model.free /\ released = (model.tag = "released")
  BY DEF IInv
<1>2. DOMAIN words = DOMAIN model.slots /\ DOMAIN words = 1 .. Len(words)
  BY PageFacts
<1>3. ASSUME NEW s \in DOMAIN words
      PROVE  LET slot == model.slots[s]
             IN  /\ ReadSlot(words, s) = slot.kind
                 /\ RowLen(words, s) = slot.len
                 /\ ReadAt(cells, words[s].start, slot.len) = Encoded(slot.val, slot.len)
  <2> DEFINE len == model.slots[s].len
             val == model.slots[s].val
             read == ReadAt(cells, words[s].start, len)
  <2>1. ReadSlot(words, s) = model.slots[s].kind /\ RowLen(words, s) = len
    BY <1>1, <1>2, ReadsBack
  <2>2. \A k \in 0 .. len - 1 : cells[words[s].start + k] = <<val, k>>
    BY <1>1, <1>2 DEF Laid, Contents
  <2> HIDE DEF len, val
  <2>3. read = [k \in 0 .. len - 1 |-> cells[words[s].start + k]]
    BY DEF ReadAt
  <2>4. Encoded(val, len) = [k \in 0 .. len - 1 |-> <<val, k>>]
    BY DEF Encoded
  <2>5. read = Encoded(val, len)
    BY <2>2, <2>3, <2>4
  <2> QED
    BY <2>1, <2>5 DEF len, val
<1> QED
  BY <1>1, <1>2, <1>3 DEF BytesMatchSlots

\* The byte movements implement the slot-level page of DataPage: after any
\* edits every slot reads as the kind, the length and the bytes last stored in it.
THEOREM BytesImplementSlots == Spec => []BytesMatchSlots
<1>1. Init => IInv
  BY PageStarts
<1>2. IInv /\ [Next]_vars => IInv'
  BY EditsKeep
<1>3. IInv => BytesMatchSlots
  BY PageReads
<1> QED
  BY <1>1, <1>2, <1>3, PTL DEF Spec
=============================================================================
