------------------------- MODULE EditJournalProofs --------------------------
(***************************************************************************)
(* Proofs about EditJournal for every set of cells and values, every file  *)
(* and every number of edits and plans: an edit never loses another, and   *)
(* what is published is the opened file with the plans applied in order.   *)
(***************************************************************************)
EXTENDS EditJournal, TLAPS

-----------------------------------------------------------------------------
(* Journals and the file they leave. *)

Changes == UNION {[S -> Change] : S \in SUBSET (Nat \ {0})}
Journals == [first : Nat, changes : Changes, append : Seq(Page)]

\* A journal of a file: every change is of one of its pages and starts from that page.
JournalOf(j, file) ==
  /\ j \in Journals /\ j.first = Len(file)
  /\ \A p \in ChangedPages(j) : p \in DOMAIN file /\ j.changes[p].before = file[p]

\* Setting the image of a page, changed before or not.
SetPage(j, p, before, image) ==
  IF p \in ChangedPages(j) THEN WithAfter(j, p, image)
  ELSE WithChange(j, p, [before |-> before, after |-> image])

\* Two sequences with the same elements are one.
LEMMA SeqEqual ==
  ASSUME NEW S, NEW a \in Seq(S), NEW b \in Seq(S), Len(a) = Len(b), \A i \in 1 .. Len(a) : a[i] = b[i]
  PROVE  a = b
OBVIOUS

\* A sequence by its elements.
LEMMA Listed ==
  ASSUME NEW S, NEW n \in Nat, NEW f, f = [i \in 1 .. n |-> f[i]], \A i \in 1 .. n : f[i] \in S
  PROVE  f \in Seq(S) /\ Len(f) = n /\ DOMAIN f = 1 .. n
<1>1. f \in [1 .. n -> S]
  OBVIOUS
<1> QED
  BY <1>1

\* The elements of a concatenation.
IsConcat(s, a, b) ==
  /\ s \in Seq(Page) /\ Len(s) = Len(a) + Len(b)
  /\ \A i \in DOMAIN a : s[i] = a[i]
  /\ \A i \in DOMAIN b : s[Len(a) + i] = b[i]
LEMMA ConcatElements ==
  ASSUME NEW a \in Seq(Page), NEW b \in Seq(Page)
  PROVE  IsConcat(a \o b, a, b)
<1>1. Len(a) \in Nat /\ Len(b) \in Nat /\ DOMAIN a = 1 .. Len(a) /\ DOMAIN b = 1 .. Len(b)
  OBVIOUS
<1>2. \A i \in DOMAIN b : Len(a) + i \notin 1 .. Len(a) /\ Len(a) + i \in 1 .. Len(a) + Len(b)
  BY <1>1
<1> QED
  BY <1>1, <1>2 DEF IsConcat

\* A change has its type.
LEMMA ChangeType ==
  ASSUME NEW j \in Journals, NEW p \in ChangedPages(j)
  PROVE  j.changes[p] \in Change /\ j.changes[p].before \in Page /\ j.changes[p].after \in Page
<1>1. j.changes \in Changes
  BY DEF Journals
<1>2. j.changes[p] \in Change
  BY <1>1 DEF Changes, ChangedPages
<1> QED
  BY <1>2 DEF Change

\* A page as a journal leaves it is a page.
LEMMA CurrentType ==
  ASSUME NEW j \in Journals, NEW file \in Seq(Page), NEW p \in DOMAIN file
  PROVE  Current(j, file, p) \in Page
BY ChangeType DEF Current

\* The journal after setting a page: that page has the image, every other what it had.
LEMMA SetPageKeeps ==
  ASSUME NEW file \in Seq(Page), NEW j, JournalOf(j, file), NEW p \in DOMAIN file, NEW image \in Page
  PROVE  /\ JournalOf(SetPage(j, p, file[p], image), file)
         /\ \A q \in DOMAIN file :
              Current(SetPage(j, p, file[p], image), file, q) =
                IF q = p THEN image ELSE Current(j, file, q)
<1>1. j \in Journals /\ j.changes \in Changes /\ file[p] \in Page /\ p \in Nat \ {0}
  BY DEF JournalOf, Journals
<1>2. PICK S \in SUBSET (Nat \ {0}) : j.changes \in [S -> Change]
  BY <1>1 DEF Changes
<1>3. ChangedPages(j) = S
  BY <1>2 DEF ChangedPages
<1> DEFINE new == SetPage(j, p, file[p], image)
<1>4. /\ new.first = j.first /\ new.append = j.append
      /\ new.changes = [q \in S \union {p} |->
           IF q = p THEN [before |-> file[p], after |-> image] ELSE j.changes[q]]
      /\ new \in Journals
  <2>1. CASE p \in S
    <3>1. new = [j EXCEPT !.changes = [@ EXCEPT ![p].after = image]]
      BY <1>1, <1>3, <2>1 DEF SetPage, WithAfter, Journals
    <3>2. j.changes[p] \in Change /\ j.changes[p].before = file[p]
      BY <1>2, <1>3, <2>1 DEF JournalOf
    <3>3. [j.changes[p] EXCEPT !.after = image] = [before |-> file[p], after |-> image]
      BY <3>2 DEF Change
    <3>4. [j.changes EXCEPT ![p].after = image] =
          [q \in S \union {p} |-> IF q = p THEN [before |-> file[p], after |-> image] ELSE j.changes[q]]
      BY <1>2, <2>1, <3>3
    <3>5. [j.changes EXCEPT ![p].after = image] \in [S -> Change]
      BY <1>1, <1>2, <2>1, <3>4 DEF Change
    <3>6. [j.changes EXCEPT ![p].after = image] \in Changes
      BY <3>5 DEF Changes
    <3> QED
      BY <1>1, <3>1, <3>4, <3>6 DEF Journals
  <2>2. CASE p \notin S
    <3>1. new = [j EXCEPT !.changes = [q \in S \union {p} |->
                    IF q = p THEN [before |-> file[p], after |-> image] ELSE j.changes[q]]]
      BY <1>1, <1>2, <1>3, <2>2 DEF SetPage, WithChange, Journals
    <3>2. [q \in S \union {p} |-> IF q = p THEN [before |-> file[p], after |-> image] ELSE j.changes[q]]
            \in [S \union {p} -> Change]
      BY <1>1, <1>2 DEF Change
    <3>3. S \union {p} \in SUBSET (Nat \ {0})
      BY <1>1
    <3>4. [q \in S \union {p} |-> IF q = p THEN [before |-> file[p], after |-> image] ELSE j.changes[q]]
            \in Changes
      BY <3>2, <3>3 DEF Changes
    <3> QED
      BY <1>1, <3>1, <3>4 DEF Journals
  <2> QED
    BY <2>1, <2>2
<1> HIDE DEF new
<1>5. ChangedPages(new) = S \union {p}
  BY <1>4 DEF ChangedPages
<1>6. JournalOf(new, file)
  BY <1>3, <1>4, <1>5 DEF JournalOf
<1>7. \A q \in DOMAIN file : Current(new, file, q) = IF q = p THEN image ELSE Current(j, file, q)
  BY <1>3, <1>4, <1>5 DEF Current
<1> QED
  BY <1>6, <1>7 DEF new

-----------------------------------------------------------------------------
(* A plan is its edits. *)

\* The recorded edits are exactly the cells the journal changes, with the values it gives them.
Exact(j, file, edited) ==
  \A p \in DOMAIN file, c \in Cells, v \in Values :
    <<p, c, v>> \in edited <=> v = Current(j, file, p)[c] /\ v # file[p][c]

\* What an edit records is of one page.
OfPage(new, p) == \A q, c, v : <<q, c, v>> \in new => q = p

\* An edit of one page that records what it does to that page.
LEMMA ExactKept ==
  ASSUME NEW file \in Seq(Page), NEW j, JournalOf(j, file), NEW edited, Exact(j, file, edited),
         NEW p \in DOMAIN file, NEW image \in Page, NEW new,
         OfPage(new, p),
         \A c \in Cells, v \in Values :
           <<p, c, v>> \in edited \union new <=> v = image[c] /\ v # file[p][c]
  PROVE  Exact(SetPage(j, p, file[p], image), file, edited \union new)
<1> DEFINE set == SetPage(j, p, file[p], image)
<1>1. \A q \in DOMAIN file : Current(set, file, q) = IF q = p THEN image ELSE Current(j, file, q)
  BY SetPageKeeps
<1> HIDE DEF set
<1>2. ASSUME NEW q \in DOMAIN file, NEW c \in Cells, NEW v \in Values
      PROVE  <<q, c, v>> \in edited \union new <=> v = Current(set, file, q)[c] /\ v # file[q][c]
  <2>1. CASE q = p
    BY <1>1, <2>1
  <2>2. CASE q # p
    BY <1>1, <2>2 DEF OfPage, Exact
  <2> QED
    BY <2>1, <2>2
<1> QED
  BY <1>2 DEF Exact, set

\* The merge of PageEdits::replace: where the replacement differs from the file it wins, and
\* no cell had another value; elsewhere the earlier edits stay.
LEMMA MergeIsExact ==
  ASSUME NEW file \in Seq(Page), NEW j, JournalOf(j, file), NEW edited, Exact(j, file, edited),
         NEW p \in DOMAIN file, NEW after \in Page, ReplaceAccepted(j, p, file[p], after)
  PROVE  /\ JournalOf(Replace(j, p, file[p], after), file)
         /\ Exact(Replace(j, p, file[p], after), file, edited \union Intents(p, file[p], after))
<1> DEFINE now == Current(j, file, p)
           image == MergedCells(now, file[p], after)
<1>1. now \in Page /\ file[p] \in Page
  BY CurrentType DEF JournalOf
<1>2. image \in Page
  BY <1>1 DEF MergedCells, Page
<1>3. \A c \in Cells : file[p][c] # after[c] => now[c] \in {file[p][c], after[c]}
  BY DEF ReplaceAccepted, Mergeable, Differ, Current
<1>4. Replace(j, p, file[p], after) = SetPage(j, p, file[p], image)
  <2>1. CASE p \in ChangedPages(j)
    BY <2>1 DEF Replace, SetPage, Current
  <2>2. CASE p \notin ChangedPages(j)
    <3>1. now = file[p]
      BY <2>2 DEF Current
    <3>2. image = after
      BY <1>1, <3>1 DEF MergedCells, Page
    <3> QED
      BY <2>2, <3>2 DEF Replace, SetPage
  <2> QED
    BY <2>1, <2>2
<1>5. \A c \in Cells : image[c] = IF file[p][c] # after[c] THEN after[c] ELSE now[c]
  BY DEF MergedCells
<1>6. \A c \in Cells : now[c] \in Values /\ after[c] \in Values /\ file[p][c] \in Values
  BY <1>1 DEF Page
<1>7. \A c \in Cells, v \in Values :
        <<p, c, v>> \in Intents(p, file[p], after) <=> v = after[c] /\ file[p][c] # after[c]
  BY DEF Intents, Differ
<1>8. OfPage(Intents(p, file[p], after), p)
  BY DEF Intents, OfPage
<1>9. \A c \in Cells, v \in Values : <<p, c, v>> \in edited <=> v = now[c] /\ v # file[p][c]
  BY DEF Exact
<1> HIDE DEF now, image
<1>10. \A c \in Cells, v \in Values :
         <<p, c, v>> \in edited \union Intents(p, file[p], after) <=> v = image[c] /\ v # file[p][c]
  BY <1>3, <1>5, <1>6, <1>7, <1>9
<1> QED
  BY <1>2, <1>4, <1>8, <1>10, ExactKept, SetPageKeeps, SMTT(30)

\* One cell of a page (map_record, patch_bytes), if nobody gave it another value.
LEMMA CellIsExact ==
  ASSUME NEW file \in Seq(Page), NEW j, JournalOf(j, file), NEW edited, Exact(j, file, edited),
         NEW p \in DOMAIN file, NEW c \in Cells, NEW v \in Values,
         Current(j, file, p)[c] \in {file[p][c], v}, NEW new,
         new = IF v = file[p][c] THEN {} ELSE {<<p, c, v>>}
  PROVE  LET image == [Current(j, file, p) EXCEPT ![c] = v] IN
         /\ JournalOf(SetPage(j, p, file[p], image), file)
         /\ Exact(SetPage(j, p, file[p], image), file, edited \union new)
<1> DEFINE now == Current(j, file, p)
           image == [now EXCEPT ![c] = v]
<1>1. now \in Page
  BY CurrentType DEF JournalOf
<1>2. image \in Page /\ \A d \in Cells : image[d] = IF d = c THEN v ELSE now[d]
  BY <1>1 DEF Page
<1>3. \A d \in Cells, w \in Values : <<p, d, w>> \in edited <=> w = now[d] /\ w # file[p][d]
  BY DEF Exact
<1>4. \A q, d, w : <<q, d, w>> \in new => q = p /\ d = c /\ w = v /\ v # file[p][c]
  OBVIOUS
<1>5. v # file[p][c] => <<p, c, v>> \in new
  OBVIOUS
<1>6. now[c] \in {file[p][c], v}
  OBVIOUS
<1> HIDE DEF now, image
<1>7. \A d \in Cells, w \in Values : <<p, d, w>> \in edited \union new <=> w = image[d] /\ w # file[p][d]
  BY <1>2, <1>3, <1>4, <1>5, <1>6
<1>8. OfPage(new, p)
  BY <1>4 DEF OfPage
<1>9. JournalOf(SetPage(j, p, file[p], image), file)
  BY <1>2, SetPageKeeps
<1>10. Exact(SetPage(j, p, file[p], image), file, edited \union new)
  BY <1>2, <1>7, <1>8, ExactKept
<1> QED
  BY <1>9, <1>10 DEF image, now

-----------------------------------------------------------------------------
(* The file a journal leaves, and the journal of a sequence. *)

\* The written file, page by page.
LEMMA WrittenPages ==
  ASSUME NEW file \in Seq(Page), NEW j \in Journals
  PROVE  /\ Written(j, file) \in Seq(Page)
         /\ Len(Written(j, file)) = Len(file) + Len(j.append)
         /\ \A p \in DOMAIN file : Written(j, file)[p] = Current(j, file, p)
         /\ \A i \in DOMAIN j.append : Written(j, file)[Len(file) + i] = j.append[i]
<1> DEFINE n == Len(file)
           kept == [p \in 1 .. n |-> IF p \in ChangedPages(j) THEN j.changes[p].after ELSE file[p]]
<1>1. n \in Nat /\ j.append \in Seq(Page) /\ Len(j.append) \in Nat
  BY DEF Journals
<1>2. \A p \in 1 .. n : kept[p] = Current(j, file, p) /\ kept[p] \in Page
  BY CurrentType DEF Current
<1>3. kept \in Seq(Page) /\ Len(kept) = n
  BY <1>1, <1>2
<1>4. Written(j, file) = kept \o j.append
  BY DEF Written
<1>5. DOMAIN file = DOMAIN kept
  OBVIOUS
<1> HIDE DEF kept
<1>6. IsConcat(kept \o j.append, kept, j.append)
  BY <1>1, <1>3, ConcatElements
<1>7. DOMAIN file = 1 .. n
  OBVIOUS
<1> QED
  BY <1>2, <1>3, <1>4, <1>5, <1>6, <1>7 DEF IsConcat

\* A candidate that verify_changes accepts is the file the journal leaves.
LEMMA VerifiedIsWritten ==
  ASSUME NEW orig \in Seq(Page), NEW candidate \in Seq(Page), NEW j \in Journals,
         Verified(orig, candidate, j)
  PROVE  candidate = Written(j, orig)
<1> DEFINE w == Written(j, orig)
           m == Len(j.append)
<1>1. /\ w \in Seq(Page) /\ Len(w) = Len(orig) + m
      /\ \A p \in DOMAIN orig : w[p] = Current(j, orig, p)
      /\ \A i \in DOMAIN j.append : w[Len(orig) + i] = j.append[i]
  BY WrittenPages
<1>2. /\ Len(candidate) = Len(orig) + m
      /\ \A p \in DOMAIN orig : candidate[p] = Current(j, orig, p)
      /\ \A i \in DOMAIN j.append : candidate[Len(orig) + i] = j.append[i]
  BY DEF Verified
<1>3. m \in Nat /\ Len(orig) \in Nat /\ DOMAIN j.append = 1 .. m /\ DOMAIN orig = 1 .. Len(orig)
  BY DEF Journals
<1> HIDE DEF w, m
<1>4. ASSUME NEW p \in 1 .. Len(candidate) PROVE candidate[p] = w[p]
  <2>1. CASE p \in 1 .. Len(orig)
    BY <1>1, <1>2, <1>3, <2>1
  <2>2. CASE p \notin 1 .. Len(orig)
    <3>1. p - Len(orig) \in 1 .. m /\ p = Len(orig) + (p - Len(orig))
      BY <1>2, <1>3, <2>2
    <3> QED
      BY <1>1, <1>2, <1>3, <3>1
  <2> QED
    BY <2>1, <2>2
<1>5. candidate = w
  BY <1>1, <1>2, <1>4, SeqEqual
<1> QED
  BY <1>5 DEF w

\* The edits of a plan, applied to the file it was made on, leave what its journal leaves.
LEMMA AppliedIsWritten ==
  ASSUME NEW file \in Seq(Page), JournalOf(plan, file), Exact(plan, file, intents)
  PROVE  Applied(file) = Written(plan, file)
<1>1. ASSUME NEW p \in 1 .. Len(file)
      PROVE  [c \in Cells |-> IF \E v \in Values : <<p, c, v>> \in intents
                              THEN CHOOSE v \in Values : <<p, c, v>> \in intents ELSE file[p][c]]
             = IF p \in ChangedPages(plan) THEN plan.changes[p].after ELSE file[p]
  <2> DEFINE now == Current(plan, file, p)
  <2>1. now \in Page /\ now = IF p \in ChangedPages(plan) THEN plan.changes[p].after ELSE file[p]
    BY CurrentType DEF JournalOf, Current
  <2>2. \A c \in Cells : now[c] \in Values
    BY <2>1 DEF Page
  <2>3. \A c \in Cells, v \in Values : <<p, c, v>> \in intents <=> v = now[c] /\ v # file[p][c]
    BY DEF Exact
  <2> HIDE DEF now
  <2>4. ASSUME NEW c \in Cells
        PROVE  (IF \E v \in Values : <<p, c, v>> \in intents
                THEN CHOOSE v \in Values : <<p, c, v>> \in intents ELSE file[p][c]) = now[c]
    BY <2>2, <2>3
  <2>5. now = [c \in Cells |-> now[c]]
    BY <2>1 DEF Page
  <2> QED
    BY <2>1, <2>4, <2>5
<1> QED
  BY <1>1 DEF Applied, Written

\* A combined journal knows which pages the original had.
CombinedOf(j, orig) == j \in Journals /\ j.first = Len(orig) /\ \A p \in ChangedPages(j) : p \in DOMAIN orig

\* The journal a sequence remembers after one more plan.
Extends(new, j, pl, orig) ==
  /\ CombinedOf(new, orig)
  /\ Len(new.append) = Len(j.append) + Len(pl.append)
  /\ \A i \in DOMAIN j.append : new.append[i] =
       IF j.first + i \in ChangedPages(pl) THEN pl.changes[j.first + i].after ELSE j.append[i]
  /\ \A i \in DOMAIN pl.append : new.append[Len(j.append) + i] = pl.append[i]
LEMMA CombinedPages ==
  ASSUME NEW orig \in Seq(Page), NEW j, CombinedOf(j, orig), NEW pl \in Journals
  PROVE  Extends(Combined(j, pl), j, pl, orig)
<1> DEFINE cs == Combined(j, pl).changes
           pages == ChangedPages(j) \union {q \in ChangedPages(pl) : q <= j.first}
           moved == [i \in DOMAIN j.append |-> IF j.first + i \in ChangedPages(pl)
                                               THEN pl.changes[j.first + i].after ELSE j.append[i]]
<1>1. j \in Journals /\ j.append \in Seq(Page) /\ pl.append \in Seq(Page) /\ j.first = Len(orig)
  BY DEF CombinedOf, Journals
<1>2. pl.changes \in Changes
  BY DEF Journals
<1>3. ChangedPages(pl) \subseteq Nat \ {0}
  BY <1>2 DEF Changes, ChangedPages
<1>4. j.changes \in Changes
  BY <1>1 DEF Journals
<1>5. ChangedPages(j) \subseteq Nat \ {0}
  BY <1>4 DEF Changes, ChangedPages
<1>6. cs \in [pages -> Change]
  <2>1. \A p \in pages : CombinedChange(j, pl, p) \in Change
    BY <1>1, ChangeType DEF CombinedChange, Advance, Change
  <2> QED
    BY <2>1 DEF Combined
<1>7. pages \in SUBSET (Nat \ {0})
  BY <1>3, <1>5
<1>8. cs \in Changes
  BY <1>6, <1>7 DEF Changes
<1>9. moved \in Seq(Page) /\ Len(moved) = Len(j.append) /\ DOMAIN moved = DOMAIN j.append
  <2>1. \A i \in DOMAIN j.append : moved[i] \in Page
    BY <1>1, ChangeType
  <2>2. DOMAIN j.append = 1 .. Len(j.append) /\ Len(j.append) \in Nat
    BY <1>1
  <2>3. moved = [i \in 1 .. Len(j.append) |-> moved[i]]
    BY <2>2
  <2> HIDE DEF moved
  <2>4. \A i \in 1 .. Len(j.append) : moved[i] \in Page
    BY <2>1, <2>2
  <2> QED
    BY <2>2, <2>3, <2>4, Listed
<1>10. Combined(j, pl) = [first |-> j.first, changes |-> cs, append |-> moved \o pl.append]
  BY DEF Combined
<1>11. j.first \in Nat
  BY <1>1 DEF Journals
<1>12. \A i \in DOMAIN j.append : moved[i] = IF j.first + i \in ChangedPages(pl)
                                             THEN pl.changes[j.first + i].after ELSE j.append[i]
  OBVIOUS
<1>13. \A p \in pages : p \in DOMAIN orig
  <2>1. \A p \in ChangedPages(pl) : p <= j.first => p \in DOMAIN orig
    BY <1>1, <1>3, <1>11
  <2> QED
    BY <2>1 DEF CombinedOf
<1> HIDE DEF cs, moved, pages
<1>14. IsConcat(moved \o pl.append, moved, pl.append)
  BY <1>1, <1>9, ConcatElements
<1> DEFINE new == Combined(j, pl)
<1>15. new.first = j.first /\ new.changes = cs /\ new.append = moved \o pl.append
  BY <1>10
<1>16. new \in Journals
  BY <1>8, <1>10, <1>11, <1>14 DEF Journals, IsConcat
<1> HIDE DEF new
<1>17. ChangedPages(new) = pages
  BY <1>6, <1>15 DEF ChangedPages
<1>18. CombinedOf(new, orig)
  BY <1>1, <1>13, <1>15, <1>16, <1>17 DEF CombinedOf
<1>19. Len(new.append) = Len(j.append) + Len(pl.append)
  BY <1>9, <1>14, <1>15 DEF IsConcat
<1>20. \A i \in DOMAIN j.append : new.append[i] =
         IF j.first + i \in ChangedPages(pl) THEN pl.changes[j.first + i].after ELSE j.append[i]
  BY <1>9, <1>12, <1>14, <1>15 DEF IsConcat
<1>21. \A i \in DOMAIN pl.append : new.append[Len(j.append) + i] = pl.append[i]
  BY <1>9, <1>14, <1>15 DEF IsConcat
<1> QED
  BY <1>18, <1>19, <1>20, <1>21 DEF new, Extends

\* A plan made on the private file extends the journal of the sequence: the new journal
\* describes the new private file exactly if the old one described the old.
LEMMA CombinedDescribes ==
  ASSUME NEW orig \in Seq(Page), NEW file \in Seq(Page), NEW j, CombinedOf(j, orig),
         NEW pl, JournalOf(pl, file), pl.first = j.first + Len(j.append),
         \A p \in ChangedPages(pl) : AdvanceAccepted(j, p, pl.changes[p])
  PROVE  Verified(orig, Written(pl, file), Combined(j, pl)) <=> Verified(orig, file, j)
<1> DEFINE new == Combined(j, pl)
           w == Written(pl, file)
           n == Len(orig)
           m == Len(j.append)
           k == Len(pl.append)
<1>1. /\ j \in Journals /\ pl \in Journals /\ j.first = n /\ Len(file) = n + m
      /\ n \in Nat /\ m \in Nat /\ k \in Nat
      /\ DOMAIN orig = 1 .. n /\ DOMAIN j.append = 1 .. m /\ DOMAIN pl.append = 1 .. k
      /\ DOMAIN file = 1 .. n + m
  <2>1. j \in Journals /\ pl \in Journals /\ j.first = n /\ Len(file) = pl.first
    BY DEF JournalOf, CombinedOf
  <2>2. j.append \in Seq(Page) /\ pl.append \in Seq(Page)
    BY <2>1 DEF Journals
  <2>3. m \in Nat /\ k \in Nat /\ n \in Nat /\ DOMAIN j.append = 1 .. m /\ DOMAIN pl.append = 1 .. k
    BY <2>2
  <2>4. DOMAIN orig = 1 .. n /\ DOMAIN file = 1 .. Len(file)
    OBVIOUS
  <2> QED
    BY <2>1, <2>3, <2>4
<1>2. /\ Len(w) = Len(file) + k
      /\ \A p \in DOMAIN file : w[p] = Current(pl, file, p)
      /\ \A i \in DOMAIN pl.append : w[Len(file) + i] = pl.append[i]
  BY <1>1, WrittenPages
<1>3. /\ Len(new.append) = m + k
      /\ \A i \in DOMAIN j.append : new.append[i] =
           IF n + i \in ChangedPages(pl) THEN pl.changes[n + i].after ELSE j.append[i]
      /\ \A i \in DOMAIN pl.append : new.append[m + i] = pl.append[i]
      /\ new \in Journals
  <2>1. Extends(Combined(j, pl), j, pl, orig)
    BY <1>1, CombinedPages
  <2> QED
    BY <1>1, <2>1 DEF CombinedOf, Extends
<1>4. DOMAIN new.append = 1 .. m + k
  BY <1>1, <1>3 DEF Journals
<1>5. /\ new.changes = [p \in ChangedPages(j) \union {q \in ChangedPages(pl) : q <= n} |->
                          CombinedChange(j, pl, p)]
      /\ ChangedPages(new) = ChangedPages(j) \union {q \in ChangedPages(pl) : q <= n}
  BY <1>1 DEF Combined, ChangedPages
<1>6. \A p \in ChangedPages(pl) : p \in 1 .. n + m /\ pl.changes[p].before = file[p]
  BY <1>1 DEF JournalOf
<1>7. \A p \in ChangedPages(j) : p \in 1 .. n /\ j.changes[p] \in Change
  BY <1>1, ChangeType DEF CombinedOf
<1> HIDE DEF new, w, n, m, k
<1>8. ASSUME NEW p \in 1 .. n
      PROVE  /\ p \in ChangedPages(new) => orig[p] = new.changes[p].before
             /\ w[p] = Current(new, orig, p)
             <=>
             /\ p \in ChangedPages(j) => orig[p] = j.changes[p].before
             /\ file[p] = Current(j, orig, p)
  <2>1. p \in DOMAIN file /\ p <= n /\ w[p] = Current(pl, file, p) /\ ~(p > j.first)
    BY <1>1, <1>2
  <2>2. p \in ChangedPages(new) <=> p \in ChangedPages(j) \/ p \in ChangedPages(pl)
    BY <1>5, <2>1
  <2>3. p \in ChangedPages(new) => new.changes[p] = CombinedChange(j, pl, p)
    BY <1>5
  <2>4. p \in ChangedPages(pl) /\ p \in ChangedPages(j) => j.changes[p].after = file[p]
    BY <1>6, <2>1 DEF AdvanceAccepted
  <2>5. CASE p \in ChangedPages(j) /\ p \in ChangedPages(pl)
    <3>1. new.changes[p].before = j.changes[p].before /\ new.changes[p].after = pl.changes[p].after
      BY <1>7, <2>2, <2>3, <2>5 DEF CombinedChange, Advance, Change
    <3> QED
      BY <2>1, <2>2, <2>4, <2>5, <3>1 DEF Current
  <2>6. CASE p \in ChangedPages(j) /\ p \notin ChangedPages(pl)
    BY <2>1, <2>2, <2>3, <2>6 DEF CombinedChange, Current
  <2>7. CASE p \notin ChangedPages(j) /\ p \in ChangedPages(pl)
    BY <1>6, <2>1, <2>2, <2>3, <2>7 DEF CombinedChange, Current
  <2>8. CASE p \notin ChangedPages(j) /\ p \notin ChangedPages(pl)
    BY <2>1, <2>2, <2>8 DEF Current
  <2> QED
    BY <2>5, <2>6, <2>7, <2>8
<1>9. ASSUME NEW i \in 1 .. m PROVE w[n + i] = new.append[i] <=> file[n + i] = j.append[i]
  <2>1. n + i \in DOMAIN file /\ n + i > j.first /\ n + i - j.first = i
    BY <1>1
  <2>2. w[n + i] = Current(pl, file, n + i)
    BY <1>2, <2>1
  <2>3. n + i \in ChangedPages(pl) => j.append[i] = file[n + i]
    <3> DEFINE q == n + i
    <3>1. q > j.first /\ q - j.first = i
      BY <1>1, <2>1
    <3> HIDE DEF q
    <3>2. ASSUME q \in ChangedPages(pl) PROVE j.append[i] = file[q]
      <4>1. AdvanceAccepted(j, q, pl.changes[q])
        BY <3>2
      <4>2. j.append[q - j.first] = pl.changes[q].before
        BY <3>1, <4>1 DEF AdvanceAccepted
      <4> QED
        BY <1>6, <3>1, <3>2, <4>2
    <3> QED
      BY <3>2 DEF q
  <2> QED
    BY <1>1, <1>3, <2>2, <2>3 DEF Current
<1>10. ASSUME NEW i \in 1 .. m + k, i \notin 1 .. m PROVE w[n + i] = new.append[i]
  <2>1. PICK x \in 1 .. k : i = m + x
    <3>1. i - m \in 1 .. k /\ i = m + (i - m)
      BY <1>1, <1>10
    <3> QED
      BY <3>1
  <2>2. n + i = Len(file) + x
    BY <1>1, <2>1
  <2>3. w[Len(file) + x] = pl.append[x] /\ new.append[m + x] = pl.append[x]
    BY <1>1, <1>2, <1>3
  <2> QED
    BY <2>1, <2>2, <2>3
<1>11. (\A i \in 1 .. m + k : w[n + i] = new.append[i]) <=> (\A i \in 1 .. m : file[n + i] = j.append[i])
  <2>1. \A i \in 1 .. m : i \in 1 .. m + k
    BY <1>1
  <2> QED
    BY <1>9, <1>10, <2>1
<1>12. Len(w) = n + (m + k) /\ Len(file) = n + m
  BY <1>1, <1>2
<1> DEFINE after == /\ Len(w) = n + (m + k)
                    /\ \A p \in 1 .. n : /\ p \in ChangedPages(new) => orig[p] = new.changes[p].before
                                         /\ w[p] = Current(new, orig, p)
                    /\ \A i \in 1 .. m + k : w[n + i] = new.append[i]
           then == /\ Len(file) = n + m
                   /\ \A p \in 1 .. n : /\ p \in ChangedPages(j) => orig[p] = j.changes[p].before
                                        /\ file[p] = Current(j, orig, p)
                   /\ \A i \in 1 .. m : file[n + i] = j.append[i]
<1>13. after <=> then
  BY <1>8, <1>11, <1>12
<1>14. Verified(orig, w, new) <=> after
  BY <1>1, <1>3, <1>4 DEF Verified, n
<1>15. Verified(orig, file, j) <=> then
  BY <1>1 DEF Verified, n, m
<1> HIDE DEF after, then
<1>16. Verified(orig, w, new) <=> Verified(orig, file, j)
  BY <1>13, <1>14, <1>15
<1> QED
  BY <1>16 DEF w, new

-----------------------------------------------------------------------------
(* The invariant. *)

Planning == {"content", "maps"}
Working == Planning \union {"plan"}

FilesTyped ==
  /\ target \in Seq(Page) /\ original \in Seq(Page) /\ private \in Seq(Page) /\ base \in Seq(Page)
  /\ copied \in Seq(Page) /\ ideal \in Seq(Page)
\* The plan being made is a journal of the file it reads, and exactly its edits.
PlanInv ==
  pc \in Planning =>
    /\ JournalOf(plan, base) /\ Exact(plan, base, intents)
    /\ base = IF kind = "direct" THEN original ELSE private
\* A sequence that has no private copy yet has done nothing.
CopyInv == pc = "copy" => kind = "sequence" /\ combined = NewJournal(Len(original)) /\ ideal = original
DirectInv == pc \in Working /\ kind = "direct" => ideal = original
\* A private file that verify_private would accept is the original with the plans applied, and
\* it accepts the private file if the copy was made of the original.
SequenceInv ==
  pc \in Working /\ kind = "sequence" =>
    /\ CombinedOf(combined, original)
    /\ copied = original => Verified(original, private, combined)
    /\ Verified(original, private, combined) => private = ideal

IInv == FilesTyped /\ kind \in {"direct", "sequence"} /\ PlanInv /\ CopyInv /\ DirectInv /\ SequenceInv

\* A blank page is a page, and a file of one is a file.
LEMMA BlankFile ==
  BlankPage \in Page /\ <<BlankPage>> \in Seq(Page) /\ <<BlankPage, BlankPage>> \in Seq(Page)
<1>1. BlankPage \in Page
  BY JournalAssumption DEF BlankPage, Page
<1> QED
  BY <1>1

\* A new journal changes nothing.
LEMMA NewIsExact ==
  ASSUME NEW file \in Seq(Page)
  PROVE  /\ JournalOf(NewJournal(Len(file)), file)
         /\ Exact(NewJournal(Len(file)), file, {})
         /\ CombinedOf(NewJournal(Len(file)), file)
         /\ \A other \in Seq(Page) : Verified(file, other, NewJournal(Len(file))) <=> other = file
<1> DEFINE j == NewJournal(Len(file))
<1>1. j.first = Len(file) /\ j.append = <<>> /\ ChangedPages(j) = {} /\ j.changes = <<>>
  BY DEF NewJournal, ChangedPages
<1>2. <<>> \in [{} -> Change]
  OBVIOUS
<1>3. j \in Journals
  BY <1>2 DEF NewJournal, Journals, Changes
<1> HIDE DEF j
<1>4. \A p \in DOMAIN file : Current(j, file, p) = file[p]
  BY <1>1 DEF Current
<1>5. JournalOf(j, file) /\ CombinedOf(j, file)
  BY <1>1, <1>3 DEF JournalOf, CombinedOf
<1>6. Exact(j, file, {})
  BY <1>4 DEF Exact
<1>7. ASSUME NEW other \in Seq(Page) PROVE Verified(file, other, j) <=> other = file
  <2>1. Len(j.append) = 0 /\ DOMAIN j.append = {}
    BY <1>1
  <2>2. Verified(file, other, j) <=>
          Len(other) = Len(file) + 0 /\ \A p \in DOMAIN file : other[p] = file[p]
    BY <1>1, <1>4, <2>1 DEF Verified
  <2>3. Len(file) \in Nat /\ Len(other) \in Nat /\ DOMAIN file = 1 .. Len(file)
    OBVIOUS
  <2>4. Verified(file, other, j) => other = file
    BY <2>2, <2>3, SeqEqual
  <2>5. other = file => Verified(file, other, j)
    BY <2>2, <2>3
  <2> QED
    BY <2>4, <2>5
<1> QED
  BY <1>5, <1>6, <1>7 DEF j

\* The files of the first step.
LEMMA IInvInit == Init => IInv
<1> SUFFICES ASSUME Init PROVE IInv
  OBVIOUS
<1>1. target \in Seq(Page)
  BY BlankFile DEF Init
<1> QED
  BY <1>1, BlankFile DEF Init, IInv, FilesTyped, PlanInv, CopyInv, DirectInv, SequenceInv, Planning, Working

\* A step that only extends the plan.
LEMMA EditKeeps ==
  ASSUME IInv, pc \in Planning, pc' \in Planning,
         UNCHANGED <<target, original, private, combined, base, kind, copied, ideal>>,
         JournalOf(plan', base), Exact(plan', base, intents')
  PROVE  IInv'
BY DEF IInv, FilesTyped, PlanInv, CopyInv, DirectInv, SequenceInv, Planning, Working

\* The pages a plan appends are nobody else's.
LEMMA AppendKeeps ==
  ASSUME IInv, pc \in Planning, pc' \in Planning,
         UNCHANGED <<target, original, private, combined, base, kind, copied, ideal>>,
         NEW more \in Seq(Page), plan' = [plan EXCEPT !.append = more], intents' = intents
  PROVE  IInv'
<1>1. JournalOf(plan, base) /\ plan \in Journals
  BY DEF IInv, PlanInv, JournalOf
<1>2. plan'.first = plan.first /\ plan'.changes = plan.changes /\ plan' \in Journals
  BY <1>1 DEF Journals
<1>3. ChangedPages(plan') = ChangedPages(plan)
  BY <1>2 DEF ChangedPages
<1>4. JournalOf(plan', base)
  BY <1>1, <1>2, <1>3 DEF JournalOf
<1>5. \A p \in DOMAIN base : Current(plan', base, p) = Current(plan, base, p)
  BY <1>2, <1>3 DEF Current
<1>6. Exact(plan, base, intents)
  BY DEF IInv, PlanInv
<1>7. Exact(plan', base, intents')
  <2> SUFFICES ASSUME NEW p \in DOMAIN base, NEW c \in Cells, NEW v \in Values
               PROVE  <<p, c, v>> \in intents <=> v = Current(plan', base, p)[c] /\ v # base[p][c]
    BY DEF Exact
  <2> QED
    BY <1>5, <1>6, SMTT(30) DEF Exact
<1> QED
  BY <1>4, <1>7, EditKeeps

\* The end of a call keeps nothing but the target.
LEMMA EndKeeps ==
  ASSUME IInv, End, target' \in Seq(Page), ideal' \in Seq(Page)
  PROVE  IInv'
BY BlankFile DEF End, IInv, FilesTyped, PlanInv, CopyInv, DirectInv, SequenceInv, Planning, Working

\* Every edit of a plan keeps the invariant.
LEMMA EditsKeep ==
  ASSUME IInv, NEW p \in 1 .. MaxPages,
         \/ \E image \in Page : ReplacePage(p, image) \/ SetAppended(p, image) \/ AppendPage(image)
         \/ \E c \in Cells, v \in Values : MapRecord(p, c, v) \/ PatchBytes(p, c, v) \/ PatchAppended(p, c, v)
  PROVE  IInv'
<1> USE DEF Edit, Planning
<1>1. ASSUME pc \in Planning
      PROVE  /\ base \in Seq(Page) /\ JournalOf(plan, base) /\ Exact(plan, base, intents)
             /\ plan \in Journals /\ plan.append \in Seq(Page)
  <2>1. JournalOf(plan, base)
    BY <1>1 DEF IInv, PlanInv
  <2> QED
    BY <1>1, <2>1 DEF IInv, FilesTyped, PlanInv, JournalOf, Journals
<1>2. ASSUME NEW image \in Page, ReplacePage(p, image) PROVE IInv'
  <2>1. /\ JournalOf(Replace(plan, p, base[p], image), base)
        /\ Exact(Replace(plan, p, base[p], image), base, intents \union Intents(p, base[p], image))
    BY <1>1, <1>2, MergeIsExact DEF ReplacePage
  <2> QED
    BY <1>2, <2>1, EditKeeps DEF ReplacePage
<1>3. ASSUME NEW image \in Page, AppendPage(image) PROVE IInv'
  <2> DEFINE more == plan.append \o <<image>>
  <2>1. more \in Seq(Page)
    BY <1>1, <1>3 DEF AppendPage
  <2> HIDE DEF more
  <2>2. plan' = [plan EXCEPT !.append = more] /\ intents' = intents
    BY <1>3 DEF AppendPage, more
  <2> QED
    BY <1>3, <2>1, <2>2, AppendKeeps DEF AppendPage
<1>4. ASSUME NEW image \in Page, SetAppended(p, image) PROVE IInv'
  <2> DEFINE more == [plan.append EXCEPT ![p] = image]
  <2>1. more \in Seq(Page)
    BY <1>1, <1>4 DEF SetAppended
  <2>2. plan' = [plan EXCEPT !.append = more] /\ intents' = intents
    BY <1>4 DEF SetAppended
  <2> HIDE DEF more
  <2> QED
    BY <1>4, <2>1, <2>2, AppendKeeps DEF SetAppended
<1>5. ASSUME NEW c \in Cells, NEW v \in Values, PatchAppended(p, c, v) PROVE IInv'
  <2> DEFINE image == [plan.append[p] EXCEPT ![c] = v]
             more == [plan.append EXCEPT ![p] = image]
  <2>1. plan.append[p] \in Page
    BY <1>1, <1>5 DEF PatchAppended
  <2>2. image \in Page
    BY <2>1 DEF Page
  <2>3. plan' = [plan EXCEPT !.append = more] /\ intents' = intents
    BY <1>5 DEF PatchAppended
  <2> HIDE DEF image
  <2>4. more \in Seq(Page)
    BY <1>1, <1>5, <2>2 DEF PatchAppended
  <2> HIDE DEF more
  <2> QED
    BY <1>5, <2>3, <2>4, AppendKeeps DEF PatchAppended
<1>6. ASSUME NEW c \in Cells, NEW v \in Values, MapRecord(p, c, v) \/ PatchBytes(p, c, v) PROVE IInv'
  <2> DEFINE now == Current(plan, base, p)
             image == [now EXCEPT ![c] = v]
             new == IF v = base[p][c] THEN {} ELSE {<<p, c, v>>}
             after == SetPage(plan, p, base[p], image)
  <2>1. pc \in Planning /\ p \in DOMAIN base
    BY <1>6 DEF MapRecord, PatchBytes
  <2>2. p \in ChangedPages(plan) => plan.changes[p].before = base[p] /\ now = plan.changes[p].after
    BY <1>1, <2>1 DEF JournalOf, Current
  <2>3. p \notin ChangedPages(plan) => now = base[p]
    BY DEF Current
  <2>4. now[c] \in {base[p][c], v}
    BY <1>6, <2>2, <2>3 DEF MapRecord, PatchBytes
  <2>5. JournalOf(after, base) /\ Exact(after, base, intents \union new)
    BY <1>1, <2>1, <2>4, CellIsExact
  <2>6. plan' = after /\ intents' = intents \union new
    <3>1. plan' = IF p \in ChangedPages(plan) THEN WithAfter(plan, p, image)
                                              ELSE Replace(plan, p, base[p], image)
      BY <1>6 DEF MapRecord, PatchBytes
    <3>2. p \notin ChangedPages(plan) =>
            Replace(plan, p, base[p], image) = WithChange(plan, p, [before |-> base[p], after |-> image])
      BY DEF Replace
    <3>3. intents' = intents \union new
      BY <1>6 DEF MapRecord, PatchBytes
    <3> QED
      BY <3>1, <3>2, <3>3 DEF SetPage
  <2>7. pc' = pc /\ UNCHANGED <<target, original, private, combined, base, kind, copied, ideal>>
    BY <1>6 DEF MapRecord, PatchBytes
  <2> HIDE DEF after, new
  <2> QED
    BY <2>1, <2>5, <2>6, <2>7, EditKeeps
<1> QED
  BY <1>2, <1>3, <1>4, <1>5, <1>6

\* Applying a plan gives a file.
LEMMA AppliedType ==
  ASSUME NEW file \in Seq(Page), plan \in Journals
  PROVE  Applied(file) \in Seq(Page)
<1> DEFINE cell(p, c) == IF \E v \in Values : <<p, c, v>> \in intents
                         THEN CHOOSE v \in Values : <<p, c, v>> \in intents ELSE file[p][c]
           kept == [p \in 1 .. Len(file) |-> [c \in Cells |-> cell(p, c)]]
<1>1. Len(file) \in Nat /\ plan.append \in Seq(Page) /\ \A p \in 1 .. Len(file) : file[p] \in Page
  BY DEF Journals
<1>2. ASSUME NEW p \in 1 .. Len(file), NEW c \in Cells PROVE cell(p, c) \in Values
  <2>1. file[p][c] \in Values
    BY <1>1 DEF Page
  <2> QED
    BY <2>1
<1>3. Applied(file) = kept \o plan.append
  BY DEF Applied
<1> HIDE DEF cell
<1>4. \A p \in 1 .. Len(file) : kept[p] \in Page
  BY <1>2 DEF Page
<1>5. kept = [p \in 1 .. Len(file) |-> kept[p]]
  OBVIOUS
<1> HIDE DEF kept
<1>6. kept \in Seq(Page)
  BY <1>1, <1>4, <1>5, Listed
<1> QED
  BY <1>1, <1>3, <1>6

\* So does publish_changes_with_appends, holes included.
LEMMA PatchedType ==
  ASSUME target \in Seq(Page), plan \in Journals
  PROVE  Patched(plan, target) \in Seq(Page)
<1> DEFINE size == plan.first + Len(plan.append)
           last == IF size > Len(target) /\ plan.append # <<>> THEN size ELSE Len(target)
           old(p) == IF p <= Len(target) THEN target[p] ELSE BlankPage
           image(p) == IF p \in ChangedPages(plan)
                       THEN MergedCells(old(p), plan.changes[p].before, plan.changes[p].after)
                       ELSE IF p > plan.first /\ p <= size THEN plan.append[p - plan.first] ELSE old(p)
<1>1. plan.append \in Seq(Page) /\ plan.first \in Nat
  BY DEF Journals
<1>2. size \in Nat /\ last \in Nat /\ Len(target) \in Nat /\ Len(plan.append) \in Nat
  BY <1>1
<1>3. ASSUME NEW p \in 1 .. last PROVE image(p) \in Page
  <2>1. old(p) \in Page
    BY <1>2, <1>3, BlankFile
  <2>2. CASE p \in ChangedPages(plan)
    <3>1. plan.changes[p].after \in Page
      BY <2>2, ChangeType
    <3> HIDE DEF old
    <3> QED
      BY <2>1, <2>2, <3>1 DEF MergedCells, Page
  <2>3. CASE p \notin ChangedPages(plan) /\ p > plan.first /\ p <= size
    <3>1. p - plan.first \in 1 .. Len(plan.append)
      BY <1>1, <1>2, <2>3
    <3> QED
      BY <1>1, <2>3, <3>1
  <2> QED
    BY <2>1, <2>2, <2>3
<1>4. Patched(plan, target) = [p \in 1 .. last |-> image(p)]
  BY DEF Patched
<1> HIDE DEF image, last
<1>5. [p \in 1 .. last |-> image(p)] \in Seq(Page)
  BY <1>2, <1>3
<1> QED
  BY <1>4, <1>5

\* Every step keeps the invariant.
LEMMA IInvNext == IInv /\ [Next]_vars => IInv'
<1> SUFFICES ASSUME IInv, [Next]_vars PROVE IInv'
  OBVIOUS
<1> USE DEF Planning, Working
<1>a. FilesTyped /\ kind \in {"direct", "sequence"}
  BY DEF IInv
<1>1. ASSUME NEW k \in {"direct", "sequence"}, Open(k) PROVE IInv'
  <2>1. /\ original' = target /\ ideal' = target /\ combined' = NewJournal(Len(target)) /\ kind' = k
        /\ pc' = IF k = "direct" THEN "plan" ELSE "copy"
    BY <1>1 DEF Open
  <2> QED
    BY <1>1, <1>a, <2>1 DEF Open, IInv, FilesTyped, PlanInv, CopyInv, DirectInv, SequenceInv
<1>2. CASE Copy
  <2>1. kind = "sequence" /\ combined = NewJournal(Len(original)) /\ ideal = original
    BY <1>2 DEF Copy, IInv, CopyInv
  <2>2. /\ CombinedOf(combined, original)
        /\ \A other \in Seq(Page) : Verified(original, other, combined) <=> other = original
    BY <1>a, <2>1, NewIsExact DEF FilesTyped
  <2>3. SequenceInv'
    BY <1>2, <1>a, <2>1, <2>2 DEF Copy, SequenceInv, FilesTyped
  <2> QED
    BY <1>2, <1>a, <2>1, <2>3 DEF Copy, IInv, FilesTyped, PlanInv, CopyInv, DirectInv
<1>3. CASE BeginPlan
  <2>1. /\ base' = (IF kind = "direct" THEN original ELSE private) /\ base' \in Seq(Page)
        /\ plan' = NewJournal(Len(base')) /\ intents' = {} /\ pc = "plan" /\ pc' = "content"
    BY <1>3, <1>a DEF BeginPlan, FilesTyped
  <2>2. JournalOf(plan', base') /\ Exact(plan', base', intents')
    BY <2>1, NewIsExact
  <2> QED
    BY <1>3, <1>a, <2>1, <2>2 DEF BeginPlan, IInv, FilesTyped, PlanInv, CopyInv, DirectInv, SequenceInv
<1>4. CASE FinishMaps
  BY <1>4 DEF FinishMaps, IInv, FilesTyped, PlanInv, CopyInv, DirectInv, SequenceInv
<1>5. CASE ApplyPrivate
  <2>1. /\ JournalOf(plan, private) /\ Exact(plan, private, intents) /\ plan \in Journals
        /\ CombinedOf(combined, original)
        /\ copied = original => Verified(original, private, combined)
        /\ Verified(original, private, combined) => private = ideal
    BY <1>5 DEF ApplyPrivate, IInv, PlanInv, SequenceInv, JournalOf
  <2>2. plan.first = combined.first + Len(combined.append)
    <3>1. combined.first \in Nat /\ plan.first \in Nat /\ combined.append \in Seq(Page)
      BY <2>1 DEF CombinedOf, Journals
    <3>2. Len(combined.append) \in Nat /\ plan.first + 1 = combined.first + Len(combined.append) + 1
      BY <1>5, <3>1 DEF ApplyPrivate, NextAppendPage
    <3> QED
      BY <3>1, <3>2
  <2>3. Verified(original, Written(plan, private), Combined(combined, plan))
          <=> Verified(original, private, combined)
    BY <1>5, <1>a, <2>1, <2>2, CombinedDescribes DEF ApplyPrivate, FilesTyped
  <2>4. Written(plan, private) \in Seq(Page)
    BY <1>a, <2>1, WrittenPages DEF FilesTyped
  <2>5. CombinedOf(Combined(combined, plan), original)
    <3>1. Extends(Combined(combined, plan), combined, plan, original)
      BY <1>a, <2>1, CombinedPages DEF FilesTyped
    <3> QED
      BY <3>1 DEF Extends
  <2>6. private = ideal => Applied(ideal) = Written(plan, private)
    BY <1>a, <2>1, AppliedIsWritten DEF FilesTyped
  <2>7. Applied(ideal) \in Seq(Page)
    BY <1>a, <2>1, AppliedType DEF FilesTyped
  <2>8. /\ combined' = Combined(combined, plan) /\ private' = Written(plan, private)
        /\ ideal' = Applied(ideal) /\ pc' = "plan" /\ kind = "sequence" /\ base' = <<BlankPage>>
        /\ UNCHANGED <<target, original, kind, copied>>
    BY <1>5 DEF ApplyPrivate
  <2>9. SequenceInv'
    BY <2>1, <2>3, <2>5, <2>6, <2>8 DEF SequenceInv
  <2> QED
    BY <1>a, <2>4, <2>7, <2>8, <2>9, BlankFile DEF IInv, FilesTyped, PlanInv, CopyInv, DirectInv
<1>6. CASE PublishDirect
  <2>1. plan \in Journals
    BY <1>6 DEF PublishDirect, IInv, PlanInv, JournalOf
  <2>2. Patched(plan, target) \in Seq(Page)
    BY <1>a, <2>1, PatchedType DEF FilesTyped
  <2>3. Applied(ideal) \in Seq(Page)
    BY <1>a, <2>1, AppliedType DEF FilesTyped
  <2> QED
    BY <1>6, <2>2, <2>3, EndKeeps DEF PublishDirect
<1>7. CASE PublishSequence \/ Refuse
  BY <1>7, <1>a, EndKeeps DEF PublishSequence, Refuse, FilesTyped
<1>8. ASSUME NEW n \in 1 .. 2, NEW c \in Cells, NEW v \in Values,
             ForeignPublish([p \in 1 .. n |-> [BlankPage EXCEPT ![c] = v]])
      PROVE  IInv'
  <2>1. [BlankPage EXCEPT ![c] = v] \in Page
    BY BlankFile DEF Page
  <2>2. target' \in Seq(Page)
    BY <1>8, <2>1 DEF ForeignPublish
  <2> QED
    BY <1>8, <1>a, <2>2 DEF ForeignPublish, IInv, FilesTyped, PlanInv, CopyInv, DirectInv, SequenceInv
<1>9. ASSUME NEW image \in Page, AppendPage(image) PROVE IInv'
  BY <1>9, EditsKeep, JournalAssumption
<1>10. ASSUME NEW p \in 1 .. MaxPages,
              \/ \E image \in Page : ReplacePage(p, image) \/ SetAppended(p, image)
              \/ \E c \in Cells, v \in Values : MapRecord(p, c, v) \/ PatchBytes(p, c, v) \/ PatchAppended(p, c, v)
       PROVE  IInv'
  BY <1>10, EditsKeep
<1>11. CASE UNCHANGED vars
  BY <1>11 DEF vars, IInv, FilesTyped, PlanInv, CopyInv, DirectInv, SequenceInv
<1> QED
  BY <1>1, <1>2, <1>3, <1>4, <1>5, <1>6, <1>7, <1>8, <1>9, <1>10, <1>11 DEF Next

-----------------------------------------------------------------------------
(* The theorems. *)

\* The edits of a plan's components never overwrite one another: the journal's pages are the
\* file with exactly the accepted edits of replace, map_record and patch_bytes.
THEOREM EditsAreKept == Spec => []PlanIsItsEdits
<1>1. ASSUME IInv PROVE PlanIsItsEdits
  <2> SUFFICES ASSUME pc \in Planning, NEW p \in DOMAIN base, NEW c \in Cells
               PROVE  {Current(plan, base, p)[c]} =
                        IF \E v \in Values : <<p, c, v>> \in intents
                        THEN {v \in Values : <<p, c, v>> \in intents} ELSE {base[p][c]}
    BY DEF PlanIsItsEdits, Planning
  <2>1. base \in Seq(Page) /\ plan \in Journals /\ Exact(plan, base, intents)
    BY <1>1 DEF IInv, FilesTyped, PlanInv, JournalOf
  <2> DEFINE now == Current(plan, base, p)[c]
  <2>2. now \in Values
    BY <2>1, CurrentType DEF Page
  <2>3. \A v \in Values : <<p, c, v>> \in intents <=> v = now /\ v # base[p][c]
    BY <2>1 DEF Exact
  <2> HIDE DEF now
  <2>4. {now} = IF \E v \in Values : <<p, c, v>> \in intents
                THEN {v \in Values : <<p, c, v>> \in intents} ELSE {base[p][c]}
    BY <2>2, <2>3
  <2> QED
    BY <2>4 DEF now
<1> QED
  BY <1>1, IInvInit, IInvNext, PTL DEF Spec

\* verify_private accepts what apply_private wrote, after any number of plans, pages appended
\* by earlier plans and edited by later ones included.
THEOREM PrivateVerifies == Spec => []JournalDescribesPrivate
<1>1. IInv => JournalDescribesPrivate
  BY DEF IInv, SequenceInv, JournalDescribesPrivate, Working, Planning
<1> QED
  BY <1>1, IInvInit, IInvNext, PTL DEF Spec

\* Only the opened file with the plans applied one after another is ever published, whatever
\* file the path named when the copy was made.
THEOREM PublishesThePlans == Spec => PublishesTheSequence
<1>1. ASSUME IInv, PublishDirect PROVE target' = ideal'
  <2>1. /\ pc \in Planning /\ kind = "direct" /\ Verified(original, Patched(plan, target), plan)
        /\ target' = Patched(plan, target) /\ ideal' = Applied(ideal)
    BY <1>1 DEF PublishDirect, Planning
  <2>2. /\ original \in Seq(Page) /\ target \in Seq(Page) /\ ideal = original
        /\ JournalOf(plan, original) /\ Exact(plan, original, intents) /\ plan \in Journals
    BY <1>1, <2>1 DEF IInv, FilesTyped, PlanInv, DirectInv, JournalOf, Working
  <2>3. Patched(plan, target) = Written(plan, original)
    BY <2>1, <2>2, PatchedType, VerifiedIsWritten
  <2>4. Applied(ideal) = Written(plan, original)
    BY <2>2, AppliedIsWritten
  <2> QED
    BY <2>1, <2>3, <2>4
<1>2. ASSUME IInv, PublishSequence PROVE target' = ideal'
  BY <1>2 DEF PublishSequence, IInv, SequenceInv, Working
<1>3. IInv /\ [Next]_vars => [PublishDirect \/ PublishSequence => target' = ideal']_vars
  BY <1>1, <1>2
<1> QED
  BY <1>3, IInvInit, IInvNext, PTL DEF Spec, PublishesTheSequence
=============================================================================
