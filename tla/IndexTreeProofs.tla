-------------------------- MODULE IndexTreeProofs ---------------------------
(***************************************************************************)
(* Proofs about IndexTree for every set of rows, keys and page sizes.      *)
(***************************************************************************)
EXTENDS IndexTree, TLAPS, WellFoundedInduction, FiniteSetTheorems

\* The rows of the table, and those a mutation in progress is about to leave.
RowsType == [Rows -> Keys \union {NIL}]
SettingType == [policy : Policies, unique : BOOLEAN, counted : BOOLEAN, rows : SUBSET Rows, keys : SUBSET Keys]

\* What was planned is no less unique than what is there: the rows are replaced by the planned
\* ones only when the tree is staged, long after MutableIndex::insert looked for the key.
IInv ==
  /\ setting \in SettingType
  /\ rows \in RowsType /\ NoDuplicates(rows)
  /\ pc # "idle" => pending.rows \in RowsType /\ NoDuplicates(pending.rows)

\* A key without nulls that no record holds may be given to a row.
LEMMA GivenKey ==
  ASSUME NEW rs \in RowsType, NoDuplicates(rs), NEW l \in Rows, NEW k \in Keys \union {NIL},
         Indexed(k) => Admissible([rs EXCEPT ![l] = NIL], l, k)
  PROVE  NoDuplicates([rs EXCEPT ![l] = k]) /\ [rs EXCEPT ![l] = k] \in RowsType
<1> DEFINE new == [rs EXCEPT ![l] = k]
           old == [rs EXCEPT ![l] = NIL]
<1>1. new \in RowsType
  BY DEF RowsType
<1>2. ASSUME setting.unique, k # NIL, ~HasNull(k), NEW b \in Rows \ {l}, rs[b] = k PROVE FALSE
  <2>1. Indexed(k)
    BY <1>2 DEF Indexed, HasNull
  <2>2. old[b] = k
    BY <1>2 DEF RowsType
  <2>3. Record(k, b) \in Records(old)
    BY <2>1, <2>2, <1>2 DEF Records
  <2>4. Record(k, b).key = k
    BY DEF Record
  <2> QED
    BY <1>2, <2>1, <2>3, <2>4 DEF Admissible, Present
<1>3. ASSUME setting.unique, NEW a \in Rows, NEW b \in Rows, a # b, new[a] # NIL, ~HasNull(new[a])
      PROVE  new[a] # new[b]
  <2>1. CASE a = l
    BY <1>2, <1>3, <2>1 DEF RowsType
  <2>2. CASE b = l
    BY <1>2, <1>3, <2>2 DEF RowsType
  <2>3. CASE a # l /\ b # l
    BY <1>3, <2>3 DEF NoDuplicates, RowsType
  <2> QED
    BY <2>1, <2>2, <2>3
<1> QED
  BY <1>1, <1>3 DEF NoDuplicates

\* Planning a mutation keeps the rows it plans, whether they are staged at once or later.
LEMMA PlanKeeps ==
  ASSUME IInv, NEW rs \in RowsType, NEW c, NoDuplicates(rs), pc = "idle", Plan(rs, c)
  PROVE  IInv'
<1>1. NoDuplicates(rs)'
  BY DEF Plan, NoDuplicates
<1> QED
  BY <1>1 DEF IInv, Plan, NoDuplicates, file, HasNull

\* No mutation, and no step of building the tree, admits a duplicate.
LEMMA IInvNext == IInv /\ [Next]_vars => IInv'
<1> SUFFICES ASSUME IInv, [Next]_vars PROVE IInv'
  OBVIOUS
<1>a. setting.rows \subseteq Rows /\ setting.keys \subseteq Keys
  BY DEF IInv, SettingType
<1>1. ASSUME NEW l \in setting.rows, NEW k \in setting.keys, InsertRow(l, k) PROVE IInv'
  <2>1. [rows EXCEPT ![l] = NIL] = rows
    BY <1>1, <1>a DEF InsertRow, IInv, RowsType
  <2>2. NoDuplicates([rows EXCEPT ![l] = k]) /\ [rows EXCEPT ![l] = k] \in RowsType
    BY <1>1, <1>a, <2>1, GivenKey DEF InsertRow, IInv
  <2> QED
    BY <1>1, <2>2, PlanKeeps DEF InsertRow
<1>2. ASSUME NEW l \in setting.rows, RemoveRow(l) PROVE IInv'
  <2>1. ~Indexed(NIL)
    BY DEF Indexed
  <2>2. NoDuplicates([rows EXCEPT ![l] = NIL]) /\ [rows EXCEPT ![l] = NIL] \in RowsType
    BY <1>a, <2>1, GivenKey DEF IInv
  <2> QED
    BY <1>2, <2>2, PlanKeeps DEF RemoveRow
<1>3. ASSUME NEW l \in setting.rows, NEW k \in setting.keys, ReplaceRow(l, k) PROVE IInv'
  <2>1. NoDuplicates([rows EXCEPT ![l] = k]) /\ [rows EXCEPT ![l] = k] \in RowsType
    <3>1. CASE k = rows[l]
      <4>1. [rows EXCEPT ![l] = k] = rows
        BY <1>a, <3>1 DEF IInv, RowsType
      <4> QED
        BY <4>1 DEF IInv
    <3>2. CASE k # rows[l]
      BY <1>3, <1>a, <3>2, GivenKey DEF ReplaceRow, IInv
    <3> QED
      BY <3>1, <3>2
  <2> QED
    BY <1>3, <2>1, PlanKeeps DEF ReplaceRow
<1>4. CASE PackLeaves \/ GroupNext
  BY <1>4 DEF PackLeaves, GroupNext, IInv, NoDuplicates, HasNull, file
<1>5. CASE StageTree
  BY <1>5 DEF StageTree, Reset, IInv, NoDuplicates, HasNull
<1>6. CASE RefuseTree \/ RefuseBudget
  BY <1>6 DEF RefuseTree, RefuseBudget, Reset, IInv, NoDuplicates, HasNull, file
<1>7. CASE UNCHANGED vars
  BY <1>7 DEF vars, file, IInv, NoDuplicates, HasNull
<1> QED
  BY <1>1, <1>2, <1>3, <1>4, <1>5, <1>6, <1>7 DEF Next, Mutate, Build

\* The first rows are at most one.
LEMMA IInvInit == Init => IInv
<1> SUFFICES ASSUME Init PROVE IInv
  OBVIOUS
<1>1. setting \in SettingType /\ setting.keys \subseteq Keys
  BY IndexAssumption DEF Init, SettingType
<1>2. CASE rows = [l \in Rows |-> NIL]
  BY <1>1, <1>2 DEF Init, IInv, RowsType, NoDuplicates
<1>3. ASSUME NEW k \in setting.keys, rows = OneRow(k) PROVE IInv
  <2>1. rows \in RowsType
    BY <1>1, <1>3 DEF OneRow, RowsType
  <2>2. NoDuplicates(rows)
    BY <1>3, <1>1 DEF OneRow, NoDuplicates
  <2> QED
    BY <1>1, <2>1, <2>2 DEF Init, IInv
<1> QED
  BY <1>2, <1>3 DEF Init

\* A unique index never holds one non-null key for two rows, whatever the order of insertions,
\* replacements and removals, refused trees and budgets included.
THEOREM UniqueStaysUnique == Spec => []UniqueKeys
<1>1. IInv => UniqueKeys
  BY DEF IInv, UniqueKeys
<1> QED
  BY <1>1, IInvInit, IInvNext, PTL DEF Spec

-----------------------------------------------------------------------------
(* Induction and recursion along an interval. *)

\* A set with 0 and with the successor of each of its numbers below m holds 0 .. m:
\* there would be a least number missing otherwise.
LEMMA Induct ==
  ASSUME NEW m \in Nat, NEW Q, 0 \in Q, \A n \in 0 .. m : n \in Q /\ n + 1 <= m => n + 1 \in Q
  PROVE  \A n \in 0 .. m : n \in Q
<1> DEFINE C == {n \in 0 .. m : n \notin Q}
<1> SUFFICES ASSUME C # {} PROVE FALSE
  OBVIOUS
<1>1. C \in SUBSET Nat
  OBVIOUS
<1>2. PICK x \in C : \A y \in C : ~(<<y, x>> \in OpToRel(<, Nat))
  BY <1>1, NatLessThanWellFounded, WFMin
<1>3. \A y \in C : ~(y < x)
  BY <1>1, <1>2 DEF OpToRel
<1>4. x \in 0 .. m /\ x \notin Q /\ x # 0
  OBVIOUS
<1>5. x - 1 \in 0 .. m /\ (x - 1) + 1 = x /\ x - 1 < x /\ x <= m
  BY <1>4
<1>6. x - 1 \in Q
  BY <1>3, <1>5
<1> QED
  BY <1>4, <1>5, <1>6

\* f starts with x, and each further value is what G makes of the one before.
Follows(f, m, X, x, G) ==
  f \in [0 .. m -> X] /\ f[0] = x /\ \A i \in 1 .. m : f[i] = G[<<i, f[i - 1]>>]

\* There is such a function.
LEMMA Recursion ==
  ASSUME NEW m \in Nat, NEW X, NEW x \in X, NEW G \in [(1 .. m) \X X -> X]
  PROVE  \E f : Follows(f, m, X, x, G)
<1> DEFINE Q == {n \in 0 .. m : \E f : Follows(f, n, X, x, G)}
<1>1. 0 \in Q
  <2> DEFINE f == [i \in 0 .. 0 |-> x]
  <2>1. Follows(f, 0, X, x, G)
    BY DEF Follows
  <2> QED
    BY <2>1
<1>2. ASSUME NEW n \in 0 .. m, n \in Q, n + 1 <= m PROVE n + 1 \in Q
  <2>1. PICK f : Follows(f, n, X, x, G)
    BY <1>2
  <2>2. f \in [0 .. n -> X] /\ f[0] = x /\ \A i \in 1 .. n : f[i] = G[<<i, f[i - 1]>>]
    BY <2>1 DEF Follows
  <2> DEFINE y == G[<<n + 1, f[n]>>]
             g == [i \in 0 .. (n + 1) |-> IF i = n + 1 THEN y ELSE f[i]]
  <2>3. n \in Nat /\ n + 1 \in 1 .. m /\ n \in 0 .. n /\ (n + 1) - 1 = n /\ n + 1 \in 0 .. m
    BY <1>2
  <2>4. y \in X
    BY <2>2, <2>3
  <2>5. \A i \in 0 .. (n + 1) : i # n + 1 => i \in 0 .. n /\ g[i] = f[i]
    BY <2>3
  <2>6. g[n + 1] = y /\ g[n] = f[n] /\ g[0] = x
    BY <2>2, <2>3
  <2> HIDE DEF y
  <2>7. g \in [0 .. (n + 1) -> X]
    BY <2>2, <2>3, <2>4
  <2>8. ASSUME NEW i \in 1 .. (n + 1) PROVE g[i] = G[<<i, g[i - 1]>>]
    <3>1. CASE i = n + 1
      BY <2>3, <2>6, <3>1 DEF y
    <3>2. CASE i # n + 1
      <4>1. i \in 1 .. n /\ i \in 0 .. (n + 1) /\ i - 1 \in 0 .. (n + 1) /\ i - 1 # n + 1
        BY <2>3, <3>2
      <4> HIDE DEF g
      <4> QED
        BY <2>2, <2>5, <3>2, <4>1
    <3> QED
      BY <3>1, <3>2
  <2>9. Follows(g, n + 1, X, x, G)
    BY <2>6, <2>7, <2>8 DEF Follows
  <2> HIDE DEF g
  <2> QED
    BY <2>3, <2>9
<1> HIDE DEF Q
<1>3. m \in Q
  <2>1. \A n \in 0 .. m : n \in Q
    BY <1>1, <1>2, Induct
  <2> QED
    BY <2>1
<1> QED
  BY <1>3 DEF Q

\* Sums are sums.
LEMMA SumsAre ==
  ASSUME NEW s \in Seq(Nat)
  PROVE  /\ Sums(s) \in [0 .. Len(s) -> Nat] /\ Sums(s)[0] = 0
         /\ \A i \in 1 .. Len(s) : Sums(s)[i] = Sums(s)[i - 1] + s[i]
<1> DEFINE m == Len(s)
           G == [z \in (1 .. m) \X Nat |-> z[2] + s[z[1]]]
           IsSum(u) == u = [i \in 0 .. m |-> IF i = 0 THEN 0 ELSE u[i - 1] + s[i]]
           sum == CHOOSE u : IsSum(u)
<1>1. m \in Nat /\ \A i \in 1 .. m : s[i] \in Nat
  OBVIOUS
<1>2. Sums(s) = sum
  BY DEF Sums
<1> HIDE DEF m
<1>3. G \in [(1 .. m) \X Nat -> Nat]
  BY <1>1
<1>4. \A i \in 1 .. m, x \in Nat : G[<<i, x>>] = x + s[i]
  OBVIOUS
<1> HIDE DEF G
<1>5. PICK u : Follows(u, m, Nat, 0, G)
  BY <1>1, <1>3, Recursion
<1>6. /\ u \in [0 .. m -> Nat] /\ u[0] = 0
      /\ \A i \in 1 .. m : i - 1 \in 0 .. m /\ u[i - 1] \in Nat /\ u[i] = u[i - 1] + s[i]
  <2>1. u \in [0 .. m -> Nat] /\ u[0] = 0 /\ \A i \in 1 .. m : u[i] = G[<<i, u[i - 1]>>]
    BY <1>5 DEF Follows
  <2>2. \A i \in 1 .. m : i - 1 \in 0 .. m
    BY <1>1
  <2>3. \A i \in 1 .. m : u[i - 1] \in Nat
    BY <2>1, <2>2
  <2> QED
    BY <1>4, <2>1, <2>2, <2>3
<1>7. IsSum(u)
  <2>1. \A i \in 0 .. m : i # 0 => i \in 1 .. m
    BY <1>1
  <2>2. \A i \in 0 .. m : u[i] = IF i = 0 THEN 0 ELSE u[i - 1] + s[i]
    BY <1>6, <2>1
  <2> QED
    BY <1>6, <2>2
<1>8. IsSum(sum)
  BY <1>7
<1> HIDE DEF sum
<1> DEFINE Q == {n \in 0 .. m : sum[n] = u[n]}
<1>9. \A n \in 0 .. m : n \in Q
  <2>1. sum[0] = 0 /\ \A i \in 1 .. m : sum[i] = sum[i - 1] + s[i]
    <3>1. 0 \in 0 .. m /\ \A i \in 1 .. m : i \in 0 .. m /\ i # 0
      BY <1>1
    <3> QED
      BY <1>8, <3>1
  <2>2. 0 \in Q
    BY <1>1, <1>6, <2>1
  <2>3. ASSUME NEW n \in 0 .. m, n \in Q, n + 1 <= m PROVE n + 1 \in Q
    <3>1. n + 1 \in 1 .. m /\ (n + 1) - 1 = n /\ n + 1 \in 0 .. m
      BY <1>1, <2>3
    <3> QED
      BY <1>6, <2>1, <2>3, <3>1
  <2> HIDE DEF Q
  <2> QED
    BY <1>1, <2>2, <2>3, Induct
<1>10. DOMAIN sum = 0 .. m
  BY <1>8
<1>11. sum = u
  BY <1>6, <1>8, <1>9, <1>10
<1> QED
  BY <1>2, <1>6, <1>11 DEF m

-----------------------------------------------------------------------------
(* Sequences put one behind the other. *)

\* Two sequences.
LEMMA Concat ==
  ASSUME NEW X, NEW a \in Seq(X), NEW b \in Seq(X)
  PROVE  /\ a \o b \in Seq(X) /\ Len(a) \in Nat /\ Len(b) \in Nat /\ Len(a \o b) = Len(a) + Len(b)
         /\ \A k \in 1 .. Len(a) : (a \o b)[k] = a[k]
         /\ \A j \in 1 .. Len(b) : (a \o b)[Len(a) + j] = b[j]
         /\ \A k \in 1 .. (Len(a) + Len(b)) : k \notin 1 .. Len(a) => \E j \in 1 .. Len(b) : k = Len(a) + j
<1>1. a \o b \in Seq(X) /\ Len(a) \in Nat /\ Len(b) \in Nat /\ Len(a \o b) = Len(a) + Len(b)
  OBVIOUS
<1>2. \A k \in 1 .. Len(a) : (a \o b)[k] = a[k]
  OBVIOUS
<1>3. \A j \in 1 .. Len(b) : (a \o b)[Len(a) + j] = b[j]
  OBVIOUS
<1>4. ASSUME NEW k \in 1 .. (Len(a) + Len(b)), k \notin 1 .. Len(a) PROVE \E j \in 1 .. Len(b) : k = Len(a) + j
  <2> DEFINE j == k - Len(a)
  <2>1. j \in 1 .. Len(b) /\ k = Len(a) + j
    BY <1>1, <1>4
  <2> QED
    BY <2>1
<1> QED
  BY <1>1, <1>2, <1>3, <1>4

\* F is the sequences of s one behind the other, the i-th behind the first o[i - 1] elements.
Offsets(s, o) == o \in [0 .. Len(s) -> Nat] /\ o[0] = 0 /\ \A i \in 1 .. Len(s) : o[i] = o[i - 1] + Len(s[i])
Lays(F, s, o, n) ==
  /\ Len(F) = o[n] /\ \A i \in 0 .. n : o[i] <= o[n]
  /\ \A i \in 1 .. n : \A j \in 1 .. Len(s[i]) : F[o[i - 1] + j] = s[i][j]
  /\ \A k \in 1 .. Len(F) : \E i \in 1 .. n : \E j \in 1 .. Len(s[i]) : k = o[i - 1] + j

\* One more sequence behind the others.
LEMMA LaysNext ==
  ASSUME NEW X, NEW s \in Seq(Seq(X)), NEW o, Offsets(s, o), NEW n \in Nat, n + 1 <= Len(s),
         NEW F \in Seq(X), Lays(F, s, o, n)
  PROVE  Lays(F \o s[n + 1], s, o, n + 1)
<1> DEFINE b == s[n + 1]
           H == F \o b
           m == Len(s)
<1>1. /\ m \in Nat /\ n + 1 \in 1 .. m /\ b \in Seq(X) /\ n \in 0 .. m /\ (n + 1) - 1 = n /\ n + 1 \in 0 .. m
      /\ \A i \in 1 .. m : s[i] \in Seq(X) /\ Len(s[i]) \in Nat
  OBVIOUS
<1>2. /\ o \in [0 .. m -> Nat] /\ o[n + 1] = o[n] + Len(b) /\ Len(F) = o[n]
      /\ \A i \in 1 .. m : o[i] = o[i - 1] + Len(s[i])
  BY <1>1 DEF Offsets, Lays
<1> HIDE DEF b, m
<1>3. /\ H \in Seq(X) /\ Len(F) \in Nat /\ Len(b) \in Nat /\ Len(H) = Len(F) + Len(b)
      /\ \A k \in 1 .. Len(F) : H[k] = F[k]
      /\ \A j \in 1 .. Len(b) : H[Len(F) + j] = b[j]
      /\ \A k \in 1 .. (Len(F) + Len(b)) : k \notin 1 .. Len(F) => \E j \in 1 .. Len(b) : k = Len(F) + j
  BY <1>1, Concat
<1> HIDE DEF H
<1>4. Len(H) = o[n + 1]
  BY <1>2, <1>3
<1>5. \A i \in 0 .. (n + 1) : o[i] <= o[n + 1]
  <2> SUFFICES ASSUME NEW i \in 0 .. (n + 1) PROVE o[i] <= o[n + 1]
    OBVIOUS
  <2>1. i \in 0 .. m /\ o[i] \in Nat /\ o[n] \in Nat /\ (i = n + 1 \/ i \in 0 .. n)
    BY <1>1, <1>2, SMTT(30)
  <2>2. i \in 0 .. n => o[i] <= o[n]
    BY DEF Lays
  <2> QED
    BY <1>2, <1>3, <2>1, <2>2, SMTT(30)
<1>6. ASSUME NEW i \in 1 .. (n + 1), NEW j \in 1 .. Len(s[i]) PROVE H[o[i - 1] + j] = s[i][j]
  <2>1. CASE i = n + 1
    BY <1>1, <1>2, <1>3, <2>1 DEF b
  <2>2. CASE i # n + 1
    <3>1. i \in 1 .. n /\ i \in 1 .. m /\ i - 1 \in 0 .. m /\ i \in 0 .. n
      BY <1>1, <2>2
    <3>2. F[o[i - 1] + j] = s[i][j] /\ o[i] <= o[n] /\ o[i] = o[i - 1] + Len(s[i])
      BY <1>2, <3>1 DEF Lays
    <3>3. o[i - 1] \in Nat /\ Len(s[i]) \in Nat /\ o[i] \in Nat /\ o[n] \in Nat
      BY <1>1, <1>2, <3>1, SMTT(30)
    <3>4. o[i - 1] + j \in 1 .. Len(F)
      <4>1. PICK a \in Nat, b2 \in Nat, c \in Nat : a = o[i - 1] /\ b2 = Len(s[i]) /\ c = o[n]
        BY <3>3
      <4>2. a + b2 <= c /\ j \in 1 .. b2
        BY <3>2, <4>1
      <4>3. a + j \in 1 .. c
        BY <4>2
      <4> QED
        BY <1>2, <4>1, <4>3
    <3> QED
      BY <1>3, <3>2, <3>4
  <2> QED
    BY <2>1, <2>2
<1>7. ASSUME NEW k \in 1 .. Len(H) PROVE \E i \in 1 .. (n + 1) : \E j \in 1 .. Len(s[i]) : k = o[i - 1] + j
  <2>1. CASE k \in 1 .. Len(F)
    <3>1. PICK i \in 1 .. n : \E j \in 1 .. Len(s[i]) : k = o[i - 1] + j
      BY <2>1 DEF Lays
    <3>2. i \in 1 .. (n + 1)
      BY <1>1
    <3> QED
      BY <3>1, <3>2
  <2>2. CASE k \notin 1 .. Len(F)
    <3>1. PICK j \in 1 .. Len(b) : k = Len(F) + j
      BY <1>3, <2>2
    <3>2. n + 1 \in 1 .. (n + 1) /\ k = o[(n + 1) - 1] + j
      BY <1>1, <1>2, <3>1
    <3> QED
      BY <3>1, <3>2 DEF b
  <2> QED
    BY <2>1, <2>2
<1> QED
  BY <1>4, <1>5, <1>6, <1>7 DEF Lays, H, b

\* FlattenSeq lays the sequences out.
LEMMA Flatten ==
  ASSUME NEW X, NEW s \in Seq(Seq(X))
  PROVE  FlattenSeq(s) \in Seq(X) /\ \E o : Offsets(s, o) /\ Lays(FlattenSeq(s), s, o, Len(s))
<1> DEFINE m == Len(s)
           G == [z \in (1 .. m) \X Seq(X) |-> z[2] \o s[z[1]]]
           IsFlat(g) == g = [i \in 1 .. m |-> IF i = 1 THEN s[i] ELSE g[i - 1] \o s[i]]
           flat == CHOOSE g : IsFlat(g)
<1>1. m \in Nat /\ \A i \in 1 .. m : s[i] \in Seq(X) /\ Len(s[i]) \in Nat
  OBVIOUS
<1>2. FlattenSeq(s) = IF m = 0 THEN s ELSE flat[m]
  BY DEF FlattenSeq
<1>0. m = 0 => s = <<>>
  OBVIOUS
<1> HIDE DEF m
<1>3. G \in [(1 .. m) \X Seq(X) -> Seq(X)] /\ <<>> \in Seq(X)
  BY <1>1
<1>4. \A i \in 1 .. m, x \in Seq(X) : G[<<i, x>>] = x \o s[i]
  OBVIOUS
<1> HIDE DEF G
<1>5. PICK f : Follows(f, m, Seq(X), <<>>, G)
  BY <1>1, <1>3, Recursion
<1>6. f \in [0 .. m -> Seq(X)] /\ f[0] = <<>> /\ \A i \in 1 .. m : f[i] = G[<<i, f[i - 1]>>]
  BY <1>5 DEF Follows
<1>7. \A i \in 1 .. m : f[i - 1] \in Seq(X) /\ f[i] = f[i - 1] \o s[i] /\ f[i] \in Seq(X)
  <2>1. \A i \in 1 .. m : i - 1 \in 0 .. m /\ i \in 0 .. m
    BY <1>1
  <2> QED
    BY <1>4, <1>6, <2>1
<1>70. m # 0 => f[1] = s[1]
  <2> SUFFICES ASSUME m # 0 PROVE f[1] = s[1]
    OBVIOUS
  <2>1. 1 \in 1 .. m /\ 1 - 1 = 0
    BY <1>1
  <2>2. f[1] = <<>> \o s[1] /\ s[1] \in Seq(X)
    BY <1>1, <1>6, <1>7, <2>1
  <2>3. <<>> \o s[1] = s[1]
    BY <2>2
  <2> QED
    BY <2>2, <2>3
<1>8. m # 0 => flat[m] = f[m]
  <2> SUFFICES ASSUME m # 0 PROVE flat[m] = f[m]
    OBVIOUS
  <2> DEFINE g == [i \in 1 .. m |-> f[i]]
  <2>1. ASSUME NEW i \in 1 .. m PROVE g[i] = IF i = 1 THEN s[i] ELSE g[i - 1] \o s[i]
    <3>1. CASE i = 1
      BY <1>70, <3>1
    <3>2. CASE i # 1
      <4>1. i - 1 \in 1 .. m
        BY <1>1, <3>2
      <4> QED
        BY <1>7, <3>2, <4>1
    <3> QED
      BY <3>1, <3>2
  <2>2. IsFlat(g)
    BY <2>1
  <2>3. IsFlat(flat)
    BY <2>2
  <2> HIDE DEF flat
  <2> DEFINE Q == {n \in 0 .. m : n = 0 \/ flat[n] = f[n]}
  <2>4. \A n \in 0 .. m : n \in Q
    <3>1. 0 \in Q
      BY <1>1
    <3>2. ASSUME NEW n \in 0 .. m, n \in Q, n + 1 <= m PROVE n + 1 \in Q
      <4>1. n + 1 \in 1 .. m /\ n + 1 \in 0 .. m /\ (n + 1) - 1 = n
        BY <1>1, <3>2
      <4>2. flat[n + 1] = IF n + 1 = 1 THEN s[n + 1] ELSE flat[n] \o s[n + 1]
        BY <2>3, <4>1
      <4>3. CASE n = 0
        <5>1. flat[1] = s[1]
          BY <4>2, <4>3
        <5> QED
          BY <1>70, <4>1, <4>3, <5>1
      <4>4. CASE n # 0
        <5>1. flat[n] = f[n] /\ n + 1 # 1
          BY <3>2, <4>4
        <5>2. f[n + 1] = f[n] \o s[n + 1]
          BY <1>7, <4>1
        <5> QED
          BY <4>1, <4>2, <5>1, <5>2
      <4> QED
        BY <4>3, <4>4
    <3> HIDE DEF Q
    <3> QED
      BY <1>1, <3>1, <3>2, Induct
  <2>5. m \in 0 .. m
    BY <1>1
  <2> QED
    BY <2>4, <2>5
<1>9. FlattenSeq(s) = f[m]
  BY <1>0, <1>2, <1>6, <1>8
<1> HIDE DEF flat
<1> DEFINE o == [i \in 0 .. m |-> Len(f[i])]
<1>10. Offsets(s, o)
  <2>1. o \in [0 .. m -> Nat] /\ o[0] = 0
    BY <1>1, <1>6
  <2>2. ASSUME NEW i \in 1 .. m PROVE o[i] = o[i - 1] + Len(s[i])
    <3>1. i - 1 \in 0 .. m /\ i \in 0 .. m
      BY <1>1
    <3>2. Len(f[i]) = Len(f[i - 1]) + Len(s[i])
      <4>1. f[i - 1] \in Seq(X) /\ s[i] \in Seq(X) /\ f[i] = f[i - 1] \o s[i]
        BY <1>1, <1>7
      <4>2. Len(f[i - 1] \o s[i]) = Len(f[i - 1]) + Len(s[i])
        BY <4>1
      <4> QED
        BY <4>1, <4>2
    <3> QED
      BY <3>1, <3>2
  <2> HIDE DEF o
  <2> QED
    BY <2>1, <2>2 DEF Offsets, m
<1> DEFINE R == {n \in 0 .. m : Lays(f[n], s, o, n)}
<1>11. \A n \in 0 .. m : n \in R
  <2>1. 0 \in R
    BY <1>1, <1>6 DEF Lays
  <2>2. ASSUME NEW n \in 0 .. m, n \in R, n + 1 <= m PROVE n + 1 \in R
    <3>1. n + 1 \in 1 .. m /\ n + 1 \in 0 .. m /\ (n + 1) - 1 = n /\ n \in Nat
      BY <1>1, <2>2
    <3>2. f[n + 1] = f[n] \o s[n + 1] /\ f[n] \in Seq(X)
      BY <1>7, <3>1
    <3> HIDE DEF o
    <3>3. Lays(f[n] \o s[n + 1], s, o, n + 1)
      BY <1>10, <2>2, <3>1, <3>2, LaysNext DEF m
    <3> QED
      BY <3>1, <3>2, <3>3
  <2> HIDE DEF R
  <2> QED
    BY <1>1, <2>1, <2>2, Induct
<1>12. Lays(f[m], s, o, m) /\ f[m] \in Seq(X)
  BY <1>1, <1>6, <1>11
<1> HIDE DEF o
<1> QED
  BY <1>9, <1>10, <1>12 DEF m

\* What the sequences are, one behind the other.
LEMMA FlattenIs ==
  ASSUME NEW X, NEW s \in Seq(Seq(X)), NEW t \in Seq(X), NEW o, Offsets(s, o), Len(t) = o[Len(s)],
         \A i \in 1 .. Len(s) : \A j \in 1 .. Len(s[i]) : t[o[i - 1] + j] = s[i][j]
  PROVE  FlattenSeq(s) = t
<1> DEFINE m == Len(s)
           F == FlattenSeq(s)
<1>1. PICK u : Offsets(s, u) /\ Lays(F, s, u, m) /\ F \in Seq(X)
  BY Flatten
<1>2. m \in Nat /\ \A i \in 1 .. m : Len(s[i]) \in Nat
  OBVIOUS
<1> HIDE DEF F
<1> DEFINE Q == {n \in 0 .. m : u[n] = o[n]}
<1>3. \A n \in 0 .. m : n \in Q
  <2>1. 0 \in Q
    BY <1>1, <1>2 DEF Offsets
  <2>2. ASSUME NEW n \in 0 .. m, n \in Q, n + 1 <= m PROVE n + 1 \in Q
    <3>1. n + 1 \in 1 .. m /\ n + 1 \in 0 .. m /\ (n + 1) - 1 = n
      BY <1>2, <2>2
    <3> QED
      BY <1>1, <2>2, <3>1 DEF Offsets
  <2> HIDE DEF Q, m
  <2> QED
    BY <1>2, <2>1, <2>2, Induct
<1>4. u = o
  BY <1>1, <1>3 DEF Offsets
<1>5. Len(F) = Len(t) /\ Len(t) \in Nat
  BY <1>1, <1>4 DEF Lays
<1>6. ASSUME NEW k \in 1 .. Len(F) PROVE F[k] = t[k]
  <2>1. PICK i \in 1 .. m : \E j \in 1 .. Len(s[i]) : k = u[i - 1] + j
    BY <1>1 DEF Lays
  <2>2. PICK j \in 1 .. Len(s[i]) : k = u[i - 1] + j
    BY <2>1
  <2> QED
    BY <1>1, <1>4, <2>2 DEF Lays
<1> QED
  BY <1>1, <1>5, <1>6 DEF F

-----------------------------------------------------------------------------
(* Places in an ordered set. *)

\* R orders S strictly and totally; the elements before r.
Ordered(R, S) ==
  /\ \A x \in S : <<x, x>> \notin R
  /\ \A x, y \in S : x # y => <<x, y>> \in R \/ <<y, x>> \in R
  /\ \A x, y, z \in S : <<x, y>> \in R /\ <<y, z>> \in R => <<x, z>> \in R
Before(R, S, r) == {x \in S : <<x, r>> \in R}

\* A finite set that is not empty has a last element.
LEMMA LastOf ==
  ASSUME NEW S, IsFiniteSet(S), S # {}, NEW R, Ordered(R, S)
  PROVE  \E m \in S : \A x \in S \ {m} : <<x, m>> \in R
<1> DEFINE Greatest(T, m) == m \in T /\ \A x \in T \ {m} : <<x, m>> \in R
           Q == {n \in Nat : \A T \in SUBSET S : Cardinality(T) = n /\ T # {} => \E m : Greatest(T, m)}
           k == Cardinality(S)
<1>1. k \in Nat
  BY FS_CardinalityType
<1>2. 0 \in Q
  <2>1. \A T \in SUBSET S : Cardinality(T) = 0 => T = {}
    BY FS_Subset, FS_EmptySet
  <2> QED
    BY <2>1
<1>3. ASSUME NEW n \in 0 .. k, n \in Q, n + 1 <= k PROVE n + 1 \in Q
  <2> SUFFICES ASSUME NEW T \in SUBSET S, Cardinality(T) = n + 1, T # {} PROVE \E m : Greatest(T, m)
    BY <1>1
  <2>1. PICK x \in T : TRUE
    OBVIOUS
  <2> DEFINE U == T \ {x}
  <2>2. IsFiniteSet(T) /\ Cardinality(U) = n
    <3>1. IsFiniteSet(T)
      BY FS_Subset
    <3>2. Cardinality(U) = Cardinality(T) - 1
      BY <3>1, FS_RemoveElement
    <3> QED
      BY <1>1, <3>1, <3>2
  <2>3. CASE U = {}
    BY <2>1, <2>3
  <2>4. CASE U # {}
    <3>1. U \in SUBSET S
      OBVIOUS
    <3> HIDE DEF U
    <3>2. PICK m : Greatest(U, m)
      BY <1>3, <2>2, <2>4, <3>1
    <3>3. m \in T /\ m # x /\ m \in S /\ x \in S
      BY <2>1, <3>2 DEF U
    <3>4. CASE <<x, m>> \in R
      <4>1. Greatest(T, m)
        BY <3>2, <3>3, <3>4 DEF U
      <4> QED
        BY <4>1
    <3>5. CASE <<m, x>> \in R
      <4>1. \A y \in T \ {x} : <<y, x>> \in R
        BY <3>2, <3>3, <3>5 DEF Ordered, U
      <4>2. Greatest(T, x)
        BY <2>1, <4>1
      <4> QED
        BY <4>2
    <3> QED
      BY <3>3, <3>4, <3>5 DEF Ordered
  <2> QED
    BY <2>3, <2>4
<1> HIDE DEF Q
<1>4. k \in Q
  <2>1. \A n \in 0 .. k : n \in Q
    <3> HIDE DEF k
    <3> QED
      BY <1>1, <1>2, <1>3, Induct
  <2> QED
    BY <1>1, <2>1
<1>5. \E m : Greatest(S, m)
  BY <1>4 DEF Q
<1> QED
  BY <1>5

\* Each place is taken.
LEMMA PlaceTaken ==
  ASSUME NEW S, IsFiniteSet(S), NEW R, Ordered(R, S)
  PROVE  \A i \in 1 .. Cardinality(S) : \E r \in S : Cardinality(Before(R, S, r)) = i - 1
<1> DEFINE Taken(T, i) == \E r \in T : Cardinality(Before(R, T, r)) = i - 1
           Q == {n \in Nat : \A T \in SUBSET S : Cardinality(T) = n => \A i \in 1 .. n : Taken(T, i)}
           k == Cardinality(S)
<1>1. k \in Nat
  BY FS_CardinalityType
<1>2. 0 \in Q
  OBVIOUS
<1>3. ASSUME NEW n \in 0 .. k, n \in Q, n + 1 <= k PROVE n + 1 \in Q
  <2> SUFFICES ASSUME NEW T \in SUBSET S, Cardinality(T) = n + 1, NEW i \in 1 .. (n + 1) PROVE Taken(T, i)
    BY <1>1
  <2>1. IsFiniteSet(T) /\ T # {} /\ Ordered(R, T)
    <3>1. IsFiniteSet(T)
      BY FS_Subset
    <3>2. T # {}
      BY <1>1, FS_EmptySet
    <3>3. Ordered(R, T)
      BY DEF Ordered
    <3> QED
      BY <3>1, <3>2, <3>3
  <2>2. PICK m \in T : \A x \in T \ {m} : <<x, m>> \in R
    BY <2>1, LastOf
  <2> DEFINE U == T \ {m}
  <2>3. Cardinality(U) = n /\ U \in SUBSET S
    <3>1. Cardinality(U) = Cardinality(T) - 1
      BY <2>1, FS_RemoveElement
    <3> QED
      BY <1>1, <3>1
  <2>4. CASE i = n + 1
    <3>1. Before(R, T, m) = U
      BY <2>1, <2>2 DEF Before, Ordered
    <3>2. Cardinality(Before(R, T, m)) = i - 1
      BY <2>3, <2>4, <3>1
    <3> QED
      BY <2>2, <3>2
  <2>5. CASE i # n + 1
    <3>1. i \in 1 .. n
      BY <1>1, <2>5
    <3>2. PICK r \in U : Cardinality(Before(R, U, r)) = i - 1
      BY <1>3, <2>3, <3>1
    <3>3. Before(R, T, r) = Before(R, U, r)
      BY <2>1, <2>2, <3>2 DEF Before, Ordered
    <3> QED
      BY <3>2, <3>3
  <2> QED
    BY <2>4, <2>5
<1> HIDE DEF Q
<1>4. k \in Q
  <2>1. \A n \in 0 .. k : n \in Q
    <3> HIDE DEF k
    <3> QED
      BY <1>1, <1>2, <1>3, Induct
  <2> QED
    BY <1>1, <2>1
<1> QED
  BY <1>4 DEF Q

\* Places are in the order of the elements.
LEMMA PlacesOrdered ==
  ASSUME NEW S, IsFiniteSet(S), NEW R, Ordered(R, S)
  PROVE  /\ \A r \in S : Cardinality(Before(R, S, r)) \in Nat /\ Cardinality(Before(R, S, r)) < Cardinality(S)
         /\ \A r, q \in S : <<r, q>> \in R => Cardinality(Before(R, S, r)) < Cardinality(Before(R, S, q))
<1>1. ASSUME NEW A, NEW B \in SUBSET S, A \subseteq B, NEW x \in B \ A
      PROVE  Cardinality(A) \in Nat /\ Cardinality(B) \in Nat /\ Cardinality(A) < Cardinality(B)
  <2>1. IsFiniteSet(B) /\ IsFiniteSet(B \ {x}) /\ Cardinality(B \ {x}) = Cardinality(B) - 1 /\ Cardinality(B) \in Nat
    BY <1>1, FS_Subset, FS_RemoveElement, FS_CardinalityType
  <2>2. A \subseteq B \ {x}
    BY <1>1
  <2>3. IsFiniteSet(A) /\ Cardinality(A) <= Cardinality(B \ {x})
    BY <2>1, <2>2, FS_Subset
  <2>4. Cardinality(A) \in Nat
    BY <2>3, FS_CardinalityType
  <2> QED
    BY <2>1, <2>3, <2>4
<1>2. ASSUME NEW r \in S
      PROVE Cardinality(Before(R, S, r)) \in Nat /\ Cardinality(Before(R, S, r)) < Cardinality(S)
  <2>1. Before(R, S, r) \subseteq S /\ r \in S \ Before(R, S, r)
    BY DEF Before, Ordered
  <2> QED
    BY <1>1, <2>1
<1>3. ASSUME NEW r \in S, NEW q \in S, <<r, q>> \in R
      PROVE Cardinality(Before(R, S, r)) < Cardinality(Before(R, S, q))
  <2>1. Before(R, S, r) \subseteq Before(R, S, q) /\ r \in Before(R, S, q) \ Before(R, S, r) /\ Before(R, S, q) \in SUBSET S
    BY <1>3 DEF Before, Ordered
  <2> QED
    BY <1>1, <2>1
<1> QED
  BY <1>2, <1>3

\* The elements of a set of numbers in their order.
LEMMA NthIs ==
  ASSUME NEW S \in SUBSET Nat, IsFiniteSet(S)
  PROVE  /\ Cardinality(S) \in Nat
         /\ \A n \in 1 .. Cardinality(S) : Nth(S, n) \in S
         /\ \A n, k \in 1 .. Cardinality(S) : n < k => Nth(S, n) < Nth(S, k)
         /\ \A x \in S : \E n \in 1 .. Cardinality(S) : x = Nth(S, n)
<1> DEFINE R == {z \in Nat \X Nat : z[1] < z[2]}
           c == Cardinality(S)
           At(x) == Cardinality({y \in S : y < x})
<1>1. \A x, y \in Nat : <<x, y>> \in R <=> x < y
  OBVIOUS
<1> HIDE DEF R
<1>2. Ordered(R, S)
  BY <1>1 DEF Ordered
<1>3. \A x \in S : {y \in S : y < x} = Before(R, S, x)
  BY <1>1 DEF Before
<1>4. c \in Nat
  BY FS_CardinalityType
<1>31. \A x \in S : At(x) = Cardinality(Before(R, S, x))
  BY <1>3
<1>32. \A i \in 1 .. c : \E r \in S : Cardinality(Before(R, S, r)) = i - 1
  BY <1>2, PlaceTaken
<1>33. /\ \A r \in S : Cardinality(Before(R, S, r)) \in Nat /\ Cardinality(Before(R, S, r)) < c
       /\ \A r, q \in S : <<r, q>> \in R => Cardinality(Before(R, S, r)) < Cardinality(Before(R, S, q))
  BY <1>2, PlacesOrdered
<1> HIDE DEF At, c
<1>5. \A i \in 1 .. c : \E r \in S : At(r) = i - 1
  BY <1>31, <1>32
<1>6. /\ \A r \in S : At(r) \in Nat /\ At(r) < c
      /\ \A r, q \in S : r < q => At(r) < At(q)
  BY <1>1, <1>31, <1>33
<1>7. \A n \in 1 .. c : Nth(S, n) \in S /\ At(Nth(S, n)) = n - 1
  BY <1>5 DEF Nth, At
<1>8. ASSUME NEW n \in 1 .. c, NEW k \in 1 .. c, n < k PROVE Nth(S, n) < Nth(S, k)
  <2>1. PICK x \in S, y \in S : x = Nth(S, n) /\ y = Nth(S, k) /\ At(x) = n - 1 /\ At(y) = k - 1
    BY <1>7
  <2>2. ~(y < x) /\ x # y
    BY <1>4, <1>6, <1>8, <2>1
  <2> QED
    BY <2>1, <2>2
<1>9. ASSUME NEW x \in S PROVE \E n \in 1 .. c : x = Nth(S, n)
  <2> DEFINE n == At(x) + 1
  <2>1. n \in 1 .. c /\ At(x) = n - 1
    BY <1>4, <1>6
  <2> HIDE DEF n
  <2>2. Nth(S, n) \in S /\ At(Nth(S, n)) = At(x)
    BY <1>7, <2>1
  <2>3. PICK y \in S : y = Nth(S, n) /\ At(y) = At(x)
    BY <2>2
  <2>4. ~(x < y) /\ ~(y < x)
    BY <1>6, <2>3
  <2> QED
    BY <2>1, <2>3, <2>4
<1> QED
  BY <1>4, <1>7, <1>8, <1>9 DEF c

RecordType == [key : Nat, row : Nat]

\* The entries in their order.
LEMMA SortedIs ==
  ASSUME NEW S \in SUBSET RecordType, IsFiniteSet(S)
  PROVE  /\ Sorted(S) \in Seq(RecordType) /\ Len(Sorted(S)) = Cardinality(S)
         /\ \A i, j \in 1 .. Len(Sorted(S)) : i < j => Less(Sorted(S)[i], Sorted(S)[j])
         /\ \A i \in 1 .. Len(Sorted(S)) : Sorted(S)[i] \in S
<1> DEFINE R == {z \in RecordType \X RecordType : Less(z[1], z[2])}
           c == Cardinality(S)
           At(x) == Cardinality({y \in S : Less(y, x)})
           s == Sorted(S)
<1>1. \A x, y \in RecordType : <<x, y>> \in R <=> Less(x, y)
  OBVIOUS
<1> HIDE DEF R
<1>2. Ordered(R, S)
  <2>1. \A x \in RecordType : ~Less(x, x)
    BY DEF Less, RecordType
  <2>2. \A x, y \in RecordType : x # y => Less(x, y) \/ Less(y, x)
    <3> SUFFICES ASSUME NEW x \in RecordType, NEW y \in RecordType, x # y PROVE Less(x, y) \/ Less(y, x)
      OBVIOUS
    <3>1. x.key \in Nat /\ x.row \in Nat /\ y.key \in Nat /\ y.row \in Nat /\ (x.key # y.key \/ x.row # y.row)
      BY DEF RecordType
    <3> QED
      BY <3>1 DEF Less
  <2>3. \A x, y, z \in RecordType : Less(x, y) /\ Less(y, z) => Less(x, z)
    BY DEF Less, RecordType
  <2>4. \A x \in S : x \in RecordType
    OBVIOUS
  <2> HIDE DEF RecordType
  <2>5. \A x \in S : <<x, x>> \notin R
    BY <1>1, <2>1, <2>4
  <2>6. \A x, y \in S : x # y => <<x, y>> \in R \/ <<y, x>> \in R
    BY <1>1, <2>2, <2>4
  <2>7. \A x, y, z \in S : <<x, y>> \in R /\ <<y, z>> \in R => <<x, z>> \in R
    BY <1>1, <2>3, <2>4
  <2> QED
    BY <2>5, <2>6, <2>7 DEF Ordered
<1>3. \A x \in S : {y \in S : Less(y, x)} = Before(R, S, x)
  BY <1>1 DEF Before
<1>4. c \in Nat
  BY FS_CardinalityType
<1>31. \A x \in S : At(x) = Cardinality(Before(R, S, x))
  BY <1>3
<1>32. \A i \in 1 .. c : \E r \in S : Cardinality(Before(R, S, r)) = i - 1
  BY <1>2, PlaceTaken
<1>33. /\ \A r \in S : Cardinality(Before(R, S, r)) \in Nat
       /\ \A r, q \in S : <<r, q>> \in R => Cardinality(Before(R, S, r)) < Cardinality(Before(R, S, q))
  BY <1>2, PlacesOrdered
<1> HIDE DEF At, c
<1>5. \A i \in 1 .. c : \E r \in S : At(r) = i - 1
  BY <1>31, <1>32
<1>6. \A r, q \in S : Less(r, q) => At(r) < At(q)
  <2> SUFFICES ASSUME NEW r \in S, NEW q \in S, Less(r, q) PROVE At(r) < At(q)
    OBVIOUS
  <2>1. <<r, q>> \in R
    BY <1>1
  <2> QED
    BY <1>31, <1>33, <2>1
<1>61. \A r \in S : At(r) \in Nat
  BY <1>31, <1>33
<1>7. s = [i \in 1 .. c |-> CHOOSE r \in S : At(r) = i - 1]
  BY DEF Sorted, At, c
<1> HIDE DEF s
<1>8. \A i \in 1 .. c : s[i] \in S /\ At(s[i]) = i - 1
  BY <1>5, <1>7
<1>9. s \in Seq(RecordType) /\ Len(s) = c
  BY <1>4, <1>7, <1>8
<1>10. ASSUME NEW i \in 1 .. c, NEW j \in 1 .. c, i < j PROVE Less(s[i], s[j])
  <2>1. PICK x \in S, y \in S : x = s[i] /\ y = s[j] /\ At(x) = i - 1 /\ At(y) = j - 1
    BY <1>8
  <2>2. At(x) < At(y) /\ At(x) \in Nat /\ At(y) \in Nat
    BY <1>4, <1>10, <1>61, <2>1
  <2>3. ~Less(y, x) /\ x # y
    BY <1>6, <2>2
  <2>4. <<y, x>> \notin R /\ <<x, y>> \in R
    <3>1. x \in RecordType /\ y \in RecordType
      BY <2>1
    <3>2. <<y, x>> \notin R
      BY <1>1, <2>3, <3>1
    <3> QED
      BY <1>2, <2>3, <3>2 DEF Ordered
  <2> QED
    BY <1>1, <2>1, <2>4
<1> QED
  BY <1>8, <1>9, <1>10 DEF c, s

-----------------------------------------------------------------------------
(* Entries and their widths. *)

Rec == [key : Keys, row : Rows]
Ascending(E) == E \in Seq(Rec) /\ \A i, j \in 1 .. Len(E) : i < j => Less(E[i], E[j])

\* The sums of a stretch of a sequence are differences of the sums of the whole.
LEMMA SumsSlice ==
  ASSUME NEW s \in Seq(Nat), NEW t \in Seq(Nat), NEW a \in Nat, a + Len(t) <= Len(s),
         \A i \in 1 .. Len(t) : t[i] = s[a + i]
  PROVE  \A i \in 0 .. Len(t) : Sums(s)[a + i] = Sums(s)[a] + Sums(t)[i]
<1> DEFINE m == Len(t)
           S == Sums(s)
           T == Sums(t)
           Q == {n \in 0 .. m : S[a + n] = S[a] + T[n]}
<1>1. m \in Nat /\ Len(s) \in Nat /\ a \in 0 .. Len(s) /\ a + m <= Len(s)
  OBVIOUS
<1>11. \A i \in 1 .. m : t[i] = s[a + i] /\ t[i] \in Nat
  OBVIOUS
<1>2. /\ S \in [0 .. Len(s) -> Nat] /\ \A i \in 1 .. Len(s) : S[i] = S[i - 1] + s[i]
      /\ T \in [0 .. m -> Nat] /\ T[0] = 0 /\ \A i \in 1 .. m : T[i] = T[i - 1] + t[i]
  BY SumsAre
<1> HIDE DEF S, T, m
<1>3. 0 \in Q
  <2>1. S[a] \in Nat
    BY <1>1, <1>2
  <2>2. a + 0 = a /\ 0 \in 0 .. m
    BY <1>1
  <2> QED
    BY <1>2, <2>1, <2>2
<1>4. ASSUME NEW n \in 0 .. m, n \in Q, n + 1 <= m PROVE n + 1 \in Q
  <2>1. /\ n + 1 \in 1 .. m /\ n + 1 \in 0 .. m /\ (n + 1) - 1 = n /\ a + (n + 1) \in 1 .. Len(s)
        /\ (a + (n + 1)) - 1 = a + n
    <3>1. n \in Nat /\ n + 1 <= m
      BY <1>1, <1>4
    <3> QED
      BY <1>1, <3>1
  <2>2. T[n + 1] = T[n] + t[n + 1] /\ S[a + (n + 1)] = S[a + n] + s[a + (n + 1)] /\ t[n + 1] = s[a + (n + 1)]
    BY <1>2, <1>11, <2>1
  <2>3. S[a] \in Nat /\ T[n] \in Nat /\ t[n + 1] \in Nat
    BY <1>1, <1>2, <1>11, <2>1
  <2>4. S[a + n] = S[a] + T[n]
    BY <1>4
  <2>5. S[a + (n + 1)] = S[a] + T[n + 1]
    BY <2>2, <2>3, <2>4, SMTT(30)
  <2> QED
    BY <2>1, <2>5
<1> HIDE DEF Q
<1>5. \A n \in 0 .. m : n \in Q
  BY <1>1, <1>3, <1>4, Induct
<1> QED
  BY <1>5 DEF Q, m, S, T

\* The rows give at most one entry each, in order.
LEMMA EntriesAscend ==
  ASSUME NEW rs \in RowsType
  PROVE  Ascending(Entries(rs)) /\ Len(Entries(rs)) <= Cardinality(Rows)
<1> DEFINE I == {x \in Rows : Indexed(rs[x])}
           f == [l \in I |-> Record(rs[l], l)]
           S == Records(rs)
<1>1. IsFiniteSet(I) /\ Cardinality(I) <= Cardinality(Rows) /\ Cardinality(Rows) \in Nat
  BY IndexAssumption, FS_Subset, FS_CardinalityType
<1>2. \A l \in I : Record(rs[l], l) \in Rec
  BY DEF RowsType, Indexed, Record, Rec
<1>3. S = {f[x] : x \in I} /\ S \subseteq Rec
  BY <1>2 DEF Records
<1>4. f \in [I -> Rec]
  BY <1>2
<1> HIDE DEF S, f, I
<1>5. IsFiniteSet(S) /\ Cardinality(S) <= Cardinality(I)
  <2>1. f \in Surjection(I, S)
    BY <1>3, <1>4 DEF Surjection
  <2> QED
    BY <1>1, <2>1, FS_Surjection
<1>6. Rec \subseteq RecordType
  <2>1. Rows \subseteq Nat /\ Keys \subseteq Nat
    BY <1>1, IndexAssumption
  <2> QED
    BY <2>1 DEF Rec, RecordType
<1> DEFINE E == Sorted(S)
<1>7. /\ E \in Seq(RecordType) /\ Len(E) = Cardinality(S)
      /\ \A i, j \in 1 .. Len(E) : i < j => Less(E[i], E[j])
      /\ \A i \in 1 .. Len(E) : E[i] \in S
  BY <1>3, <1>5, <1>6, SortedIs
<1> HIDE DEF E
<1>8. E \in Seq(Rec)
  BY <1>3, <1>7
<1>9. Cardinality(S) \in Nat /\ Cardinality(I) \in Nat
  BY <1>1, <1>5, FS_CardinalityType
<1> QED
  BY <1>1, <1>5, <1>7, <1>8, <1>9 DEF Ascending, Entries, E, S

-----------------------------------------------------------------------------
(* Trees. *)

\* A node covers the entries lo .. hi; kids are its first and last child, NoKids for a leaf.
NodeType == [lo : Nat, hi : Nat, kids : Nat \X Nat]

\* The bytes of a leaf over entries lo .. hi, and of a branch over the nodes a .. b.
LeafWidths(E, lo, hi) == [i \in 1 .. (hi - lo + 1) |-> Width[E[lo + i - 1].key]]
BranchWidths(E, nds, a, b) == [i \in 1 .. (b - a) |-> Width[E[nds[a + i - 1].hi].key] + ChildBytes]

\* The nodes a .. b cover consecutive stretches of the entries.
InLine(nds, a, b) == \A j \in a .. (b - 1) : nds[j + 1].lo = nds[j].hi + 1
\* The leaf's entries fit in a page.
IsLeafNode(E, nd) ==
  /\ nd.kids = NoKids /\ 1 <= nd.lo /\ nd.lo <= nd.hi + 1 /\ nd.hi <= Len(E)
  /\ Sums(LeafWidths(E, nd.lo, nd.hi))[nd.hi - nd.lo + 1] <= AreaBytes
\* The nodes 1 .. n are leaves and hold the entries, in order.
Leaves(E, nds, n) ==
  /\ 1 <= n /\ n <= Len(nds) /\ nds[1].lo = 1 /\ nds[n].hi = Len(E) /\ InLine(nds, 1, n)
  /\ \A j \in 1 .. n : IsLeafNode(E, nds[j])

\* The node covers what its children do, and their separators fit in a page.
IsParent(E, nds, j) ==
  /\ 1 <= nds[j].kids[1] /\ nds[j].kids[1] <= nds[j].kids[2] /\ nds[j].kids[2] < j
  /\ nds[j].lo = nds[nds[j].kids[1]].lo /\ nds[j].hi = nds[nds[j].kids[2]].hi
  /\ Sums(BranchWidths(E, nds, nds[j].kids[1], nds[j].kids[2]))[nds[j].kids[2] - nds[j].kids[1]] <= AreaBytes
\* The nodes a .. b have the nodes x .. y as their children, in order.
Adopted(E, nds, a, b, x, y) ==
  /\ a > b => y + 1 = x
  /\ a <= b => nds[a].kids[1] = x /\ nds[b].kids[2] = y
  /\ \A j \in a .. b : IsParent(E, nds, j) /\ x <= nds[j].kids[1] /\ nds[j].kids[2] <= y
  /\ \A j \in a .. (b - 1) : nds[j + 1].kids[1] = nds[j].kids[2] + 1
  /\ InLine(nds, a, b)

\* Levels one behind the other, each the parents of the one before.
Forest(E, nds, lev) ==
  /\ nds \in Seq(NodeType) /\ lev \in Seq(Nat \X Nat) /\ Len(lev) >= 1
  /\ lev[1][1] = 1 /\ Leaves(E, nds, lev[1][2])
  /\ \A d \in 1 .. Len(lev) : lev[d][1] <= lev[d][2] /\ lev[d][2] <= Len(nds)
  /\ \A d \in 2 .. Len(lev) : /\ lev[d][1] = lev[d - 1][2] + 1
                              /\ Adopted(E, nds, lev[d][1], lev[d][2], lev[d - 1][1], lev[d - 1][2])
\* No node is empty but the only one of an empty tree.
Full(E, nds) == IF Len(E) = 0 THEN Len(nds) = 1 ELSE \A j \in 1 .. Len(nds) : nds[j].lo <= nds[j].hi
\* Of the first m nodes, the branches have two children.
Paired(nds, m) == \A j \in 1 .. m : nds[j].kids # NoKids => nds[j].kids[1] < nds[j].kids[2]

\* A tree: the last level is the root.
Whole(E, nds, lev) ==
  /\ Ascending(E) /\ Forest(E, nds, lev) /\ Full(E, nds) /\ Len(lev) <= MaxDepth
  /\ Paired(nds, Len(nds) - 1) /\ lev[Len(lev)][1] = Len(nds) /\ lev[Len(lev)][2] = Len(nds)

\* The tree being grouped.
Growing(E, nds, lev, fst, st) ==
  /\ Ascending(E) /\ Forest(E, nds, lev) /\ Full(E, nds) /\ Paired(nds, Len(nds))
  /\ \A i \in 1 .. Len(E) : RecordFits(Width[E[i].key])
  /\ st = lev[Len(lev)][2] + 1 /\ fst \in lev[Len(lev)][1] .. lev[Len(lev)][2]
  /\ fst = lev[Len(lev)][1] \/ fst < lev[Len(lev)][2]
  /\ Adopted(E, nds, st, Len(nds), lev[Len(lev)][1], fst - 1)

\* The items of a leaf and of a branch, the links between the pages of a level, and the tree
\* on its pages: node n on page pg[n], the root on Root, every other page Stale.
LeafItems(E, nd) == [i \in 1 .. (nd.hi - nd.lo + 1) |-> [record |-> E[nd.lo + i - 1], child |-> NIL]]
BranchItems(E, nds, pg, n) ==
  [i \in 1 .. (nds[n].kids[2] - nds[n].kids[1]) |->
     [record |-> E[nds[nds[n].kids[1] + i - 1].hi], child |-> pg[nds[n].kids[1] + i - 1]]]
Pictured(pgs, E, nds, lev, pg, n) ==
  IF n <= lev[1][2]
  THEN pgs[pg[n]].kind = "leaf" /\ pgs[pg[n]].items = LeafItems(E, nds[n])
  ELSE /\ pgs[pg[n]].kind = "branch" /\ pgs[pg[n]].items = BranchItems(E, nds, pg, n)
       /\ pgs[pg[n]].tail = pg[nds[n].kids[2]]
Linked(pgs, lev, pg, d, n) ==
  /\ pgs[pg[n]].prev = IF n = lev[d][1] THEN NIL ELSE pg[n - 1]
  /\ pgs[pg[n]].next = IF n = lev[d][2] THEN NIL ELSE pg[n + 1]
Placed(pg, N, mp) ==
  /\ pg \in [1 .. N -> PageIds] /\ pg[N] = Root /\ \A n \in 1 .. N : pg[n] \in mp
  /\ \A m, n \in 1 .. N : pg[m] = pg[n] => m = n
OnPages(pgs, E, nds, lev, pg) ==
  /\ \A n \in 1 .. Len(nds) : Pictured(pgs, E, nds, lev, pg, n)
  /\ \A d \in 1 .. Len(lev) : \A n \in lev[d][1] .. lev[d][2] : Linked(pgs, lev, pg, d, n)
  /\ \A p \in PageIds : (\A n \in 1 .. Len(nds) : pg[n] # p) => pgs[p] = Stale
Holds(pgs, mp, E, nds, lev, pg) ==
  Whole(E, nds, lev) /\ Placed(pg, Len(nds), mp) /\ OnPages(pgs, E, nds, lev, pg)

\* The pages hold the entries of the rows; while a tree is built, it is that of the planned rows.
EveryEncodable(rs) == \A l \in Rows : rs[l] # NIL => Encodable(rs[l])
TreeInv ==
  /\ mapped \in SUBSET PageIds /\ Root \in mapped /\ EveryEncodable(rows)
  /\ \E nds, lev, pg : Holds(pages, mapped, Entries(rows), nds, lev, pg)
  /\ pc # "idle" => pending.entries = Entries(pending.rows) /\ EveryEncodable(pending.rows)
  /\ pc = "group" => Growing(Planned, nodes, level, first, start)

-----------------------------------------------------------------------------
(* Where a node is. *)

\* The numbers of a forest.
LEMMA ForestTypes ==
  ASSUME NEW E, NEW nds, NEW lev, Forest(E, nds, lev)
  PROVE  /\ Len(nds) \in Nat /\ Len(lev) \in Nat /\ Len(lev) >= 1
         /\ \A n \in 1 .. Len(nds) : /\ nds[n].lo \in Nat /\ nds[n].hi \in Nat
                                     /\ nds[n].kids[1] \in Nat /\ nds[n].kids[2] \in Nat
         /\ \A d \in 1 .. Len(lev) : lev[d][1] \in Nat /\ lev[d][2] \in Nat
<1>1. nds \in Seq(NodeType) /\ lev \in Seq(Nat \X Nat) /\ Len(lev) >= 1
  BY DEF Forest
<1>2. Len(nds) \in Nat /\ Len(lev) \in Nat
  BY <1>1
<1>3. \A n \in 1 .. Len(nds) : nds[n] \in NodeType
  BY <1>1
<1>4. \A d \in 1 .. Len(lev) : lev[d] \in Nat \X Nat
  BY <1>1
<1>5. \A x \in NodeType : x.lo \in Nat /\ x.hi \in Nat /\ x.kids[1] \in Nat /\ x.kids[2] \in Nat
  BY DEF NodeType
<1>6. \A x \in Nat \X Nat : x[1] \in Nat /\ x[2] \in Nat
  OBVIOUS
<1> QED
  BY <1>1, <1>2, <1>3, <1>4, <1>5, <1>6

\* Levels do not overlap.
LEMMA LevelsApart ==
  ASSUME NEW E, NEW nds, NEW lev, Forest(E, nds, lev)
  PROVE  /\ \A d, e \in 1 .. Len(lev) : d < e => lev[d][2] < lev[e][1]
         /\ \A d \in 1 .. Len(lev) : 1 <= lev[d][1] /\ lev[d][1] <= lev[d][2] /\ lev[d][2] <= lev[Len(lev)][2]
<1> DEFINE D == Len(lev)
           Q == {n \in 0 .. D : n = 0 \/ (1 <= lev[n][1] /\ \A d \in 1 .. (n - 1) : lev[d][2] < lev[n][1])}
<1>1. D \in Nat /\ \A d \in 1 .. D : lev[d][1] \in Nat /\ lev[d][2] \in Nat
  BY ForestTypes
<1>2. /\ lev[1][1] = 1 /\ D >= 1
      /\ \A d \in 1 .. D : lev[d][1] <= lev[d][2]
      /\ \A d \in 2 .. D : lev[d][1] = lev[d - 1][2] + 1
  BY DEF Forest
<1> HIDE DEF D
<1>3. 0 \in Q
  BY <1>1
<1>4. ASSUME NEW n \in 0 .. D, n \in Q, n + 1 <= D PROVE n + 1 \in Q
  <2>1. n \in Nat /\ n + 1 \in 0 .. D /\ n + 1 \in 1 .. D /\ (n + 1) - 1 = n
    BY <1>1, <1>4
  <2>2. CASE n = 0
    BY <1>2, <2>1, <2>2
  <2>3. CASE n # 0
    <3>1. n \in 1 .. D /\ n + 1 \in 2 .. D
      BY <2>1, <2>3
    <3>2. lev[n + 1][1] = lev[n][2] + 1 /\ lev[n][1] <= lev[n][2] /\ lev[n][1] \in Nat /\ lev[n][2] \in Nat
      BY <1>1, <1>2, <2>1, <3>1
    <3>3. 1 <= lev[n][1] /\ \A d \in 1 .. (n - 1) : lev[d][2] < lev[n][1]
      BY <1>4, <2>3
    <3>4. ASSUME NEW d \in 1 .. n PROVE lev[d][2] < lev[n + 1][1]
      <4>1. d \in 1 .. D /\ (d = n \/ d \in 1 .. (n - 1))
        BY <1>1, <2>1, <3>1
      <4>2. lev[d][2] \in Nat
        BY <1>1, <4>1
      <4> QED
        BY <3>2, <3>3, <4>1, <4>2
    <3>5. 1 <= lev[n + 1][1]
      BY <3>2
    <3> QED
      BY <2>1, <3>4, <3>5
  <2> QED
    BY <2>2, <2>3
<1> HIDE DEF Q
<1>5. \A n \in 0 .. D : n \in Q
  BY <1>1, <1>3, <1>4, Induct
<1>6. ASSUME NEW d \in 1 .. D, NEW e \in 1 .. D, d < e PROVE lev[d][2] < lev[e][1]
  <2>1. e \in 0 .. D /\ e # 0 /\ d \in 1 .. (e - 1)
    BY <1>1, <1>6
  <2> QED
    BY <1>5, <2>1 DEF Q
<1>7. ASSUME NEW d \in 1 .. D PROVE 1 <= lev[d][1] /\ lev[d][1] <= lev[d][2] /\ lev[d][2] <= lev[D][2]
  <2>1. d \in 0 .. D /\ d # 0 /\ (d = D \/ d < D) /\ D \in 1 .. D
    BY <1>1, <1>2
  <2>2. 1 <= lev[d][1]
    BY <1>5, <2>1 DEF Q
  <2>3. d < D => lev[d][2] < lev[D][1]
    BY <1>6, <2>1
  <2> QED
    BY <1>1, <1>2, <2>1, <2>2, <2>3
<1> QED
  BY <1>6, <1>7 DEF D

\* Each node is at some level.
LEMMA SomeLevel ==
  ASSUME NEW E, NEW nds, NEW lev, Forest(E, nds, lev), NEW n \in 1 .. lev[Len(lev)][2]
  PROVE  \E d \in 1 .. Len(lev) : n \in lev[d][1] .. lev[d][2]
<1> DEFINE D == Len(lev)
           Found(m) == \A j \in 1 .. lev[m][2] : \E d \in 1 .. D : j \in lev[d][1] .. lev[d][2]
           Q == {m \in 0 .. D : m = 0 \/ Found(m)}
<1>1. D \in Nat /\ \A d \in 1 .. D : lev[d][1] \in Nat /\ lev[d][2] \in Nat
  BY ForestTypes
<1>2. /\ lev[1][1] = 1 /\ D >= 1
      /\ \A d \in 2 .. D : lev[d][1] = lev[d - 1][2] + 1
  BY DEF Forest
<1> HIDE DEF D
<1>3. 0 \in Q
  BY <1>1
<1>4. ASSUME NEW m \in 0 .. D, m \in Q, m + 1 <= D PROVE m + 1 \in Q
  <2>1. m \in Nat /\ m + 1 \in 0 .. D /\ m + 1 \in 1 .. D /\ (m + 1) - 1 = m
    BY <1>1, <1>4
  <2>2. ASSUME NEW j \in 1 .. lev[m + 1][2] PROVE \E d \in 1 .. D : j \in lev[d][1] .. lev[d][2]
    <3>1. CASE j \in lev[m + 1][1] .. lev[m + 1][2]
      BY <2>1, <3>1
    <3>2. CASE j \notin lev[m + 1][1] .. lev[m + 1][2]
      <4>1. lev[m + 1][1] \in Nat /\ lev[m + 1][2] \in Nat /\ j < lev[m + 1][1]
        <5>1. lev[m + 1][1] \in Nat /\ lev[m + 1][2] \in Nat
          BY <1>1, <2>1
        <5> QED
          BY <2>2, <3>2, <5>1
      <4>2. m # 0
        BY <1>2, <2>1, <2>2, <4>1
      <4>3. m \in 1 .. D /\ m + 1 \in 2 .. D
        BY <2>1, <4>2
      <4>4. lev[m + 1][1] = lev[m][2] + 1 /\ lev[m][2] \in Nat
        BY <1>1, <1>2, <2>1, <4>3
      <4>5. j \in 1 .. lev[m][2]
        BY <4>1, <4>4
      <4> QED
        BY <1>4, <4>2, <4>5
    <3> QED
      BY <3>1, <3>2
  <2> QED
    BY <2>1, <2>2
<1> HIDE DEF Q
<1>5. \A m \in 0 .. D : m \in Q
  BY <1>1, <1>3, <1>4, Induct
<1>6. Found(D)
  <2>1. D \in 0 .. D /\ D # 0
    BY <1>1, <1>2
  <2> QED
    BY <1>5, <2>1 DEF Q
<1> QED
  BY <1>6 DEF D

\* A node that is not a leaf is a parent.
LEMMA LeafOrParent ==
  ASSUME NEW E, NEW nds, NEW lev, Forest(E, nds, lev), NEW n \in 1 .. lev[Len(lev)][2]
  PROVE  n \in 1 .. Len(nds) /\ (n <= lev[1][2] => IsLeafNode(E, nds[n])) /\ (n > lev[1][2] => IsParent(E, nds, n))
<1> DEFINE D == Len(lev)
<1>1. D \in Nat /\ D >= 1 /\ 1 \in 1 .. D /\ D \in 1 .. D /\ Len(nds) \in Nat /\ \A d \in 1 .. D : lev[d][1] \in Nat /\ lev[d][2] \in Nat
  BY ForestTypes
<1>2. lev[D][2] <= Len(nds)
  BY <1>1 DEF Forest
<1>3. n \in 1 .. Len(nds)
  BY <1>1, <1>2
<1>4. ASSUME n <= lev[1][2] PROVE IsLeafNode(E, nds[n])
  <2>1. n \in 1 .. lev[1][2]
    BY <1>1, <1>4
  <2> QED
    BY <2>1 DEF Forest, Leaves
<1>5. ASSUME n > lev[1][2] PROVE IsParent(E, nds, n)
  <2>1. PICK d \in 1 .. D : n \in lev[d][1] .. lev[d][2]
    BY SomeLevel
  <2>2. d # 1
    BY <1>1, <1>5, <2>1
  <2>3. d \in 2 .. D
    BY <1>1, <2>2
  <2>4. Adopted(E, nds, lev[d][1], lev[d][2], lev[d - 1][1], lev[d - 1][2])
    BY <2>3 DEF Forest
  <2> QED
    BY <2>1, <2>4 DEF Adopted
<1> QED
  BY <1>3, <1>4, <1>5

\* What a node covers lies within the entries.
LEMMA Covered ==
  ASSUME NEW E, NEW nds, NEW lev, Forest(E, nds, lev)
  PROVE  \A n \in 1 .. lev[Len(lev)][2] : 1 <= nds[n].lo /\ nds[n].hi <= Len(E)
<1> DEFINE L == lev[Len(lev)][2]
           Within(n) == 1 <= nds[n].lo /\ nds[n].hi <= Len(E)
           Q == {m \in 0 .. L : \A n \in 1 .. m : Within(n)}
<1>1. L \in Nat
  BY ForestTypes
<1> HIDE DEF L
<1>2. 0 \in Q
  BY <1>1
<1>3. ASSUME NEW m \in 0 .. L, m \in Q, m + 1 <= L PROVE m + 1 \in Q
  <2>1. m \in Nat /\ m + 1 \in 1 .. L /\ m + 1 \in 0 .. L
    BY <1>1, <1>3
  <2>2. /\ m + 1 \in 1 .. Len(nds) /\ (m + 1 <= lev[1][2] => IsLeafNode(E, nds[m + 1]))
        /\ (m + 1 > lev[1][2] => IsParent(E, nds, m + 1))
    BY <2>1, LeafOrParent DEF L
  <2>3. lev[1][2] \in Nat
    BY ForestTypes
  <2>4. Within(m + 1)
    <3>1. CASE m + 1 <= lev[1][2]
      BY <2>2, <3>1 DEF IsLeafNode
    <3>2. CASE m + 1 > lev[1][2]
      <4>1. IsParent(E, nds, m + 1)
        BY <2>2, <3>2
      <4>2. nds[m + 1].kids[1] \in Nat /\ nds[m + 1].kids[2] \in Nat
        BY <2>2, ForestTypes
      <4>3. PICK a \in Nat, b \in Nat : a = nds[m + 1].kids[1] /\ b = nds[m + 1].kids[2]
        BY <4>2
      <4>4. 1 <= a /\ a <= b /\ b < m + 1 /\ nds[m + 1].lo = nds[a].lo /\ nds[m + 1].hi = nds[b].hi
        BY <4>1, <4>3 DEF IsParent
      <4>5. a \in 1 .. m /\ b \in 1 .. m
        BY <2>1, <4>4
      <4>6. Within(a) /\ Within(b)
        BY <1>3, <4>5
      <4> QED
        BY <4>4, <4>6
    <3> QED
      BY <2>1, <2>3, <3>1, <3>2
  <2>5. \A n \in 1 .. (m + 1) : n = m + 1 \/ n \in 1 .. m
    BY <2>1
  <2> HIDE DEF Within
  <2> QED
    BY <1>3, <2>1, <2>4, <2>5
<1> HIDE DEF Q
<1>4. \A m \in 0 .. L : m \in Q
  BY <1>1, <1>2, <1>3, Induct
<1>5. L \in Q
  BY <1>1, <1>4
<1> QED
  BY <1>5 DEF Q, L

\* Nodes in line cover later entries the later they come.
LEMMA LaterCovers ==
  ASSUME NEW nds, NEW a \in Nat, NEW b \in Nat, InLine(nds, a, b),
         \A j \in a .. b : nds[j].lo \in Nat /\ nds[j].hi \in Nat /\ nds[j].lo <= nds[j].hi
  PROVE  \A i, j \in a .. b : i < j => nds[i].hi < nds[j].lo
<1> SUFFICES ASSUME NEW i \in a .. b PROVE \A j \in a .. b : i < j => nds[i].hi < nds[j].lo
  OBVIOUS
<1> DEFINE m == b - i
           Q == {n \in 0 .. m : n = 0 \/ nds[i].hi < nds[i + n].lo}
<1>1. m \in Nat /\ i \in Nat
  OBVIOUS
<1>2. 0 \in Q
  BY <1>1
<1>3. ASSUME NEW n \in 0 .. m, n \in Q, n + 1 <= m PROVE n + 1 \in Q
  <2>1. /\ n + 1 \in 0 .. m /\ i + n \in a .. (b - 1) /\ i + n \in a .. b /\ i + (n + 1) \in a .. b
        /\ (i + n) + 1 = i + (n + 1)
    BY <1>1, <1>3
  <2>2. nds[(i + n) + 1].lo = nds[i + n].hi + 1
    BY <2>1 DEF InLine
  <2>3. PICK h \in Nat, l \in Nat, x \in Nat : h = nds[i].hi /\ l = nds[i + n].hi /\ x = nds[i + n].lo /\ x <= l
    BY <2>1
  <2>4. h <= l
    <3>1. CASE n = 0
      BY <1>1, <2>3, <3>1
    <3>2. CASE n # 0
      BY <1>3, <2>3, <3>2
    <3> QED
      BY <3>1, <3>2
  <2> QED
    BY <2>1, <2>2, <2>3, <2>4
<1> HIDE DEF Q
<1>4. \A n \in 0 .. m : n \in Q
  <2> HIDE DEF m
  <2> QED
    BY <1>1, <1>2, <1>3, Induct
<1>5. ASSUME NEW j \in a .. b, i < j PROVE nds[i].hi < nds[j].lo
  <2>1. j - i \in 0 .. m /\ j - i # 0 /\ i + (j - i) = j
    BY <1>1, <1>5
  <2> QED
    BY <1>4, <2>1 DEF Q
<1> QED
  BY <1>5

-----------------------------------------------------------------------------
(* Reading the tree back: the pages at each depth. *)

\* The pages of a level.
Row(lev, pg, h) == [i \in 1 .. (lev[h][2] - lev[h][1] + 1) |-> pg[lev[h][1] + i - 1]]

\* The facts a reader starts from.
LEMMA HeldTypes ==
  ASSUME NEW E, NEW nds, NEW lev, NEW pg, Holds(pages, mapped, E, nds, lev, pg)
  PROVE  /\ Ascending(E) /\ Forest(E, nds, lev) /\ Full(E, nds) /\ Paired(nds, Len(nds) - 1)
         /\ Len(nds) \in Nat /\ Len(lev) \in Nat /\ 1 <= Len(lev) /\ Len(lev) <= MaxDepth /\ MaxDepth \in Nat
         /\ lev[Len(lev)][1] = Len(nds) /\ lev[Len(lev)][2] = Len(nds) /\ lev[1][1] = 1 /\ 1 <= Len(nds)
         /\ pg \in [1 .. Len(nds) -> PageIds] /\ pg[Len(nds)] = Root /\ \A n \in 1 .. Len(nds) : pg[n] \in mapped
         /\ \A m, n \in 1 .. Len(nds) : pg[m] = pg[n] => m = n
         /\ \A d \in 1 .. Len(lev) : /\ lev[d][1] \in Nat /\ lev[d][2] \in Nat /\ 1 <= lev[d][1]
                                     /\ lev[d][1] <= lev[d][2] /\ lev[d][2] <= Len(nds)
         /\ \A n \in 1 .. Len(nds) : /\ nds[n].lo \in Nat /\ nds[n].hi \in Nat
                                     /\ nds[n].kids[1] \in Nat /\ nds[n].kids[2] \in Nat
<1>1. /\ Ascending(E) /\ Forest(E, nds, lev) /\ Full(E, nds) /\ Paired(nds, Len(nds) - 1)
      /\ Len(lev) <= MaxDepth /\ lev[Len(lev)][1] = Len(nds) /\ lev[Len(lev)][2] = Len(nds)
  BY DEF Holds, Whole
<1>2. /\ pg \in [1 .. Len(nds) -> PageIds] /\ pg[Len(nds)] = Root /\ \A n \in 1 .. Len(nds) : pg[n] \in mapped
      /\ \A m, n \in 1 .. Len(nds) : pg[m] = pg[n] => m = n
  BY DEF Holds, Placed
<1>3. /\ Len(nds) \in Nat /\ Len(lev) \in Nat /\ Len(lev) >= 1
      /\ \A n \in 1 .. Len(nds) : /\ nds[n].lo \in Nat /\ nds[n].hi \in Nat
                                  /\ nds[n].kids[1] \in Nat /\ nds[n].kids[2] \in Nat
      /\ \A d \in 1 .. Len(lev) : lev[d][1] \in Nat /\ lev[d][2] \in Nat
  BY <1>1, ForestTypes
<1>4. /\ lev[1][1] = 1
      /\ \A d \in 1 .. Len(lev) : 1 <= lev[d][1] /\ lev[d][1] <= lev[d][2] /\ lev[d][2] <= Len(nds)
  BY <1>1, LevelsApart DEF Forest
<1>5. MaxDepth \in Nat
  BY IndexAssumption
<1>6. 1 <= Len(nds)
  <2>1. Len(lev) \in 1 .. Len(lev)
    BY <1>3
  <2> QED
    BY <1>1, <1>4, <2>1
<1> QED
  BY <1>1, <1>2, <1>3, <1>4, <1>5, <1>6

\* The children of a node.
LEMMA ChildrenAre ==
  ASSUME NEW E, NEW nds, NEW lev, NEW pg, Holds(pages, mapped, E, nds, lev, pg), NEW n \in 1 .. Len(nds)
  PROVE  /\ n <= lev[1][2] => Children(pg[n]) = <<>> /\ ~IsBranch(pg[n])
         /\ n > lev[1][2] =>
              /\ IsBranch(pg[n]) /\ Children(pg[n]) \in Seq(PageIds)
              /\ Len(Children(pg[n])) = nds[n].kids[2] - nds[n].kids[1] + 1
              /\ \A i \in 1 .. (nds[n].kids[2] - nds[n].kids[1] + 1) : Children(pg[n])[i] = pg[nds[n].kids[1] + i - 1]
              /\ nds[n].kids[1] \in 1 .. Len(nds) /\ nds[n].kids[2] \in 1 .. Len(nds) /\ nds[n].kids[1] <= nds[n].kids[2]
<1>1. Pictured(pages, E, nds, lev, pg, n) /\ lev[1][2] \in Nat /\ Len(nds) \in Nat
  <2>1. 1 \in 1 .. Len(lev) /\ Len(nds) \in Nat
    BY HeldTypes
  <2>2. lev[1][2] \in Nat
    BY <2>1, HeldTypes
  <2>3. Pictured(pages, E, nds, lev, pg, n)
    BY DEF Holds, OnPages
  <2> QED
    BY <2>1, <2>2, <2>3
<1>2. ASSUME n <= lev[1][2] PROVE Children(pg[n]) = <<>> /\ ~IsBranch(pg[n])
  BY <1>1, <1>2 DEF Pictured, Children, IsBranch
<1>3. ASSUME n > lev[1][2]
      PROVE  /\ IsBranch(pg[n]) /\ Children(pg[n]) \in Seq(PageIds)
             /\ Len(Children(pg[n])) = nds[n].kids[2] - nds[n].kids[1] + 1
             /\ \A i \in 1 .. (nds[n].kids[2] - nds[n].kids[1] + 1) : Children(pg[n])[i] = pg[nds[n].kids[1] + i - 1]
             /\ nds[n].kids[1] \in 1 .. Len(nds) /\ nds[n].kids[2] \in 1 .. Len(nds) /\ nds[n].kids[1] <= nds[n].kids[2]
  <2>1. ~(n <= lev[1][2])
    BY <1>1, <1>3
  <2>2. /\ pages[pg[n]].kind = "branch" /\ pages[pg[n]].items = BranchItems(E, nds, pg, n)
        /\ pages[pg[n]].tail = pg[nds[n].kids[2]]
    BY <1>1, <2>1 DEF Pictured
  <2>3. IsParent(E, nds, n)
    BY <1>3, HeldTypes, LeafOrParent
  <2>4. PICK a \in Nat, b \in Nat : a = nds[n].kids[1] /\ b = nds[n].kids[2]
    BY HeldTypes
  <2>5. 1 <= a /\ a <= b /\ b < n
    BY <2>3, <2>4 DEF IsParent
  <2>6. a \in 1 .. Len(nds) /\ b \in 1 .. Len(nds) /\ b - a \in Nat /\ b - a + 1 \in Nat
    <3>1. PICK l \in Nat : l = Len(nds) /\ n <= l
      BY <1>1
    <3>2. a \in 1 .. l /\ b \in 1 .. l /\ b - a \in Nat /\ b - a + 1 \in Nat
      BY <2>5, <3>1
    <3> QED
      BY <3>1, <3>2
  <2> DEFINE it == pages[pg[n]].items
             c == [i \in 1 .. Len(it) |-> it[i].child]
  <2>7. it = [i \in 1 .. (b - a) |-> [record |-> E[nds[a + i - 1].hi], child |-> pg[a + i - 1]]]
    BY <2>2, <2>4 DEF BranchItems
  <2>8. Len(it) = b - a
    BY <2>6, <2>7
  <2>9. \A i \in 1 .. (b - a) : it[i].child = pg[a + i - 1]
    BY <2>7
  <2>10. Children(pg[n]) = c \o <<pg[b]>> /\ IsBranch(pg[n])
    BY <2>2, <2>4 DEF Children, IsBranch
  <2> HIDE DEF it
  <2>11. \A i \in 1 .. (b - a) : a + i - 1 \in 1 .. Len(nds)
    BY <1>1, <2>6
  <2>12. pg \in [1 .. Len(nds) -> PageIds]
    BY HeldTypes
  <2>13. c \in Seq(PageIds) /\ Len(c) = b - a /\ \A i \in 1 .. (b - a) : c[i] = pg[a + i - 1]
    <3>1. \A i \in 1 .. (b - a) : c[i] = pg[a + i - 1]
      BY <2>8, <2>9
    <3>2. \A i \in 1 .. (b - a) : pg[a + i - 1] \in PageIds
      BY <2>11, <2>12
    <3>3. c = [i \in 1 .. (b - a) |-> pg[a + i - 1]]
      BY <2>8, <3>1
    <3>4. PICK k \in Nat : k = b - a
      BY <2>6
    <3>5. c \in Seq(PageIds) /\ Len(c) = k
      <4> HIDE DEF c
      <4> QED
        BY <3>2, <3>3, <3>4
    <3> QED
      BY <3>1, <3>4, <3>5
  <2> HIDE DEF c
  <2>14. <<pg[b]>> \in Seq(PageIds) /\ Len(<<pg[b]>>) = 1 /\ <<pg[b]>>[1] = pg[b]
    BY <2>6, <2>12
  <2>15. c \o <<pg[b]>> \in Seq(PageIds) /\ Len(c \o <<pg[b]>>) = b - a + 1
    BY <2>6, <2>13, <2>14
  <2>16. ASSUME NEW i \in 1 .. (b - a + 1) PROVE (c \o <<pg[b]>>)[i] = pg[a + i - 1]
    <3>1. CASE i \in 1 .. (b - a)
      <4>1. (c \o <<pg[b]>>)[i] = c[i]
        BY <2>13, <2>14, <3>1
      <4> QED
        BY <2>13, <3>1, <4>1
    <3>2. CASE i \notin 1 .. (b - a)
      <4>1. i = (b - a) + 1 /\ a + i - 1 = b
        BY <2>6, <3>2
      <4>2. (c \o <<pg[b]>>)[(b - a) + 1] = pg[b]
        <5>1. PICK w \in Seq(PageIds) : w = <<pg[b]>> /\ Len(w) = 1 /\ w[1] = pg[b]
          BY <2>14
        <5>2. \A j \in 1 .. Len(w) : (c \o w)[Len(c) + j] = w[j]
          BY <2>13, Concat
        <5>3. 1 \in 1 .. Len(w)
          BY <5>1
        <5>4. (c \o w)[Len(c) + 1] = w[1]
          BY <5>2, <5>3
        <5> QED
          BY <2>13, <5>1, <5>4
      <4> QED
        BY <4>1, <4>2
    <3> QED
      BY <3>1, <3>2
  <2> QED
    BY <2>4, <2>5, <2>6, <2>10, <2>15, <2>16
<1> QED
  BY <1>2, <1>3

\* The children of a branch are the pages of its nodes, in order.
ChildList(nds, pg, n) ==
  /\ Len(Children(pg[n])) = nds[n].kids[2] - nds[n].kids[1] + 1
  /\ \A i \in 1 .. (nds[n].kids[2] - nds[n].kids[1] + 1) : Children(pg[n])[i] = pg[nds[n].kids[1] + i - 1]

\* A branch of the tree has such children.
LEMMA ChildListIs ==
  ASSUME NEW E, NEW nds, NEW lev, NEW pg, Holds(pages, mapped, E, nds, lev, pg), NEW n \in 1 .. Len(nds), n > lev[1][2]
  PROVE  ChildList(nds, pg, n)
BY ChildrenAre DEF ChildList

\* The children of a level are the level below.
LEMMA Deeper ==
  ASSUME NEW E, NEW nds, NEW lev, NEW pg, Holds(pages, mapped, E, nds, lev, pg), NEW h \in 2 .. Len(lev)
  PROVE  FlattenSeq([i \in DOMAIN Row(lev, pg, h) |-> Children(Row(lev, pg, h)[i])]) = Row(lev, pg, h - 1)
<1> DEFINE s == [i \in DOMAIN Row(lev, pg, h) |-> Children(Row(lev, pg, h)[i])]
           t == Row(lev, pg, h - 1)
           N == Len(nds)
<1>1. h \in 1 .. Len(lev) /\ h - 1 \in 1 .. Len(lev) /\ h \in Nat /\ 1 \in 1 .. Len(lev)
  BY HeldTypes
<1>2. PICK a \in Nat, b \in Nat, x \in Nat, y \in Nat :
        a = lev[h][1] /\ b = lev[h][2] /\ x = lev[h - 1][1] /\ y = lev[h - 1][2]
  BY <1>1, HeldTypes
<1>3. 1 <= a /\ a <= b /\ b <= N /\ 1 <= x /\ x <= y /\ y <= N /\ N \in Nat
  BY <1>1, <1>2, HeldTypes
<1>4. Adopted(E, nds, a, b, x, y) /\ a = y + 1
  BY <1>2, HeldTypes DEF Forest
<1>5. lev[1][2] \in Nat /\ lev[1][2] <= y
  <2>1. lev[1][2] \in Nat
    BY <1>1, HeldTypes
  <2>2. h - 1 # 1 => lev[1][2] < lev[h - 1][1]
    <3>1. h - 1 # 1 => 1 < h - 1
      BY <1>1
    <3>2. Forest(E, nds, lev)
      BY HeldTypes
    <3>3. \A d, e \in 1 .. Len(lev) : d < e => lev[d][2] < lev[e][1]
      BY <3>2, LevelsApart
    <3> QED
      BY <1>1, <3>1, <3>3
  <2> QED
    BY <1>2, <1>3, <2>1, <2>2
<1> DEFINE K(j) == nds[j].kids[1]
           M(j) == nds[j].kids[2]
<1>6. \A j \in a .. b : /\ K(j) \in Nat /\ M(j) \in Nat /\ K(j) <= M(j) /\ x <= K(j) /\ M(j) <= y
                        /\ (j = a => K(j) = x) /\ (j = b => M(j) = y) /\ (j # a => K(j) = M(j - 1) + 1)
  <2> SUFFICES ASSUME NEW j \in a .. b
               PROVE  /\ K(j) \in Nat /\ M(j) \in Nat /\ K(j) <= M(j) /\ x <= K(j) /\ M(j) <= y
                      /\ (j = a => K(j) = x) /\ (j = b => M(j) = y) /\ (j # a => K(j) = M(j - 1) + 1)
    OBVIOUS
  <2>1. j \in 1 .. N
    BY <1>3
  <2>2. K(j) \in Nat /\ M(j) \in Nat
    BY <2>1, HeldTypes
  <2>3. K(j) <= M(j) /\ x <= K(j) /\ M(j) <= y
    BY <1>4 DEF Adopted, IsParent
  <2>4. (j = a => K(j) = x) /\ (j = b => M(j) = y)
    BY <1>3, <1>4 DEF Adopted
  <2>5. ASSUME j # a PROVE K(j) = M(j - 1) + 1
    <3>1. j - 1 \in a .. (b - 1) /\ (j - 1) + 1 = j
      BY <2>5
    <3> QED
      BY <1>4, <3>1 DEF Adopted
  <2> QED
    BY <2>2, <2>3, <2>4, <2>5
<1>7. \A j \in a .. b : /\ Children(pg[j]) \in Seq(PageIds) /\ Len(Children(pg[j])) = M(j) - K(j) + 1
                        /\ \A i \in 1 .. (M(j) - K(j) + 1) : Children(pg[j])[i] = pg[K(j) + i - 1]
  <2> SUFFICES ASSUME NEW j \in a .. b
               PROVE  /\ Children(pg[j]) \in Seq(PageIds) /\ Len(Children(pg[j])) = M(j) - K(j) + 1
                      /\ \A i \in 1 .. (M(j) - K(j) + 1) : Children(pg[j])[i] = pg[K(j) + i - 1]
    OBVIOUS
  <2>1. j \in 1 .. N /\ j > lev[1][2]
    BY <1>3, <1>4, <1>5
  <2> QED
    BY <2>1, ChildrenAre
<1> DEFINE m == b - a + 1
           o == [i \in 0 .. m |-> IF i = 0 THEN 0 ELSE M(a + i - 1) - x + 1]
<1> HIDE DEF K, M
<1>8. m \in Nat /\ m \in 1 .. m /\ \A i \in 1 .. m : a + i - 1 \in a .. b
  BY <1>3
<1>9. DOMAIN Row(lev, pg, h) = 1 .. m /\ \A i \in 1 .. m : Row(lev, pg, h)[i] = pg[a + i - 1]
  BY <1>2 DEF Row
<1>10. s \in Seq(Seq(PageIds)) /\ Len(s) = m /\ \A i \in 1 .. m : s[i] = Children(pg[a + i - 1])
  <2>1. s = [i \in 1 .. m |-> Children(pg[a + i - 1])]
    BY <1>9
  <2>2. \A i \in 1 .. m : Children(pg[a + i - 1]) \in Seq(PageIds)
    BY <1>7, <1>8
  <2> HIDE DEF s, m
  <2> QED
    BY <1>8, <2>1, <2>2
<1>11. pg \in [1 .. N -> PageIds]
  BY HeldTypes
<1>12. /\ t \in Seq(PageIds) /\ Len(t) = y - x + 1
       /\ \A i \in 1 .. (y - x + 1) : t[i] = pg[x + i - 1]
  <2>1. t = [i \in 1 .. (y - x + 1) |-> pg[x + i - 1]]
    BY <1>2 DEF Row
  <2>2. y - x + 1 \in Nat /\ \A i \in 1 .. (y - x + 1) : x + i - 1 \in 1 .. N
    BY <1>3
  <2>3. \A i \in 1 .. (y - x + 1) : pg[x + i - 1] \in PageIds
    BY <1>11, <2>2
  <2> HIDE DEF t
  <2> QED
    BY <2>1, <2>2, <2>3
<1> HIDE DEF s, t
<1>13. \A i \in 1 .. m : /\ K(a + i - 1) \in Nat /\ M(a + i - 1) \in Nat
                         /\ x <= K(a + i - 1) /\ K(a + i - 1) <= M(a + i - 1) /\ M(a + i - 1) <= y
  BY <1>6, <1>8
<1>14. o \in [0 .. m -> Nat] /\ o[0] = 0 /\ \A i \in 1 .. m : o[i] = M(a + i - 1) - x + 1
  <2>1. \A i \in 1 .. m : M(a + i - 1) - x + 1 \in Nat
    <3> SUFFICES ASSUME NEW i \in 1 .. m PROVE M(a + i - 1) - x + 1 \in Nat
      OBVIOUS
    <3>1. PICK k \in Nat, l \in Nat : k = K(a + i - 1) /\ l = M(a + i - 1) /\ x <= k /\ k <= l
      BY <1>13
    <3>2. l - x + 1 \in Nat
      BY <3>1
    <3> QED
      BY <3>1, <3>2
  <2>2. \A i \in 0 .. m : i # 0 => i \in 1 .. m
    BY <1>8
  <2> DEFINE Z(i) == M(a + i - 1) - x + 1
  <2>3. o = [i \in 0 .. m |-> IF i = 0 THEN 0 ELSE Z(i)] /\ \A i \in 1 .. m : Z(i) \in Nat /\ Z(i) = M(a + i - 1) - x + 1
    BY <2>1
  <2>4. 0 \in 0 .. m /\ \A i \in 1 .. m : i \in 0 .. m /\ i # 0
    BY <1>8
  <2> HIDE DEF m, Z, o
  <2>5. o \in [0 .. m -> Nat]
    BY <2>2, <2>3
  <2>6. o[0] = 0 /\ \A i \in 1 .. m : o[i] = Z(i)
    BY <2>3, <2>4
  <2> QED
    BY <2>3, <2>5, <2>6
<1>15. \A i \in 1 .. m : K(a + i - 1) = x + o[i - 1]
  <2> SUFFICES ASSUME NEW i \in 1 .. m PROVE K(a + i - 1) = x + o[i - 1]
    OBVIOUS
  <2>1. CASE i = 1
    BY <1>3, <1>6, <1>14, <2>1
  <2>2. CASE i # 1
    <3>1. i - 1 \in 1 .. m /\ (a + i - 1) - 1 = a + (i - 1) - 1 /\ a + i - 1 # a /\ a + i - 1 \in a .. b
      BY <1>8, <2>2
    <3>2. K(a + i - 1) = M(a + (i - 1) - 1) + 1
      BY <1>6, <3>1
    <3>3. o[i - 1] = M(a + (i - 1) - 1) - x + 1 /\ M(a + (i - 1) - 1) \in Nat
      BY <1>13, <1>14, <3>1
    <3> QED
      BY <3>2, <3>3
  <2> QED
    BY <2>1, <2>2
<1> HIDE DEF o
<1>16. \A i \in 1 .. m : Len(s[i]) = M(a + i - 1) - K(a + i - 1) + 1
  BY <1>7, <1>8, <1>10
<1>17. Offsets(s, o)
  <2>1. ASSUME NEW i \in 1 .. m PROVE o[i] = o[i - 1] + Len(s[i])
    <3>1. i - 1 \in 0 .. m
      BY <1>8
    <3>2. o[i - 1] \in Nat /\ o[i] = M(a + i - 1) - x + 1 /\ K(a + i - 1) = x + o[i - 1]
      BY <1>14, <1>15, <3>1
    <3>3. Len(s[i]) = M(a + i - 1) - K(a + i - 1) + 1 /\ K(a + i - 1) \in Nat /\ M(a + i - 1) \in Nat
      BY <1>13, <1>16
    <3>4. PICK k \in Nat, l \in Nat, u \in Nat : k = K(a + i - 1) /\ l = M(a + i - 1) /\ u = o[i - 1]
      BY <3>2, <3>3
    <3>5. o[i] = l - x + 1 /\ k = x + u /\ Len(s[i]) = l - k + 1
      BY <3>2, <3>3, <3>4
    <3>6. o[i] = u + Len(s[i])
      BY <3>5
    <3> QED
      BY <3>4, <3>6
  <2> HIDE DEF m
  <2> QED
    BY <1>10, <1>14, <2>1 DEF Offsets
<1>18. Len(t) = o[Len(s)]
  <2>1. a + m - 1 = b /\ b \in a .. b
    BY <1>3
  <2>2. o[m] = y - x + 1
    BY <1>6, <1>8, <1>14, <2>1
  <2> QED
    BY <1>10, <1>12, <2>2
<1>19. ASSUME NEW i \in 1 .. Len(s), NEW j \in 1 .. Len(s[i]) PROVE t[o[i - 1] + j] = s[i][j]
  <2>1. i \in 1 .. m /\ a + i - 1 \in a .. b
    BY <1>8, <1>10
  <2>2. PICK k \in Nat, l \in Nat : k = K(a + i - 1) /\ l = M(a + i - 1)
    BY <1>13, <2>1
  <2>3. o[i - 1] = k - x /\ x <= k /\ k <= l /\ l <= y
    <3>1. o[i - 1] \in Nat /\ k = x + o[i - 1]
      BY <1>14, <1>15, <2>1, <2>2
    <3> QED
      BY <1>13, <2>1, <2>2, <3>1
  <2>4. j \in 1 .. (l - k + 1)
    BY <1>16, <2>1, <2>2
  <2>5. s[i][j] = pg[k + j - 1]
    BY <1>7, <1>10, <2>1, <2>2, <2>4
  <2>6. (k - x) + j \in 1 .. (y - x + 1) /\ x + ((k - x) + j) - 1 = k + j - 1
    BY <2>3, <2>4
  <2>7. t[(k - x) + j] = pg[k + j - 1]
    BY <1>12, <2>6
  <2> QED
    BY <2>3, <2>5, <2>7
<1>20. FlattenSeq(s) = t
  BY <1>10, <1>12, <1>17, <1>18, <1>19, FlattenIs
<1> QED
  BY <1>20 DEF s, t

\* The children of a row of pages.
Down(r) == FlattenSeq([i \in DOMAIN r |-> Children(r[i])])

\* Nothing lies below the leaves.
LEMMA Deepest ==
  ASSUME NEW E, NEW nds, NEW lev, NEW pg, Holds(pages, mapped, E, nds, lev, pg)
  PROVE  Down(Row(lev, pg, 1)) = <<>> /\ Down(<<>>) = <<>>
<1> DEFINE s == [i \in DOMAIN Row(lev, pg, 1) |-> Children(Row(lev, pg, 1)[i])]
           m == lev[1][2]
<1>1. m \in Nat /\ lev[1][1] = 1 /\ m <= Len(nds) /\ Len(nds) \in Nat
  <2>1. 1 \in 1 .. Len(lev)
    BY HeldTypes
  <2> QED
    BY <2>1, HeldTypes
<1> HIDE DEF m
<1>2. DOMAIN Row(lev, pg, 1) = 1 .. m /\ \A i \in 1 .. m : Row(lev, pg, 1)[i] = pg[i]
  <2>1. m - 1 + 1 = m /\ \A i \in 1 .. m : 1 + i - 1 = i
    BY <1>1
  <2>2. Row(lev, pg, 1) = [i \in 1 .. m |-> pg[i]]
    BY <1>1, <2>1 DEF Row, m
  <2> QED
    BY <2>2
<1>3. \A i \in 1 .. m : Children(pg[i]) = <<>>
  <2> SUFFICES ASSUME NEW i \in 1 .. m PROVE Children(pg[i]) = <<>>
    OBVIOUS
  <2>1. i \in 1 .. Len(nds) /\ i <= lev[1][2]
    BY <1>1 DEF m
  <2> QED
    BY <2>1, ChildrenAre
<1>4. s = [i \in 1 .. m |-> <<>>]
  BY <1>2, <1>3
<1> HIDE DEF s
<1>5. s \in Seq(Seq(PageIds)) /\ Len(s) = m /\ \A i \in 1 .. m : s[i] = <<>>
  BY <1>1, <1>4
<1> DEFINE o == [i \in 0 .. m |-> 0]
<1>6. o \in [0 .. m -> Nat] /\ \A i \in 0 .. m : o[i] = 0
  OBVIOUS
<1> HIDE DEF o
<1>7. Offsets(s, o)
  <2>1. \A i \in 1 .. m : i \in 0 .. m /\ i - 1 \in 0 .. m /\ Len(s[i]) = 0
    BY <1>1, <1>5
  <2>2. 0 \in 0 .. m
    BY <1>1
  <2> QED
    BY <1>5, <1>6, <2>1, <2>2 DEF Offsets
<1>8. <<>> \in Seq(PageIds) /\ Len(<<>>) = 0
  OBVIOUS
<1>9. PICK t \in Seq(PageIds) : t = <<>> /\ Len(t) = 0
  BY <1>8
<1>10. Len(t) = o[Len(s)] /\ \A i \in 1 .. Len(s) : \A j \in 1 .. Len(s[i]) : t[o[i - 1] + j] = s[i][j]
  <2>1. o[m] = 0
    BY <1>1, <1>6
  <2>2. \A i \in 1 .. m : 1 .. Len(s[i]) = {}
    BY <1>5
  <2> QED
    BY <1>5, <1>9, <2>1, <2>2
<1>11. FlattenSeq(s) = t
  BY <1>5, <1>7, <1>10, FlattenIs
<1>12. Down(<<>>) = <<>>
  <2> DEFINE z == [i \in DOMAIN <<>> |-> Children(<<>>[i])]
  <2>1. z = <<>>
    OBVIOUS
  <2>2. FlattenSeq(<<>>) = <<>>
    BY DEF FlattenSeq
  <2> QED
    BY <2>1, <2>2 DEF Down
<1> QED
  BY <1>9, <1>11, <1>12 DEF Down, s

\* Depth by depth the reader meets the levels of the tree from the root down.
LEMMA LevelsAre ==
  ASSUME NEW E, NEW nds, NEW lev, NEW pg, Holds(pages, mapped, E, nds, lev, pg)
  PROVE  /\ Levels \in Seq(Seq(PageIds)) /\ Len(Levels) = MaxDepth
         /\ \A d \in Depths : Levels[d] = IF d <= Len(lev) THEN Row(lev, pg, Len(lev) + 1 - d) ELSE <<>>
<1> DEFINE D == Len(lev)
           U(d) == IF d <= D THEN Row(lev, pg, D + 1 - d) ELSE <<>>
           u == [d \in Depths |-> U(d)]
           IsLev(g) == g = [d \in Depths |-> IF d = 1 THEN <<Root>> ELSE Down(g[d - 1])]
           lv == CHOOSE g : IsLev(g)
<1>1. D \in Nat /\ 1 <= D /\ D <= MaxDepth /\ MaxDepth \in Nat
  BY HeldTypes
<1>2. Levels = [d \in Depths |-> lv[d]]
  BY DEF Levels, Down
<1> HIDE DEF D
<1>3. U(1) = <<Root>>
  <2>1. D + 1 - 1 = D
    BY <1>1
  <2>2. lev[D][1] = Len(nds) /\ lev[D][2] = Len(nds) /\ pg[Len(nds)] = Root /\ Len(nds) \in Nat
    BY HeldTypes DEF D
  <2>3. PICK l \in Nat : l = Len(nds)
    BY <2>2
  <2>4. l - l + 1 = 1 /\ \A i \in 1 .. 1 : l + i - 1 = l
    OBVIOUS
  <2>5. Row(lev, pg, D) = [i \in 1 .. 1 |-> Root]
    BY <2>2, <2>3, <2>4 DEF Row
  <2>6. [i \in 1 .. 1 |-> Root] = <<Root>>
    OBVIOUS
  <2> QED
    BY <1>1, <2>1, <2>5, <2>6
<1>4. \A d \in Depths : d # 1 => U(d) = Down(U(d - 1)) /\ d - 1 \in Depths
  <2> SUFFICES ASSUME NEW d \in Depths, d # 1 PROVE U(d) = Down(U(d - 1)) /\ d - 1 \in Depths
    OBVIOUS
  <2>1. d \in Nat /\ d - 1 \in Depths /\ d > 1
    BY <1>1 DEF Depths
  <2>2. CASE d <= D
    <3>1. D + 1 - (d - 1) \in 2 .. D /\ (D + 1 - (d - 1)) - 1 = D + 1 - d /\ d - 1 <= D
      BY <1>1, <2>1, <2>2
    <3>2. Down(Row(lev, pg, D + 1 - (d - 1))) = Row(lev, pg, (D + 1 - (d - 1)) - 1)
      BY <3>1, Deeper DEF Down, D
    <3> QED
      BY <2>1, <2>2, <3>1, <3>2
  <2>3. CASE d = D + 1
    <3>1. D + 1 - (d - 1) = 1 /\ d - 1 <= D /\ ~(d <= D)
      BY <1>1, <2>1, <2>3
    <3> QED
      BY <2>1, <3>1, Deepest
  <2>4. CASE d > D + 1
    <3>1. ~(d - 1 <= D) /\ ~(d <= D)
      BY <1>1, <2>1, <2>4
    <3> QED
      BY <2>1, <3>1, Deepest
  <2> QED
    BY <1>1, <2>1, <2>2, <2>3, <2>4
<1> HIDE DEF U
<1>5. IsLev(u)
  <2>1. \A d \in Depths : u[d] = IF d = 1 THEN <<Root>> ELSE Down(u[d - 1])
    BY <1>3, <1>4
  <2> QED
    BY <2>1
<1>6. IsLev(lv)
  BY <1>5
<1> HIDE DEF lv
<1> DEFINE Q == {n \in 0 .. MaxDepth : n = 0 \/ lv[n] = U(n)}
<1>7. \A n \in 0 .. MaxDepth : n \in Q
  <2>1. 0 \in Q
    BY <1>1
  <2>2. ASSUME NEW n \in 0 .. MaxDepth, n \in Q, n + 1 <= MaxDepth PROVE n + 1 \in Q
    <3>1. n + 1 \in Depths /\ n + 1 \in 0 .. MaxDepth /\ (n + 1) - 1 = n /\ n \in Nat
      BY <1>1, <2>2 DEF Depths
    <3>2. lv[n + 1] = IF n + 1 = 1 THEN <<Root>> ELSE Down(lv[(n + 1) - 1])
      BY <1>6, <3>1
    <3>3. CASE n = 0
      <4>1. lv[1] = <<Root>>
        BY <3>2, <3>3
      <4> QED
        BY <1>3, <3>1, <3>3, <4>1
    <3>4. CASE n # 0
      <4>1. n + 1 # 1 /\ lv[n] = U(n)
        BY <2>2, <3>1, <3>4
      <4>2. U(n + 1) = Down(U(n))
        BY <1>4, <3>1, <4>1
      <4>3. lv[n + 1] = Down(lv[n])
        BY <3>1, <3>2, <4>1
      <4> QED
        BY <3>1, <4>1, <4>2, <4>3
    <3> QED
      BY <3>3, <3>4
  <2> HIDE DEF Q
  <2> QED
    BY <1>1, <2>1, <2>2, Induct
<1>8. \A d \in Depths : Levels[d] = U(d)
  <2>1. \A d \in Depths : d \in 0 .. MaxDepth /\ d # 0
    BY <1>1 DEF Depths
  <2> QED
    BY <1>2, <1>7, <2>1
<1>9. \A d \in Depths : U(d) \in Seq(PageIds)
  <2> SUFFICES ASSUME NEW d \in Depths PROVE U(d) \in Seq(PageIds)
    OBVIOUS
  <2>1. CASE d <= D
    <3> DEFINE h == D + 1 - d
    <3>1. h \in 1 .. D
      BY <1>1, <2>1 DEF Depths
    <3> HIDE DEF h
    <3>2. PICK a \in Nat, b \in Nat, l \in Nat : a = lev[h][1] /\ b = lev[h][2] /\ l = Len(nds) /\ 1 <= a /\ a <= b /\ b <= l
      BY <3>1, HeldTypes, SMTT(30) DEF D
    <3>3. b - a + 1 \in Nat /\ \A i \in 1 .. (b - a + 1) : a + i - 1 \in 1 .. l
      <4>1. 1 <= a /\ a <= b /\ b <= l
        BY <3>2
      <4> QED
        BY <4>1
    <3>4. \A i \in 1 .. (b - a + 1) : pg[a + i - 1] \in PageIds
      BY <3>2, <3>3, HeldTypes
    <3>5. Row(lev, pg, h) = [i \in 1 .. (b - a + 1) |-> pg[a + i - 1]]
      BY <3>2 DEF Row
    <3>6. Row(lev, pg, h) \in Seq(PageIds)
      BY <3>3, <3>4, <3>5
    <3> QED
      BY <2>1, <3>6 DEF U, h
  <2>2. CASE ~(d <= D)
    BY <2>2 DEF U
  <2> QED
    BY <2>1, <2>2
<1>10. Levels \in Seq(Seq(PageIds)) /\ Len(Levels) = MaxDepth
  <2>1. Levels = [d \in 1 .. MaxDepth |-> U(d)]
    BY <1>2, <1>8 DEF Depths
  <2>2. \A d \in 1 .. MaxDepth : U(d) \in Seq(PageIds)
    BY <1>9 DEF Depths
  <2> QED
    BY <1>1, <2>1, <2>2
<1> QED
  BY <1>8, <1>10 DEF U, D

\* The pages visited: the place of a node follows from its level.
LEMMA VisitedIs ==
  ASSUME NEW E, NEW nds, NEW lev, NEW pg, Holds(pages, mapped, E, nds, lev, pg)
  PROVE  /\ FlattenSeq(Levels) \in Seq(PageIds) /\ Len(FlattenSeq(Levels)) = Len(nds)
         /\ \A h \in 1 .. Len(lev) : \A n \in lev[h][1] .. lev[h][2] :
              FlattenSeq(Levels)[Len(nds) - lev[h][2] + (n - lev[h][1] + 1)] = pg[n]
         /\ \A k \in 1 .. Len(nds) : \E h \in 1 .. Len(lev) : \E n \in lev[h][1] .. lev[h][2] :
              k = Len(nds) - lev[h][2] + (n - lev[h][1] + 1)
<1> DEFINE D == Len(lev)
           N == Len(nds)
           v == FlattenSeq(Levels)
<1>1. /\ D \in Nat /\ 1 <= D /\ D <= MaxDepth /\ MaxDepth \in Nat /\ N \in Nat /\ lev[D][1] = N /\ lev[D][2] = N
      /\ lev[1][1] = 1
      /\ \A d \in 1 .. D : lev[d][1] \in Nat /\ lev[d][2] \in Nat /\ 1 <= lev[d][1] /\ lev[d][1] <= lev[d][2] /\ lev[d][2] <= N
  BY HeldTypes
<1>2. \A d \in 2 .. D : lev[d][1] = lev[d - 1][2] + 1
  BY HeldTypes DEF Forest
<1>3. /\ Levels \in Seq(Seq(PageIds)) /\ Len(Levels) = MaxDepth
      /\ \A d \in 1 .. MaxDepth : Levels[d] = IF d <= D THEN Row(lev, pg, D + 1 - d) ELSE <<>>
  BY LevelsAre DEF Depths
<1>4. PICK o : Offsets(Levels, o) /\ Lays(v, Levels, o, MaxDepth) /\ v \in Seq(PageIds)
  BY <1>3, Flatten
<1> HIDE DEF v, D, N
<1>5. \A d \in 1 .. D : d \in 1 .. MaxDepth /\ D + 1 - d \in 1 .. D
  BY <1>1
<1>6. \A d \in 1 .. D : Len(Levels[d]) = lev[D + 1 - d][2] - lev[D + 1 - d][1] + 1
  <2> SUFFICES ASSUME NEW d \in 1 .. D PROVE Len(Levels[d]) = lev[D + 1 - d][2] - lev[D + 1 - d][1] + 1
    OBVIOUS
  <2>1. PICK h \in 1 .. D : h = D + 1 - d
    BY <1>5
  <2>2. PICK a \in Nat, b \in Nat : a = lev[h][1] /\ b = lev[h][2] /\ a <= b
    BY <1>1
  <2>3. Levels[d] = Row(lev, pg, h)
    BY <1>3, <1>5, <2>1
  <2>4. Row(lev, pg, h) = [i \in 1 .. (b - a + 1) |-> pg[a + i - 1]] /\ b - a + 1 \in Nat
    BY <2>2 DEF Row
  <2>5. Len(Levels[d]) = b - a + 1
    BY <2>3, <2>4
  <2> QED
    BY <2>1, <2>2, <2>5
<1>7. \A d \in 1 .. MaxDepth : ~(d <= D) => Len(Levels[d]) = 0
  BY <1>3
<1> DEFINE B(d) == IF d = 0 THEN 0 ELSE IF d <= D THEN N - lev[D + 1 - d][1] + 1 ELSE N
           Q == {d \in 0 .. MaxDepth : o[d] = B(d)}
<1>8. o[0] = 0 /\ \A d \in 1 .. MaxDepth : o[d] = o[d - 1] + Len(Levels[d])
  BY <1>3, <1>4 DEF Offsets
<1>9. \A d \in 0 .. MaxDepth : d \in Q
  <2>1. 0 \in Q
    BY <1>1, <1>8
  <2>2. ASSUME NEW d \in 0 .. MaxDepth, d \in Q, d + 1 <= MaxDepth PROVE d + 1 \in Q
    <3>1. d \in Nat /\ d + 1 \in 1 .. MaxDepth /\ d + 1 \in 0 .. MaxDepth /\ (d + 1) - 1 = d /\ d + 1 # 0
      BY <1>1, <2>2
    <3>2. o[d + 1] = o[d] + Len(Levels[d + 1]) /\ o[d] = B(d)
      BY <1>8, <2>2, <3>1
    <3>3. CASE d = 0
      <4>1. d + 1 \in 1 .. D /\ D + 1 - (d + 1) = D /\ d + 1 <= D
        BY <1>1, <3>3
      <4>2. Len(Levels[d + 1]) = lev[D][2] - lev[D][1] + 1
        BY <1>6, <4>1
      <4>3. o[d + 1] = 1 /\ B(d + 1) = 1
        BY <1>1, <3>1, <3>2, <3>3, <4>1, <4>2
      <4> QED
        BY <3>1, <4>3
    <3>4. CASE d # 0 /\ d + 1 <= D
      <4>1. d + 1 \in 1 .. D /\ d <= D
        BY <1>1, <3>1, <3>4
      <4>2. PICK h \in 1 .. D : h = D + 1 - (d + 1) /\ h + 1 = D + 1 - d /\ h + 1 \in 2 .. D /\ (h + 1) - 1 = h
        BY <1>1, <3>1, <3>4
      <4>3. PICK a \in Nat, b \in Nat : a = lev[h][1] /\ b = lev[h][2] /\ a <= b /\ b <= N
        BY <1>1
      <4>4. lev[h + 1][1] = b + 1
        BY <1>2, <4>2, <4>3
      <4>5. Len(Levels[d + 1]) = b - a + 1
        BY <1>6, <4>1, <4>2, <4>3
      <4>6. o[d] = N - (b + 1) + 1
        BY <3>2, <3>4, <4>1, <4>2, <4>4
      <4>7. o[d + 1] = N - a + 1
        <5>1. o[d + 1] = (N - (b + 1) + 1) + (b - a + 1)
          BY <3>2, <4>5, <4>6
        <5>2. N \in Nat
          BY <1>1
        <5> QED
          BY <5>1, <5>2
      <4>8. B(d + 1) = N - a + 1
        BY <3>1, <3>4, <4>2, <4>3
      <4> QED
        BY <3>1, <4>7, <4>8
    <3>5. CASE ~(d + 1 <= D)
      <4>1. Len(Levels[d + 1]) = 0
        BY <1>7, <3>1, <3>5
      <4>2. B(d) = N
        <5>1. CASE d <= D
          <6>1. D + 1 - d = 1 /\ d # 0
            BY <1>1, <3>1, <3>5, <5>1
          <6> QED
            BY <1>1, <5>1, <6>1
        <5>2. CASE ~(d <= D)
          BY <1>1, <3>1, <5>2
        <5> QED
          BY <5>1, <5>2
      <4>3. B(d + 1) = N
        BY <3>1, <3>5
      <4> HIDE DEF B
      <4> QED
        BY <1>1, <3>1, <3>2, <4>1, <4>2, <4>3
    <3> QED
      BY <1>1, <3>1, <3>3, <3>4, <3>5
  <2> HIDE DEF Q
  <2> QED
    BY <1>1, <2>1, <2>2, Induct
<1>10. Len(v) = N
  <2>1. Len(v) = o[MaxDepth]
    BY <1>4 DEF Lays
  <2>2. B(MaxDepth) = N
    <3>1. CASE MaxDepth <= D
      <4>1. MaxDepth = D /\ D + 1 - D = 1
        BY <1>1, <3>1
      <4> QED
        BY <1>1, <4>1
    <3>2. CASE ~(MaxDepth <= D)
      BY <1>1, <3>2
    <3> QED
      BY <3>1, <3>2
  <2>3. MaxDepth \in Q
    BY <1>1, <1>9
  <2> QED
    BY <2>1, <2>2, <2>3
<1>11. ASSUME NEW h \in 1 .. D, NEW n \in lev[h][1] .. lev[h][2] PROVE v[N - lev[h][2] + (n - lev[h][1] + 1)] = pg[n]
  <2>1. PICK a \in Nat, b \in Nat : a = lev[h][1] /\ b = lev[h][2] /\ a <= b /\ b <= N
    BY <1>1
  <2>2. PICK d \in 1 .. D : d = D + 1 - h /\ D + 1 - d = h /\ d \in 1 .. MaxDepth /\ d - 1 \in 0 .. MaxDepth /\ d <= D
    BY <1>1
  <2>3. o[d - 1] = N - b
    <3>1. o[d - 1] = B(d - 1)
      BY <1>9, <2>2
    <3>2. CASE h = D
      <4>1. d - 1 = 0 /\ b = N
        BY <1>1, <2>1, <2>2, <3>2
      <4> QED
        BY <1>1, <3>1, <4>1
    <3>3. CASE h # D
      <4>1. D + 1 - (d - 1) = h + 1 /\ h + 1 \in 2 .. D /\ (h + 1) - 1 = h /\ d - 1 # 0 /\ d - 1 <= D
        BY <1>1, <2>2, <3>3
      <4>2. lev[h + 1][1] = b + 1
        BY <1>2, <2>1, <4>1
      <4>3. B(d - 1) = N - (b + 1) + 1
        BY <4>1, <4>2
      <4> QED
        BY <1>1, <2>1, <3>1, <4>3
    <3> QED
      BY <3>2, <3>3
  <2>4. Levels[d] = Row(lev, pg, h) /\ Len(Levels[d]) = b - a + 1
    BY <1>3, <1>6, <2>1, <2>2
  <2>5. PICK j \in 1 .. (b - a + 1) : j = n - a + 1 /\ a + j - 1 = n
    BY <2>1
  <2>6. v[o[d - 1] + j] = Levels[d][j]
    BY <1>4, <2>2, <2>4, <2>5 DEF Lays
  <2>7. Row(lev, pg, h)[j] = pg[n]
    <3>1. Row(lev, pg, h) = [i \in 1 .. (b - a + 1) |-> pg[a + i - 1]]
      BY <2>1 DEF Row
    <3> QED
      BY <2>5, <3>1
  <2> QED
    BY <2>1, <2>3, <2>4, <2>5, <2>6, <2>7
<1>12. ASSUME NEW k \in 1 .. N
       PROVE \E h \in 1 .. D : \E n \in lev[h][1] .. lev[h][2] : k = N - lev[h][2] + (n - lev[h][1] + 1)
  <2>1. N + 1 - k \in 1 .. lev[D][2]
    BY <1>1
  <2>2. PICK h \in 1 .. D : N + 1 - k \in lev[h][1] .. lev[h][2]
    <3>1. PICK m \in 1 .. lev[D][2] : m = N + 1 - k
      BY <2>1
    <3>2. Forest(E, nds, lev)
      BY HeldTypes
    <3>3. \E h \in 1 .. D : m \in lev[h][1] .. lev[h][2]
      BY <3>2, SomeLevel DEF D
    <3> QED
      BY <3>1, <3>3
  <2>3. PICK a \in Nat, b \in Nat : a = lev[h][1] /\ b = lev[h][2] /\ a <= b /\ b <= N
    BY <1>1
  <2>4. PICK n \in a .. b : n = k - 1 - N + b + a
    BY <1>1, <2>2, <2>3
  <2>5. k = N - b + (n - a + 1)
    BY <1>1, <2>3, <2>4
  <2> QED
    BY <2>3, <2>4, <2>5
<1> QED
  BY <1>4, <1>10, <1>11, <1>12 DEF v, N, D

-----------------------------------------------------------------------------
(* Reading the tree back: every page parses, and the leaves hold the entries. *)

\* The widths a page is laid out with.
LEMMA WidthsType ==
  ASSUME NEW E, Ascending(E)
  PROVE  /\ Len(E) \in Nat /\ \A i \in 1 .. Len(E) : E[i] \in Rec /\ E[i].key \in Keys /\ Width[E[i].key] \in Nat
         /\ ChildBytes \in Nat /\ AreaBytes \in Nat
<1>1. E \in Seq(Rec)
  BY DEF Ascending
<1>2. Len(E) \in Nat /\ \A i \in 1 .. Len(E) : E[i] \in Rec
  BY <1>1
<1>3. \A r \in Rec : r.key \in Keys
  BY DEF Rec
<1>4. (\A k \in Keys : Width[k] \in Nat) /\ ChildBytes \in Nat /\ AreaBytes \in Nat
  BY IndexAssumption
<1> QED
  BY <1>2, <1>3, <1>4

\* The leaf of a node, and what it holds.
LEMMA LeafHolds ==
  ASSUME NEW E, NEW nds, NEW lev, NEW pg, Holds(pages, mapped, E, nds, lev, pg), NEW n \in 1 .. lev[1][2]
  PROVE  /\ n \in 1 .. Len(nds) /\ IsLeafNode(E, nds[n])
         /\ pages[pg[n]].kind = "leaf" /\ pages[pg[n]].items = LeafItems(E, nds[n])
         /\ 1 <= nds[n].lo /\ nds[n].lo <= nds[n].hi + 1 /\ nds[n].hi <= Len(E) /\ nds[n].hi - nds[n].lo + 1 \in Nat
         /\ Len(pages[pg[n]].items) = nds[n].hi - nds[n].lo + 1
         /\ LeafRecords(pg[n]) \in Seq(Rec) /\ Len(LeafRecords(pg[n])) = nds[n].hi - nds[n].lo + 1
         /\ \A i \in 1 .. (nds[n].hi - nds[n].lo + 1) :
              /\ nds[n].lo + i - 1 \in 1 .. Len(E)
              /\ pages[pg[n]].items[i].record = E[nds[n].lo + i - 1] /\ LeafRecords(pg[n])[i] = E[nds[n].lo + i - 1]
<1>1. 1 \in 1 .. Len(lev) /\ Len(nds) \in Nat
  BY HeldTypes
<1>2. lev[1][2] \in Nat /\ lev[1][2] <= Len(nds)
  BY <1>1, HeldTypes
<1>3. n \in 1 .. Len(nds) /\ n <= lev[1][2]
  BY <1>1, <1>2
<1>4. Forest(E, nds, lev) /\ lev[Len(lev)][2] = Len(nds) /\ Ascending(E)
  BY HeldTypes
<1>5. IsLeafNode(E, nds[n])
  BY <1>3, <1>4, LeafOrParent
<1>6. Pictured(pages, E, nds, lev, pg, n)
  BY <1>3 DEF Holds, OnPages
<1>7. pages[pg[n]].kind = "leaf" /\ pages[pg[n]].items = LeafItems(E, nds[n])
  BY <1>3, <1>6 DEF Pictured
<1>8. PICK lo \in Nat, hi \in Nat : lo = nds[n].lo /\ hi = nds[n].hi
  BY <1>3, HeldTypes
<1>9. 1 <= lo /\ lo <= hi + 1 /\ hi <= Len(E)
  BY <1>5, <1>8 DEF IsLeafNode
<1>10. Len(E) \in Nat /\ \A i \in 1 .. Len(E) : E[i] \in Rec
  BY <1>4, WidthsType
<1>11. hi - lo + 1 \in Nat /\ \A i \in 1 .. (hi - lo + 1) : lo + i - 1 \in 1 .. Len(E)
  BY <1>9, <1>10
<1> DEFINE it == pages[pg[n]].items
<1>12. it = [i \in 1 .. (hi - lo + 1) |-> [record |-> E[lo + i - 1], child |-> NIL]]
  BY <1>7, <1>8 DEF LeafItems
<1>13. Len(it) = hi - lo + 1 /\ DOMAIN it = 1 .. (hi - lo + 1) /\ \A i \in 1 .. (hi - lo + 1) : it[i].record = E[lo + i - 1]
  BY <1>11, <1>12
<1>14. LeafRecords(pg[n]) = [i \in 1 .. (hi - lo + 1) |-> E[lo + i - 1]]
  <2>1. LeafRecords(pg[n]) = [i \in DOMAIN it |-> it[i].record]
    BY <1>7 DEF LeafRecords
  <2> HIDE DEF it
  <2> QED
    BY <1>13, <2>1
<1>15. \A i \in 1 .. (hi - lo + 1) : E[lo + i - 1] \in Rec
  BY <1>10, <1>11
<1>16. LeafRecords(pg[n]) \in Seq(Rec) /\ Len(LeafRecords(pg[n])) = hi - lo + 1
       /\ \A i \in 1 .. (hi - lo + 1) : LeafRecords(pg[n])[i] = E[lo + i - 1]
  BY <1>11, <1>14, <1>15
<1> HIDE DEF it
<1> QED
  BY <1>3, <1>5, <1>7, <1>8, <1>9, <1>11, <1>13, <1>16 DEF it

\* A branch on its page: the separators are the last entries of its children but the last.
BranchPage(E, nds, pg, n) ==
  /\ nds[n].kids[1] \in 1 .. (n - 1) /\ nds[n].kids[2] \in 1 .. (n - 1) /\ nds[n].kids[1] <= nds[n].kids[2]
  /\ IsParent(E, nds, n) /\ pages[pg[n]].kind = "branch" /\ pages[pg[n]].tail = pg[nds[n].kids[2]]
  /\ Len(pages[pg[n]].items) = nds[n].kids[2] - nds[n].kids[1]
BranchItemsAre(E, nds, pg, n) ==
  \A i \in 1 .. (nds[n].kids[2] - nds[n].kids[1]) :
    /\ nds[nds[n].kids[1] + i - 1].hi \in 1 .. Len(E)
    /\ pages[pg[n]].items[i].record = E[nds[nds[n].kids[1] + i - 1].hi]
    /\ pages[pg[n]].items[i].child = pg[nds[n].kids[1] + i - 1]

\* The branch of a node, and what it holds.
LEMMA BranchHolds ==
  ASSUME NEW E, NEW nds, NEW lev, NEW pg, Holds(pages, mapped, E, nds, lev, pg), NEW n \in 1 .. Len(nds), n > lev[1][2]
  PROVE  /\ BranchPage(E, nds, pg, n) /\ BranchItemsAre(E, nds, pg, n)
         /\ pages[pg[n]].items \in Seq([record : Rec, child : PageIds])
<1>1. 1 \in 1 .. Len(lev) /\ Len(nds) \in Nat
  BY HeldTypes
<1>2. lev[1][2] \in Nat
  BY <1>1, HeldTypes
<1>3. ~(n <= lev[1][2])
  BY <1>1, <1>2
<1>4. Forest(E, nds, lev) /\ lev[Len(lev)][2] = Len(nds) /\ Ascending(E) /\ Full(E, nds) /\ pg \in [1 .. Len(nds) -> PageIds]
  BY HeldTypes
<1>5. IsParent(E, nds, n)
  BY <1>3, <1>4, LeafOrParent
<1>6. Pictured(pages, E, nds, lev, pg, n)
  BY DEF Holds, OnPages
<1>7. /\ pages[pg[n]].kind = "branch" /\ pages[pg[n]].items = BranchItems(E, nds, pg, n)
      /\ pages[pg[n]].tail = pg[nds[n].kids[2]]
  BY <1>3, <1>6 DEF Pictured
<1>8. PICK a \in Nat, b \in Nat : a = nds[n].kids[1] /\ b = nds[n].kids[2]
  BY HeldTypes
<1>9. 1 <= a /\ a <= b /\ b < n
  BY <1>5, <1>8 DEF IsParent
<1>10. a \in 1 .. (n - 1) /\ b \in 1 .. (n - 1) /\ b - a \in Nat /\ \A i \in 1 .. (b - a) : a + i - 1 \in 1 .. Len(nds)
  BY <1>1, <1>9
<1>11. ASSUME NEW j \in 1 .. Len(nds) PROVE nds[j].hi \in 1 .. Len(E)
  <2>1. Len(E) # 0
    <3>1. Len(nds) # 1
      <4>1. PICK l \in Nat : l = Len(nds) /\ n \in 1 .. l
        BY <1>1
      <4>2. n \in Nat /\ n <= l
        BY <4>1
      <4>3. l >= 2
        BY <1>9, <4>2
      <4> QED
        BY <4>1, <4>3
    <3> QED
      BY <1>4, <3>1 DEF Full
  <2>2. nds[j].lo <= nds[j].hi
    BY <1>4, <2>1 DEF Full
  <2>3. 1 <= nds[j].lo /\ nds[j].hi <= Len(E)
    BY <1>4, Covered
  <2>4. nds[j].lo \in Nat /\ nds[j].hi \in Nat /\ Len(E) \in Nat
    BY <1>4, HeldTypes, WidthsType
  <2> QED
    BY <2>2, <2>3, <2>4
<1> DEFINE it == pages[pg[n]].items
<1>12. it = [i \in 1 .. (b - a) |-> [record |-> E[nds[a + i - 1].hi], child |-> pg[a + i - 1]]]
  BY <1>7, <1>8 DEF BranchItems
<1>13. Len(it) = b - a
  BY <1>10, <1>12
<1>14. \A i \in 1 .. (b - a) : it[i].record = E[nds[a + i - 1].hi] /\ it[i].child = pg[a + i - 1]
  BY <1>12
<1>15. \A i \in 1 .. (b - a) : nds[a + i - 1].hi \in 1 .. Len(E)
  BY <1>10, <1>11
<1>16. \A i \in 1 .. (b - a) : E[nds[a + i - 1].hi] \in Rec /\ pg[a + i - 1] \in PageIds
  <2>1. \A i \in 1 .. Len(E) : E[i] \in Rec
    BY <1>4, WidthsType
  <2> QED
    BY <1>4, <1>10, <1>15, <2>1
<1>17. it \in Seq([record : Rec, child : PageIds])
  <2>1. PICK m \in Nat : m = b - a
    BY <1>10
  <2>2. it = [i \in 1 .. m |-> [record |-> E[nds[a + i - 1].hi], child |-> pg[a + i - 1]]]
    BY <1>12, <2>1
  <2>3. \A i \in 1 .. m : [record |-> E[nds[a + i - 1].hi], child |-> pg[a + i - 1]] \in [record : Rec, child : PageIds]
    BY <1>16, <2>1
  <2> HIDE DEF it
  <2> QED
    BY <2>2, <2>3
<1> HIDE DEF it
<1>18. n - 1 \in Nat /\ n \in Nat
  BY <1>1
<1> QED
  <2>1. BranchPage(E, nds, pg, n)
    BY <1>5, <1>7, <1>8, <1>9, <1>10, <1>13 DEF it, BranchPage
  <2>2. BranchItemsAre(E, nds, pg, n)
    <3>1. \A i \in 1 .. (b - a) : /\ nds[a + i - 1].hi \in 1 .. Len(E) /\ pages[pg[n]].items[i].record = E[nds[a + i - 1].hi]
                                /\ pages[pg[n]].items[i].child = pg[a + i - 1]
      BY <1>14, <1>15 DEF it
    <3> QED
      BY <1>8, <3>1 DEF BranchItemsAre
  <2>3. pages[pg[n]].items \in Seq([record : Rec, child : PageIds])
    BY <1>17, Zenon DEF it
  <2> QED
    BY <2>1, <2>2, <2>3

\* No page is overfull.
LEMMA PageFits ==
  ASSUME NEW E, NEW nds, NEW lev, NEW pg, Holds(pages, mapped, E, nds, lev, pg), NEW n \in 1 .. Len(nds)
  PROVE  ItemBytes(pages[pg[n]]) <= AreaBytes
<1> DEFINE p == pages[pg[n]]
           w == [i \in 1 .. Len(p.items) |->
                   Width[p.items[i].record.key] + (IF p.kind = "branch" THEN ChildBytes ELSE 0)]
<1>1. ItemBytes(p) = Sums(w)[Len(p.items)]
  BY DEF ItemBytes
<1>2. 1 \in 1 .. Len(lev) /\ Len(nds) \in Nat /\ Ascending(E)
  BY HeldTypes
<1>3. lev[1][2] \in Nat
  BY <1>2, HeldTypes
<1>4. CASE n <= lev[1][2]
  <2>1. n \in 1 .. lev[1][2]
    BY <1>3, <1>4
  <2>2. PICK lo, hi : lo = nds[n].lo /\ hi = nds[n].hi
    OBVIOUS
  <2>3. /\ IsLeafNode(E, nds[n]) /\ p.kind = "leaf" /\ Len(p.items) = hi - lo + 1
        /\ \A i \in 1 .. (hi - lo + 1) : lo + i - 1 \in 1 .. Len(E) /\ p.items[i].record = E[lo + i - 1]
    BY <2>1, <2>2, LeafHolds
  <2>4. w = [i \in 1 .. (hi - lo + 1) |-> Width[p.items[i].record.key] + 0]
    BY <2>3
  <2>5. \A i \in 1 .. (hi - lo + 1) : Width[p.items[i].record.key] + 0 = Width[E[lo + i - 1].key]
    <3> SUFFICES ASSUME NEW i \in 1 .. (hi - lo + 1) PROVE Width[p.items[i].record.key] + 0 = Width[E[lo + i - 1].key]
      OBVIOUS
    <3>1. p.items[i].record = E[lo + i - 1] /\ Width[E[lo + i - 1].key] \in Nat
      BY <1>2, <2>3, WidthsType
    <3> QED
      BY <3>1
  <2>6. w = LeafWidths(E, lo, hi)
    BY <2>4, <2>5 DEF LeafWidths
  <2>7. Sums(LeafWidths(E, lo, hi))[hi - lo + 1] <= AreaBytes
    BY <2>2, <2>3 DEF IsLeafNode
  <2> HIDE DEF w, p
  <2> QED
    BY <1>1, <2>3, <2>6, <2>7 DEF p
<1>5. CASE n > lev[1][2]
  <2>1. PICK a, b : a = nds[n].kids[1] /\ b = nds[n].kids[2]
    OBVIOUS
  <2>2. /\ IsParent(E, nds, n) /\ p.kind = "branch" /\ Len(p.items) = b - a
        /\ \A i \in 1 .. (b - a) : p.items[i].record = E[nds[a + i - 1].hi]
    <3>1. /\ IsParent(E, nds, n) /\ pages[pg[n]].kind = "branch"
          /\ Len(pages[pg[n]].items) = nds[n].kids[2] - nds[n].kids[1]
          /\ \A i \in 1 .. (nds[n].kids[2] - nds[n].kids[1]) :
               pages[pg[n]].items[i].record = E[nds[nds[n].kids[1] + i - 1].hi]
      <4>1. BranchPage(E, nds, pg, n) /\ BranchItemsAre(E, nds, pg, n)
        BY <1>5, BranchHolds
      <4>2. IsParent(E, nds, n) /\ pages[pg[n]].kind = "branch" /\ Len(pages[pg[n]].items) = nds[n].kids[2] - nds[n].kids[1]
        BY <4>1 DEF BranchPage
      <4>3. \A i \in 1 .. (nds[n].kids[2] - nds[n].kids[1]) :
               pages[pg[n]].items[i].record = E[nds[nds[n].kids[1] + i - 1].hi]
        BY <4>1 DEF BranchItemsAre
      <4> QED
        BY <4>2, <4>3
    <3> QED
      BY <2>1, <3>1
  <2>3. w = BranchWidths(E, nds, a, b)
    BY <2>2 DEF BranchWidths
  <2>4. Sums(BranchWidths(E, nds, a, b))[b - a] <= AreaBytes
    BY <2>1, <2>2 DEF IsParent
  <2> HIDE DEF w, p
  <2> QED
    BY <1>1, <2>2, <2>3, <2>4 DEF p
<1> QED
  BY <1>2, <1>3, <1>4, <1>5

\* A page of the tree parses at its depth, its siblings are its neighbours.
LEMMA PageReads ==
  ASSUME NEW E, NEW nds, NEW lev, NEW pg, Holds(pages, mapped, E, nds, lev, pg),
         NEW h \in 1 .. Len(lev), NEW n \in lev[h][1] .. lev[h][2]
  PROVE  /\ n \in 1 .. Len(nds) /\ Parses(pg[n], Len(lev) + 1 - h)
         /\ IsBranch(pg[n]) <=> h # 1
         /\ pages[pg[n]].prev = (IF n = lev[h][1] THEN NIL ELSE pg[n - 1])
         /\ pages[pg[n]].next = (IF n = lev[h][2] THEN NIL ELSE pg[n + 1])
<1> DEFINE p == pg[n]
           N == Len(nds)
           D == Len(lev)
<1>1. /\ D \in Nat /\ N \in Nat /\ 1 \in 1 .. D /\ pg \in [1 .. N -> PageIds] /\ Paired(nds, N - 1)
      /\ \A i, j \in 1 .. N : pg[i] = pg[j] => i = j
  BY HeldTypes
<1>2. PICK a \in Nat, b \in Nat : a = lev[h][1] /\ b = lev[h][2] /\ 1 <= a /\ a <= b /\ b <= N
  BY HeldTypes
<1>3. n \in a .. b /\ n \in 1 .. N /\ (n # a => n - 1 \in 1 .. N) /\ (n # b => n + 1 \in 1 .. N)
  BY <1>1, <1>2, SMTT(30)
<1>4. lev[1][2] \in Nat /\ lev[1][1] = 1
  BY <1>1, HeldTypes
<1>5. h # 1 => n > lev[1][2]
  <2> SUFFICES ASSUME h # 1 PROVE n > lev[1][2]
    OBVIOUS
  <2>1. 1 < h
    BY <1>1
  <2>2. lev[1][2] < lev[h][1]
    BY <1>1, <2>1, HeldTypes, LevelsApart
  <2> QED
    BY <1>2, <1>3, <1>4, <2>2
<1>6. h = 1 => n <= lev[1][2]
  BY <1>2, <1>3
<1>7. Linked(pages, lev, pg, h, n)
  BY DEF Holds, OnPages
<1>8. /\ pages[p].prev = (IF n = a THEN NIL ELSE pg[n - 1])
      /\ pages[p].next = (IF n = b THEN NIL ELSE pg[n + 1])
  BY <1>2, <1>7 DEF Linked
<1>9. IsBranch(p) <=> h # 1
  <2>1. CASE h = 1
    BY <1>3, <1>6, <2>1, ChildrenAre
  <2>2. CASE h # 1
    BY <1>3, <1>5, <2>2, ChildrenAre
  <2> QED
    BY <2>1, <2>2
<1>10. \A x \in PageIds : x # NIL
  BY IndexAssumption DEF PageIds
<1>11. p \in PageIds /\ p # NIL
  BY <1>1, <1>3, <1>10
<1>12. pages[p].prev # p /\ pages[p].next # p
  <2>1. n # a => pg[n - 1] # p
    <3>1. n - 1 # n
      BY <1>3
    <3> QED
      BY <1>1, <1>3, <3>1
  <2>2. n # b => pg[n + 1] # p
    <3>1. n + 1 # n
      BY <1>3
    <3> QED
      BY <1>1, <1>3, <3>1
  <2> QED
    BY <1>8, <1>11, <2>1, <2>2
<1>13. ItemBytes(pages[p]) <= AreaBytes
  BY <1>3, PageFits
<1>14. CASE h = 1
  <2>1. n \in 1 .. lev[1][2]
    BY <1>3, <1>4, <1>6, <1>14
  <2>2. pages[p].kind = "leaf"
    BY <2>1, LeafHolds
  <2>3. Parses(p, D + 1 - h)
    BY <1>9, <1>12, <1>13, <1>14, <2>2 DEF Parses
  <2> QED
    BY <1>2, <1>3, <1>8, <1>9, <2>3
<1>15. CASE h # 1
  <2>1. /\ nds[n].kids[1] \in 1 .. (n - 1) /\ nds[n].kids[2] \in 1 .. (n - 1) /\ nds[n].kids[1] <= nds[n].kids[2]
        /\ pages[p].kind = "branch" /\ pages[p].tail = pg[nds[n].kids[2]]
        /\ Len(pages[p].items) = nds[n].kids[2] - nds[n].kids[1]
    <3>1. n \in 1 .. Len(nds) /\ n > lev[1][2] /\ p = pg[n]
      BY <1>3, <1>5, <1>15
    <3>2. BranchPage(E, nds, pg, n)
      BY <3>1, BranchHolds
    <3> QED
      BY <3>1, <3>2 DEF BranchPage
  <2>2. PICK x \in Nat, y \in Nat : x = nds[n].kids[1] /\ y = nds[n].kids[2] /\ x \in 1 .. (n - 1) /\ y \in 1 .. (n - 1) /\ x <= y
    BY <1>3, <2>1
  <2>3. pages[p].tail \notin {NIL, p}
    <3>1. y \in 1 .. N /\ y # n
      BY <1>1, <1>3, <2>2, SMTT(30)
    <3>2. pg[y] \in PageIds /\ pg[y] # p
      BY <1>1, <1>3, <3>1
    <3> QED
      BY <1>10, <2>1, <2>2, <3>2
  <2>4. ASSUME pages[p].items = <<>> PROVE D + 1 - h = 1
    <3>1. Len(pages[p].items) = 0
      BY <2>4
    <3>2. x = y
      <4>1. y - x = 0
        BY <2>1, <2>2, <3>1
      <4> QED
        BY <4>1
    <3>3. nds[n].kids # NoKids
      <4>1. NoKids[1] = 1 /\ NoKids[2] = 0
        BY DEF NoKids
      <4> QED
        BY <2>2, <4>1
    <3>4. n \notin 1 .. (N - 1)
      <4>1. \A j \in 1 .. (N - 1) : nds[j].kids # NoKids => nds[j].kids[1] < nds[j].kids[2]
        BY <1>1 DEF Paired
      <4>2. ~(x < y)
        BY <3>2
      <4>3. ~(nds[n].kids[1] < nds[n].kids[2])
        BY <2>2, <4>2
      <4> QED
        BY <3>3, <4>1, <4>3
    <3>5. n = N
      BY <1>1, <1>3, <3>4
    <3>6. h = D
      <4> SUFFICES ASSUME h # D PROVE FALSE
        OBVIOUS
      <4>1. h < D /\ D \in 1 .. D
        BY <1>1
      <4>2. lev[h][2] < lev[D][1] /\ lev[D][1] = N
        BY <4>1, HeldTypes, LevelsApart
      <4> QED
        BY <1>1, <1>2, <1>3, <3>5, <4>2
    <3> QED
      BY <1>1, <3>6
  <2>5. Parses(p, D + 1 - h)
    BY <1>12, <1>13, <2>1, <2>3, <2>4 DEF Parses
  <2> QED
    BY <1>2, <1>3, <1>8, <1>9, <2>5
<1> QED
  BY <1>14, <1>15

\* index_tree accepts the tree.
LEMMA TreeIsRead ==
  ASSUME NEW E, NEW nds, NEW lev, NEW pg, Holds(pages, mapped, E, nds, lev, pg)
  PROVE  TreeReads(Levels, FlattenSeq(Levels)) /\ Range(FlattenSeq(Levels)) \subseteq mapped
         /\ \A p \in Range(FlattenSeq(Levels)) : \E n \in 1 .. Len(nds) : p = pg[n]
<1> DEFINE N == Len(nds)
           D == Len(lev)
           v == FlattenSeq(Levels)
           L == Levels
<1>1. /\ D \in Nat /\ N \in Nat /\ 1 <= D /\ D <= MaxDepth /\ MaxDepth \in Nat
      /\ \A i, j \in 1 .. N : pg[i] = pg[j] => i = j
      /\ \A d \in 1 .. D : lev[d][1] \in Nat /\ lev[d][2] \in Nat /\ 1 <= lev[d][1] /\ lev[d][1] <= lev[d][2] /\ lev[d][2] <= N
      /\ \A n \in 1 .. N : pg[n] \in mapped
  BY HeldTypes
<1>2. \A d \in Depths : L[d] = IF d <= D THEN Row(lev, pg, D + 1 - d) ELSE <<>>
  BY LevelsAre
<1>3. /\ v \in Seq(PageIds) /\ Len(v) = N
      /\ \A h \in 1 .. D : \A n \in lev[h][1] .. lev[h][2] : v[N - lev[h][2] + (n - lev[h][1] + 1)] = pg[n]
      /\ \A k \in 1 .. N : \E h \in 1 .. D : \E n \in lev[h][1] .. lev[h][2] :
              k = N - lev[h][2] + (n - lev[h][1] + 1)
  BY VisitedIs
<1> HIDE DEF v, L, N, D
<1>4. ASSUME NEW d \in Depths, NEW i \in DOMAIN L[d]
      PROVE  /\ Parses(L[d][i], d) /\ (IsBranch(L[d][i]) <=> IsBranch(L[d][1])) /\ (IsBranch(L[d][i]) => d < MaxDepth)
             /\ pages[L[d][i]].prev = IF i = 1 THEN NIL ELSE L[d][i - 1]
             /\ pages[L[d][i]].next = IF i = Len(L[d]) THEN NIL ELSE L[d][i + 1]
  <2>0. d \in Nat /\ 1 <= d
    BY <1>1 DEF Depths
  <2>1. d <= D
    <3> SUFFICES ASSUME ~(d <= D) PROVE FALSE
      OBVIOUS
    <3>1. L[d] = <<>>
      BY <1>2
    <3> QED
      BY <1>4, <3>1
  <2>2. PICK h \in 1 .. D : h = D + 1 - d /\ D + 1 - h = d
    BY <1>1, <2>0, <2>1
  <2>3. PICK a \in Nat, b \in Nat : a = lev[h][1] /\ b = lev[h][2] /\ 1 <= a /\ a <= b /\ b <= N
    BY <1>1
  <2>4. L[d] = [k \in 1 .. (b - a + 1) |-> pg[a + k - 1]]
    BY <1>2, <2>1, <2>2, <2>3 DEF Row
  <2>5. b - a + 1 \in Nat
    BY <2>3
  <2>6. DOMAIN L[d] = 1 .. (b - a + 1) /\ Len(L[d]) = b - a + 1
    BY <2>4, <2>5
  <2>7. \A k \in 1 .. (b - a + 1) : L[d][k] = pg[a + k - 1]
    BY <2>4
  <2>8. i \in 1 .. (b - a + 1) /\ 1 \in 1 .. (b - a + 1) /\ a + 1 - 1 = a
    BY <1>4, <2>3, <2>6
  <2>9. PICK n \in a .. b : n = a + i - 1 /\ (n = a <=> i = 1) /\ (n = b <=> i = b - a + 1)
    BY <2>3, <2>8
  <2>10. /\ Parses(pg[n], d) /\ (IsBranch(pg[n]) <=> h # 1)
         /\ pages[pg[n]].prev = (IF n = a THEN NIL ELSE pg[n - 1])
         /\ pages[pg[n]].next = (IF n = b THEN NIL ELSE pg[n + 1])
    <3>1. PICK m \in lev[h][1] .. lev[h][2] : m = n
      BY <2>3
    <3>2. /\ Parses(pg[m], D + 1 - h) /\ (IsBranch(pg[m]) <=> h # 1)
          /\ pages[pg[m]].prev = (IF m = lev[h][1] THEN NIL ELSE pg[m - 1])
          /\ pages[pg[m]].next = (IF m = lev[h][2] THEN NIL ELSE pg[m + 1])
      BY PageReads DEF D
    <3> QED
      BY <2>2, <2>3, <3>1, <3>2
  <2>11. IsBranch(pg[a]) <=> h # 1
    <3>1. a \in lev[h][1] .. lev[h][2]
      BY <2>3
    <3> QED
      BY <3>1, PageReads DEF D
  <2>12. L[d][i] = pg[n] /\ L[d][1] = pg[a]
    BY <2>7, <2>8, <2>9
  <2>13. h # 1 => d < MaxDepth
    BY <1>1, <2>0, <2>2
  <2>14. i # 1 => L[d][i - 1] = pg[n - 1]
    <3> SUFFICES ASSUME i # 1 PROVE L[d][i - 1] = pg[n - 1]
      OBVIOUS
    <3>1. i - 1 \in 1 .. (b - a + 1) /\ a + (i - 1) - 1 = n - 1
      BY <2>8, <2>9
    <3>2. L[d][i - 1] = pg[a + (i - 1) - 1]
      BY <2>7, <3>1
    <3> QED
      BY <3>1, <3>2
  <2>15. i # b - a + 1 => L[d][i + 1] = pg[n + 1]
    <3> SUFFICES ASSUME i # b - a + 1 PROVE L[d][i + 1] = pg[n + 1]
      OBVIOUS
    <3>1. i + 1 \in 1 .. (b - a + 1) /\ a + (i + 1) - 1 = n + 1
      BY <2>3, <2>8, <2>9
    <3>2. L[d][i + 1] = pg[a + (i + 1) - 1]
      BY <2>7, <3>1
    <3> QED
      BY <3>1, <3>2
  <2>16. pages[L[d][i]].prev = IF i = 1 THEN NIL ELSE L[d][i - 1]
    BY <2>9, <2>10, <2>12, <2>14
  <2>17. pages[L[d][i]].next = IF i = Len(L[d]) THEN NIL ELSE L[d][i + 1]
    BY <2>6, <2>9, <2>10, <2>12, <2>15
  <2> QED
    BY <2>10, <2>11, <2>12, <2>13, <2>16, <2>17
<1>5. ASSUME NEW k \in 1 .. N
      PROVE  \E h \in 1 .. D : \E n \in lev[h][1] .. lev[h][2] :
               k = N - lev[h][2] + (n - lev[h][1] + 1) /\ v[k] = pg[n] /\ n \in 1 .. N
  <2>1. PICK h \in 1 .. D : \E n \in lev[h][1] .. lev[h][2] : k = N - lev[h][2] + (n - lev[h][1] + 1)
    BY <1>3
  <2>2. PICK n \in lev[h][1] .. lev[h][2] : k = N - lev[h][2] + (n - lev[h][1] + 1)
    BY <2>1
  <2>3. v[k] = pg[n]
    BY <1>3, <2>2
  <2>4. n \in 1 .. N
    BY <1>1, <2>2
  <2> QED
    BY <2>2, <2>3, <2>4
<1>6. IsInjective(v)
  <2>1. ASSUME NEW k \in 1 .. N, NEW l \in 1 .. N, v[k] = v[l] PROVE k = l
    <3>1. PICK h \in 1 .. D : \E n \in lev[h][1] .. lev[h][2] :
               k = N - lev[h][2] + (n - lev[h][1] + 1) /\ v[k] = pg[n] /\ n \in 1 .. N
      BY <1>5
    <3>2. PICK n \in lev[h][1] .. lev[h][2] : k = N - lev[h][2] + (n - lev[h][1] + 1) /\ v[k] = pg[n] /\ n \in 1 .. N
      BY <3>1
    <3>3. PICK g \in 1 .. D : \E m \in lev[g][1] .. lev[g][2] :
               l = N - lev[g][2] + (m - lev[g][1] + 1) /\ v[l] = pg[m] /\ m \in 1 .. N
      BY <1>5
    <3>4. PICK m \in lev[g][1] .. lev[g][2] : l = N - lev[g][2] + (m - lev[g][1] + 1) /\ v[l] = pg[m] /\ m \in 1 .. N
      BY <3>3
    <3>5. m = n
      BY <1>1, <2>1, <3>2, <3>4
    <3>6. g = h
      <4>1. \A d, e \in 1 .. D : d < e => lev[d][2] < lev[e][1]
        BY HeldTypes, LevelsApart DEF D
      <4>2. PICK a \in Nat, b \in Nat, x \in Nat, y \in Nat : a = lev[h][1] /\ b = lev[h][2] /\ x = lev[g][1] /\ y = lev[g][2]
        BY <1>1
      <4>3. a <= n /\ n <= b /\ x <= n /\ n <= y /\ n \in Nat
        BY <3>2, <3>4, <3>5, <4>2
      <4>4. ~(b < x) /\ ~(y < a)
        BY <4>3
      <4>5. ~(g < h) /\ ~(h < g)
        BY <4>1, <4>2, <4>4
      <4> QED
        BY <1>1, <4>5
    <3> QED
      BY <3>2, <3>4, <3>5, <3>6
  <2>2. DOMAIN v = 1 .. N
    BY <1>3
  <2> QED
    BY <2>1, <2>2 DEF IsInjective
<1>7. \A p \in Range(v) : \E n \in 1 .. N : p = pg[n]
  <2> SUFFICES ASSUME NEW p \in Range(v) PROVE \E n \in 1 .. N : p = pg[n]
    OBVIOUS
  <2>1. DOMAIN v = 1 .. N
    BY <1>3
  <2>2. PICK k \in 1 .. N : p = v[k]
    BY <2>1 DEF Range
  <2> QED
    BY <1>5, <2>2
<1>8. Range(v) \subseteq mapped
  BY <1>1, <1>7
<1>9. TreeReads(L, v)
  BY <1>4, <1>6 DEF TreeReads
<1> QED
  BY <1>7, <1>8, <1>9 DEF L, v, N

\* The leaves give back the entries.
LEMMA EntriesAreRead ==
  ASSUME NEW E, NEW nds, NEW lev, NEW pg, Holds(pages, mapped, E, nds, lev, pg)
  PROVE  ReadEntries(FlattenSeq(Levels)) = E
<1> DEFINE N == Len(nds)
           D == Len(lev)
           m == lev[1][2]
           v == FlattenSeq(Levels)
           s == [k \in DOMAIN v |-> LeafRecords(v[k])]
           o == [k \in 0 .. N |-> IF k <= N - m THEN 0 ELSE nds[k - (N - m)].hi]
<1>1. D \in Nat /\ N \in Nat /\ 1 \in 1 .. D /\ Ascending(E) /\ Forest(E, nds, lev)
  BY HeldTypes
<1>2. m \in Nat /\ 1 <= m /\ m <= N /\ lev[1][1] = 1
  BY <1>1, HeldTypes
<1>3. E \in Seq(Rec) /\ Len(E) \in Nat
  BY <1>1 DEF Ascending
<1>4. Leaves(E, nds, m)
  BY <1>1 DEF Forest
<1>5. /\ v \in Seq(PageIds) /\ Len(v) = N
      /\ \A h \in 1 .. D : \A n \in lev[h][1] .. lev[h][2] : v[N - lev[h][2] + (n - lev[h][1] + 1)] = pg[n]
      /\ \A k \in 1 .. N : \E h \in 1 .. D : \E n \in lev[h][1] .. lev[h][2] :
              k = N - lev[h][2] + (n - lev[h][1] + 1)
  <2> HIDE DEF m, s, o, N, D, v
  <2>1. v \in Seq(PageIds) /\ Len(v) = N
    BY VisitedIs DEF N, D, v
  <2>2. \A h \in 1 .. D : \A n \in lev[h][1] .. lev[h][2] : v[N - lev[h][2] + (n - lev[h][1] + 1)] = pg[n]
    BY VisitedIs DEF N, D, v
  <2>3. \A k \in 1 .. N : \E h \in 1 .. D : \E n \in lev[h][1] .. lev[h][2] :
              k = N - lev[h][2] + (n - lev[h][1] + 1)
    BY VisitedIs, SMTT(30) DEF N, D, v
  <2> QED
    BY <2>1, <2>2, <2>3
<1>6. DOMAIN v = 1 .. N
  BY <1>5
<1> HIDE DEF v
<1>7. s = [k \in 1 .. N |-> LeafRecords(v[k])]
  BY <1>6
<1>8. ReadEntries(v) = FlattenSeq(s)
  BY DEF ReadEntries
<1> HIDE DEF N, D, s, m
<1>9. \A j \in 1 .. m : v[N - m + j] = pg[j]
  <2> SUFFICES ASSUME NEW j \in 1 .. m PROVE v[N - m + j] = pg[j]
    OBVIOUS
  <2>1. PICK i \in lev[1][1] .. lev[1][2] : i = j
    BY <1>2 DEF m
  <2>2. v[N - lev[1][2] + (i - lev[1][1] + 1)] = pg[i]
    BY <1>1, <1>5
  <2>3. i - 1 + 1 = j
    BY <2>1, <1>2
  <2> QED
    BY <1>2, <2>1, <2>2, <2>3 DEF m
<1>10. \A k \in 1 .. N : k <= N - m => LeafRecords(v[k]) = <<>>
  <2> SUFFICES ASSUME NEW k \in 1 .. N, k <= N - m PROVE LeafRecords(v[k]) = <<>>
    OBVIOUS
  <2>1. PICK h \in 1 .. D : \E n \in lev[h][1] .. lev[h][2] : k = N - lev[h][2] + (n - lev[h][1] + 1)
    BY <1>5
  <2>2. PICK n \in lev[h][1] .. lev[h][2] : k = N - lev[h][2] + (n - lev[h][1] + 1)
    BY <2>1
  <2>3. v[k] = pg[n]
    BY <1>5, <2>2
  <2>4. h # 1
    <3> SUFFICES ASSUME h = 1 PROVE FALSE
      OBVIOUS
    <3>1. n \in 1 .. m /\ k = N - m + (n - 1 + 1)
      BY <1>2, <2>2 DEF m
    <3> QED
      BY <1>1, <1>2, <3>1
  <2>5. IsBranch(pg[n])
    BY <2>4, PageReads DEF D
  <2> QED
    BY <2>3, <2>5 DEF IsBranch, LeafRecords
<1>11. \A j \in 1 .. m : nds[j].lo \in Nat /\ nds[j].hi \in Nat /\ 1 <= nds[j].lo /\ nds[j].lo <= nds[j].hi + 1
  <2> SUFFICES ASSUME NEW j \in 1 .. m PROVE nds[j].lo \in Nat /\ nds[j].hi \in Nat /\ 1 <= nds[j].lo /\ nds[j].lo <= nds[j].hi + 1
    OBVIOUS
  <2>1. j \in 1 .. N
    BY <1>1, <1>2
  <2> QED
    BY <2>1, HeldTypes, LeafHolds DEF N, m
<1>12. \A j \in 1 .. m : /\ LeafRecords(pg[j]) \in Seq(Rec) /\ Len(LeafRecords(pg[j])) = nds[j].hi - nds[j].lo + 1
                         /\ \A i \in 1 .. (nds[j].hi - nds[j].lo + 1) : LeafRecords(pg[j])[i] = E[nds[j].lo + i - 1]
  BY LeafHolds DEF m
<1>13. \A k \in 1 .. N : ~(k <= N - m) => k - (N - m) \in 1 .. m /\ N - m + (k - (N - m)) = k
  BY <1>1, <1>2
<1>14. s \in Seq(Seq(Rec)) /\ Len(s) = N /\ \A k \in 1 .. N : s[k] = LeafRecords(v[k])
  <2>1. ASSUME NEW k \in 1 .. N PROVE LeafRecords(v[k]) \in Seq(Rec)
    <3>1. CASE k <= N - m
      <4>1. <<>> \in Seq(Rec)
        OBVIOUS
      <4> QED
        BY <1>10, <3>1, <4>1
    <3>2. CASE ~(k <= N - m)
      <4>1. PICK j \in 1 .. m : j = k - (N - m) /\ N - m + j = k
        BY <1>13, <3>2
      <4> QED
        BY <1>9, <1>12, <4>1
    <3> QED
      BY <3>1, <3>2
  <2> QED
    BY <1>1, <1>7, <2>1
<1>15. \A k \in 0 .. N : o[k] = IF k <= N - m THEN 0 ELSE nds[k - (N - m)].hi
  OBVIOUS
<1>16. o \in [0 .. N -> Nat] /\ o[0] = 0 /\ o[N] = nds[m].hi
  <2>1. \A k \in 0 .. N : k <= N - m \/ k - (N - m) \in 1 .. m
    BY <1>1, <1>2
  <2>2. \A k \in 0 .. N : (IF k <= N - m THEN 0 ELSE nds[k - (N - m)].hi) \in Nat
    BY <1>11, <2>1
  <2>3. 0 \in 0 .. N /\ 0 <= N - m /\ N \in 0 .. N /\ ~(N <= N - m) /\ N - (N - m) = m
    BY <1>1, <1>2
  <2> QED
    BY <1>15, <2>2, <2>3
<1> HIDE DEF o
<1>17. \A j \in 1 .. m : nds[j].lo = o[N - m + j - 1] + 1
  <2> SUFFICES ASSUME NEW j \in 1 .. m PROVE nds[j].lo = o[N - m + j - 1] + 1
    OBVIOUS
  <2>1. N - m + j - 1 \in 0 .. N
    BY <1>1, <1>2
  <2>2. CASE j = 1
    <3>1. N - m + j - 1 <= N - m
      BY <1>1, <1>2, <2>2
    <3>2. o[N - m + j - 1] = 0
      BY <1>15, <2>1, <3>1
    <3>3. nds[1].lo = 1
      BY <1>4 DEF Leaves
    <3> QED
      BY <2>2, <3>2, <3>3
  <2>3. CASE j # 1
    <3>1. ~(N - m + j - 1 <= N - m) /\ (N - m + j - 1) - (N - m) = j - 1 /\ j - 1 \in 1 .. (m - 1) /\ (j - 1) + 1 = j
      BY <1>1, <1>2, <2>3
    <3>2. o[N - m + j - 1] = nds[j - 1].hi
      BY <1>15, <2>1, <3>1
    <3>3. nds[(j - 1) + 1].lo = nds[j - 1].hi + 1
      BY <1>4, <3>1 DEF Leaves, InLine
    <3> QED
      BY <3>1, <3>2, <3>3
  <2> QED
    BY <2>2, <2>3
<1>18. Offsets(s, o)
  <2>1. ASSUME NEW k \in 1 .. N PROVE o[k] = o[k - 1] + Len(s[k])
    <3>1. k \in 0 .. N /\ k - 1 \in 0 .. N
      BY <1>1
    <3>2. CASE k <= N - m
      <4>1. k - 1 <= N - m
        BY <1>1, <1>2, <3>2
      <4>2. o[k] = 0 /\ o[k - 1] = 0 /\ s[k] = <<>>
        BY <1>10, <1>14, <1>15, <3>1, <3>2, <4>1
      <4>3. Len(s[k]) = 0
        BY <4>2
      <4> QED
        BY <4>2, <4>3
    <3>3. CASE ~(k <= N - m)
      <4>1. PICK j \in 1 .. m : j = k - (N - m) /\ N - m + j = k
        BY <1>13, <3>3
      <4>2. PICK l \in Nat, x \in Nat : l = nds[j].lo /\ x = nds[j].hi /\ l <= x + 1
        BY <1>11
      <4>3. o[k] = x
        BY <1>15, <3>1, <3>3, <4>1, <4>2
      <4>4. N - m + j - 1 = k - 1
        BY <1>1, <1>2, <4>1
      <4>5. l = o[k - 1] + 1 /\ o[k - 1] \in Nat
        BY <1>16, <1>17, <3>1, <4>2, <4>4
      <4>6. Len(s[k]) = x - l + 1
        <5>1. s[k] = LeafRecords(pg[j])
          BY <1>9, <1>14, <4>1
        <5>2. Len(LeafRecords(pg[j])) = nds[j].hi - nds[j].lo + 1
          BY <1>12
        <5> QED
          BY <4>2, <5>1, <5>2
      <4> QED
        BY <4>3, <4>5, <4>6, SMTT(30)
    <3> QED
      BY <3>2, <3>3
  <2> QED
    BY <1>14, <1>16, <2>1 DEF Offsets
<1>19. Len(E) = o[Len(s)]
  <2>1. nds[m].hi = Len(E)
    BY <1>4 DEF Leaves
  <2> QED
    BY <1>14, <1>16, <2>1
<1>20. ASSUME NEW k \in 1 .. Len(s), NEW i \in 1 .. Len(s[k]) PROVE E[o[k - 1] + i] = s[k][i]
  <2>0. k \in 1 .. N /\ k - 1 \in 0 .. N
    BY <1>1, <1>14
  <2>1. ~(k <= N - m)
    <3> SUFFICES ASSUME k <= N - m PROVE FALSE
      OBVIOUS
    <3>1. s[k] = <<>>
      BY <1>10, <1>14, <2>0
    <3>2. Len(s[k]) = 0
      BY <3>1
    <3> QED
      BY <1>20, <3>2
  <2>2. PICK j \in 1 .. m : j = k - (N - m) /\ N - m + j = k
    BY <1>13, <2>0, <2>1
  <2>3. PICK l \in Nat, x \in Nat : l = nds[j].lo /\ x = nds[j].hi /\ l <= x + 1
    BY <1>11
  <2>4. N - m + j - 1 = k - 1
    BY <1>1, <1>2, <2>2
  <2>5. l = o[k - 1] + 1 /\ o[k - 1] \in Nat
    BY <1>16, <1>17, <2>0, <2>3, <2>4
  <2>6. s[k] = LeafRecords(pg[j])
    BY <1>9, <1>14, <2>0, <2>2
  <2>7. i \in 1 .. (x - l + 1)
    BY <1>12, <1>20, <2>3, <2>6
  <2>8. s[k][i] = E[l + i - 1]
    BY <1>12, <2>3, <2>6, <2>7
  <2>9. l + i - 1 = o[k - 1] + i
    BY <2>5, <2>7, SMTT(30)
  <2> QED
    BY <2>8, <2>9
<1>21. FlattenSeq(s) = E
  BY <1>3, <1>14, <1>18, <1>19, <1>20, FlattenIs
<1> QED
  BY <1>8, <1>21 DEF v

-----------------------------------------------------------------------------
(* Reading the tree back: separators bound their children. *)

Reach(E, nds, n) == {E[i] : i \in nds[n].lo .. nds[n].hi}

\* Together nodes in line cover a stretch of entries.
LEMMA Stretch ==
  ASSUME NEW nds, NEW a \in Nat, NEW b \in Nat, a <= b, InLine(nds, a, b),
         \A j \in a .. b : nds[j].lo \in Nat /\ nds[j].hi \in Nat /\ nds[j].lo <= nds[j].hi
  PROVE  /\ \A i \in nds[a].lo .. nds[b].hi : \E k \in a .. b : i \in nds[k].lo .. nds[k].hi
         /\ \A k \in a .. b : nds[a].lo <= nds[k].lo /\ nds[k].hi <= nds[b].hi
<1> DEFINE m == b - a
           Q == {n \in 0 .. m : \A i \in nds[a].lo .. nds[a + n].hi : \E k \in a .. (a + n) : i \in nds[k].lo .. nds[k].hi}
<1>1. m \in Nat /\ a + m = b
  OBVIOUS
<1>2. 0 \in Q
  BY <1>1
<1>3. ASSUME NEW n \in 0 .. m, n \in Q, n + 1 <= m PROVE n + 1 \in Q
  <2>1. /\ n + 1 \in 0 .. m /\ a + n \in a .. (b - 1) /\ a + n \in a .. b /\ a + (n + 1) \in a .. b
        /\ (a + n) + 1 = a + (n + 1) /\ n \in Nat /\ a \in a .. b
    BY <1>1, <1>3
  <2>2. nds[a + (n + 1)].lo = nds[a + n].hi + 1
    BY <2>1 DEF InLine
  <2>3. ASSUME NEW i \in nds[a].lo .. nds[a + (n + 1)].hi PROVE \E k \in a .. (a + (n + 1)) : i \in nds[k].lo .. nds[k].hi
    <3>0. nds[a].lo \in Nat /\ nds[a + n].hi \in Nat /\ nds[a + (n + 1)].hi \in Nat
      BY <2>1
    <3>1. CASE i <= nds[a + n].hi
      <4>1. i \in nds[a].lo .. nds[a + n].hi
        BY <2>3, <3>0, <3>1
      <4>2. PICK k \in a .. (a + n) : i \in nds[k].lo .. nds[k].hi
        BY <1>3, <4>1
      <4>3. k \in a .. (a + (n + 1))
        BY <2>1
      <4> QED
        BY <4>2, <4>3
    <3>2. CASE ~(i <= nds[a + n].hi)
      <4>1. i \in nds[a + (n + 1)].lo .. nds[a + (n + 1)].hi
        BY <2>2, <2>3, <3>0, <3>2
      <4>2. a + (n + 1) \in a .. (a + (n + 1))
        BY <2>1
      <4> QED
        BY <4>1, <4>2
    <3> QED
      BY <3>1, <3>2
  <2> QED
    BY <2>1, <2>3
<1> HIDE DEF Q
<1>4. m \in Q
  <2>1. \A n \in 0 .. m : n \in Q
    <3> HIDE DEF m
    <3> QED
      BY <1>1, <1>2, <1>3, Induct
  <2> QED
    BY <1>1, <2>1
<1>5. \A i \in nds[a].lo .. nds[b].hi : \E k \in a .. b : i \in nds[k].lo .. nds[k].hi
  <2> HIDE DEF m
  <2> QED
    BY <1>1, <1>4 DEF Q
<1>6. \A i, j \in a .. b : i < j => nds[i].hi < nds[j].lo
  BY LaterCovers
<1>7. ASSUME NEW k \in a .. b PROVE nds[a].lo <= nds[k].lo /\ nds[k].hi <= nds[b].hi
  <2>1. a \in a .. b /\ b \in a .. b
    OBVIOUS
  <2>2. PICK p \in Nat, q \in Nat, x \in Nat, y \in Nat, u \in Nat, w \in Nat :
          p = nds[a].lo /\ q = nds[a].hi /\ x = nds[k].lo /\ y = nds[k].hi /\ u = nds[b].lo /\ w = nds[b].hi
    BY <2>1
  <2>3. p <= q /\ x <= y /\ u <= w
    BY <2>1, <2>2
  <2>4. k = a \/ q < x
    BY <1>6, <2>1, <2>2
  <2>5. k = b \/ y < u
    BY <1>6, <2>1, <2>2
  <2> QED
    BY <2>2, <2>3, <2>4, <2>5
<1> QED
  BY <1>5, <1>7

\* Each level is in line.
LEMMA LevelInLine ==
  ASSUME NEW E, NEW nds, NEW lev, Forest(E, nds, lev), NEW h \in 1 .. Len(lev)
  PROVE  InLine(nds, lev[h][1], lev[h][2])
<1>1. CASE h = 1
  BY <1>1 DEF Forest, Leaves
<1>2. CASE h # 1
  <2>1. h \in 2 .. Len(lev)
    BY <1>2, ForestTypes
  <2>2. Adopted(E, nds, lev[h][1], lev[h][2], lev[h - 1][1], lev[h - 1][2])
    BY <2>1 DEF Forest
  <2> QED
    BY <2>2 DEF Adopted
<1> QED
  BY <1>1, <1>2

\* The children of a node are in line one level below.
LEMMA KidsInLine ==
  ASSUME NEW E, NEW nds, NEW lev, NEW pg, Holds(pages, mapped, E, nds, lev, pg),
         NEW h \in 2 .. Len(lev), NEW n \in lev[h][1] .. lev[h][2]
  PROVE  /\ n \in 1 .. Len(nds) /\ n > lev[1][2] /\ h - 1 \in 1 .. Len(lev)
         /\ lev[h - 1][1] <= nds[n].kids[1] /\ nds[n].kids[2] <= lev[h - 1][2] /\ lev[h - 1][2] <= Len(nds) /\ 1 <= lev[h - 1][1]
         /\ nds[n].kids[1] \in Nat /\ nds[n].kids[2] \in Nat /\ nds[n].kids[1] <= nds[n].kids[2]
         /\ InLine(nds, nds[n].kids[1], nds[n].kids[2])
         /\ nds[n].lo = nds[nds[n].kids[1]].lo /\ nds[n].hi = nds[nds[n].kids[2]].hi
         /\ \A j \in 1 .. Len(nds) : nds[j].lo \in Nat /\ nds[j].hi \in Nat /\ nds[j].lo <= nds[j].hi
<1>1. Forest(E, nds, lev) /\ Len(lev) \in Nat /\ Len(nds) \in Nat /\ Full(E, nds)
  BY HeldTypes
<1>2. h \in 1 .. Len(lev) /\ h - 1 \in 1 .. Len(lev) /\ 1 \in 1 .. Len(lev) /\ 1 < h
  BY <1>1
<1>3. PICK a \in Nat, b \in Nat, x \in Nat, y \in Nat, m \in Nat :
        /\ a = lev[h][1] /\ b = lev[h][2] /\ x = lev[h - 1][1] /\ y = lev[h - 1][2] /\ m = lev[1][2]
        /\ 1 <= a /\ b <= Len(nds) /\ 1 <= x /\ y <= Len(nds)
  <2>1. \A d \in 1 .. Len(lev) : lev[d][1] \in Nat /\ lev[d][2] \in Nat /\ 1 <= lev[d][1] /\ lev[d][2] <= Len(nds)
    BY HeldTypes
  <2>2. /\ lev[h][1] \in Nat /\ lev[h][2] \in Nat /\ lev[h - 1][1] \in Nat /\ lev[h - 1][2] \in Nat /\ lev[1][2] \in Nat
        /\ 1 <= lev[h][1] /\ lev[h][2] <= Len(nds) /\ 1 <= lev[h - 1][1] /\ lev[h - 1][2] <= Len(nds)
    BY <1>2, <2>1
  <2> QED
    BY <2>2
<1>4. lev[1][2] < lev[h][1]
  BY <1>1, <1>2, LevelsApart
<1>5. n \in 1 .. Len(nds) /\ n > m
  BY <1>1, <1>3, <1>4, SMTT(30)
<1>6. PICK k \in Nat, l \in Nat : k = nds[n].kids[1] /\ l = nds[n].kids[2]
  BY <1>5, HeldTypes
<1>7. Adopted(E, nds, a, b, x, y)
  BY <1>1, <1>3 DEF Forest
<1>8. IsParent(E, nds, n) /\ x <= k /\ l <= y
  BY <1>3, <1>6, <1>7 DEF Adopted
<1>9. k <= l /\ nds[n].lo = nds[k].lo /\ nds[n].hi = nds[l].hi
  BY <1>6, <1>8 DEF IsParent
<1>10. InLine(nds, x, y)
  BY <1>1, <1>2, <1>3, LevelInLine
<1>11. InLine(nds, k, l)
  <2>1. \A j \in k .. (l - 1) : j \in x .. (y - 1)
    BY <1>8
  <2> QED
    BY <1>10, <2>1 DEF InLine
<1>12. \A j \in 1 .. Len(nds) : nds[j].lo \in Nat /\ nds[j].hi \in Nat /\ nds[j].lo <= nds[j].hi
  <2>1. Len(nds) # 1
    <3>1. PICK N \in Nat : N = Len(nds) /\ n \in 1 .. N
      BY <1>1, <1>5
    <3>2. 1 <= k /\ l < n
      BY <1>6, <1>8 DEF IsParent
    <3>3. N >= 2
      BY <1>9, <3>1, <3>2
    <3> QED
      BY <3>1, <3>3
  <2>2. \A j \in 1 .. Len(nds) : nds[j].lo <= nds[j].hi
    BY <1>1, <2>1 DEF Full
  <2> QED
    BY <2>2, HeldTypes
<1> QED
  BY <1>2, <1>3, <1>5, <1>6, <1>8, <1>9, <1>11, <1>12

\* What a page that is read may hold.
LEMMA PageKinds ==
  ASSUME NEW E, NEW nds, NEW lev, NEW pg, Holds(pages, mapped, E, nds, lev, pg)
  PROVE  \A p \in PageIds : Range(Children(p)) \subseteq PageIds
<1> SUFFICES ASSUME NEW p \in PageIds PROVE Range(Children(p)) \subseteq PageIds
  OBVIOUS
<1>0. 1 \in 1 .. Len(lev) /\ Len(nds) \in Nat
  BY HeldTypes
<1>00. lev[1][2] \in Nat
  BY <1>0, HeldTypes
<1>1. Range(<<>>) = {}
  BY DEF Range
<1>2. ASSUME NEW n \in 1 .. Len(nds), p = pg[n] PROVE Range(Children(p)) \subseteq PageIds
  <2>1. CASE n <= lev[1][2]
    BY <1>1, <1>2, <2>1, ChildrenAre
  <2>2. CASE n > lev[1][2]
    <3>1. Children(p) \in Seq(PageIds)
      BY <1>2, <2>2, ChildrenAre
    <3> QED
      BY <3>1 DEF Range
  <2> QED
    BY <1>0, <1>00, <2>1, <2>2
<1>3. CASE \A n \in 1 .. Len(nds) : pg[n] # p
  <2>1. pages[p] = Stale
    BY <1>3 DEF Holds, OnPages
  <2> QED
    BY <1>1, <2>1 DEF Stale, Children, IsBranch
<1> QED
  BY <1>2, <1>3

\* below: what lies under a page are the entries its node covers.
LEMMA BelowIs ==
  ASSUME NEW E, NEW nds, NEW lev, NEW pg, Holds(pages, mapped, E, nds, lev, pg)
  PROVE  \A n \in 1 .. Len(nds) : Below(Levels)[pg[n]] = Reach(E, nds, n)
<1> DEFINE D == Len(lev)
           N == Len(nds)
           Under(f, p) == UNION {f[c] : c \in Range(Children(p))}
           Own(p) == Range(LeafRecords(p))
           IsBelow(f) == f = [n \in 0 .. MaxDepth |-> [p \in PageIds |-> IF IsBranch(p) /\ n > 0 THEN Under(f[n - 1], p) ELSE Own(p)]]
           below == CHOOSE f : IsBelow(f)
           Z == UNION {Own(p) : p \in PageIds}
           X == [PageIds -> SUBSET Z]
           G == [z \in (1 .. MaxDepth) \X X |-> [p \in PageIds |-> IF IsBranch(p) THEN Under(z[2], p) ELSE Own(p)]]
           x0 == [p \in PageIds |-> Own(p)]
<1>1. D \in Nat /\ 1 <= D /\ D <= MaxDepth /\ MaxDepth \in Nat /\ N \in Nat
  BY HeldTypes
<1>2. Below(Levels) = below[Cardinality({d \in Depths : Levels[d] # <<>>})]
  BY DEF Below
<1> HIDE DEF D, N
<1>3. \A p \in PageIds : Own(p) \subseteq Z
  OBVIOUS
<1>4. \A p \in PageIds : Range(Children(p)) \subseteq PageIds
  BY PageKinds
<1> HIDE DEF Own, Z
<1>5. x0 \in X
  BY <1>3
<1>6. \A f \in X, p \in PageIds : Under(f, p) \subseteq Z
  BY <1>4
<1> HIDE DEF Under
<1>7. G \in [(1 .. MaxDepth) \X X -> X]
  <2>1. \A z \in (1 .. MaxDepth) \X X : [p \in PageIds |-> IF IsBranch(p) THEN Under(z[2], p) ELSE Own(p)] \in X
    <3> SUFFICES ASSUME NEW z \in (1 .. MaxDepth) \X X
                 PROVE [p \in PageIds |-> IF IsBranch(p) THEN Under(z[2], p) ELSE Own(p)] \in X
      OBVIOUS
    <3>1. z[2] \in X
      OBVIOUS
    <3>2. \A p \in PageIds : Under(z[2], p) \subseteq Z
      BY <1>6, <3>1
    <3> QED
      BY <1>3, <3>2
  <2> HIDE DEF X
  <2> QED
    BY <2>1
<1>8. \A i \in 1 .. MaxDepth, f \in X : G[<<i, f>>] = [p \in PageIds |-> IF IsBranch(p) THEN Under(f, p) ELSE Own(p)]
  OBVIOUS
<1> HIDE DEF X, G, x0
<1>9. PICK u : Follows(u, MaxDepth, X, x0, G)
  BY <1>1, <1>5, <1>7, Recursion
<1>10. /\ u \in [0 .. MaxDepth -> X] /\ u[0] = x0
       /\ \A i \in 1 .. MaxDepth : u[i] = [p \in PageIds |-> IF IsBranch(p) THEN Under(u[i - 1], p) ELSE Own(p)]
  <2>1. u \in [0 .. MaxDepth -> X] /\ u[0] = x0 /\ \A i \in 1 .. MaxDepth : u[i] = G[<<i, u[i - 1]>>]
    BY <1>9 DEF Follows
  <2>2. \A i \in 1 .. MaxDepth : i - 1 \in 0 .. MaxDepth
    BY <1>1
  <2>3. \A i \in 1 .. MaxDepth : u[i - 1] \in X
    BY <2>1, <2>2
  <2> QED
    BY <1>8, <2>1, <2>3
<1>11. IsBelow(u)
  <2>1. ASSUME NEW n \in 0 .. MaxDepth
        PROVE u[n] = [p \in PageIds |-> IF IsBranch(p) /\ n > 0 THEN Under(u[n - 1], p) ELSE Own(p)]
    <3>1. CASE n = 0
      <4>1. ~(n > 0)
        BY <3>1
      <4>2. [p \in PageIds |-> IF IsBranch(p) /\ n > 0 THEN Under(u[n - 1], p) ELSE Own(p)] = [p \in PageIds |-> Own(p)]
        BY <4>1
      <4> QED
        BY <1>10, <3>1, <4>2 DEF x0
    <3>2. CASE n # 0
      <4>1. n > 0 /\ n \in 1 .. MaxDepth
        BY <1>1, <3>2
      <4> QED
        BY <1>10, <4>1
    <3> QED
      BY <3>1, <3>2
  <2> QED
    BY <1>10, <2>1
<1>12. IsBelow(below)
  BY <1>11
<1> HIDE DEF below
<1>13. /\ \A n \in 0 .. MaxDepth, p \in PageIds : ~IsBranch(p) => below[n][p] = Own(p)
       /\ \A n \in 1 .. MaxDepth, p \in PageIds : IsBranch(p) => below[n][p] = Under(below[n - 1], p)
  <2>1. \A n \in 0 .. MaxDepth, p \in PageIds : below[n][p] = IF IsBranch(p) /\ n > 0 THEN Under(below[n - 1], p) ELSE Own(p)
    <3> DEFINE Val(n) == [p \in PageIds |-> IF IsBranch(p) /\ n > 0 THEN Under(below[n - 1], p) ELSE Own(p)]
    <3>1. below = [n \in 0 .. MaxDepth |-> Val(n)]
      BY <1>12
    <3>2. \A n \in 0 .. MaxDepth : below[n] = Val(n)
      <4> HIDE DEF Val
      <4> QED
        BY <3>1
    <3> QED
      BY <3>2
  <2>2. \A n \in 1 .. MaxDepth : n \in 0 .. MaxDepth /\ n > 0
    BY <1>1
  <2> QED
    BY <2>1, <2>2
<1> DEFINE Right(h) == \A n \in lev[h][1] .. lev[h][2] : \A m \in (h - 1) .. MaxDepth : below[m][pg[n]] = Reach(E, nds, n)
           Q == {h \in 0 .. D : h = 0 \/ Right(h)}
<1>14. pg \in [1 .. N -> PageIds] /\ Ascending(E)
  BY HeldTypes DEF N
<1>15. Right(1)
  <2> SUFFICES ASSUME NEW n \in lev[1][1] .. lev[1][2], NEW m \in 0 .. MaxDepth PROVE below[m][pg[n]] = Reach(E, nds, n)
    OBVIOUS
  <2>1. lev[1][1] = 1 /\ n \in 1 .. lev[1][2]
    BY HeldTypes
  <2>2. PICK lo \in Nat, hi \in Nat : lo = nds[n].lo /\ hi = nds[n].hi /\ n \in 1 .. N
    <3>1. n \in 1 .. Len(nds)
      BY <2>1, LeafHolds
    <3>2. nds[n].lo \in Nat /\ nds[n].hi \in Nat
      BY <3>1, HeldTypes
    <3> QED
      BY <3>1, <3>2 DEF N
  <2>3. /\ pages[pg[n]].kind = "leaf" /\ LeafRecords(pg[n]) \in Seq(Rec) /\ Len(LeafRecords(pg[n])) = hi - lo + 1
        /\ \A i \in 1 .. (hi - lo + 1) : LeafRecords(pg[n])[i] = E[lo + i - 1]
    BY <2>1, <2>2, LeafHolds
  <2>4. ~IsBranch(pg[n]) /\ pg[n] \in PageIds
    BY <1>14, <2>2, <2>3 DEF IsBranch
  <2>5. below[m][pg[n]] = Range(LeafRecords(pg[n]))
    BY <1>13, <2>4 DEF Own
  <2>6. DOMAIN LeafRecords(pg[n]) = 1 .. (hi - lo + 1)
    BY <2>3
  <2>7. ASSUME NEW x \in Range(LeafRecords(pg[n])) PROVE x \in Reach(E, nds, n)
    <3>1. PICK i \in 1 .. (hi - lo + 1) : x = E[lo + i - 1]
      BY <2>3, <2>6, <2>7 DEF Range
    <3>2. lo + i - 1 \in lo .. hi
      OBVIOUS
    <3> QED
      BY <2>2, <3>1, <3>2 DEF Reach
  <2>8. ASSUME NEW x \in Reach(E, nds, n) PROVE x \in Range(LeafRecords(pg[n]))
    <3>1. PICK i \in lo .. hi : x = E[i]
      BY <2>2, <2>8 DEF Reach
    <3>2. PICK j \in 1 .. (hi - lo + 1) : lo + j - 1 = i
      <4>1. (i - lo + 1) \in 1 .. (hi - lo + 1) /\ lo + (i - lo + 1) - 1 = i
        OBVIOUS
      <4> QED
        BY <4>1
    <3> QED
      BY <2>3, <2>6, <3>1, <3>2 DEF Range
  <2> QED
    BY <2>5, <2>7, <2>8
<1>16. ASSUME NEW h \in 2 .. D, Right(h - 1) PROVE Right(h)
  <2> SUFFICES ASSUME NEW n \in lev[h][1] .. lev[h][2], NEW m \in (h - 1) .. MaxDepth PROVE below[m][pg[n]] = Reach(E, nds, n)
    OBVIOUS
  <2>1. /\ n \in 1 .. N /\ n > lev[1][2] /\ h - 1 \in 1 .. D
        /\ lev[h - 1][1] <= nds[n].kids[1] /\ nds[n].kids[2] <= lev[h - 1][2] /\ lev[h - 1][2] <= N /\ 1 <= lev[h - 1][1]
        /\ nds[n].kids[1] \in Nat /\ nds[n].kids[2] \in Nat /\ nds[n].kids[1] <= nds[n].kids[2]
        /\ InLine(nds, nds[n].kids[1], nds[n].kids[2])
        /\ nds[n].lo = nds[nds[n].kids[1]].lo /\ nds[n].hi = nds[nds[n].kids[2]].hi
        /\ \A j \in 1 .. N : nds[j].lo \in Nat /\ nds[j].hi \in Nat /\ nds[j].lo <= nds[j].hi
    BY KidsInLine DEF N, D
  <2>2. PICK a \in Nat, b \in Nat : a = nds[n].kids[1] /\ b = nds[n].kids[2]
    BY <2>1
  <2>3. PICK x \in Nat, y \in Nat : x = lev[h - 1][1] /\ y = lev[h - 1][2]
    BY <2>1, HeldTypes DEF D
  <2>4. 1 <= x /\ x <= a /\ a <= b /\ b <= y /\ y <= N /\ InLine(nds, a, b) /\ nds[n].lo = nds[a].lo /\ nds[n].hi = nds[b].hi
    BY <2>1, <2>2, <2>3
  <2>5. \A k \in a .. b : k \in x .. y /\ k \in 1 .. N
    BY <1>1, <2>4
  <2>6. m \in 1 .. MaxDepth /\ m - 1 \in (h - 2) .. MaxDepth /\ m - 1 \in ((h - 1) - 1) .. MaxDepth
    BY <1>1
  <2>7. \A k \in a .. b : below[m - 1][pg[k]] = Reach(E, nds, k)
    BY <1>16, <2>3, <2>5, <2>6
  <2>8. /\ IsBranch(pg[n]) /\ Children(pg[n]) \in Seq(PageIds) /\ Len(Children(pg[n])) = b - a + 1
        /\ \A i \in 1 .. (b - a + 1) : Children(pg[n])[i] = pg[a + i - 1]
    <3>1. /\ IsBranch(pg[n]) /\ Children(pg[n]) \in Seq(PageIds)
          /\ Len(Children(pg[n])) = nds[n].kids[2] - nds[n].kids[1] + 1
          /\ \A i \in 1 .. (nds[n].kids[2] - nds[n].kids[1] + 1) : Children(pg[n])[i] = pg[nds[n].kids[1] + i - 1]
      <4>1. n \in 1 .. Len(nds) /\ n > lev[1][2]
        BY <2>1 DEF N
      <4>2. IsBranch(pg[n]) /\ Children(pg[n]) \in Seq(PageIds)
        BY <4>1, ChildrenAre
      <4>3. ChildList(nds, pg, n)
        BY <4>1, ChildListIs
      <4>4. /\ Len(Children(pg[n])) = nds[n].kids[2] - nds[n].kids[1] + 1
            /\ \A i \in 1 .. (nds[n].kids[2] - nds[n].kids[1] + 1) : Children(pg[n])[i] = pg[nds[n].kids[1] + i - 1]
        BY <4>3 DEF ChildList
      <4> QED
        BY <4>2, <4>4
    <3> QED
      BY <2>2, <3>1
  <2>9. \A c : c \in Range(Children(pg[n])) <=> \E k \in a .. b : c = pg[k]
    <3>1. DOMAIN Children(pg[n]) = 1 .. (b - a + 1)
      BY <2>8
    <3>2. ASSUME NEW c \in Range(Children(pg[n])) PROVE \E k \in a .. b : c = pg[k]
      <4>1. PICK i \in 1 .. (b - a + 1) : c = pg[a + i - 1]
        BY <2>8, <3>1, <3>2 DEF Range
      <4>2. a + i - 1 \in a .. b
        BY <2>4
      <4> QED
        BY <4>1, <4>2
    <3>3. ASSUME NEW k \in a .. b PROVE pg[k] \in Range(Children(pg[n]))
      <4>1. k - a + 1 \in 1 .. (b - a + 1) /\ a + (k - a + 1) - 1 = k
        BY <2>4
      <4>2. Children(pg[n])[k - a + 1] = pg[k]
        BY <2>8, <4>1
      <4> QED
        BY <3>1, <4>1, <4>2 DEF Range
    <3> QED
      BY <3>2, <3>3
  <2>10. pg[n] \in PageIds
    BY <1>14, <2>1
  <2>11. below[m][pg[n]] = UNION {below[m - 1][c] : c \in Range(Children(pg[n]))}
    BY <1>13, <2>6, <2>8, <2>10 DEF Under
  <2>12. \A x2 : x2 \in below[m][pg[n]] <=> \E k \in a .. b : x2 \in Reach(E, nds, k)
    BY <2>7, <2>9, <2>11
  <2>13. \A j \in a .. b : nds[j].lo \in Nat /\ nds[j].hi \in Nat /\ nds[j].lo <= nds[j].hi
    BY <2>1, <2>5
  <2>14. /\ \A i \in nds[a].lo .. nds[b].hi : \E k \in a .. b : i \in nds[k].lo .. nds[k].hi
         /\ \A k \in a .. b : nds[a].lo <= nds[k].lo /\ nds[k].hi <= nds[b].hi
    BY <2>4, <2>13, Stretch
  <2>15. ASSUME NEW z, NEW k \in a .. b, z \in Reach(E, nds, k) PROVE z \in Reach(E, nds, n)
    <3>1. PICK i \in nds[k].lo .. nds[k].hi : z = E[i]
      BY <2>15 DEF Reach
    <3>2. a \in a .. b /\ b \in a .. b
      BY <2>4
    <3>3. i \in nds[n].lo .. nds[n].hi
      BY <2>4, <2>13, <2>14, <3>2
    <3> QED
      BY <3>1, <3>3 DEF Reach
  <2>16. ASSUME NEW z \in Reach(E, nds, n) PROVE \E k \in a .. b : z \in Reach(E, nds, k)
    <3>1. PICK i \in nds[n].lo .. nds[n].hi : z = E[i]
      BY <2>16 DEF Reach
    <3>2. PICK k \in a .. b : i \in nds[k].lo .. nds[k].hi
      BY <2>4, <2>14
    <3> QED
      BY <3>1, <3>2 DEF Reach
  <2> QED
    BY <2>12, <2>15, <2>16
<1>17. \A h \in 0 .. D : h \in Q
  <2>1. 0 \in Q
    BY <1>1
  <2>2. ASSUME NEW h \in 0 .. D, h \in Q, h + 1 <= D PROVE h + 1 \in Q
    <3> HIDE DEF Right
    <3>1. h + 1 \in 0 .. D
      BY <1>1, <2>2
    <3>2. CASE h = 0
      BY <1>15, <3>1, <3>2
    <3>3. CASE h # 0
      <4>1. h + 1 \in 2 .. D /\ (h + 1) - 1 = h
        BY <1>1, <2>2, <3>3
      <4>2. Right(h)
        BY <2>2, <3>3
      <4>3. Right(h + 1)
        BY <1>16, <4>1, <4>2
      <4> QED
        BY <3>1, <4>3
    <3> QED
      BY <3>2, <3>3
  <2> HIDE DEF Q
  <2> QED
    BY <1>1, <2>1, <2>2, Induct
<1>18. {d \in Depths : Levels[d] # <<>>} = 1 .. D
  <2>1. \A d \in Depths : Levels[d] = IF d <= D THEN Row(lev, pg, D + 1 - d) ELSE <<>>
    BY LevelsAre DEF D
  <2>2. ASSUME NEW d \in 1 .. D PROVE Row(lev, pg, D + 1 - d) # <<>>
    <3>1. PICK h \in 1 .. D : h = D + 1 - d
      BY <1>1
    <3>2. PICK a \in Nat, b \in Nat : a = lev[h][1] /\ b = lev[h][2] /\ a <= b
      BY HeldTypes, SMTT(30) DEF D
    <3>3. DOMAIN Row(lev, pg, h) = 1 .. (b - a + 1)
      BY <3>2 DEF Row
    <3>4. 1 \in DOMAIN Row(lev, pg, h)
      BY <3>2, <3>3
    <3> QED
      BY <3>1, <3>4
  <2>3. \A d \in Depths : d <= D <=> d \in 1 .. D
    BY <1>1 DEF Depths
  <2>4. 1 .. D \subseteq Depths
    BY <1>1 DEF Depths
  <2> QED
    BY <2>1, <2>2, <2>3, <2>4
<1>19. Cardinality(1 .. D) = D
  BY <1>1, FS_Interval
<1>20. Below(Levels) = below[D]
  BY <1>2, <1>18, <1>19
<1>21. ASSUME NEW n \in 1 .. N PROVE below[D][pg[n]] = Reach(E, nds, n)
  <2>1. PICK h \in 1 .. D : n \in lev[h][1] .. lev[h][2]
    <3>1. Forest(E, nds, lev) /\ n \in 1 .. lev[Len(lev)][2]
      BY HeldTypes DEF N
    <3> QED
      BY <3>1, SomeLevel DEF D
  <2>2. h \in 0 .. D /\ h # 0 /\ D \in (h - 1) .. MaxDepth
    BY <1>1
  <2>3. Right(h)
    <3> HIDE DEF Right
    <3> QED
      BY <1>17, <2>2
  <2> QED
    BY <2>1, <2>2, <2>3
<1> QED
  BY <1>20, <1>21 DEF N

\* Of two records only one comes before the other.
LEMMA LessOneWay ==
  ASSUME NEW r \in Rec, NEW q \in Rec
  PROVE  ~Less(r, r) /\ (Less(r, q) => ~Less(q, r))
<1>1. \A x \in Rec : x.key \in Nat /\ x.row \in Nat
  <2>1. Keys \subseteq Nat /\ Rows \subseteq Nat
    BY IndexAssumption, FS_CardinalityType
  <2> QED
    BY <2>1 DEF Rec
<1>2. r.key \in Nat /\ r.row \in Nat /\ q.key \in Nat /\ q.row \in Nat
  BY <1>1
<1> QED
  BY <1>2 DEF Less

\* mutation_structure::validate accepts the tree.
LEMMA StructureIsValid ==
  ASSUME NEW E, NEW nds, NEW lev, NEW pg, Holds(pages, mapped, E, nds, lev, pg)
  PROVE  StructureValid(Levels, FlattenSeq(Levels))
<1> DEFINE N == Len(nds)
           bel == Below(Levels)
<1>1. \A p \in Range(FlattenSeq(Levels)) : \E n \in 1 .. N : p = pg[n]
  BY TreeIsRead
<1>2. \A n \in 1 .. N : bel[pg[n]] = Reach(E, nds, n)
  BY BelowIs
<1>3. Len(lev) \in Nat /\ N \in Nat /\ 1 \in 1 .. Len(lev) /\ lev[1][1] = 1 /\ Ascending(E)
  BY HeldTypes
<1>4. lev[1][2] \in Nat
  BY <1>3, HeldTypes
<1>5. Len(E) \in Nat /\ (\A i \in 1 .. Len(E) : E[i] \in Rec) /\ \A i, j \in 1 .. Len(E) : i < j => Less(E[i], E[j])
  BY <1>3, WidthsType DEF Ascending
<1>55. ASSUME NEW n \in 1 .. Len(nds), n > lev[1][2]
       PROVE  Len(pages[pg[n]].items) = nds[n].kids[2] - nds[n].kids[1] /\ pages[pg[n]].items \in Seq([record : Rec, child : PageIds])
  <2>1. Len(pages[pg[n]].items) = nds[n].kids[2] - nds[n].kids[1]
    <3>1. BranchPage(E, nds, pg, n)
      BY <1>55, BranchHolds
    <3> QED
      BY <3>1 DEF BranchPage
  <2>2. pages[pg[n]].items \in Seq([record : Rec, child : PageIds])
    BY <1>55, BranchHolds, Zenon
  <2> QED
    BY <2>1, <2>2, Zenon
<1>56. ASSUME NEW n \in 1 .. Len(nds), n > lev[1][2]
       PROVE  /\ IsBranch(pg[n]) /\ Children(pg[n]) \in Seq(PageIds)
              /\ Len(Children(pg[n])) = nds[n].kids[2] - nds[n].kids[1] + 1
              /\ \A i \in 1 .. (nds[n].kids[2] - nds[n].kids[1] + 1) : Children(pg[n])[i] = pg[nds[n].kids[1] + i - 1]
  <2>1. IsBranch(pg[n])
    BY <1>56, ChildrenAre
  <2>2. Children(pg[n]) \in Seq(PageIds)
    BY <1>56, ChildrenAre, Zenon
  <2>3. Len(Children(pg[n])) = nds[n].kids[2] - nds[n].kids[1] + 1
    BY <1>56, ChildrenAre
  <2>4. \A i \in 1 .. (nds[n].kids[2] - nds[n].kids[1] + 1) : Children(pg[n])[i] = pg[nds[n].kids[1] + i - 1]
    BY <1>56, ChildrenAre
  <2> QED
    BY <2>1, <2>2, <2>3, <2>4, Zenon
<1> HIDE DEF bel, N
<1>6. ASSUME NEW n \in 1 .. lev[1][2]
      PROVE  /\ ~IsBranch(pg[n])
             /\ \A i \in 1 .. (Len(pages[pg[n]].items) - 1) : Less(pages[pg[n]].items[i].record, pages[pg[n]].items[i + 1].record)
  <2> DEFINE it == pages[pg[n]].items
  <2>1. PICK lo \in Nat, hi \in Nat : lo = nds[n].lo /\ hi = nds[n].hi
    <3>1. n \in 1 .. Len(nds)
      BY <1>6, LeafHolds
    <3> QED
      BY <3>1, HeldTypes
  <2>2. /\ pages[pg[n]].kind = "leaf" /\ Len(it) = hi - lo + 1 /\ 1 <= lo /\ lo <= hi + 1 /\ hi <= Len(E)
        /\ \A i \in 1 .. (hi - lo + 1) : it[i].record = E[lo + i - 1]
    BY <1>6, <2>1, LeafHolds
  <2> HIDE DEF it
  <2>3. ASSUME NEW i \in 1 .. (Len(it) - 1) PROVE Less(it[i].record, it[i + 1].record)
    <3>1. /\ i \in 1 .. (hi - lo + 1) /\ i + 1 \in 1 .. (hi - lo + 1)
          /\ lo + i - 1 \in 1 .. Len(E) /\ lo + (i + 1) - 1 \in 1 .. Len(E) /\ lo + i - 1 < lo + (i + 1) - 1
      <4>1. i \in 1 .. (hi - lo)
        BY <2>2, <2>3
      <4> QED
        BY <1>5, <2>2, <4>1
    <3>2. it[i].record = E[lo + i - 1] /\ it[i + 1].record = E[lo + (i + 1) - 1]
      BY <2>2, <3>1
    <3> QED
      BY <1>5, <3>1, <3>2
  <2>4. ~IsBranch(pg[n])
    BY <2>2 DEF IsBranch
  <2> QED
    BY <2>3, <2>4 DEF it
<1>7. ASSUME NEW n \in 1 .. N, n > lev[1][2]
      PROVE  /\ IsBranch(pg[n]) /\ \A c \in Range(Children(pg[n])) : bel[c] # {}
             /\ \A i \in DOMAIN pages[pg[n]].items :
                  /\ \A r \in bel[pages[pg[n]].items[i].child] : ~Less(pages[pg[n]].items[i].record, r)
                  /\ \A r \in bel[Children(pg[n])[i + 1]] : Less(pages[pg[n]].items[i].record, r)
  <2> DEFINE it == pages[pg[n]].items
  <2>1. PICK h \in 1 .. Len(lev) : n \in lev[h][1] .. lev[h][2]
    <3>1. Forest(E, nds, lev) /\ n \in 1 .. lev[Len(lev)][2]
      BY HeldTypes DEF N
    <3> QED
      BY <3>1, SomeLevel
  <2>2. h # 1
    <3> SUFFICES ASSUME h = 1 PROVE FALSE
      OBVIOUS
    <3>1. n \in lev[1][1] .. lev[1][2]
      BY <2>1
    <3> QED
      BY <1>3, <1>4, <1>7, <3>1
  <2>3. h \in 2 .. Len(lev)
    BY <1>3, <2>2
  <2>4. PICK a \in Nat, b \in Nat : a = nds[n].kids[1] /\ b = nds[n].kids[2]
    BY HeldTypes DEF N
  <2>5. /\ a <= b /\ InLine(nds, a, b) /\ 1 <= a /\ b <= N
        /\ \A j \in 1 .. N : nds[j].lo \in Nat /\ nds[j].hi \in Nat /\ nds[j].lo <= nds[j].hi
    <3>1. /\ nds[n].kids[1] <= nds[n].kids[2] /\ InLine(nds, nds[n].kids[1], nds[n].kids[2])
          /\ \A j \in 1 .. N : nds[j].lo \in Nat /\ nds[j].hi \in Nat /\ nds[j].lo <= nds[j].hi
      BY <2>1, <2>3, KidsInLine DEF N
    <3>2. nds[n].kids[1] \in 1 .. N /\ nds[n].kids[2] \in 1 .. N
      BY <1>7, ChildrenAre DEF N
    <3>3. a \in 1 .. N /\ b \in 1 .. N
      BY <2>4, <3>2
    <3> QED
      BY <1>3, <2>4, <3>1, <3>3
  <2>51. n \in 1 .. Len(nds) /\ n > lev[1][2]
    BY <1>7 DEF N
  <2>6. /\ Len(it) = b - a /\ it \in Seq([record : Rec, child : PageIds])
        /\ \A i \in 1 .. (b - a) : /\ nds[a + i - 1].hi \in 1 .. Len(E)
                                   /\ it[i].record = E[nds[a + i - 1].hi] /\ it[i].child = pg[a + i - 1]
    <3>1. /\ Len(it) = nds[n].kids[2] - nds[n].kids[1] /\ it \in Seq([record : Rec, child : PageIds])
          /\ \A i \in 1 .. (nds[n].kids[2] - nds[n].kids[1]) :
               /\ nds[nds[n].kids[1] + i - 1].hi \in 1 .. Len(E)
               /\ it[i].record = E[nds[nds[n].kids[1] + i - 1].hi] /\ it[i].child = pg[nds[n].kids[1] + i - 1]
      <4>1. Len(it) = nds[n].kids[2] - nds[n].kids[1] /\ it \in Seq([record : Rec, child : PageIds])
        BY <2>51, <1>55
      <4>2. \A i \in 1 .. (nds[n].kids[2] - nds[n].kids[1]) :
               /\ nds[nds[n].kids[1] + i - 1].hi \in 1 .. Len(E)
               /\ it[i].record = E[nds[nds[n].kids[1] + i - 1].hi] /\ it[i].child = pg[nds[n].kids[1] + i - 1]
        <5>1. BranchItemsAre(E, nds, pg, n)
          BY <2>51, BranchHolds
        <5> QED
          BY <5>1 DEF BranchItemsAre
      <4> QED
        BY <4>1, <4>2
    <3> HIDE DEF it
    <3> QED
      BY <2>4, <3>1
  <2>7. /\ IsBranch(pg[n]) /\ Children(pg[n]) \in Seq(PageIds) /\ Len(Children(pg[n])) = b - a + 1
        /\ \A i \in 1 .. (b - a + 1) : Children(pg[n])[i] = pg[a + i - 1]
    <3>1. /\ IsBranch(pg[n]) /\ Children(pg[n]) \in Seq(PageIds)
          /\ Len(Children(pg[n])) = nds[n].kids[2] - nds[n].kids[1] + 1
          /\ \A i \in 1 .. (nds[n].kids[2] - nds[n].kids[1] + 1) : Children(pg[n])[i] = pg[nds[n].kids[1] + i - 1]
      BY <2>51, <1>56
    <3> QED
      BY <2>4, <3>1
  <2> HIDE DEF it
  <2>8. DOMAIN it = 1 .. (b - a) /\ DOMAIN Children(pg[n]) = 1 .. (b - a + 1)
    BY <2>6, <2>7
  <2>9. ASSUME NEW c \in Range(Children(pg[n])) PROVE bel[c] # {}
    <3>1. PICK i \in 1 .. (b - a + 1) : c = pg[a + i - 1]
      BY <2>7, <2>8, <2>9 DEF Range
    <3>2. PICK k \in 1 .. N : k = a + i - 1
      BY <1>3, <2>5
    <3>3. nds[k].lo \in nds[k].lo .. nds[k].hi
      BY <2>5
    <3>4. E[nds[k].lo] \in Reach(E, nds, k)
      BY <3>3 DEF Reach
    <3> QED
      BY <1>2, <3>1, <3>2, <3>4
  <2>10. ASSUME NEW i \in DOMAIN it
         PROVE  (\A r \in bel[it[i].child] : ~Less(it[i].record, r)) /\ \A r \in bel[Children(pg[n])[i + 1]] : Less(it[i].record, r)
    <3>1. i \in 1 .. (b - a) /\ i \in Nat
      BY <2>8, <2>10
    <3>2. PICK k \in 1 .. N : k = a + i - 1 /\ k + 1 \in 1 .. N /\ k \in a .. (b - 1) /\ a + (i + 1) - 1 = k + 1 /\ i + 1 \in 1 .. (b - a + 1)
      <4>1. 1 <= a /\ b <= N /\ N \in Nat
        BY <1>3, <2>5
      <4>2. /\ a + i - 1 \in 1 .. N /\ (a + i - 1) + 1 \in 1 .. N /\ a + i - 1 \in a .. (b - 1)
            /\ a + (i + 1) - 1 = (a + i - 1) + 1 /\ i + 1 \in 1 .. (b - a + 1)
        BY <3>1, <4>1, SMTT(30)
      <4> QED
        BY <4>2
    <3>3. it[i].record = E[nds[k].hi] /\ it[i].child = pg[k] /\ nds[k].hi \in 1 .. Len(E)
      BY <2>6, <3>1, <3>2
    <3>4. Children(pg[n])[i + 1] = pg[k + 1]
      BY <2>7, <3>2
    <3>5. nds[k + 1].lo = nds[k].hi + 1
      BY <2>5, <3>2 DEF InLine
    <3>6. Forest(E, nds, lev) /\ lev[Len(lev)][2] = N
      BY HeldTypes DEF N
    <3>7. \A j \in 1 .. N : 1 <= nds[j].lo /\ nds[j].hi <= Len(E)
      BY <3>6, Covered
    <3>8. ASSUME NEW r \in Reach(E, nds, k) PROVE ~Less(E[nds[k].hi], r)
      <4>1. PICK j \in nds[k].lo .. nds[k].hi : r = E[j]
        BY <3>8 DEF Reach
      <4>2. PICK x \in Nat, y \in Nat : x = nds[k].lo /\ y = nds[k].hi /\ 1 <= x /\ y <= Len(E)
        BY <2>5, <3>7
      <4>3. j \in 1 .. Len(E) /\ (j = y \/ j < y) /\ y \in 1 .. Len(E)
        BY <1>5, <3>3, <4>1, <4>2, SMTT(30)
      <4>4. E[j] \in Rec /\ E[y] \in Rec
        BY <1>5, <4>3
      <4>5. j < y => Less(E[j], E[y])
        BY <1>5, <4>3
      <4> QED
        BY <4>1, <4>2, <4>3, <4>4, <4>5, LessOneWay
    <3>9. ASSUME NEW r \in Reach(E, nds, k + 1) PROVE Less(E[nds[k].hi], r)
      <4>1. PICK j \in nds[k + 1].lo .. nds[k + 1].hi : r = E[j]
        BY <3>9 DEF Reach
      <4>2. PICK y \in Nat, w \in Nat : y = nds[k].hi /\ w = nds[k + 1].hi /\ w <= Len(E) /\ nds[k + 1].lo = y + 1
        BY <2>5, <3>2, <3>5, <3>7
      <4>3. j \in 1 .. Len(E) /\ y < j /\ y \in 1 .. Len(E)
        BY <1>5, <3>3, <4>1, <4>2, SMTT(30)
      <4> QED
        BY <1>5, <4>1, <4>2, <4>3
    <3> QED
      BY <1>2, <3>2, <3>3, <3>4, <3>8, <3>9
  <2> QED
    BY <2>7, <2>9, <2>10 DEF it
<1>8. ASSUME NEW p \in Range(FlattenSeq(Levels))
      PROVE  LET items == pages[p].items IN
             IF IsBranch(p)
             THEN /\ \A c \in Range(Children(p)) : bel[c] # {}
                  /\ \A i \in DOMAIN items :
                       /\ \A r \in bel[items[i].child] : ~Less(items[i].record, r)
                       /\ \A r \in bel[Children(p)[i + 1]] : Less(items[i].record, r)
             ELSE \A i \in 1 .. Len(items) - 1 : Less(items[i].record, items[i + 1].record)
  <2>1. PICK n \in 1 .. N : p = pg[n]
    BY <1>1
  <2>2. n \in 1 .. lev[1][2] \/ n > lev[1][2]
    BY <1>3, <1>4
  <2>3. CASE n \in 1 .. lev[1][2]
    BY <1>6, <2>1, <2>3
  <2>4. CASE n > lev[1][2]
    BY <1>7, <2>1, <2>4
  <2> QED
    BY <2>2, <2>3, <2>4
<1> QED
  BY <1>8 DEF StructureValid, bel

\* load accepts a tree over the entries of rows that are unique and encodable.
LEMMA LoadIsAccepted ==
  ASSUME NEW nds, NEW lev, NEW pg, Holds(pages, mapped, Entries(rows), nds, lev, pg),
         NoDuplicates(rows), EveryEncodable(rows)
  PROVE  LoadAccepts
<1>1. TreeReads(Levels, FlattenSeq(Levels)) /\ Range(FlattenSeq(Levels)) \subseteq mapped
  BY TreeIsRead
<1>2. StructureValid(Levels, FlattenSeq(Levels))
  BY StructureIsValid
<1>3. ReadEntries(FlattenSeq(Levels)) = Entries(rows)
  BY EntriesAreRead
<1> QED
  BY <1>1, <1>2, <1>3 DEF LoadAccepts, EveryEncodable

\* Doublings are doublings.
LEMMA DoublingsAre ==
  /\ MaxDepth \in Nat /\ Doublings \in [0 .. MaxDepth -> Nat] /\ Doublings[0] = 1
  /\ \A i \in 1 .. MaxDepth : Doublings[i] = 2 * Doublings[i - 1]
<1> DEFINE m == MaxDepth
           G == [z \in (1 .. m) \X Nat |-> 2 * z[2]]
           IsDouble(u) == u = [i \in 0 .. m |-> IF i = 0 THEN 1 ELSE 2 * u[i - 1]]
           twice == CHOOSE u : IsDouble(u)
<1>1. m \in Nat
  BY IndexAssumption
<1>2. Doublings = twice
  BY DEF Doublings
<1> HIDE DEF m
<1>3. G \in [(1 .. m) \X Nat -> Nat]
  OBVIOUS
<1>4. \A i \in 1 .. m, x \in Nat : G[<<i, x>>] = 2 * x
  OBVIOUS
<1> HIDE DEF G
<1>5. PICK u : Follows(u, m, Nat, 1, G)
  BY <1>1, <1>3, Recursion
<1>6. /\ u \in [0 .. m -> Nat] /\ u[0] = 1
      /\ \A i \in 1 .. m : i - 1 \in 0 .. m /\ u[i - 1] \in Nat /\ u[i] = 2 * u[i - 1]
  <2>1. u \in [0 .. m -> Nat] /\ u[0] = 1 /\ \A i \in 1 .. m : u[i] = G[<<i, u[i - 1]>>]
    BY <1>5 DEF Follows
  <2>2. \A i \in 1 .. m : i - 1 \in 0 .. m
    BY <1>1
  <2>3. \A i \in 1 .. m : u[i - 1] \in Nat
    BY <2>1, <2>2
  <2> QED
    BY <1>4, <2>1, <2>2, <2>3
<1>7. IsDouble(u)
  <2>1. \A i \in 0 .. m : i # 0 => i \in 1 .. m
    BY <1>1
  <2>2. \A i \in 0 .. m : u[i] = IF i = 0 THEN 1 ELSE 2 * u[i - 1]
    BY <1>6, <2>1
  <2> QED
    BY <1>6, <2>2
<1>8. IsDouble(twice)
  BY <1>7
<1> HIDE DEF twice
<1> DEFINE Q == {n \in 0 .. m : twice[n] = u[n]}
<1>9. \A n \in 0 .. m : n \in Q
  <2>1. twice[0] = 1 /\ \A i \in 1 .. m : twice[i] = 2 * twice[i - 1]
    <3>1. 0 \in 0 .. m /\ \A i \in 1 .. m : i \in 0 .. m /\ i # 0
      BY <1>1
    <3> QED
      BY <1>8, <3>1
  <2>2. 0 \in Q
    BY <1>1, <1>6, <2>1
  <2>3. ASSUME NEW n \in 0 .. m, n \in Q, n + 1 <= m PROVE n + 1 \in Q
    <3>1. n + 1 \in 1 .. m /\ (n + 1) - 1 = n /\ n + 1 \in 0 .. m
      BY <1>1, <2>3
    <3> QED
      BY <1>6, <2>1, <2>3, <3>1
  <2> HIDE DEF Q
  <2> QED
    BY <1>1, <2>2, <2>3, Induct
<1>10. DOMAIN twice = 0 .. m
  BY <1>8
<1>11. twice = u
  BY <1>6, <1>8, <1>9, <1>10
<1> QED
  BY <1>1, <1>2, <1>6, <1>11 DEF m

\* No level has more nodes than there are rows.
LEMMA LevelSize ==
  ASSUME NEW E, NEW nds, NEW lev, Forest(E, nds, lev), Full(E, nds), Len(E) \in Nat,
         NEW c \in Nat, 1 <= c, Len(E) <= c, NEW h \in 1 .. Len(lev)
  PROVE  lev[h][2] - lev[h][1] + 1 <= c
<1>1. PICK a \in Nat, b \in Nat, e \in Nat : a = lev[h][1] /\ b = lev[h][2] /\ e = Len(E)
  BY ForestTypes
<1>2. 1 <= a /\ a <= b /\ b <= lev[Len(lev)][2]
  BY <1>1, LevelsApart
<1>3. b <= Len(nds) /\ Len(nds) \in Nat /\ InLine(nds, a, b)
  <2>1. lev[h][2] <= Len(nds)
    BY DEF Forest
  <2> QED
    BY <1>1, <2>1, LevelInLine, ForestTypes
<1>4. CASE e = 0
  <2>1. Len(nds) = 1
    BY <1>1, <1>4 DEF Full
  <2>2. b - a + 1 <= c
    BY <1>2, <1>3, <2>1
  <2> QED
    BY <1>1, <2>2
<1>5. CASE e # 0
  <2>1. \A j \in 1 .. Len(nds) : nds[j].lo <= nds[j].hi
    BY <1>1, <1>5 DEF Full
  <2>2. \A j \in 1 .. Len(nds) : nds[j].lo \in Nat /\ nds[j].hi \in Nat
    BY ForestTypes
  <2>3. \A j \in a .. b : j \in 1 .. Len(nds)
    BY <1>2, <1>3
  <2>4. \A j \in a .. b : nds[j].lo \in Nat /\ nds[j].hi \in Nat /\ nds[j].lo <= nds[j].hi
    BY <2>1, <2>2, <2>3
  <2>5. 1 <= nds[a].lo /\ nds[b].hi <= e
    <3>1. PICK t \in Nat : t = lev[Len(lev)][2]
      <4>1. Len(lev) \in 1 .. Len(lev)
        BY ForestTypes
      <4> QED
        BY <4>1, ForestTypes
    <3>2. a \in 1 .. t /\ b \in 1 .. t
      BY <1>2, <3>1
    <3> QED
      BY <1>1, <3>1, <3>2, Covered
  <2> DEFINE Q == {i \in 0 .. (b - a) : nds[a + i].hi >= i + 1}
  <2>6. 0 \in Q
    <3>1. a \in a .. b /\ a + 0 = a /\ 0 \in 0 .. (b - a)
      BY <1>2
    <3>2. PICK x \in Nat, y \in Nat : x = nds[a].lo /\ y = nds[a].hi /\ x <= y
      BY <2>4, <3>1
    <3>3. y >= 0 + 1
      BY <2>5, <3>2
    <3> QED
      BY <3>1, <3>2, <3>3
  <2>7. ASSUME NEW n \in 0 .. (b - a), n \in Q, n + 1 <= b - a PROVE n + 1 \in Q
    <3>1. /\ a + n \in a .. b /\ a + n \in a .. (b - 1) /\ a + (n + 1) = (a + n) + 1 /\ (a + n) + 1 \in a .. b
          /\ n + 1 \in 0 .. (b - a)
      BY <1>2, <2>7
    <3>2. PICK j \in Nat : j = a + n
      OBVIOUS
    <3>3. j \in a .. b /\ j \in a .. (b - 1) /\ j + 1 \in a .. b /\ a + (n + 1) = j + 1
      BY <3>1, <3>2
    <3>4. nds[j + 1].lo = nds[j].hi + 1
      BY <1>3, <3>3 DEF InLine
    <3>5. PICK y \in Nat, v \in Nat, w \in Nat : y = nds[j].hi /\ v = nds[j + 1].lo /\ w = nds[j + 1].hi /\ v <= w
      BY <2>4, <3>3
    <3>6. y >= n + 1
      BY <2>7, <3>2, <3>5
    <3>7. w >= (n + 1) + 1
      BY <3>4, <3>5, <3>6, SMTT(30)
    <3> QED
      BY <3>1, <3>3, <3>5, <3>7
  <2> HIDE DEF Q
  <2>8. PICK k \in Nat : k = b - a
    BY <1>2
  <2>9. \A n \in 0 .. k : n \in Q
    BY <2>6, <2>7, <2>8, Induct
  <2>10. nds[a + k].hi >= k + 1 /\ a + k = b
    <3>1. k \in Q
      BY <2>9
    <3>2. a + k = b
      BY <2>8
    <3> QED
      BY <3>1, <3>2 DEF Q
  <2>11. PICK y \in Nat : y = nds[b].hi
    <3>1. b \in a .. b
      BY <1>2
    <3> QED
      BY <2>4, <3>1
  <2>12. y >= k + 1 /\ y <= e
    BY <2>5, <2>10, <2>11
  <2>13. b - a + 1 <= c
    BY <1>1, <2>8, <2>12
  <2> QED
    BY <1>1, <2>13
<1> QED
  BY <1>4, <1>5

\* A level has at most half as many nodes as the one below it.
LEMMA HalfAsMany ==
  ASSUME NEW E, NEW nds, NEW lev, Forest(E, nds, lev), Paired(nds, Len(nds)), NEW h \in 2 .. Len(lev)
  PROVE  2 * (lev[h][2] - lev[h][1] + 1) <= lev[h - 1][2] - lev[h - 1][1] + 1
<1>1. Len(lev) \in Nat /\ h \in 1 .. Len(lev) /\ h - 1 \in 1 .. Len(lev) /\ Len(nds) \in Nat
  BY ForestTypes
<1>2. PICK a \in Nat, b \in Nat, x \in Nat, y \in Nat :
        a = lev[h][1] /\ b = lev[h][2] /\ x = lev[h - 1][1] /\ y = lev[h - 1][2]
  BY <1>1, ForestTypes
<1>3. 1 <= a /\ a <= b /\ b <= Len(nds)
  <2>1. lev[h][2] <= Len(nds)
    BY <1>1 DEF Forest
  <2> QED
    BY <1>1, <1>2, <2>1, LevelsApart
<1>4. Adopted(E, nds, a, b, x, y)
  BY <1>2 DEF Forest
<1>5. /\ nds[a].kids[1] = x /\ nds[b].kids[2] = y
      /\ \A j \in a .. (b - 1) : nds[j + 1].kids[1] = nds[j].kids[2] + 1
      /\ \A j \in a .. b : IsParent(E, nds, j)
  BY <1>3, <1>4 DEF Adopted
<1>6. ASSUME NEW j \in a .. b PROVE nds[j].kids[1] \in Nat /\ nds[j].kids[2] \in Nat /\ nds[j].kids[1] < nds[j].kids[2]
  <2>1. j \in 1 .. Len(nds)
    BY <1>1, <1>3
  <2>2. nds[j].kids[1] \in Nat /\ nds[j].kids[2] \in Nat
    BY <2>1, ForestTypes
  <2>3. nds[j].kids[1] <= nds[j].kids[2]
    BY <1>5 DEF IsParent
  <2>4. nds[j].kids # NoKids
    BY <2>3 DEF NoKids
  <2> QED
    BY <2>1, <2>2, <2>4 DEF Paired
<1> DEFINE Q == {i \in 0 .. (b - a) : nds[a + i].kids[2] >= x + 2 * i + 1}
<1>7. 0 \in Q
  <2>1. a \in a .. b /\ a + 0 = a /\ 0 \in 0 .. (b - a)
    BY <1>3
  <2>2. PICK v \in Nat, w \in Nat : v = nds[a].kids[1] /\ w = nds[a].kids[2] /\ v < w
    BY <1>6, <2>1
  <2>3. w >= x + 2 * 0 + 1
    BY <1>5, <2>2
  <2> QED
    BY <2>1, <2>2, <2>3
<1>8. ASSUME NEW n \in 0 .. (b - a), n \in Q, n + 1 <= b - a PROVE n + 1 \in Q
  <2>1. /\ a + n \in a .. b /\ a + n \in a .. (b - 1) /\ a + (n + 1) = (a + n) + 1 /\ (a + n) + 1 \in a .. b
        /\ n + 1 \in 0 .. (b - a)
    BY <1>3, <1>8
  <2>2. PICK j \in Nat : j = a + n
    OBVIOUS
  <2>3. j \in a .. b /\ j \in a .. (b - 1) /\ j + 1 \in a .. b /\ a + (n + 1) = j + 1
    BY <2>1, <2>2
  <2>4. nds[j + 1].kids[1] = nds[j].kids[2] + 1
    BY <1>5, <2>3
  <2>5. PICK u \in Nat, v \in Nat, w \in Nat : u = nds[j].kids[2] /\ v = nds[j + 1].kids[1] /\ w = nds[j + 1].kids[2] /\ v < w
    BY <1>6, <2>3
  <2>6. u >= x + 2 * n + 1
    BY <1>8, <2>2, <2>5
  <2>7. v = u + 1
    BY <2>4, <2>5
  <2>8. w >= x + 2 * (n + 1) + 1
    <3>1. v < w /\ n \in Nat
      BY <2>5
    <3>2. 2 * (n + 1) = 2 * n + 2
      BY <3>1
    <3> QED
      BY <2>6, <2>7, <3>1, <3>2
  <2> QED
    BY <2>1, <2>3, <2>5, <2>8
<1> HIDE DEF Q
<1>9. PICK k \in Nat : k = b - a
  BY <1>3
<1>10. \A n \in 0 .. k : n \in Q
  BY <1>7, <1>8, <1>9, Induct
<1>11. nds[a + k].kids[2] >= x + 2 * k + 1 /\ a + k = b
  <2>1. k \in Q
    BY <1>10
  <2>2. a + k = b
    BY <1>9
  <2> QED
    BY <2>1, <2>2 DEF Q
<1>12. y >= x + 2 * k + 1
  BY <1>5, <1>11
<1>13. 2 * (b - a + 1) <= y - x + 1
  BY <1>9, <1>12
<1> QED
  BY <1>2, <1>13

\* A tree over the entries of the rows is not deeper than allowed.
LEMMA DepthAllowed ==
  ASSUME NEW E, NEW nds, NEW lev, Forest(E, nds, lev), Full(E, nds), Paired(nds, Len(nds)),
         Len(E) \in Nat, Len(E) <= Cardinality(Rows)
  PROVE  Len(lev) <= MaxDepth
<1>1. PICK D \in Nat, M \in Nat : D = Len(lev) /\ M = MaxDepth /\ 1 <= D
  BY ForestTypes, IndexAssumption
<1> SUFFICES ASSUME D > M PROVE FALSE
  BY <1>1
<1> DEFINE size(i) == lev[D - i][2] - lev[D - i][1] + 1
           Q == {i \in 0 .. M : size(i) >= Doublings[i]}
<1>2. PICK f : f = Doublings /\ f \in [0 .. M -> Nat] /\ f[0] = 1 /\ \A i \in 1 .. M : f[i] = 2 * f[i - 1]
  BY <1>1, DoublingsAre
<1>3. ASSUME NEW i \in 0 .. M PROVE D - i \in 1 .. Len(lev) /\ size(i) \in Nat /\ size(i) >= 1
  <2>0. D - i \in 1 .. D
    OBVIOUS
  <2>1. PICK h \in 1 .. Len(lev) : h = D - i
    BY <1>1, <2>0
  <2>2. PICK a \in Nat, b \in Nat : a = lev[h][1] /\ b = lev[h][2] /\ a <= b
    BY ForestTypes, LevelsApart
  <2>3. b - a + 1 \in Nat /\ b - a + 1 >= 1
    BY <2>2, SMTT(30)
  <2> QED
    BY <2>1, <2>2, <2>3
<1>4. ASSUME NEW i \in 0 .. M, i + 1 <= M PROVE 2 * size(i) <= size(i + 1)
  <2>1. D - i \in 2 .. Len(lev) /\ D - (i + 1) = (D - i) - 1
    BY <1>1, <1>4
  <2>2. PICK h \in 2 .. Len(lev) : h = D - i
    BY <2>1
  <2>3. 2 * (lev[h][2] - lev[h][1] + 1) <= lev[h - 1][2] - lev[h - 1][1] + 1
    BY HalfAsMany
  <2> QED
    BY <2>1, <2>2, <2>3
<1> HIDE DEF size
<1>5. 0 \in Q
  <2>1. 0 \in 0 .. M
    OBVIOUS
  <2> QED
    BY <1>2, <1>3, <2>1
<1>6. ASSUME NEW n \in 0 .. M, n \in Q, n + 1 <= M PROVE n + 1 \in Q
  <2>1. n + 1 \in 0 .. M /\ n + 1 \in 1 .. M /\ (n + 1) - 1 = n
    BY <1>6
  <2>2. PICK x \in Nat, y \in Nat : x = size(n) /\ y = size(n + 1)
    BY <1>3, <2>1
  <2>3. PICK v \in Nat, w \in Nat : v = f[n] /\ w = f[n + 1]
    BY <1>2, <2>1
  <2>4. w = 2 * v
    BY <1>2, <2>1, <2>3
  <2>5. x >= v /\ 2 * x <= y
    BY <1>2, <1>4, <1>6, <2>2, <2>3
  <2>6. y >= w
    BY <2>4, <2>5
  <2> QED
    BY <1>2, <2>1, <2>2, <2>3, <2>6
<1> HIDE DEF Q
<1>7. \A n \in 0 .. M : n \in Q
  BY <1>5, <1>6, Induct
<1>8. size(M) >= Doublings[M] /\ M \in 0 .. M
  BY <1>7 DEF Q
<1>9. PICK c \in Nat : c = Cardinality(Rows) /\ 1 <= c
  <2>1. Cardinality(Rows) \in Nat
    BY IndexAssumption, FS_CardinalityType
  <2>2. 1 \in 1 .. Cardinality(Rows)
    BY IndexAssumption
  <2> QED
    BY <2>1, <2>2
<1>10. size(M) <= c
  <2>1. PICK h \in 1 .. Len(lev) : h = D - M
    BY <1>3, <1>8
  <2>2. lev[h][2] - lev[h][1] + 1 <= c
    BY <1>9, LevelSize
  <2> QED
    BY <2>1, <2>2 DEF size
<1>11. c < f[M]
  BY <1>1, <1>2, <1>9, DepthAssumption
<1>12. PICK x \in Nat, w \in Nat : x = size(M) /\ w = f[M]
  BY <1>2, <1>3, <1>8
<1> QED
  BY <1>2, <1>8, <1>10, <1>11, <1>12

\* Two records that fit beside a separator fit together.
LEMMA FitsTwice ==
  ASSUME NEW w \in Nat, RecordFits(w)
  PROVE  2 * (w + ChildBytes) <= AreaBytes /\ w <= AreaBytes
<1>1. PICK a \in Nat, c \in Nat : a = AreaBytes /\ c = ChildBytes
  BY IndexAssumption
<1>2. w + c <= a \div 2
  BY <1>1 DEF RecordFits
<1>3. 2 * (a \div 2) <= a
  OBVIOUS
<1>4. PICK q \in Nat : q = a \div 2
  OBVIOUS
<1>5. w + c <= q /\ 2 * q <= a
  BY <1>2, <1>3, <1>4
<1>6. 2 * (w + c) <= a /\ w <= a
  BY <1>5
<1> QED
  BY <1>1, <1>6

\* What the greedy packing keeps for each entry.
LEMMA LeafStartIs ==
  ASSUME Ascending(Planned)
  PROVE  /\ LeafStart \in [0 .. Len(Planned) -> [from : Nat, used : Nat]]
         /\ LeafStart[0] = [from |-> 1, used |-> 0]
         /\ \A i \in 1 .. Len(Planned) :
              LeafStart[i] = IF LeafStart[i - 1].used + Bytes(i) > AreaBytes THEN [from |-> i, used |-> Bytes(i)]
                             ELSE [from |-> LeafStart[i - 1].from, used |-> LeafStart[i - 1].used + Bytes(i)]
<1> DEFINE m == Len(Planned)
           X == [from : Nat, used : Nat]
           Z(i, x) == IF x.used + Bytes(i) > AreaBytes THEN [from |-> i, used |-> Bytes(i)]
                      ELSE [from |-> x.from, used |-> x.used + Bytes(i)]
           G == [z \in (1 .. m) \X X |-> Z(z[1], z[2])]
           one == [from |-> 1, used |-> 0]
           IsStart(u) == u = [i \in 0 .. m |-> IF i = 0 THEN one ELSE Z(i, u[i - 1])]
           at == CHOOSE u : IsStart(u)
<1>1. m \in Nat /\ (\A i \in 1 .. m : Bytes(i) \in Nat) /\ AreaBytes \in Nat
  BY WidthsType DEF Bytes
<1>2. LeafStart = at
  BY DEF LeafStart
<1>3. one \in X
  OBVIOUS
<1> HIDE DEF m, one
<1>4. \A i \in 1 .. m : \A x \in X : Z(i, x) \in X
  BY <1>1
<1> HIDE DEF Z, X
<1>5. G \in [(1 .. m) \X X -> X]
  BY <1>4
<1>6. \A i \in 1 .. m, x \in X : G[<<i, x>>] = Z(i, x)
  OBVIOUS
<1> HIDE DEF G
<1>7. PICK u : Follows(u, m, X, one, G)
  BY <1>1, <1>3, <1>5, Recursion
<1>8. /\ u \in [0 .. m -> X] /\ u[0] = one
      /\ \A i \in 1 .. m : i - 1 \in 0 .. m /\ u[i - 1] \in X /\ u[i] = Z(i, u[i - 1])
  <2>1. u \in [0 .. m -> X] /\ u[0] = one /\ \A i \in 1 .. m : u[i] = G[<<i, u[i - 1]>>]
    BY <1>7 DEF Follows
  <2>2. \A i \in 1 .. m : i - 1 \in 0 .. m
    BY <1>1
  <2>3. \A i \in 1 .. m : u[i - 1] \in X
    BY <2>1, <2>2
  <2> QED
    BY <1>6, <2>1, <2>2, <2>3
<1>9. IsStart(u)
  <2>1. \A i \in 0 .. m : i # 0 => i \in 1 .. m
    BY <1>1
  <2>2. \A i \in 0 .. m : u[i] = IF i = 0 THEN one ELSE Z(i, u[i - 1])
    BY <1>8, <2>1
  <2> QED
    BY <1>8, <2>2
<1>10. IsStart(at)
  BY <1>9
<1> HIDE DEF at
<1> DEFINE Q == {n \in 0 .. m : at[n] = u[n]}
<1>11. \A n \in 0 .. m : n \in Q
  <2>1. at[0] = one /\ \A i \in 1 .. m : at[i] = Z(i, at[i - 1])
    <3>1. 0 \in 0 .. m /\ \A i \in 1 .. m : i \in 0 .. m /\ i # 0
      BY <1>1
    <3> QED
      BY <1>10, <3>1
  <2>2. 0 \in Q
    BY <1>1, <1>8, <2>1
  <2>3. ASSUME NEW n \in 0 .. m, n \in Q, n + 1 <= m PROVE n + 1 \in Q
    <3>1. n + 1 \in 1 .. m /\ (n + 1) - 1 = n /\ n + 1 \in 0 .. m
      BY <1>1, <2>3
    <3> QED
      BY <1>8, <2>1, <2>3, <3>1
  <2> HIDE DEF Q
  <2> QED
    BY <1>1, <2>2, <2>3, Induct
<1>12. DOMAIN at = 0 .. m
  BY <1>10
<1>13. at = u
  BY <1>8, <1>10, <1>11, <1>12
<1>14. at \in [0 .. m -> X] /\ at[0] = one /\ \A i \in 1 .. m : at[i] = Z(i, at[i - 1])
  BY <1>8, <1>13
<1> QED
  BY <1>2, <1>14 DEF m, X, Z, one

\* The leaf of the i-th entry begins at an entry not after it, fits the page so far, and is the
\* leaf of the entry it begins at.
LEMMA StartsAt ==
  ASSUME Ascending(Planned), \A i \in 1 .. Len(Planned) : RecordFits(Bytes(i)),
         NEW P, P = Sums(LeafWidths(Planned, 1, Len(Planned)))
  PROVE  /\ \A i \in 0 .. Len(Planned) :
              /\ LeafStart[i].from \in Nat /\ 1 <= LeafStart[i].from /\ (i >= 1 => LeafStart[i].from <= i)
              /\ i = 0 => LeafStart[i].from = 1
              /\ LeafStart[i].used \in Nat /\ LeafStart[i].used <= AreaBytes
              /\ P[LeafStart[i].from - 1] + LeafStart[i].used = P[i]
              /\ i >= 1 => LeafStart[LeafStart[i].from].from = LeafStart[i].from
         /\ \A i \in 1 .. Len(Planned) : LeafStart[i - 1].from <= LeafStart[i].from
<1> DEFINE m == Len(Planned)
           W == LeafWidths(Planned, 1, Len(Planned))
<1>1. PICK at : at = LeafStart
  OBVIOUS
<1>2. /\ m \in Nat /\ AreaBytes \in Nat
      /\ \A i \in 1 .. m : Bytes(i) \in Nat /\ Bytes(i) <= AreaBytes
  BY WidthsType, FitsTwice DEF Bytes
<1>3. /\ at \in [0 .. m -> [from : Nat, used : Nat]] /\ at[0].from = 1 /\ at[0].used = 0
      /\ \A i \in 1 .. m :
           at[i] = IF at[i - 1].used + Bytes(i) > AreaBytes THEN [from |-> i, used |-> Bytes(i)]
                   ELSE [from |-> at[i - 1].from, used |-> at[i - 1].used + Bytes(i)]
  BY <1>1, LeafStartIs
<1>4. W \in Seq(Nat) /\ Len(W) = m /\ \A i \in 1 .. m : W[i] = Bytes(i)
  <2>1. (m - 1) + 1 = m /\ \A i \in 1 .. m : 1 + i - 1 = i
    BY <1>2
  <2>2. W = [i \in 1 .. m |-> Bytes(i)]
    BY <1>2, <2>1 DEF LeafWidths, Bytes
  <2> QED
    BY <1>2, <2>2
<1>5. P \in [0 .. m -> Nat] /\ P[0] = 0 /\ \A i \in 1 .. m : P[i] = P[i - 1] + Bytes(i)
  BY <1>4, SumsAre
<1> HIDE DEF m, W
<1>6. ASSUME NEW i \in 1 .. m PROVE i - 1 \in 0 .. m /\ i \in 0 .. m /\ at[i - 1].from \in Nat /\ at[i - 1].used \in Nat
  <2>1. i - 1 \in 0 .. m /\ i \in 0 .. m
    BY <1>2
  <2>2. at[i - 1] \in [from : Nat, used : Nat]
    BY <1>3, <2>1
  <2> QED
    BY <2>1, <2>2
<1>7. ASSUME NEW i \in 1 .. m
      PROVE  \/ at[i].from = i /\ at[i].used = Bytes(i)
             \/ at[i].from = at[i - 1].from /\ at[i].used = at[i - 1].used + Bytes(i) /\ at[i].used <= AreaBytes
  <2>1. PICK x \in Nat, w \in Nat, a \in Nat : x = at[i - 1].used /\ w = Bytes(i) /\ a = AreaBytes
    BY <1>2, <1>6
  <2>2. at[i] = IF at[i - 1].used + Bytes(i) > AreaBytes THEN [from |-> i, used |-> Bytes(i)]
                ELSE [from |-> at[i - 1].from, used |-> at[i - 1].used + Bytes(i)]
    BY <1>3
  <2>3. at[i] = IF x + w > a THEN [from |-> i, used |-> w] ELSE [from |-> at[i - 1].from, used |-> x + w]
    BY <2>1, <2>2
  <2>4. CASE x + w > a
    <3>1. at[i] = [from |-> i, used |-> w]
      BY <2>3, <2>4
    <3> QED
      BY <2>1, <3>1
  <2>5. CASE ~(x + w > a)
    <3>1. x + w <= a
      BY <2>5
    <3>2. at[i] = [from |-> at[i - 1].from, used |-> x + w]
      BY <2>3, <2>5
    <3>3. at[i].from = at[i - 1].from /\ at[i].used = x + w
      BY <3>2
    <3> QED
      BY <2>1, <3>1, <3>3
  <2> QED
    BY <2>4, <2>5
<1> DEFINE Fact(i) == /\ at[i].from \in Nat /\ 1 <= at[i].from /\ (i >= 1 => at[i].from <= i)
                      /\ i = 0 => at[i].from = 1
                      /\ at[i].used \in Nat /\ at[i].used <= AreaBytes
                      /\ P[at[i].from - 1] + at[i].used = P[i]
                      /\ i >= 1 => at[at[i].from].from = at[i].from
           Q == {i \in 0 .. m : Fact(i)}
<1>8. 0 \in Q
  <2>1. 1 - 1 = 0 /\ P[0] + 0 = P[0] /\ 0 <= AreaBytes /\ 0 \in 0 .. m
    BY <1>2, <1>5
  <2> QED
    BY <1>3, <2>1
<1>9. ASSUME NEW n \in 0 .. m, n \in Q, n + 1 <= m PROVE n + 1 \in Q
  <2>1. PICK i \in 1 .. m : i = n + 1 /\ i - 1 = n /\ i \in 0 .. m
    BY <1>2, <1>9
  <2>2. Fact(n)
    BY <1>9
  <2>3. PICK b \in Nat, p \in Nat, a \in Nat : b = Bytes(i) /\ p = P[n] /\ a = AreaBytes /\ b <= a
    BY <1>2, <1>5, <2>1
  <2>4. P[i] = p + b
    BY <1>5, <2>1, <2>3
  <2>5. CASE at[i].from = i /\ at[i].used = Bytes(i)
    <3>1. i \in Nat /\ 1 <= i /\ i <= i /\ i # 0
      OBVIOUS
    <3>2. P[i - 1] + b = P[i]
      BY <2>1, <2>3, <2>4
    <3>3. Fact(i)
      BY <2>3, <2>5, <3>1, <3>2
    <3> QED
      BY <2>1, <3>3
  <2>6. CASE at[i].from = at[i - 1].from /\ at[i].used = at[i - 1].used + Bytes(i) /\ at[i].used <= AreaBytes
    <3>1. PICK f \in Nat, u \in Nat : f = at[n].from /\ u = at[n].used
      BY <1>6, <2>1
    <3>2. 1 <= f /\ P[f - 1] + u = p /\ (n >= 1 => f <= n /\ at[f].from = f) /\ (n = 0 => f = 1)
      BY <2>2, <2>3, <3>1
    <3>3. at[i].from = f /\ at[i].used = u + b
      BY <2>1, <2>3, <2>6, <3>1
    <3>4. f <= i
      BY <2>1, <3>2
    <3>5. at[f].from = f
      <4>1. CASE n = 0
        <5>1. f = i
          BY <2>1, <3>2, <4>1
        <5> QED
          BY <3>3, <5>1
      <4>2. CASE n # 0
        <5>1. n >= 1
          BY <4>2
        <5> QED
          BY <3>2, <5>1
      <4> QED
        BY <4>1, <4>2
    <3>6. P[f - 1] + (u + b) = P[i]
      <4>1. PICK v \in Nat : v = P[f - 1]
        <5>1. f - 1 \in 0 .. m
          BY <1>2, <2>1, <3>2, <3>4
        <5> QED
          BY <1>5, <5>1
      <4>2. v + u = p
        BY <3>2, <4>1
      <4>3. v + (u + b) = p + b
        BY <4>2
      <4> QED
        BY <2>4, <4>1, <4>3
    <3>7. i # 0 /\ u + b \in Nat
      OBVIOUS
    <3>8. Fact(i)
      BY <2>6, <3>2, <3>3, <3>4, <3>5, <3>6, <3>7
    <3> QED
      BY <2>1, <3>8
  <2> QED
    BY <1>7, <2>5, <2>6
<1> HIDE DEF Q
<1>10. \A n \in 0 .. m : n \in Q
  BY <1>2, <1>8, <1>9, Induct
<1>11. \A i \in 0 .. m : Fact(i)
  BY <1>10 DEF Q
<1>12. ASSUME NEW i \in 1 .. m PROVE at[i - 1].from <= at[i].from
  <2>1. PICK j \in 0 .. m : j = i - 1
    BY <1>6
  <2>2. PICK f \in Nat : f = at[j].from /\ (j >= 1 => f <= j) /\ (j = 0 => f = 1)
    BY <1>11
  <2>3. f <= i /\ f <= f
    BY <2>1, <2>2
  <2> QED
    BY <1>7, <2>1, <2>2, <2>3
<1> QED
  BY <1>1, <1>11, <1>12 DEF m

\* What does not fall from one step to the next does not fall.
LEMMA Climbs ==
  ASSUME NEW m \in Nat, NEW f, \A i \in 0 .. m : f[i] \in Nat, \A i \in 1 .. m : f[i - 1] <= f[i]
  PROVE  \A i, j \in 0 .. m : i <= j => f[i] <= f[j]
<1> DEFINE Q == {n \in 0 .. m : \A i \in 0 .. n : f[i] <= f[n]}
<1>1. 0 \in Q
  <2>1. 0 \in 0 .. m /\ f[0] \in Nat
    OBVIOUS
  <2>2. \A i \in 0 .. 0 : i = 0
    OBVIOUS
  <2>3. f[0] <= f[0]
    BY <2>1
  <2> QED
    BY <2>1, <2>2, <2>3
<1>2. ASSUME NEW n \in 0 .. m, n \in Q, n + 1 <= m PROVE n + 1 \in Q
  <2>1. n + 1 \in 0 .. m /\ n + 1 \in 1 .. m /\ (n + 1) - 1 = n
    BY <1>2
  <2>2. PICK x \in Nat, y \in Nat : x = f[n] /\ y = f[n + 1]
    BY <2>1
  <2>3. x <= y
    BY <2>1, <2>2
  <2>4. ASSUME NEW i \in 0 .. (n + 1) PROVE f[i] <= f[n + 1]
    <3>1. CASE i = n + 1
      <4>1. y <= y
        OBVIOUS
      <4> QED
        BY <2>2, <3>1, <4>1
    <3>2. CASE i # n + 1
      <4>1. i \in 0 .. n /\ i \in 0 .. m
        BY <2>1, <3>2
      <4>2. PICK z \in Nat : z = f[i]
        BY <4>1
      <4>3. z <= x
        BY <1>2, <2>2, <4>1, <4>2
      <4>4. z <= y
        BY <2>3, <4>3
      <4> QED
        BY <2>2, <4>2, <4>4
    <3> QED
      BY <3>1, <3>2
  <2> QED
    BY <2>1, <2>4
<1> HIDE DEF Q
<1>3. \A n \in 0 .. m : n \in Q
  BY <1>1, <1>2, Induct
<1>4. ASSUME NEW i \in 0 .. m, NEW j \in 0 .. m, i <= j PROVE f[i] <= f[j]
  <2>1. i \in 0 .. j
    BY <1>4
  <2>2. j \in Q
    BY <1>3
  <2> QED
    BY <2>1, <2>2 DEF Q
<1> QED
  BY <1>4

\* The bytes of a leaf are the difference of two sums.
LEMMA LeafSum ==
  ASSUME NEW E, Ascending(E), NEW lo \in Nat, NEW hi \in Nat, 1 <= lo, lo <= hi, hi <= Len(E), NEW u \in Nat,
         NEW P, P = Sums(LeafWidths(E, 1, Len(E))), P[lo - 1] + u = P[hi]
  PROVE  Sums(LeafWidths(E, lo, hi))[hi - lo + 1] = u
<1>1. PICK m \in Nat : m = Len(E) /\ \A i \in 1 .. m : Width[E[i].key] \in Nat
  BY WidthsType
<1>2. PICK s : s = LeafWidths(E, 1, m)
  OBVIOUS
<1>3. PICK t : t = LeafWidths(E, lo, hi)
  OBVIOUS
<1>4. s \in Seq(Nat) /\ Len(s) = m /\ \A i \in 1 .. m : s[i] = Width[E[i].key]
  <2>1. (m - 1) + 1 = m /\ \A i \in 1 .. m : 1 + i - 1 = i
    BY <1>1
  <2>2. s = [i \in 1 .. m |-> Width[E[i].key]]
    BY <1>2, <2>1 DEF LeafWidths
  <2> QED
    BY <1>1, <2>2
<1>5. PICK k \in Nat, a \in Nat : k = hi - lo + 1 /\ a = lo - 1 /\ a + k = hi /\ a + k <= m
  BY <1>1
<1>6. \A i \in 1 .. k : a + i \in 1 .. m /\ lo + i - 1 = a + i
  BY <1>1, <1>5
<1>7. t \in Seq(Nat) /\ Len(t) = k /\ \A i \in 1 .. k : t[i] = s[a + i]
  <2>1. t = [i \in 1 .. k |-> Width[E[lo + i - 1].key]]
    BY <1>3, <1>5 DEF LeafWidths
  <2>2. \A i \in 1 .. k : Width[E[lo + i - 1].key] = s[a + i] /\ s[a + i] \in Nat
    BY <1>1, <1>4, <1>6
  <2>3. t = [i \in 1 .. k |-> s[a + i]]
    BY <2>1, <2>2
  <2>4. t \in [1 .. k -> Nat] /\ \A i \in 1 .. k : t[i] = s[a + i]
    BY <2>2, <2>3
  <2>5. t \in Seq(Nat) /\ Len(t) = k
    BY <2>4
  <2> QED
    BY <2>4, <2>5
<1>8. \A i \in 0 .. k : Sums(s)[a + i] = Sums(s)[a] + Sums(t)[i]
  <2>1. a + Len(t) <= Len(s) /\ \A i \in 1 .. Len(t) : t[i] = s[a + i]
    BY <1>4, <1>5, <1>7
  <2>2. s \in Seq(Nat) /\ t \in Seq(Nat)
    BY <1>4, <1>7
  <2>3. \A i \in 0 .. Len(t) : Sums(s)[a + i] = Sums(s)[a] + Sums(t)[i]
    BY <2>1, <2>2, SumsSlice
  <2> QED
    BY <1>7, <2>3
<1>9. Sums(s)[hi] = Sums(s)[a] + Sums(t)[k]
  BY <1>5, <1>8
<1>10. PICK x \in Nat, y \in Nat : x = Sums(s)[a] /\ y = Sums(t)[k]
  <2>1. a \in 0 .. m /\ k \in 0 .. k
    BY <1>5
  <2> QED
    BY <1>4, <1>7, <2>1, SumsAre
<1>11. x + u = Sums(s)[hi]
  BY <1>1, <1>2, <1>5, <1>10
<1>12. x + u = x + y
  BY <1>9, <1>10, <1>11
<1>13. y = u
  BY <1>12
<1> QED
  BY <1>3, <1>5, <1>10, <1>13

\* The entries at which leaves begin.
LEMMA LeafStartsAre ==
  ASSUME Ascending(Planned), \A i \in 1 .. Len(Planned) : RecordFits(Bytes(i))
  PROVE  /\ LeafStarts \in SUBSET Nat /\ IsFiniteSet(LeafStarts) /\ 1 \in LeafStarts
         /\ \A x \in LeafStarts : 1 <= x
         /\ Len(Planned) = 0 => LeafStarts = {1}
         /\ Len(Planned) # 0 => \A x \in LeafStarts : x \in 1 .. Len(Planned) /\ LeafStart[x].from = x
<1>1. PICK m \in Nat : m = Len(Planned)
  BY WidthsType
<1>2. \A i \in 0 .. m :
        /\ LeafStart[i].from \in Nat /\ 1 <= LeafStart[i].from /\ (i >= 1 => LeafStart[i].from <= i)
        /\ (i = 0 => LeafStart[i].from = 1) /\ (i >= 1 => LeafStart[LeafStart[i].from].from = LeafStart[i].from)
  BY <1>1, StartsAt
<1>3. LeafStarts = {LeafStart[i].from : i \in 0 .. m}
  BY <1>1 DEF LeafStarts
<1>4. LeafStart[0].from = 1 /\ 0 \in 0 .. m
  BY <1>2
<1>5. ASSUME NEW x \in LeafStarts
      PROVE  /\ x \in Nat /\ 1 <= x /\ x <= m + 1 /\ (m = 0 => x = 1)
             /\ m # 0 => x \in 1 .. m /\ LeafStart[x].from = x
  <2>1. PICK i \in 0 .. m : x = LeafStart[i].from
    BY <1>3
  <2>2. x \in Nat /\ 1 <= x /\ (i >= 1 => x <= i /\ LeafStart[x].from = x) /\ (i = 0 => x = 1)
    BY <1>2, <2>1
  <2>3. CASE i >= 1
    <3>1. x <= m /\ m # 0 /\ x <= m + 1 /\ x \in 1 .. m
      BY <2>2, <2>3
    <3> QED
      BY <2>2, <2>3, <3>1
  <2>4. CASE ~(i >= 1)
    <3>1. i = 0
      BY <2>4
    <3>2. x = 1
      BY <2>2, <3>1
    <3>3. m # 0 => 1 \in 1 .. m /\ 1 \in 0 .. m
      OBVIOUS
    <3>4. m # 0 => LeafStart[1].from = 1
      <4> SUFFICES ASSUME m # 0 PROVE LeafStart[1].from = 1
        OBVIOUS
      <4>1. LeafStart[1].from \in Nat /\ 1 <= LeafStart[1].from /\ LeafStart[1].from <= 1
        BY <1>2, <3>3
      <4> QED
        BY <4>1
    <3> QED
      BY <3>2, <3>3, <3>4
  <2> QED
    BY <2>3, <2>4
<1>6. LeafStarts \subseteq 0 .. (m + 1)
  BY <1>5
<1>7. IsFiniteSet(LeafStarts)
  <2>1. IsFiniteSet(0 .. (m + 1))
    BY FS_Interval
  <2> QED
    BY <1>6, <2>1, FS_Subset
<1>8. 1 \in LeafStarts
  BY <1>3, <1>4
<1> QED
  BY <1>1, <1>5, <1>7, <1>8

\* A function on 1 .. n is a sequence.
LEMMA AsSequence ==
  ASSUME NEW n \in Nat, NEW X, NEW f \in [1 .. n -> X]
  PROVE  f \in Seq(X) /\ Len(f) = n
OBVIOUS

\* The j-th leaf holds entries, all of them in its page.
LEMMA LeafBounds ==
  ASSUME Ascending(Planned), \A i \in 1 .. Len(Planned) : RecordFits(Bytes(i)), Len(Planned) # 0,
         NEW n, n = Cardinality(LeafStarts), NEW j \in 1 .. n,
         NEW lo, lo = Nth(LeafStarts, j),
         NEW hi, hi = IF j = n THEN Len(Planned) ELSE Nth(LeafStarts, j + 1) - 1
  PROVE  /\ lo \in Nat /\ hi \in Nat /\ 1 <= lo /\ lo <= hi /\ hi <= Len(Planned)
         /\ Sums(LeafWidths(Planned, lo, hi))[hi - lo + 1] <= AreaBytes
<1> DEFINE S == LeafStarts
<1>1. PICK m \in Nat : m = Len(Planned) /\ m # 0
  BY WidthsType
<1>2. /\ S \in SUBSET Nat /\ IsFiniteSet(S) /\ 1 \in S
      /\ \A x \in S : x \in 1 .. m /\ LeafStart[x].from = x
  BY <1>1, LeafStartsAre
<1>3. PICK f : f = [i \in 0 .. m |-> LeafStart[i].from]
  OBVIOUS
<1>4. /\ \A i \in 0 .. m : f[i] \in Nat /\ f[i] \in S
      /\ \A i \in 1 .. m : f[i] <= i /\ f[i - 1] <= f[i]
  <2>1. \A i \in 0 .. m : LeafStart[i].from \in Nat /\ (i >= 1 => LeafStart[i].from <= i)
    BY <1>1, StartsAt
  <2>2. \A i \in 1 .. m : LeafStart[i - 1].from <= LeafStart[i].from
    BY <1>1, StartsAt
  <2>3. \A i \in 0 .. m : LeafStart[i].from \in S
    BY <1>1 DEF LeafStarts
  <2>4. \A i \in 1 .. m : i \in 0 .. m /\ i - 1 \in 0 .. m /\ i >= 1
    BY <1>1
  <2> HIDE DEF S
  <2> QED
    BY <1>3, <2>1, <2>2, <2>3, <2>4
<1>5. \A x \in S : f[x] = x
  <2>1. \A x \in S : x \in 0 .. m
    BY <1>1, <1>2
  <2> QED
    BY <1>2, <1>3, <2>1
<1>6. \A i, k \in 0 .. m : i <= k => f[i] <= f[k]
  BY <1>4, Climbs
<1> HIDE DEF S
<1>7. /\ n \in Nat /\ \A k \in 1 .. n : Nth(S, k) \in S
      /\ \A i, k \in 1 .. n : i < k => Nth(S, i) < Nth(S, k)
      /\ \A x \in S : \E k \in 1 .. n : x = Nth(S, k)
  BY <1>2, NthIs DEF S
<1>8. lo \in S /\ lo = Nth(S, j) /\ hi = IF j = n THEN m ELSE Nth(S, j + 1) - 1
  BY <1>1, <1>7 DEF S
<1>9. lo \in 1 .. m /\ f[lo] = lo
  BY <1>2, <1>5, <1>8
<1>10. hi \in Nat /\ lo <= hi /\ hi <= m /\ f[hi] = lo
  <2>1. CASE j = n
    <3>1. hi = m /\ hi \in 0 .. m /\ lo \in 0 .. m /\ lo <= hi /\ hi <= m
      BY <1>8, <1>9, <2>1
    <3>2. PICK x \in S : x = f[hi]
      BY <1>4, <3>1
    <3>3. lo <= x
      BY <1>6, <1>9, <3>1, <3>2
    <3>4. PICK k \in 1 .. n : x = Nth(S, k)
      BY <1>7
    <3>5. k < n => x < lo
      BY <1>7, <1>8, <2>1, <3>4
    <3>6. x \in Nat /\ lo \in Nat
      BY <1>2, <1>8
    <3>7. k = n
      BY <1>7, <3>3, <3>5, <3>6
    <3> QED
      BY <1>1, <1>8, <2>1, <3>1, <3>2, <3>4, <3>7
  <2>2. CASE j # n
    <3>1. j + 1 \in 1 .. n /\ j < j + 1
      BY <1>7, <2>2
    <3>2. PICK z \in S : z = Nth(S, j + 1)
      BY <1>7, <3>1
    <3>3. lo < z /\ z \in 1 .. m /\ lo \in Nat /\ hi = z - 1
      BY <1>2, <1>7, <1>8, <1>9, <2>2, <3>1, <3>2
    <3>4. hi \in Nat /\ lo <= hi /\ hi <= m /\ hi \in 0 .. m /\ lo \in 0 .. m /\ hi \in 1 .. m /\ hi < z
      BY <1>9, <3>3
    <3>5. PICK x \in S : x = f[hi]
      BY <1>4, <3>4
    <3>6. lo <= x
      BY <1>6, <1>9, <3>4, <3>5
    <3>7. x <= hi
      BY <1>4, <3>4, <3>5
    <3>8. PICK k \in 1 .. n : x = Nth(S, k)
      BY <1>7
    <3>9. k < j => x < lo
      BY <1>7, <1>8, <3>8
    <3>10. j + 1 < k => z < x
      BY <1>7, <3>1, <3>2, <3>8
    <3>11. k = j + 1 => z = x
      BY <3>2, <3>8
    <3>12. x \in Nat /\ z \in Nat
      BY <1>2
    <3>13. k = j
      <4>1. ~(x < lo) /\ ~(z < x) /\ z # x
        BY <3>4, <3>6, <3>7, <3>12, <3>3
      <4>2. ~(k < j) /\ ~(j + 1 < k) /\ k # j + 1
        BY <3>9, <3>10, <3>11, <4>1
      <4> QED
        BY <1>7, <4>2
    <3> QED
      BY <1>8, <3>4, <3>5, <3>8, <3>13
  <2> QED
    BY <2>1, <2>2
<1>11. PICK P : P = Sums(LeafWidths(Planned, 1, Len(Planned)))
  OBVIOUS
<1>12. hi \in 0 .. m /\ LeafStart[hi].from = lo
  <2>1. hi \in 0 .. m
    BY <1>10
  <2> QED
    BY <1>3, <1>10, <2>1
<1>13. LeafStart[hi].used \in Nat /\ LeafStart[hi].used <= AreaBytes /\ P[LeafStart[hi].from - 1] + LeafStart[hi].used = P[hi]
  BY <1>1, <1>11, <1>12, StartsAt
<1>14. PICK u \in Nat : u = LeafStart[hi].used /\ u <= AreaBytes /\ P[lo - 1] + u = P[hi]
  BY <1>12, <1>13
<1>15. lo \in Nat /\ hi \in Nat /\ 1 <= lo /\ lo <= hi /\ hi <= Len(Planned)
  BY <1>1, <1>9, <1>10
<1>16. Sums(LeafWidths(Planned, lo, hi))[hi - lo + 1] = u
  <2>1. \A l, h, v \in Nat : 1 <= l /\ l <= h /\ h <= Len(Planned) /\ P[l - 1] + v = P[h]
                             => Sums(LeafWidths(Planned, l, h))[h - l + 1] = v
    BY <1>11, LeafSum
  <2> QED
    BY <1>14, <1>15, <2>1
<1> QED
  BY <1>14, <1>15, <1>16

\* PackLeaves makes the first level of a tree.
LEMMA LeavesPacked ==
  ASSUME Ascending(Planned), \A i \in 1 .. Len(Planned) : RecordFits(Bytes(i)),
         NEW n, n = Cardinality(LeafStarts), NEW nds,
         nds = [j \in 1 .. n |-> Node(Nth(LeafStarts, j),
                                      IF j = n THEN Len(Planned) ELSE Nth(LeafStarts, j + 1) - 1, NoKids)]
  PROVE  Growing(Planned, nds, <<<<1, n>>>>, 1, n + 1)
<1> DEFINE S == LeafStarts
           E == Planned
           lev == <<<<1, n>>>>
           Hi(j) == IF j = n THEN Len(Planned) ELSE Nth(LeafStarts, j + 1) - 1
<1>1. PICK m \in Nat : m = Len(E)
  BY WidthsType
<1>2. /\ S \in SUBSET Nat /\ IsFiniteSet(S) /\ 1 \in S /\ (\A x \in S : 1 <= x) /\ (m = 0 => S = {1})
  BY <1>1, LeafStartsAre
<1>3. /\ n \in Nat /\ \A k \in 1 .. n : Nth(S, k) \in S
      /\ \A i, k \in 1 .. n : i < k => Nth(S, i) < Nth(S, k)
      /\ \A x \in S : \E k \in 1 .. n : x = Nth(S, k)
  BY <1>2, NthIs
<1>4. 1 <= n /\ Nth(S, 1) = 1
  <2>1. PICK k \in 1 .. n : 1 = Nth(S, k)
    BY <1>2, <1>3
  <2>2. 1 \in 1 .. n
    BY <1>3
  <2>3. 1 < k => Nth(S, 1) < Nth(S, k)
    BY <1>3, <2>2
  <2>4. 1 <= Nth(S, 1) /\ Nth(S, 1) \in Nat
    BY <1>2, <1>3, <2>2
  <2>5. ~(1 < k)
    BY <2>1, <2>3, <2>4
  <2>6. k = 1
    BY <2>5
  <2> QED
    BY <1>3, <2>1, <2>6
<1> HIDE DEF S
<1>5. \A j \in 1 .. n : nds[j] = Node(Nth(S, j), Hi(j), NoKids)
  BY DEF S
<1>6. \A j \in 1 .. n : nds[j].lo = Nth(S, j) /\ nds[j].hi = Hi(j) /\ nds[j].kids = NoKids
  BY <1>5 DEF Node
<1> HIDE DEF Hi
<1>7. m = 0 => n = 1
  BY <1>2, FS_Singleton DEF S
<1>8. ASSUME m # 0, NEW j \in 1 .. n
      PROVE  /\ nds[j].lo \in Nat /\ nds[j].hi \in Nat /\ 1 <= nds[j].lo /\ nds[j].lo <= nds[j].hi /\ nds[j].hi <= m
             /\ Sums(LeafWidths(E, nds[j].lo, nds[j].hi))[nds[j].hi - nds[j].lo + 1] <= AreaBytes
  <2>1. PICK lo, hi : lo = Nth(LeafStarts, j) /\ hi = IF j = n THEN Len(Planned) ELSE Nth(LeafStarts, j + 1) - 1
    OBVIOUS
  <2>2. nds[j].lo = lo /\ nds[j].hi = hi
    BY <1>6, <2>1 DEF S, Hi
  <2>3. Len(Planned) # 0
    BY <1>1, <1>8
  <2>4. /\ lo \in Nat /\ hi \in Nat /\ 1 <= lo /\ lo <= hi /\ hi <= Len(Planned)
        /\ Sums(LeafWidths(Planned, lo, hi))[hi - lo + 1] <= AreaBytes
    BY <2>1, <2>3, LeafBounds
  <2> QED
    BY <1>1, <2>2, <2>4
<1>9. ASSUME m = 0 PROVE n = 1 /\ nds[1].lo = 1 /\ nds[1].hi = 0 /\ nds[1].kids = NoKids
  <2>1. n = 1 /\ 1 \in 1 .. n
    BY <1>7, <1>9
  <2>2. Hi(1) = 0
    BY <1>1, <1>9, <2>1 DEF Hi
  <2> QED
    BY <1>4, <1>6, <2>1, <2>2
<1>10. \A j \in 1 .. n : IsLeafNode(E, nds[j]) /\ nds[j].lo \in Nat /\ nds[j].hi \in Nat /\ nds[j].kids \in Nat \X Nat
  <2>1. NoKids \in Nat \X Nat
    BY DEF NoKids
  <2>2. CASE m # 0
    <3> SUFFICES ASSUME NEW j \in 1 .. n
                 PROVE  IsLeafNode(E, nds[j]) /\ nds[j].lo \in Nat /\ nds[j].hi \in Nat /\ nds[j].kids \in Nat \X Nat
      OBVIOUS
    <3>1. PICK lo \in Nat, hi \in Nat : /\ lo = nds[j].lo /\ hi = nds[j].hi /\ 1 <= lo /\ lo <= hi /\ hi <= Len(E)
                                        /\ Sums(LeafWidths(E, lo, hi))[hi - lo + 1] <= AreaBytes
      BY <1>1, <1>8, <2>2
    <3>2. lo <= hi + 1
      BY <3>1
    <3> QED
      BY <1>6, <2>1, <3>1, <3>2 DEF IsLeafNode
  <2>3. CASE m = 0
    <3>1. n = 1 /\ nds[1].lo = 1 /\ nds[1].hi = 0 /\ nds[1].kids = NoKids
      BY <1>9, <2>3
    <3>2. LeafWidths(E, 1, 0) = <<>>
      BY DEF LeafWidths
    <3>3. Sums(LeafWidths(E, 1, 0))[0 - 1 + 1] <= AreaBytes
      <4>1. PICK s : s = <<>>
        OBVIOUS
      <4>2. s \in Seq(Nat)
        BY <4>1
      <4>3. Sums(s)[0] = 0
        BY <4>2, SumsAre
      <4>4. 0 <= AreaBytes /\ 0 - 1 + 1 = 0
        BY IndexAssumption
      <4> QED
        BY <3>2, <4>1, <4>3, <4>4
    <3>4. IsLeafNode(E, nds[1])
      <4>1. 1 <= 1 /\ 1 <= 0 + 1 /\ 0 <= Len(E)
        BY <1>1
      <4> QED
        BY <3>1, <3>3, <4>1 DEF IsLeafNode
    <3>5. \A j \in 1 .. n : j = 1
      BY <3>1
    <3> QED
      BY <2>1, <3>1, <3>4, <3>5
  <2> QED
    BY <2>2, <2>3
<1>11. nds \in Seq(NodeType) /\ Len(nds) = n
  <2>1. \A j \in 1 .. n : nds[j] \in NodeType
    <3> SUFFICES ASSUME NEW j \in 1 .. n PROVE nds[j] \in NodeType
      OBVIOUS
    <3>1. nds[j] = [lo |-> nds[j].lo, hi |-> nds[j].hi, kids |-> nds[j].kids]
      BY <1>5, <1>6 DEF Node
    <3> QED
      BY <1>10, <3>1 DEF NodeType
  <2>2. nds \in [1 .. n -> NodeType]
    BY <2>1
  <2> QED
    BY <1>3, <2>2, AsSequence, Zenon
<1>12. InLine(nds, 1, n)
  <2> SUFFICES ASSUME NEW j \in 1 .. (n - 1) PROVE nds[j + 1].lo = nds[j].hi + 1
    BY DEF InLine
  <2>1. j \in 1 .. n /\ j + 1 \in 1 .. n /\ j # n
    BY <1>3
  <2>2. PICK x \in Nat : x = Nth(S, j + 1)
    BY <1>2, <1>3, <2>1
  <2>3. nds[j].hi = x - 1
    BY <1>6, <2>1, <2>2 DEF Hi, S
  <2>4. nds[j + 1].lo = x
    BY <1>6, <2>1, <2>2
  <2>5. x = (x - 1) + 1
    OBVIOUS
  <2> QED
    BY <2>3, <2>4, <2>5
<1>13. Leaves(E, nds, n)
  <2>1. 1 \in 1 .. n /\ n \in 1 .. n
    BY <1>3, <1>4
  <2>2. nds[1].lo = 1 /\ nds[n].hi = Len(E)
    BY <1>4, <1>6, <2>1 DEF Hi
  <2>3. n <= Len(nds)
    BY <1>3, <1>11
  <2> QED
    BY <1>4, <1>10, <1>12, <2>2, <2>3 DEF Leaves
<1>14. lev \in Seq(Nat \X Nat) /\ Len(lev) = 1 /\ lev[1] = <<1, n>> /\ lev[1][1] = 1 /\ lev[1][2] = n
  BY <1>3
<1> HIDE DEF lev
<1>15. Forest(E, nds, lev)
  <2>1. \A d \in 1 .. Len(lev) : d = 1
    BY <1>14
  <2>2. \A d \in 2 .. Len(lev) : FALSE
    BY <1>14
  <2>3. 1 <= n /\ n <= Len(nds)
    BY <1>3, <1>4, <1>11
  <2>4. \A d \in 1 .. Len(lev) : lev[d][1] <= lev[d][2] /\ lev[d][2] <= Len(nds)
    BY <1>14, <2>1, <2>3
  <2>5. Leaves(E, nds, lev[1][2])
    BY <1>13, <1>14
  <2>6. Len(lev) >= 1
    BY <1>14
  <2> QED
    BY <1>11, <1>14, <2>2, <2>4, <2>5, <2>6 DEF Forest
<1>16. Full(E, nds)
  <2>1. CASE m = 0
    BY <1>1, <1>7, <1>11, <2>1 DEF Full
  <2>2. CASE m # 0
    BY <1>1, <1>8, <1>11, <2>2 DEF Full
  <2> QED
    BY <2>1, <2>2
<1>17. Paired(nds, Len(nds))
  BY <1>6, <1>11 DEF Paired
<1>18. \A i \in 1 .. Len(E) : RecordFits(Width[E[i].key])
  BY DEF Bytes
<1>19. n + 1 = lev[Len(lev)][2] + 1 /\ 1 \in lev[Len(lev)][1] .. lev[Len(lev)][2] /\ 1 = lev[Len(lev)][1]
  BY <1>3, <1>4, <1>14
<1>20. Adopted(E, nds, n + 1, Len(nds), lev[Len(lev)][1], 1 - 1)
  <2>1. /\ n + 1 > n /\ ~(n + 1 <= n) /\ (1 - 1) + 1 = 1 /\ (\A j \in (n + 1) .. n : FALSE)
        /\ \A j \in (n + 1) .. (n - 1) : FALSE
    BY <1>3
  <2> QED
    BY <1>11, <1>14, <2>1 DEF Adopted, InLine
<1> QED
  BY <1>15, <1>16, <1>17, <1>18, <1>19, <1>20 DEF Growing, lev

\* more begins with the nodes of nds.
Begins(nds, more, N) == \A j \in 1 .. N : more[j] = nds[j]
KidsKnown(nds, N) == \A j \in 1 .. N : nds[j].kids[1] \in Nat /\ nds[j].kids[2] \in Nat

\* What is said of the first nodes stays true when a node is added.
LEMMA InLineKept ==
  ASSUME NEW nds, NEW more, NEW N \in Nat, Begins(nds, more, N),
         NEW a \in Nat, NEW b \in Nat, 1 <= a, b <= N, InLine(nds, a, b)
  PROVE  InLine(more, a, b)
<1> SUFFICES ASSUME NEW j \in a .. (b - 1) PROVE more[j + 1].lo = more[j].hi + 1
  BY DEF InLine
<1>1. j \in 1 .. N /\ j + 1 \in 1 .. N
  OBVIOUS
<1>2. nds[j + 1].lo = nds[j].hi + 1
  BY DEF InLine
<1> QED
  BY <1>1, <1>2 DEF Begins

\* The widths are those of the nodes below.
LEMMA WidthsKept ==
  ASSUME NEW E, NEW nds, NEW more, NEW N \in Nat, Begins(nds, more, N),
         NEW a \in Nat, NEW b \in Nat, 1 <= a, b <= N
  PROVE  BranchWidths(E, more, a, b) = BranchWidths(E, nds, a, b)
<1>1. \A i \in 1 .. (b - a) : a + i - 1 \in 1 .. N
  OBVIOUS
<1>2. \A i \in 1 .. (b - a) : Width[E[more[a + i - 1].hi].key] + ChildBytes = Width[E[nds[a + i - 1].hi].key] + ChildBytes
  BY <1>1 DEF Begins
<1> QED
  BY <1>2 DEF BranchWidths

\* A parent stays one.
LEMMA ParentKept ==
  ASSUME NEW E, NEW nds, NEW more, NEW N \in Nat, Begins(nds, more, N),
         NEW j \in 1 .. N, nds[j].kids[1] \in Nat, nds[j].kids[2] \in Nat, IsParent(E, nds, j)
  PROVE  IsParent(E, more, j)
<1>1. PICK a \in Nat, b \in Nat : a = nds[j].kids[1] /\ b = nds[j].kids[2]
  OBVIOUS
<1>2. /\ 1 <= a /\ a <= b /\ b < j /\ nds[j].lo = nds[a].lo /\ nds[j].hi = nds[b].hi
      /\ Sums(BranchWidths(E, nds, a, b))[b - a] <= AreaBytes
  BY <1>1 DEF IsParent
<1>3. a \in 1 .. N /\ b \in 1 .. N /\ b <= N
  BY <1>2
<1>4. BranchWidths(E, more, a, b) = BranchWidths(E, nds, a, b)
  BY <1>2, <1>3, WidthsKept
<1>5. more[j] = nds[j] /\ more[a] = nds[a] /\ more[b] = nds[b]
  BY <1>3 DEF Begins
<1>6. more[j].kids[1] = a /\ more[j].kids[2] = b
  BY <1>1, <1>5
<1> QED
  BY <1>2, <1>4, <1>5, <1>6 DEF IsParent

\* A stretch of parents stays one.
LEMMA AdoptedKept ==
  ASSUME NEW E, NEW nds, NEW more, NEW N \in Nat, Begins(nds, more, N),
         KidsKnown(nds, N), NEW a \in Nat, NEW b \in Nat, NEW x, NEW y, 1 <= a, b <= N, Adopted(E, nds, a, b, x, y)
  PROVE  Adopted(E, more, a, b, x, y)
<1>1. /\ a > b => y + 1 = x
      /\ a <= b => nds[a].kids[1] = x /\ nds[b].kids[2] = y
      /\ \A j \in a .. b : IsParent(E, nds, j) /\ x <= nds[j].kids[1] /\ nds[j].kids[2] <= y
      /\ \A j \in a .. (b - 1) : nds[j + 1].kids[1] = nds[j].kids[2] + 1
      /\ InLine(nds, a, b)
  BY DEF Adopted
<1>2. \A j \in a .. b : j \in 1 .. N
  OBVIOUS
<1>3. \A j \in a .. (b - 1) : j \in 1 .. N /\ j + 1 \in 1 .. N
  OBVIOUS
<1>4. a <= b => a \in 1 .. N /\ b \in 1 .. N
  OBVIOUS
<1>5. InLine(more, a, b)
  BY <1>1, InLineKept
<1>6. \A j \in a .. b : IsParent(E, more, j)
  <2> SUFFICES ASSUME NEW j \in a .. b PROVE IsParent(E, more, j)
    OBVIOUS
  <2>1. j \in 1 .. N /\ nds[j].kids[1] \in Nat /\ nds[j].kids[2] \in Nat
    BY <1>2 DEF KidsKnown
  <2>2. IsParent(E, nds, j)
    BY <1>1
  <2> QED
    BY <2>1, <2>2, ParentKept
<1>7. a <= b => more[a].kids[1] = x /\ more[b].kids[2] = y
  BY <1>1, <1>4 DEF Begins
<1>8. \A j \in a .. b : x <= more[j].kids[1] /\ more[j].kids[2] <= y
  BY <1>1, <1>2 DEF Begins
<1>9. \A j \in a .. (b - 1) : more[j + 1].kids[1] = more[j].kids[2] + 1
  BY <1>1, <1>3 DEF Begins
<1> QED
  BY <1>1, <1>5, <1>6, <1>7, <1>8, <1>9 DEF Adopted

\* A forest stays one.
LEMMA ForestKept ==
  ASSUME NEW E, NEW nds, NEW lev, Forest(E, nds, lev), NEW more \in Seq(NodeType), Len(more) >= Len(nds),
         Begins(nds, more, Len(nds))
  PROVE  Forest(E, more, lev)
<1>1. PICK N \in Nat : N = Len(nds)
  BY ForestTypes
<1>2. /\ lev \in Seq(Nat \X Nat) /\ Len(lev) >= 1 /\ lev[1][1] = 1 /\ Leaves(E, nds, lev[1][2])
      /\ \A d \in 1 .. Len(lev) : lev[d][1] <= lev[d][2] /\ lev[d][2] <= N
      /\ \A d \in 2 .. Len(lev) : /\ lev[d][1] = lev[d - 1][2] + 1
                                  /\ Adopted(E, nds, lev[d][1], lev[d][2], lev[d - 1][1], lev[d - 1][2])
  BY <1>1 DEF Forest
<1>3. Len(lev) \in Nat /\ 1 \in 1 .. Len(lev) /\ Len(more) \in Nat
  BY ForestTypes
<1>4. \A d \in 1 .. Len(lev) : lev[d][1] \in Nat /\ lev[d][2] \in Nat /\ 1 <= lev[d][1]
  BY ForestTypes, LevelsApart
<1>5. KidsKnown(nds, N)
  BY <1>1, ForestTypes DEF KidsKnown
<1>6. Begins(nds, more, N)
  BY <1>1
<1>7. Leaves(E, more, lev[1][2])
  <2>1. PICK n \in Nat : n = lev[1][2]
    BY <1>3, <1>4
  <2>2. /\ 1 <= n /\ n <= N /\ nds[1].lo = 1 /\ nds[n].hi = Len(E) /\ InLine(nds, 1, n)
        /\ \A j \in 1 .. n : IsLeafNode(E, nds[j])
    BY <1>1, <1>2, <2>1 DEF Leaves
  <2>3. 1 \in 1 .. N /\ n \in 1 .. N /\ \A j \in 1 .. n : j \in 1 .. N
    BY <2>2
  <2>4. InLine(more, 1, n)
    <3>1. PICK one \in Nat : one = 1 /\ 1 <= one
      OBVIOUS
    <3>2. InLine(nds, one, n) /\ n <= N
      BY <2>2, <3>1
    <3>3. InLine(more, one, n)
      BY <1>6, <3>1, <3>2, InLineKept
    <3> QED
      BY <3>1, <3>3
  <2>5. n <= Len(more)
    BY <1>1, <1>3, <2>2
  <2>6. more[1].lo = 1 /\ more[n].hi = Len(E) /\ \A j \in 1 .. n : IsLeafNode(E, more[j])
    BY <1>6, <2>2, <2>3 DEF Begins
  <2> QED
    BY <2>1, <2>2, <2>4, <2>5, <2>6 DEF Leaves
<1>8. \A d \in 1 .. Len(lev) : lev[d][2] <= Len(more)
  BY <1>1, <1>2, <1>3, <1>4
<1>9. ASSUME NEW d \in 2 .. Len(lev)
      PROVE  Adopted(E, more, lev[d][1], lev[d][2], lev[d - 1][1], lev[d - 1][2])
  <2>1. d \in 1 .. Len(lev)
    BY <1>3
  <2>2. PICK a \in Nat, b \in Nat : a = lev[d][1] /\ b = lev[d][2] /\ 1 <= a /\ b <= N
    BY <1>2, <1>4, <2>1
  <2>3. PICK x, y : x = lev[d - 1][1] /\ y = lev[d - 1][2]
    OBVIOUS
  <2>4. Adopted(E, nds, a, b, x, y)
    BY <1>2, <2>2, <2>3
  <2>5. Adopted(E, more, a, b, x, y)
    BY <1>5, <1>6, <2>2, <2>4, AdoptedKept
  <2> QED
    BY <2>2, <2>3, <2>5
<1> QED
  BY <1>2, <1>7, <1>8, <1>9 DEF Forest

\* Where a greedy packing of widths, each at most half of the area, may end.
Ends(P, n, area, k) == k \in 0 .. n /\ P[k] <= area /\ (k < n => P[k + 1] > area)

\* There is such an end; it takes two widths, or all of them.
LEMMA GreedyEnd ==
  ASSUME NEW s \in Seq(Nat), NEW n \in Nat, n = Len(s), 1 <= n, NEW area \in Nat, \A i \in 1 .. n : 2 * s[i] <= area,
         NEW P, P = Sums(s)
  PROVE  /\ \E k \in 0 .. n : Ends(P, n, area, k)
         /\ \A k \in 0 .. n : Ends(P, n, area, k) => 1 <= k /\ (k = n \/ 2 <= k) /\ P[k - 1] <= area
<1>1. P \in [0 .. n -> Nat] /\ P[0] = 0 /\ \A i \in 1 .. n : P[i] = P[i - 1] + s[i]
  BY SumsAre
<1>2. \A i \in 1 .. n : s[i] \in Nat
  OBVIOUS
<1>3. \E k \in 0 .. n : Ends(P, n, area, k)
  <2> SUFFICES ASSUME \A k \in 0 .. n : ~Ends(P, n, area, k) PROVE FALSE
    OBVIOUS
  <2> DEFINE Q == {k \in 0 .. n : P[k] <= area}
  <2>1. 0 \in Q
    BY <1>1
  <2>2. ASSUME NEW k \in 0 .. n, k \in Q, k + 1 <= n PROVE k + 1 \in Q
    <3>1. ~Ends(P, n, area, k)
      OBVIOUS
    <3>2. k < n /\ k + 1 \in 0 .. n
      BY <2>2
    <3>3. ~(P[k + 1] > area)
      BY <2>2, <3>1, <3>2 DEF Ends
    <3>4. PICK x \in Nat : x = P[k + 1]
      BY <1>1, <3>2
    <3>5. x <= area
      BY <3>3, <3>4
    <3> QED
      BY <3>2, <3>4, <3>5
  <2> HIDE DEF Q
  <2>3. \A k \in 0 .. n : k \in Q
    BY <2>1, <2>2, Induct
  <2>4. n \in 0 .. n /\ ~(n < n)
    OBVIOUS
  <2>5. P[n] <= area
    BY <2>3, <2>4 DEF Q
  <2>6. Ends(P, n, area, n)
    BY <2>4, <2>5 DEF Ends
  <2> QED
    BY <2>4, <2>6
<1>4. ASSUME NEW k \in 0 .. n, Ends(P, n, area, k) PROVE 1 <= k /\ (k = n \/ 2 <= k) /\ P[k - 1] <= area
  <2>1. PICK u \in Nat : u = s[1] /\ 2 * u <= area
    <3>1. 1 \in 1 .. n
      OBVIOUS
    <3> QED
      BY <1>2, <3>1
  <2>2. P[1] = u
    <3>1. 1 \in 1 .. n /\ 1 - 1 = 0
      OBVIOUS
    <3>2. P[1] = 0 + u
      BY <1>1, <2>1, <3>1
    <3> QED
      BY <3>2
  <2>3. k # 0
    <3> SUFFICES ASSUME k = 0 PROVE FALSE
      OBVIOUS
    <3>1. k < n /\ k + 1 = 1
      OBVIOUS
    <3>2. u > area
      BY <1>4, <2>2, <3>1 DEF Ends
    <3> QED
      BY <2>1, <3>2
  <2>4. k = n \/ 2 <= k
    <3> SUFFICES ASSUME k # n, k = 1 PROVE FALSE
      BY <2>3
    <3>1. 2 \in 1 .. n /\ k < n /\ k + 1 = 2 /\ 2 - 1 = 1
      OBVIOUS
    <3>2. PICK v \in Nat : v = s[2] /\ 2 * v <= area
      BY <1>2, <3>1
    <3>3. P[2] = u + v
      BY <1>1, <2>2, <3>1, <3>2
    <3>4. u + v > area
      BY <1>4, <3>1, <3>3 DEF Ends
    <3>5. 2 * u <= area /\ 2 * v <= area
      BY <2>1, <3>2
    <3> QED
      BY <3>4, <3>5
  <2>5. P[k - 1] <= area
    <3>1. k \in 1 .. n /\ k - 1 \in 0 .. n
      BY <2>3
    <3>2. PICK x \in Nat, y \in Nat, w \in Nat : x = P[k - 1] /\ y = P[k] /\ w = s[k]
      BY <1>1, <1>2, <3>1
    <3>3. y = x + w
      BY <1>1, <3>1, <3>2
    <3>4. y <= area
      BY <1>4, <3>2 DEF Ends
    <3>5. x <= area
      BY <3>3, <3>4
    <3> QED
      BY <3>2, <3>5
  <2> QED
    BY <2>3, <2>4, <2>5
<1> QED
  BY <1>3, <1>4

\* The nodes a .. b end at entries.
Ranged(E, nds, a, b) == \A j \in a .. b : nds[j].hi \in 1 .. Len(E)

\* The widths of a branch over a stretch of nodes.
Separates(s, E, nds, a, b) ==
  /\ s \in Seq(Nat) /\ Len(s) = b - a
  /\ \A i \in 1 .. (b - a) : /\ nds[a + i - 1].hi \in 1 .. Len(E)
                             /\ s[i] = Width[E[nds[a + i - 1].hi].key] + ChildBytes

\* What BranchWidths gives is those widths.
LEMMA BranchWidthsAre ==
  ASSUME NEW E, Ascending(E), NEW nds, NEW a \in Nat, NEW b \in Nat, 1 <= a, a <= b, Ranged(E, nds, a, b)
  PROVE  Separates(BranchWidths(E, nds, a, b), E, nds, a, b)
<1>1. PICK k \in Nat, c \in Nat : k = b - a /\ c = ChildBytes
  BY IndexAssumption
<1>2. \A i \in 1 .. k : a + i - 1 \in a .. b
  BY <1>1
<1>3. \A i \in 1 .. k : nds[a + i - 1].hi \in 1 .. Len(E)
  BY <1>2 DEF Ranged
<1>4. \A i \in 1 .. Len(E) : Width[E[i].key] \in Nat
  BY WidthsType
<1>5. \A i \in 1 .. k : Width[E[nds[a + i - 1].hi].key] + c \in Nat
  <2> SUFFICES ASSUME NEW i \in 1 .. k PROVE Width[E[nds[a + i - 1].hi].key] + c \in Nat
    OBVIOUS
  <2>1. Width[E[nds[a + i - 1].hi].key] \in Nat
    BY <1>3, <1>4
  <2> QED
    BY <2>1
<1>6. BranchWidths(E, nds, a, b) = [i \in 1 .. k |-> Width[E[nds[a + i - 1].hi].key] + c]
  BY <1>1 DEF BranchWidths
<1>7. BranchWidths(E, nds, a, b) \in [1 .. k -> Nat]
  BY <1>5, <1>6
<1>8. BranchWidths(E, nds, a, b) \in Seq(Nat) /\ Len(BranchWidths(E, nds, a, b)) = k
  BY <1>7, AsSequence
<1> QED
  BY <1>1, <1>3, <1>6, <1>8 DEF Separates

\* A shorter group takes the same bytes for the separators it keeps.
LEMMA ShorterGroup ==
  ASSUME NEW E, Ascending(E), NEW nds, NEW f \in Nat, NEW g \in Nat, NEW b \in Nat, 1 <= f, f <= g, g <= b, Ranged(E, nds, f, b)
  PROVE  Sums(BranchWidths(E, nds, f, g))[g - f] = Sums(BranchWidths(E, nds, f, b))[g - f]
<1>1. Ranged(E, nds, f, g) /\ f <= b
  <2>1. f <= b /\ \A j \in f .. g : j \in f .. b
    OBVIOUS
  <2> QED
    BY <2>1 DEF Ranged
<1>2. PICK s : s = BranchWidths(E, nds, f, b)
  OBVIOUS
<1>3. PICK t : t = BranchWidths(E, nds, f, g)
  OBVIOUS
<1>4. /\ s \in Seq(Nat) /\ Len(s) = b - f
      /\ \A i \in 1 .. (b - f) : s[i] = Width[E[nds[f + i - 1].hi].key] + ChildBytes
  <2>1. Separates(s, E, nds, f, b)
    BY <1>1, <1>2, BranchWidthsAre
  <2> QED
    BY <2>1 DEF Separates
<1>5. /\ t \in Seq(Nat) /\ Len(t) = g - f
      /\ \A i \in 1 .. (g - f) : t[i] = Width[E[nds[f + i - 1].hi].key] + ChildBytes
  <2>1. Separates(t, E, nds, f, g)
    BY <1>1, <1>3, BranchWidthsAre
  <2> QED
    BY <2>1 DEF Separates
<1>6. PICK h \in Nat, z \in Nat : h = g - f /\ z = 0
  OBVIOUS
<1>7. \A i \in 1 .. h : i \in 1 .. (b - f) /\ i \in 1 .. (g - f) /\ z + i = i
  BY <1>6
<1>8. \A i \in 1 .. h : t[i] = s[z + i]
  BY <1>4, <1>5, <1>7
<1>9. z + Len(t) <= Len(s) /\ (\A i \in 1 .. Len(t) : t[i] = s[z + i]) /\ Len(t) = h
  BY <1>4, <1>5, <1>6, <1>8
<1>10. s \in Seq(Nat) /\ t \in Seq(Nat)
  BY <1>4, <1>5
<1>11. \A i \in 0 .. Len(t) : Sums(s)[z + i] = Sums(s)[z] + Sums(t)[i]
  BY <1>9, <1>10, SumsSlice
<1>12. Sums(s)[z + h] = Sums(s)[z] + Sums(t)[h] /\ z + h = h
  BY <1>6, <1>9, <1>11
<1>13. PICK x \in Nat : x = Sums(t)[h]
  <2>1. h \in 0 .. Len(t)
    BY <1>9
  <2> QED
    BY <1>10, <2>1, SumsAre
<1>14. Sums(s)[z] = 0
  BY <1>6, <1>10, SumsAre
<1>15. Sums(s)[h] = x
  BY <1>12, <1>13, <1>14
<1> QED
  BY <1>2, <1>3, <1>6, <1>13, <1>15

\* What a growing tree is made of.
LEMMA GrowingTypes ==
  ASSUME NEW E, NEW nds, NEW lev, NEW fst, NEW st, Growing(E, nds, lev, fst, st)
  PROVE  /\ Ascending(E) /\ Forest(E, nds, lev) /\ Full(E, nds) /\ Paired(nds, Len(nds)) /\ Len(nds) \in Nat
         /\ Len(lev) \in Nat /\ Len(lev) \in 1 .. Len(lev)
         /\ lev[Len(lev)][1] \in Nat /\ lev[Len(lev)][2] \in Nat /\ fst \in Nat
         /\ 1 <= lev[Len(lev)][1] /\ lev[Len(lev)][1] <= fst /\ fst <= lev[Len(lev)][2] /\ lev[Len(lev)][2] <= Len(nds)
         /\ st = lev[Len(lev)][2] + 1 /\ (fst = lev[Len(lev)][1] \/ fst < lev[Len(lev)][2])
         /\ Adopted(E, nds, st, Len(nds), lev[Len(lev)][1], fst - 1)
         /\ InLine(nds, lev[Len(lev)][1], lev[Len(lev)][2])
         /\ \A j \in 1 .. lev[Len(lev)][2] : Len(E) # 0 => nds[j].hi \in 1 .. Len(E)
<1>1. /\ Ascending(E) /\ Forest(E, nds, lev) /\ Full(E, nds) /\ Paired(nds, Len(nds))
      /\ st = lev[Len(lev)][2] + 1 /\ fst \in lev[Len(lev)][1] .. lev[Len(lev)][2]
      /\ fst = lev[Len(lev)][1] \/ fst < lev[Len(lev)][2]
      /\ Adopted(E, nds, st, Len(nds), lev[Len(lev)][1], fst - 1)
  BY DEF Growing
<1>2. Len(nds) \in Nat /\ Len(lev) \in Nat /\ Len(lev) \in 1 .. Len(lev)
  BY <1>1, ForestTypes
<1>3. PICK a \in Nat, b \in Nat : a = lev[Len(lev)][1] /\ b = lev[Len(lev)][2]
  BY <1>1, <1>2, ForestTypes
<1>4. 1 <= a
  BY <1>1, <1>2, <1>3, LevelsApart
<1>5. b <= Len(nds)
  BY <1>1, <1>2, <1>3 DEF Forest
<1>6. fst \in Nat /\ a <= fst /\ fst <= b
  BY <1>1, <1>3
<1>7. InLine(nds, a, b)
  BY <1>1, <1>2, <1>3, LevelInLine
<1>8. ASSUME NEW j \in 1 .. b, Len(E) # 0 PROVE nds[j].hi \in 1 .. Len(E)
  <2>1. j \in 1 .. Len(nds)
    BY <1>2, <1>5
  <2>2. PICK lo \in Nat, hi \in Nat : lo = nds[j].lo /\ hi = nds[j].hi
    BY <1>1, <2>1, ForestTypes
  <2>3. lo <= hi
    BY <1>1, <1>8, <2>1, <2>2 DEF Full
  <2>4. 1 <= lo /\ hi <= Len(E)
    BY <1>1, <1>3, <2>2, Covered
  <2>5. Len(E) \in Nat
    BY <1>1, WidthsType
  <2>6. hi \in 1 .. Len(E)
    BY <2>3, <2>4, <2>5
  <2> QED
    BY <2>2, <2>6
<1> QED
  BY <1>1, <1>2, <1>3, <1>4, <1>5, <1>6, <1>7, <1>8

\* The separators of a greedy group.
GroupBytes(s, a, b) ==
  /\ a < b /\ first \in Nat /\ first < b /\ Len(Planned) # 0 /\ LevelEnd = b
  /\ s \in Seq(Nat) /\ Len(s) = b - first /\ \A i \in 1 .. (b - first) : 2 * s[i] <= AreaBytes
  /\ \A e \in first .. b : SeparatorBytes(e) = Sums(s)[e - first]

\* SeparatorBytes adds the separators of the group, none more than half a page.
LEMMA SeparatorsAre ==
  ASSUME Growing(Planned, nodes, level, first, start), MoreToGroup,
         NEW a \in Nat, NEW b \in Nat, a = level[Len(level)][1], b = level[Len(level)][2],
         NEW s, s = BranchWidths(Planned, nodes, first, b)
  PROVE  GroupBytes(s, a, b)
<1>1. Last(level)[1] = a /\ LevelEnd = b
  BY DEF LevelEnd, Last
<1>2. a < b
  BY <1>1 DEF MoreToGroup
<1>3. /\ Ascending(Planned) /\ Full(Planned, nodes) /\ Len(nodes) \in Nat /\ first \in Nat
      /\ 1 <= a /\ a <= first /\ first <= b /\ b <= Len(nodes) /\ (first = a \/ first < b)
      /\ \A j \in 1 .. b : Len(Planned) # 0 => nodes[j].hi \in 1 .. Len(Planned)
  BY GrowingTypes
<1>4. PICK f \in Nat : f = first
  BY <1>3
<1>5. 1 <= f /\ f < b
  BY <1>2, <1>3, <1>4
<1>6. Len(Planned) # 0
  <2>1. PICK N \in Nat : N = Len(nodes) /\ b <= N
    BY <1>3
  <2>2. N # 1
    BY <1>2, <1>3, <2>1
  <2> QED
    BY <1>3, <2>1, <2>2 DEF Full
<1>7. Ranged(Planned, nodes, f, b)
  <2>1. \A j \in f .. b : j \in 1 .. b
    BY <1>5
  <2> QED
    BY <1>3, <1>6, <2>1 DEF Ranged
<1>8. /\ s \in Seq(Nat) /\ Len(s) = b - f
      /\ \A i \in 1 .. (b - f) : /\ nodes[f + i - 1].hi \in 1 .. Len(Planned)
                                 /\ s[i] = Width[Planned[nodes[f + i - 1].hi].key] + ChildBytes
  <2>1. f <= b /\ s = BranchWidths(Planned, nodes, f, b)
    BY <1>4, <1>5
  <2>2. Separates(s, Planned, nodes, f, b)
    BY <1>3, <1>5, <1>7, <2>1, BranchWidthsAre
  <2> QED
    BY <2>2 DEF Separates
<1>9. ASSUME NEW i \in 1 .. (b - f) PROVE 2 * s[i] <= AreaBytes
  <2>1. PICK j \in 1 .. Len(Planned) : j = nodes[f + i - 1].hi /\ s[i] = Width[Planned[j].key] + ChildBytes
    BY <1>8
  <2>2. PICK w \in Nat : w = Width[Planned[j].key]
    BY <1>3, WidthsType
  <2>3. RecordFits(w)
    BY <2>2 DEF Growing
  <2>4. 2 * (w + ChildBytes) <= AreaBytes
    BY <2>3, FitsTwice
  <2> QED
    BY <2>1, <2>2, <2>4
<1>10. ASSUME NEW e \in f .. b PROVE SeparatorBytes(e) = Sums(s)[e - f]
  <2>1. s = [i \in 1 .. b - f |-> Bytes(nodes[f + i - 1].hi) + ChildBytes]
    BY <1>4 DEF BranchWidths, Bytes
  <2>2. SeparatorBytes(e) = Sums([i \in 1 .. b - f |-> Bytes(nodes[f + i - 1].hi) + ChildBytes])[e - f]
    BY <1>1, <1>4 DEF SeparatorBytes
  <2> QED
    BY <2>1, <2>2
<1> QED
  BY <1>1, <1>2, <1>4, <1>5, <1>6, <1>8, <1>9, <1>10 DEF GroupBytes

\* A group has two children at least, fits, and leaves no single child behind.
LEMMA GroupFits ==
  ASSUME Growing(Planned, nodes, level, first, start), MoreToGroup
  PROVE  /\ GroupEnd \in Nat /\ first < GroupEnd /\ GroupEnd <= LevelEnd /\ (GroupEnd = LevelEnd \/ GroupEnd + 1 < LevelEnd)
         /\ Sums(BranchWidths(Planned, nodes, first, GroupEnd))[GroupEnd - first] <= AreaBytes
<1>1. PICK a \in Nat, b \in Nat, f \in Nat : a = level[Len(level)][1] /\ b = level[Len(level)][2] /\ f = first
  BY GrowingTypes
<1>2. PICK s : s = BranchWidths(Planned, nodes, f, b)
  OBVIOUS
<1>21. s = BranchWidths(Planned, nodes, first, b)
  BY <1>1, <1>2
<1>22. /\ first < b /\ Len(Planned) # 0 /\ LevelEnd = b
       /\ s \in Seq(Nat) /\ Len(s) = b - first /\ (\A i \in 1 .. (b - first) : 2 * s[i] <= AreaBytes)
       /\ \A e \in first .. b : SeparatorBytes(e) = Sums(s)[e - first]
  <2>1. GroupBytes(s, a, b)
    BY <1>1, <1>21, SeparatorsAre
  <2> QED
    BY <2>1 DEF GroupBytes
<1>3. /\ f < b /\ Len(Planned) # 0 /\ LevelEnd = b
      /\ s \in Seq(Nat) /\ Len(s) = b - f /\ \A i \in 1 .. (b - f) : 2 * s[i] <= AreaBytes
      /\ \A e \in f .. b : SeparatorBytes(e) = Sums(s)[e - f]
  BY <1>1, <1>22
<1>4. PICK n \in Nat, area \in Nat : n = b - f /\ 1 <= n /\ area = AreaBytes /\ n = Len(s)
  BY <1>3, IndexAssumption
<1>41. PICK P : P = Sums(s)
  OBVIOUS
<1>5. /\ \E k \in 0 .. n : Ends(P, n, area, k)
      /\ \A k \in 0 .. n : Ends(P, n, area, k) => 1 <= k /\ (k = n \/ 2 <= k) /\ P[k - 1] <= area
  <2>1. \A i \in 1 .. n : 2 * s[i] <= area
    BY <1>3, <1>4
  <2> QED
    BY <1>3, <1>4, <1>41, <2>1, GreedyEnd
<1> DEFINE Fits(end) == /\ SeparatorBytes(end) <= AreaBytes
                        /\ end < LevelEnd => SeparatorBytes(end + 1) > AreaBytes
<1>6. ASSUME NEW e \in f .. b, NEW k \in 0 .. n, k = e - f PROVE Fits(e) <=> Ends(P, n, area, k)
  <2>1. SeparatorBytes(e) = P[k]
    BY <1>3, <1>4, <1>41, <1>6
  <2>2. e < b <=> k < n
    BY <1>4, <1>6
  <2>3. e < b => SeparatorBytes(e + 1) = P[k + 1]
    <3> SUFFICES ASSUME e < b PROVE SeparatorBytes(e + 1) = P[k + 1]
      OBVIOUS
    <3>1. e + 1 \in f .. b /\ (e + 1) - f = k + 1
      BY <1>6
    <3> QED
      BY <1>3, <1>4, <1>41, <3>1
  <2> QED
    BY <1>3, <1>4, <2>1, <2>2, <2>3 DEF Ends
<1> HIDE DEF Fits
<1>7. Fitting = CHOOSE end \in f .. b : Fits(end)
  BY <1>1, <1>3 DEF Fitting, Fits
<1>8. \E end \in f .. b : Fits(end)
  <2>1. PICK k \in 0 .. n : Ends(P, n, area, k)
    BY <1>5
  <2>2. PICK e \in f .. b : e = f + k /\ k = e - f
    BY <1>4
  <2> QED
    BY <1>6, <2>1, <2>2
<1>9. PICK e \in f .. b : e = Fitting /\ Fits(e)
  BY <1>7, <1>8
<1>10. PICK k \in 0 .. n : k = e - f
  BY <1>4
<1>11. Ends(P, n, area, k)
  BY <1>6, <1>9, <1>10
<1>12. 1 <= k /\ (k = n \/ 2 <= k) /\ P[k - 1] <= area /\ P[k] <= area
  BY <1>5, <1>11 DEF Ends
<1>13. PICK g : g = GroupEnd /\ g = IF b - e = 1 THEN e - 1 ELSE e
  BY <1>3, <1>9 DEF GroupEnd
<1>14. g \in Nat /\ f < g /\ g <= b /\ (g = b \/ g + 1 < b) /\ P[g - f] <= area
  <2>1. CASE b - e = 1
    <3>1. g = e - 1 /\ k # n
      BY <1>4, <1>10, <1>13, <2>1
    <3>2. 2 <= k
      BY <1>12, <3>1
    <3>3. e - f = k /\ k \in Nat /\ e \in Nat
      BY <1>10
    <3>4. g \in Nat /\ f < g /\ g <= b /\ g + 1 < b /\ g - f = k - 1
      BY <2>1, <3>1, <3>2, <3>3
    <3> QED
      BY <1>12, <3>4
  <2>2. CASE b - e # 1
    <3>1. g = e
      BY <1>13, <2>2
    <3>2. e - f = k /\ k \in Nat /\ e \in Nat /\ e <= b /\ 1 <= k
      BY <1>10, <1>12
    <3>3. g \in Nat /\ f < g /\ g <= b /\ (g = b \/ g + 1 < b) /\ g - f = k
      BY <2>2, <3>1, <3>2
    <3> QED
      BY <1>12, <3>3
  <2> QED
    BY <2>1, <2>2
<1>15. Sums(BranchWidths(Planned, nodes, f, g))[g - f] <= area
  <2>1. /\ Ascending(Planned) /\ 1 <= f
        /\ \A j \in 1 .. b : Len(Planned) # 0 => nodes[j].hi \in 1 .. Len(Planned)
    <3>1. /\ Ascending(Planned) /\ 1 <= level[Len(level)][1] /\ level[Len(level)][1] <= first
          /\ \A j \in 1 .. level[Len(level)][2] : Len(Planned) # 0 => nodes[j].hi \in 1 .. Len(Planned)
      BY GrowingTypes
    <3>2. 1 <= a /\ a <= f
      BY <1>1, <3>1
    <3>3. 1 <= f
      BY <3>2
    <3> QED
      BY <1>1, <3>1, <3>3
  <2>2. Ranged(Planned, nodes, f, b)
    <3>1. \A j \in f .. b : j \in 1 .. b
      BY <2>1
    <3> QED
      BY <1>3, <2>1, <3>1 DEF Ranged
  <2>3. f <= g
    BY <1>14
  <2>4. Sums(BranchWidths(Planned, nodes, f, g))[g - f] = Sums(BranchWidths(Planned, nodes, f, b))[g - f]
    <3>1. PICK h \in Nat : h = g /\ h <= b /\ f <= h
      BY <1>14, <2>3
    <3>2. Sums(BranchWidths(Planned, nodes, f, h))[h - f] = Sums(BranchWidths(Planned, nodes, f, b))[h - f]
      BY <2>1, <2>2, <3>1, ShorterGroup
    <3> QED
      BY <3>1, <3>2
  <2> QED
    BY <1>2, <1>14, <1>41, <2>4
<1> QED
  BY <1>1, <1>3, <1>4, <1>13, <1>14, <1>15

\* more is nds and one node more.
OneMore(nds, more, nd) ==
  /\ more \in Seq(NodeType) /\ Len(more) = Len(nds) + 1 /\ Begins(nds, more, Len(nds)) /\ more[Len(nds) + 1] = nd

\* That is what appending does.
LEMMA Appended ==
  ASSUME NEW nds \in Seq(NodeType), NEW nd \in NodeType
  PROVE  OneMore(nds, nds \o <<nd>>, nd)
<1>1. PICK s : s = <<nd>>
  OBVIOUS
<1>2. s \in Seq(NodeType) /\ Len(s) = 1 /\ s[1] = nd
  BY <1>1
<1>3. /\ nds \o s \in Seq(NodeType) /\ Len(nds \o s) = Len(nds) + Len(s)
      /\ \A k \in 1 .. Len(nds) : (nds \o s)[k] = nds[k]
      /\ \A j \in 1 .. Len(s) : (nds \o s)[Len(nds) + j] = s[j]
  <2>1. nds \o s \in Seq(NodeType)
    BY <1>2, Concat, Zenon
  <2>2. Len(nds \o s) = Len(nds) + Len(s)
    BY <1>2, Concat, Zenon
  <2>3. \A k \in 1 .. Len(nds) : (nds \o s)[k] = nds[k]
    BY <1>2, Concat, Zenon
  <2>4. \A j \in 1 .. Len(s) : (nds \o s)[Len(nds) + j] = s[j]
    <3>1. \A X : \A p, q \in Seq(X) : \A j \in 1 .. Len(q) : (p \o q)[Len(p) + j] = q[j]
      BY Concat
    <3> QED
      BY <1>2, <3>1
  <2> QED
    BY <2>1, <2>2, <2>3, <2>4, Zenon
<1>4. 1 \in 1 .. Len(s)
  BY <1>2
<1>5. (nds \o s)[Len(nds) + 1] = nd
  BY <1>2, <1>3, <1>4
<1>6. OneMore(nds, nds \o s, nd)
  BY <1>2, <1>3, <1>5 DEF OneMore, Begins
<1> QED
  BY <1>1, <1>6

\* The nodes f .. g may become the children of the next branch.
Groupable(E, nds, lev, f, g) ==
  /\ f < g /\ g <= lev[Len(lev)][2] /\ (g = lev[Len(lev)][2] \/ g + 1 < lev[Len(lev)][2])
  /\ Sums(BranchWidths(E, nds, f, g))[g - f] <= AreaBytes

NewParent(E, nds, more, N, f, g) ==
  /\ IsParent(E, more, N + 1) /\ more[N + 1].lo <= more[N + 1].hi /\ Len(E) # 0
  /\ more[N + 1].kids[1] = f /\ more[N + 1].kids[2] = g /\ more[N + 1].lo = nds[f].lo

\* The branch added is a parent, and not empty.
LEMMA ParentAdded ==
  ASSUME NEW E, NEW nds, NEW lev, NEW f \in Nat, NEW st, Growing(E, nds, lev, f, st),
         NEW g \in Nat, Groupable(E, nds, lev, f, g),
         NEW nd, nd = Node(nds[f].lo, nds[g].hi, <<f, g>>), NEW more, OneMore(nds, more, nd),
         NEW N \in Nat, N = Len(nds)
  PROVE  NewParent(E, nds, more, N, f, g)
<1>1. PICK a \in Nat, b \in Nat : a = lev[Len(lev)][1] /\ b = lev[Len(lev)][2]
  BY GrowingTypes
<1>2. 1 <= a /\ a <= f /\ b <= N /\ f < g /\ g <= b /\ Sums(BranchWidths(E, nds, f, g))[g - f] <= AreaBytes
  BY <1>1, GrowingTypes DEF Groupable
<1>3. f \in 1 .. N /\ g \in 1 .. N /\ 1 <= f /\ f <= g /\ g < N + 1 /\ g <= N
  BY <1>2
<1>4. more[f] = nds[f] /\ more[g] = nds[g] /\ more[N + 1] = nd /\ Begins(nds, more, N)
  BY <1>3 DEF OneMore, Begins
<1>5. nd.lo = nds[f].lo /\ nd.hi = nds[g].hi /\ nd.kids[1] = f /\ nd.kids[2] = g
  BY DEF Node
<1>6. BranchWidths(E, more, f, g) = BranchWidths(E, nds, f, g)
  BY <1>3, <1>4, WidthsKept
<1>7. more[N + 1].kids[1] = f /\ more[N + 1].kids[2] = g /\ more[N + 1].lo = nds[f].lo /\ more[N + 1].hi = nds[g].hi
  BY <1>4, <1>5
<1>8. IsParent(E, more, N + 1)
  BY <1>2, <1>3, <1>4, <1>6, <1>7 DEF IsParent
<1>9. Len(E) # 0
  <2>1. N # 1
    BY <1>2, <1>3
  <2>2. Full(E, nds)
    BY GrowingTypes
  <2> QED
    BY <2>1, <2>2 DEF Full
<1>10. nd.lo <= nd.hi
  <2>1. Full(E, nds) /\ Forest(E, nds, lev) /\ InLine(nds, a, b)
    BY <1>1, GrowingTypes
  <2>2. \A j \in 1 .. N : nds[j].lo \in Nat /\ nds[j].hi \in Nat /\ nds[j].lo <= nds[j].hi
    BY <1>9, <2>1, ForestTypes DEF Full
  <2>3. \A j \in a .. b : j \in 1 .. N
    BY <1>2
  <2>4. \A j \in a .. b : nds[j].lo \in Nat /\ nds[j].hi \in Nat /\ nds[j].lo <= nds[j].hi
    BY <2>2, <2>3
  <2>5. \A i, j \in a .. b : i < j => nds[i].hi < nds[j].lo
    BY <2>1, <2>4, LaterCovers
  <2>6. f \in a .. b /\ g \in a .. b
    BY <1>2
  <2>7. PICK p \in Nat, q \in Nat, r \in Nat, t \in Nat :
          p = nds[f].lo /\ q = nds[f].hi /\ r = nds[g].lo /\ t = nds[g].hi /\ p <= q /\ r <= t
    BY <2>4, <2>6
  <2>8. q < r
    BY <1>2, <2>5, <2>6, <2>7
  <2>9. p <= t
    BY <2>7, <2>8
  <2> QED
    BY <1>5, <2>7, <2>9
<1> QED
  BY <1>4, <1>7, <1>8, <1>9, <1>10 DEF NewParent

\* The branches of the level under construction, with the new one.
LEMMA AdoptedAdded ==
  ASSUME NEW E, NEW nds, NEW lev, NEW f \in Nat, NEW st, Growing(E, nds, lev, f, st),
         NEW g \in Nat, Groupable(E, nds, lev, f, g),
         NEW nd, nd = Node(nds[f].lo, nds[g].hi, <<f, g>>), NEW more, OneMore(nds, more, nd),
         NEW N \in Nat, N = Len(nds)
  PROVE  Adopted(E, more, st, N + 1, lev[Len(lev)][1], g)
<1>1. PICK a \in Nat, b \in Nat : a = lev[Len(lev)][1] /\ b = lev[Len(lev)][2]
  BY GrowingTypes
<1>2. PICK s \in Nat : s = st /\ s = b + 1
  BY <1>1, GrowingTypes
<1>3. /\ 1 <= a /\ a <= f /\ f <= b /\ b <= N /\ f < g /\ g <= b
      /\ Adopted(E, nds, s, N, a, f - 1) /\ InLine(nds, a, b) /\ Forest(E, nds, lev)
  BY <1>1, <1>2, GrowingTypes DEF Groupable
<1>4. /\ IsParent(E, more, N + 1)
      /\ more[N + 1].kids[1] = f /\ more[N + 1].kids[2] = g /\ more[N + 1].lo = nds[f].lo
  <2>1. NewParent(E, nds, more, N, f, g)
    BY ParentAdded
  <2> QED
    BY <2>1 DEF NewParent
<1>5. Begins(nds, more, N) /\ KidsKnown(nds, N)
  <2>1. KidsKnown(nds, N)
    BY <1>3, ForestTypes DEF KidsKnown
  <2> QED
    BY <2>1 DEF OneMore
<1>6. Adopted(E, more, s, N, a, f - 1)
  <2>1. PICK y : y = f - 1
    OBVIOUS
  <2>2. 1 <= s /\ Adopted(E, nds, s, N, a, y) /\ N <= N
    BY <1>2, <1>3, <2>1
  <2>3. Adopted(E, more, s, N, a, y)
    BY <1>5, <2>2, AdoptedKept
  <2> QED
    BY <2>1, <2>3
<1>7. /\ s > N => (f - 1) + 1 = a
      /\ s <= N => more[s].kids[1] = a /\ more[N].kids[2] = f - 1
      /\ \A j \in s .. N : IsParent(E, more, j) /\ a <= more[j].kids[1] /\ more[j].kids[2] <= f - 1
      /\ \A j \in s .. (N - 1) : more[j + 1].kids[1] = more[j].kids[2] + 1
      /\ InLine(more, s, N)
  BY <1>6 DEF Adopted
<1>8. s <= N + 1 /\ ~(s > N + 1)
  BY <1>2, <1>3
<1>9. more[s].kids[1] = a
  <2>1. CASE s > N
    <3>1. s = N + 1 /\ f = a
      BY <1>7, <1>8, <2>1
    <3> QED
      BY <1>4, <3>1
  <2>2. CASE s <= N
    BY <1>7, <2>2
  <2> QED
    BY <2>1, <2>2
<1>10. ASSUME NEW j \in s .. (N + 1) PROVE IsParent(E, more, j) /\ a <= more[j].kids[1] /\ more[j].kids[2] <= g
  <2>1. CASE j = N + 1
    <3>1. g <= g
      OBVIOUS
    <3> QED
      BY <1>3, <1>4, <2>1, <3>1
  <2>2. CASE j # N + 1
    <3>1. j \in s .. N /\ j \in 1 .. N
      BY <1>2, <2>2
    <3>2. IsParent(E, more, j) /\ a <= more[j].kids[1] /\ more[j].kids[2] <= f - 1
      BY <1>7, <3>1
    <3>3. PICK v \in Nat : v = more[j].kids[2]
      BY <1>5, <3>1 DEF Begins, KidsKnown
    <3>4. v <= g
      BY <1>3, <3>2, <3>3
    <3> QED
      BY <3>2, <3>3, <3>4
  <2> QED
    BY <2>1, <2>2
<1>11. ASSUME NEW j \in s .. ((N + 1) - 1) PROVE more[j + 1].kids[1] = more[j].kids[2] + 1
  <2>1. CASE j = N
    <3>1. more[N].kids[2] = f - 1 /\ (f - 1) + 1 = f
      BY <1>7, <2>1
    <3> QED
      BY <1>4, <2>1, <3>1
  <2>2. CASE j # N
    <3>1. j \in s .. (N - 1)
      BY <2>2
    <3> QED
      BY <1>7, <3>1
  <2> QED
    BY <2>1, <2>2
<1>12. InLine(more, s, N + 1)
  <2> SUFFICES ASSUME NEW j \in s .. ((N + 1) - 1) PROVE more[j + 1].lo = more[j].hi + 1
    BY DEF InLine
  <2>1. CASE j = N
    <3>1. s <= N /\ N \in s .. N /\ N \in 1 .. N
      BY <1>2, <2>1
    <3>2. IsParent(E, more, N) /\ a <= more[N].kids[1] /\ more[N].kids[2] = f - 1
      BY <1>7, <3>1
    <3>3. PICK u \in Nat, v \in Nat : u = more[N].kids[1] /\ v = more[N].kids[2]
      BY <1>5, <3>1 DEF Begins, KidsKnown
    <3>4. u <= v /\ more[N].hi = more[v].hi
      BY <3>2, <3>3 DEF IsParent
    <3>5. v = f - 1 /\ a <= v
      BY <3>2, <3>3, <3>4
    <3>6. v \in a .. (b - 1) /\ v + 1 = f /\ v \in 1 .. N
      BY <1>3, <3>5
    <3>7. nds[v + 1].lo = nds[v].hi + 1
      BY <1>3, <3>6 DEF InLine
    <3>8. more[v] = nds[v]
      BY <1>5, <3>6 DEF Begins
    <3> QED
      BY <1>4, <2>1, <3>4, <3>6, <3>7, <3>8
  <2>2. CASE j # N
    <3>1. j \in s .. (N - 1)
      BY <2>2
    <3> QED
      BY <1>7, <3>1 DEF InLine
  <2> QED
    BY <2>1, <2>2
<1>13. Adopted(E, more, s, N + 1, a, g)
  BY <1>4, <1>8, <1>9, <1>10, <1>11, <1>12 DEF Adopted
<1> QED
  BY <1>1, <1>2, <1>13

\* A level more.
LEMMA LevelAdded ==
  ASSUME NEW lev \in Seq(Nat \X Nat), NEW s \in Nat, NEW e \in Nat, NEW L \in Nat, L = Len(lev),
         NEW more, more = lev \o <<<<s, e>>>>
  PROVE  /\ more \in Seq(Nat \X Nat) /\ Len(more) = L + 1
         /\ (\A d \in 1 .. L : more[d] = lev[d]) /\ more[L + 1][1] = s /\ more[L + 1][2] = e
<1>1. PICK t : t = <<<<s, e>>>>
  OBVIOUS
<1>2. t \in Seq(Nat \X Nat) /\ Len(t) = 1 /\ t[1] = <<s, e>>
  BY <1>1
<1>3. \A X : \A p, q \in Seq(X) : /\ p \o q \in Seq(X) /\ Len(p \o q) = Len(p) + Len(q)
                                 /\ \A k \in 1 .. Len(p) : (p \o q)[k] = p[k]
  BY Concat
<1>4. \A X : \A p, q \in Seq(X) : \A j \in 1 .. Len(q) : (p \o q)[Len(p) + j] = q[j]
  BY Concat
<1>5. more = lev \o t
  BY <1>1
<1>6. more \in Seq(Nat \X Nat) /\ Len(more) = L + 1 /\ \A d \in 1 .. L : more[d] = lev[d]
  BY <1>2, <1>3, <1>5
<1>7. more[L + 1] = <<s, e>>
  <2>1. 1 \in 1 .. Len(t)
    BY <1>2
  <2> QED
    BY <1>2, <1>4, <1>5, <2>1
<1> QED
  BY <1>6, <1>7

\* The forest with the level just completed.
LEMMA ForestAdded ==
  ASSUME NEW E, NEW nds, NEW lev, Forest(E, nds, lev), NEW L \in Nat, L = Len(lev),
         NEW s \in Nat, NEW e \in Nat, s = lev[L][2] + 1, s <= e, e = Len(nds),
         Adopted(E, nds, s, e, lev[L][1], lev[L][2]), NEW more, more = lev \o <<<<s, e>>>>
  PROVE  Forest(E, nds, more)
<1>1. /\ nds \in Seq(NodeType) /\ lev \in Seq(Nat \X Nat) /\ L >= 1 /\ lev[1][1] = 1 /\ Leaves(E, nds, lev[1][2])
      /\ \A d \in 1 .. L : lev[d][1] <= lev[d][2] /\ lev[d][2] <= Len(nds)
      /\ \A d \in 2 .. L : /\ lev[d][1] = lev[d - 1][2] + 1
                           /\ Adopted(E, nds, lev[d][1], lev[d][2], lev[d - 1][1], lev[d - 1][2])
  BY DEF Forest
<1>2. /\ more \in Seq(Nat \X Nat) /\ Len(more) = L + 1
      /\ (\A d \in 1 .. L : more[d] = lev[d]) /\ more[L + 1][1] = s /\ more[L + 1][2] = e
  BY <1>1, LevelAdded
<1>3. Len(more) >= 1 /\ 1 \in 1 .. L
  BY <1>1, <1>2
<1>4. more[1][1] = 1 /\ Leaves(E, nds, more[1][2])
  BY <1>1, <1>2, <1>3
<1>5. ASSUME NEW d \in 1 .. (L + 1) PROVE more[d][1] <= more[d][2] /\ more[d][2] <= Len(nds)
  <2>1. CASE d = L + 1
    <3>1. e <= e
      OBVIOUS
    <3> QED
      BY <1>2, <2>1, <3>1
  <2>2. CASE d # L + 1
    <3>1. d \in 1 .. L
      BY <2>2
    <3> QED
      BY <1>1, <1>2, <3>1
  <2> QED
    BY <2>1, <2>2
<1>6. ASSUME NEW d \in 2 .. (L + 1)
      PROVE  /\ more[d][1] = more[d - 1][2] + 1
             /\ Adopted(E, nds, more[d][1], more[d][2], more[d - 1][1], more[d - 1][2])
  <2>1. CASE d = L + 1
    <3>1. d - 1 = L /\ L \in 1 .. L
      BY <1>1, <2>1
    <3>2. more[d - 1] = lev[L] /\ more[d][1] = s /\ more[d][2] = e
      BY <1>2, <2>1, <3>1
    <3> QED
      BY <3>2
  <2>2. CASE d # L + 1
    <3>1. d \in 2 .. L /\ d \in 1 .. L /\ d - 1 \in 1 .. L
      BY <2>2
    <3>2. more[d] = lev[d] /\ more[d - 1] = lev[d - 1]
      BY <1>2, <3>1
    <3> QED
      BY <1>1, <3>1, <3>2
  <2> QED
    BY <2>1, <2>2
<1> QED
  BY <1>1, <1>2, <1>3, <1>4, <1>5, <1>6 DEF Forest

\* GroupNext leaves a growing tree.
LEMMA GroupAdded ==
  ASSUME NEW E, NEW nds, NEW lev, NEW f \in Nat, NEW st, Growing(E, nds, lev, f, st),
         NEW g \in Nat, Groupable(E, nds, lev, f, g),
         NEW nd, nd = Node(nds[f].lo, nds[g].hi, <<f, g>>), NEW more, OneMore(nds, more, nd),
         NEW N \in Nat, N = Len(nds)
  PROVE  /\ g # lev[Len(lev)][2] => Growing(E, more, lev, g + 1, st)
         /\ g = lev[Len(lev)][2] => Growing(E, more, lev \o <<<<st, N + 1>>>>, st, N + 1 + 1)
<1>1. PICK a \in Nat, b \in Nat, L \in Nat : a = lev[L][1] /\ b = lev[L][2] /\ L = Len(lev) /\ L \in 1 .. L
  <2>1. PICK L \in Nat : L = Len(lev) /\ L \in 1 .. L
    BY GrowingTypes
  <2>2. lev[L][1] \in Nat /\ lev[L][2] \in Nat
    BY <2>1, GrowingTypes
  <2> QED
    BY <2>1, <2>2
<1>2. /\ 1 <= a /\ a <= f /\ f <= b /\ b <= N /\ f < g /\ g <= b /\ (g = b \/ g + 1 < b) /\ st = b + 1
  BY <1>1, GrowingTypes DEF Groupable
<1>3. /\ Ascending(E) /\ Forest(E, nds, lev) /\ Full(E, nds) /\ Paired(nds, N)
  BY GrowingTypes
<1>4. more \in Seq(NodeType) /\ Len(more) = N + 1 /\ Begins(nds, more, N)
  BY DEF OneMore
<1>5. NewParent(E, nds, more, N, f, g)
  BY ParentAdded
<1>6. Adopted(E, more, st, N + 1, a, g)
  BY <1>1, AdoptedAdded
<1>7. Forest(E, more, lev)
  <2>1. Len(more) >= Len(nds) /\ Begins(nds, more, Len(nds))
    BY <1>4
  <2> QED
    BY <1>3, <1>4, <2>1, ForestKept
<1>8. \A j \in 1 .. (N + 1) : j # N + 1 => j \in 1 .. N /\ more[j] = nds[j]
  <2>1. \A j \in 1 .. (N + 1) : j # N + 1 => j \in 1 .. N
    OBVIOUS
  <2> QED
    BY <1>4, <2>1 DEF Begins
<1>9. Full(E, more)
  <2>1. Len(E) # 0 /\ more[N + 1].lo <= more[N + 1].hi
    BY <1>5 DEF NewParent
  <2>2. \A j \in 1 .. N : nds[j].lo <= nds[j].hi
    BY <1>3, <2>1 DEF Full
  <2>3. \A j \in 1 .. (N + 1) : more[j].lo <= more[j].hi
    BY <1>8, <2>1, <2>2
  <2> QED
    BY <1>4, <2>1, <2>3 DEF Full
<1>10. Paired(more, N + 1)
  <2>1. more[N + 1].kids[1] < more[N + 1].kids[2]
    BY <1>2, <1>5 DEF NewParent
  <2>2. \A j \in 1 .. N : nds[j].kids # NoKids => nds[j].kids[1] < nds[j].kids[2]
    BY <1>3 DEF Paired
  <2> QED
    BY <1>8, <2>1, <2>2 DEF Paired
<1>11. \A i \in 1 .. Len(E) : RecordFits(Width[E[i].key])
  BY DEF Growing
<1>12. ASSUME g # b PROVE Growing(E, more, lev, g + 1, st)
  <2>1. g + 1 < b /\ g + 1 \in a .. b /\ (g + 1) - 1 = g
    BY <1>2, <1>12
  <2>2. Adopted(E, more, st, N + 1, a, (g + 1) - 1)
    BY <1>6, <2>1
  <2> QED
    BY <1>1, <1>2, <1>3, <1>4, <1>7, <1>9, <1>10, <1>11, <2>1, <2>2 DEF Growing
<1>13. ASSUME g = b PROVE Growing(E, more, lev \o <<<<st, N + 1>>>>, st, N + 1 + 1)
  <2>1. PICK s \in Nat, e \in Nat : s = st /\ e = N + 1 /\ s <= e /\ s = b + 1
    BY <1>2
  <2>2. PICK lv : lv = lev \o <<<<s, e>>>>
    OBVIOUS
  <2>3. lev \in Seq(Nat \X Nat)
    BY <1>3 DEF Forest
  <2>4. Len(lv) = L + 1 /\ lv[L + 1][1] = s /\ lv[L + 1][2] = e
    BY <1>1, <2>2, <2>3, LevelAdded
  <2>5. Adopted(E, more, s, e, lev[L][1], lev[L][2]) /\ s = lev[L][2] + 1 /\ e = Len(more)
    BY <1>1, <1>4, <1>6, <1>13, <2>1
  <2>6. Forest(E, more, lv)
    BY <1>1, <1>7, <2>1, <2>2, <2>5, ForestAdded
  <2>7. lv[Len(lv)][1] = s /\ lv[Len(lv)][2] = e
    BY <2>4
  <2>8. s \in s .. e
    BY <2>1
  <2>9. Adopted(E, more, e + 1, e, s, s - 1)
    <3>1. /\ e + 1 > e /\ ~(e + 1 <= e) /\ (s - 1) + 1 = s /\ (\A j \in (e + 1) .. e : FALSE)
          /\ \A j \in (e + 1) .. (e - 1) : FALSE
      OBVIOUS
    <3> QED
      BY <3>1 DEF Adopted, InLine
  <2>10. Growing(E, more, lv, s, e + 1)
    BY <1>3, <1>4, <1>9, <1>10, <1>11, <2>1, <2>6, <2>7, <2>8, <2>9 DEF Growing
  <2> QED
    BY <2>1, <2>2, <2>10
<1> QED
  BY <1>1, <1>12, <1>13

\* GroupNext adds a branch to a growing tree.
LEMMA GroupKeeps ==
  ASSUME Growing(Planned, nodes, level, first, start), GroupNext
  PROVE  Growing(Planned, nodes', level', first', start')
<1>1. /\ MoreToGroup /\ nodes' = nodes \o <<Node(nodes[first].lo, nodes[GroupEnd].hi, <<first, GroupEnd>>)>>
      /\ IF GroupEnd = LevelEnd
         THEN level' = level \o <<<<start, Len(nodes')>>>> /\ first' = start /\ start' = Len(nodes') + 1
         ELSE first' = GroupEnd + 1 /\ level' = level /\ start' = start
  BY DEF GroupNext
<1>2. PICK g \in Nat, f \in Nat : /\ g = GroupEnd /\ f = first /\ f < g /\ g <= LevelEnd /\ (g = LevelEnd \/ g + 1 < LevelEnd)
                                  /\ Sums(BranchWidths(Planned, nodes, f, g))[g - f] <= AreaBytes
  <2>1. first \in Nat
    BY GrowingTypes
  <2> QED
    BY <1>1, <2>1, GroupFits
<1>3. LevelEnd = level[Len(level)][2]
  BY DEF LevelEnd, Last
<1>4. Groupable(Planned, nodes, level, f, g) /\ Growing(Planned, nodes, level, f, start)
  BY <1>2, <1>3 DEF Groupable
<1>5. PICK N \in Nat, b \in Nat, a \in Nat : N = Len(nodes) /\ b = level[Len(level)][2] /\ b <= N /\ a = level[Len(level)][1] /\ 1 <= a /\ a <= f
  BY <1>2, GrowingTypes
<1>6. nodes \in Seq(NodeType)
  <2>1. Forest(Planned, nodes, level)
    BY GrowingTypes
  <2> QED
    BY <2>1 DEF Forest
<1>7. PICK nd : nd = Node(nodes[f].lo, nodes[g].hi, <<f, g>>)
  OBVIOUS
<1>8. nd \in NodeType
  <2>1. f \in 1 .. N /\ g \in 1 .. N
    BY <1>2, <1>3, <1>5
  <2>2. nodes[f] \in NodeType /\ nodes[g] \in NodeType
    BY <1>5, <1>6, <2>1
  <2>3. nodes[f].lo \in Nat /\ nodes[g].hi \in Nat
    BY <2>2 DEF NodeType
  <2> QED
    BY <1>7, <2>3 DEF NodeType, Node
<1>9. PICK more : more = nodes' /\ more = nodes \o <<nd>>
  BY <1>1, <1>2, <1>7
<1>10. OneMore(nodes, more, nd)
  BY <1>6, <1>8, <1>9, Appended
<1>11. Len(more) = N + 1
  BY <1>5, <1>10 DEF OneMore
<1>12. /\ g # level[Len(level)][2] => Growing(Planned, more, level, g + 1, start)
       /\ g = level[Len(level)][2] => Growing(Planned, more, level \o <<<<start, N + 1>>>>, start, N + 1 + 1)
  BY <1>4, <1>5, <1>7, <1>10, GroupAdded
<1>13. CASE g = LevelEnd
  <2>1. Growing(Planned, more, level \o <<<<start, N + 1>>>>, start, N + 1 + 1)
    BY <1>3, <1>12, <1>13
  <2>2. level' = level \o <<<<start, N + 1>>>> /\ first' = start /\ start' = N + 1 + 1
    BY <1>1, <1>2, <1>9, <1>11, <1>13
  <2> QED
    BY <1>9, <2>1, <2>2
<1>14. CASE g # LevelEnd
  <2>1. Growing(Planned, more, level, g + 1, start)
    BY <1>3, <1>12, <1>14
  <2>2. level' = level /\ first' = g + 1 /\ start' = start
    BY <1>1, <1>2, <1>14
  <2> QED
    BY <1>9, <2>1, <2>2
<1> QED
  BY <1>13, <1>14

\* PackLeaves begins one.
LEMMA PackKeeps ==
  ASSUME Ascending(Planned), PackLeaves
  PROVE  Growing(Planned, nodes', level', first', start')
<1>1. \A i \in 1 .. Len(Planned) : RecordFits(Bytes(i))
  <2>1. DOMAIN Planned = 1 .. Len(Planned)
    BY DEF Ascending
  <2> QED
    BY <2>1 DEF PackLeaves
<1>2. PICK n : n = Cardinality(LeafStarts)
  OBVIOUS
<1>3. PICK nds : nds = [j \in 1 .. n |-> Node(Nth(LeafStarts, j),
                                              IF j = n THEN Len(Planned) ELSE Nth(LeafStarts, j + 1) - 1, NoKids)]
  OBVIOUS
<1>4. nodes' = nds /\ level' = <<<<1, n>>>> /\ first' = 1 /\ start' = n + 1
  BY <1>2, <1>3 DEF PackLeaves
<1>5. Growing(Planned, nds, <<<<1, n>>>>, 1, n + 1)
  BY <1>1, <1>2, <1>3, LeavesPacked
<1> QED
  BY <1>4, <1>5

\* When nothing is left to group the tree is whole.
LEMMA Finished ==
  ASSUME Growing(Planned, nodes, level, first, start), ~MoreToGroup, Len(Planned) <= Cardinality(Rows)
  PROVE  Whole(Planned, nodes, level)
<1>1. PICK a \in Nat, b \in Nat, f \in Nat, N \in Nat :
        a = level[Len(level)][1] /\ b = level[Len(level)][2] /\ f = first /\ N = Len(nodes)
  BY GrowingTypes
<1>2. /\ 1 <= a /\ a <= f /\ f <= b /\ b <= N /\ start = b + 1 /\ Adopted(Planned, nodes, start, N, a, f - 1)
      /\ Ascending(Planned) /\ Forest(Planned, nodes, level) /\ Full(Planned, nodes) /\ Paired(nodes, N)
  BY <1>1, GrowingTypes
<1>3. ~(a < b)
  BY <1>1 DEF MoreToGroup, LevelEnd, Last
<1>4. a = b /\ f = a
  BY <1>2, <1>3
<1>5. PICK s \in Nat : s = start /\ s = b + 1
  BY <1>2
<1>6. ~(s <= N)
  <2> SUFFICES ASSUME s <= N PROVE FALSE
    OBVIOUS
  <2>1. s \in s .. N /\ s \in 1 .. N
    BY <1>5
  <2>2. IsParent(Planned, nodes, s) /\ a <= nodes[s].kids[1] /\ nodes[s].kids[2] <= f - 1
    BY <1>2, <1>5, <2>1 DEF Adopted
  <2>3. PICK u \in Nat, v \in Nat : u = nodes[s].kids[1] /\ v = nodes[s].kids[2]
    BY <1>1, <1>2, <2>1, ForestTypes
  <2>4. u <= v
    BY <2>2, <2>3 DEF IsParent
  <2>5. a <= u /\ v <= f - 1
    BY <2>2, <2>3
  <2> QED
    BY <1>4, <2>4, <2>5
<1>7. b = N
  BY <1>2, <1>5, <1>6
<1>8. Len(level) <= MaxDepth
  <2>1. Len(Planned) \in Nat
    BY <1>2, WidthsType
  <2> QED
    BY <1>1, <1>2, <2>1, DepthAllowed
<1>9. Paired(nodes, N - 1)
  <2>1. \A j \in 1 .. (N - 1) : j \in 1 .. N
    OBVIOUS
  <2> QED
    BY <1>2, <2>1 DEF Paired
<1> QED
  BY <1>1, <1>2, <1>4, <1>7, <1>8, <1>9 DEF Whole

\* n - 1 elements come before the n-th one.
LEMMA NthPlace ==
  ASSUME NEW S \in SUBSET Nat, IsFiniteSet(S), NEW n \in 1 .. Cardinality(S)
  PROVE  Cardinality({y \in S : y < Nth(S, n)}) = n - 1
<1> DEFINE R == {z \in Nat \X Nat : z[1] < z[2]}
           At(x) == Cardinality({y \in S : y < x})
<1>1. \A x, y \in Nat : <<x, y>> \in R <=> x < y
  OBVIOUS
<1> HIDE DEF R
<1>2. Ordered(R, S)
  BY <1>1 DEF Ordered
<1>3. \A x \in S : {y \in S : y < x} = Before(R, S, x)
  BY <1>1 DEF Before
<1>4. \A x \in S : At(x) = Cardinality(Before(R, S, x))
  BY <1>3
<1>5. \A i \in 1 .. Cardinality(S) : \E r \in S : Cardinality(Before(R, S, r)) = i - 1
  BY <1>2, PlaceTaken
<1> HIDE DEF At
<1>6. \E r \in S : At(r) = n - 1
  BY <1>4, <1>5
<1>7. At(Nth(S, n)) = n - 1
  BY <1>6 DEF Nth, At
<1> QED
  BY <1>7 DEF At

\* The pages besides the root: those of the map, and those behind them.
LEMMA PagesCounted ==
  ASSUME mapped \in SUBSET PageIds, Root \in mapped
  PROVE  /\ Spare \in SUBSET Nat /\ IsFiniteSet(Spare) /\ PageIds \ mapped \in SUBSET Nat /\ IsFiniteSet(PageIds \ mapped)
         /\ Cardinality(Spare) \in Nat /\ Cardinality(PageIds \ mapped) \in Nat /\ MaxPage \in Nat
         /\ Cardinality(Spare) + Cardinality(PageIds \ mapped) + 1 = MaxPage
         /\ Root \notin Spare /\ Root \notin PageIds \ mapped /\ Spare \subseteq PageIds /\ Spare \subseteq mapped
         /\ \A p \in Spare : p \notin PageIds \ mapped
<1>1. MaxPage \in Nat /\ PageIds \in SUBSET Nat
  BY IndexAssumption DEF PageIds
<1>2. IsFiniteSet(PageIds) /\ Cardinality(PageIds) = MaxPage
  <2>1. PICK one \in Int, m \in Int : one = 1 /\ m = MaxPage /\ m >= 1
    BY IndexAssumption
  <2>2. IsFiniteSet(one .. m) /\ Cardinality(one .. m) = (IF one > m THEN 0 ELSE m - one + 1)
    BY FS_Interval
  <2>3. m - 1 + 1 = m /\ ~(1 > m)
    BY <2>1
  <2> QED
    BY <2>1, <2>2, <2>3 DEF PageIds
<1>3. PICK A, B : A = Spare /\ B = PageIds \ mapped
  OBVIOUS
<1>4. A \subseteq PageIds /\ B \subseteq PageIds /\ A \subseteq mapped /\ Root \notin A /\ Root \notin B /\ A \cap B = {} /\ Root \in PageIds
  BY <1>3 DEF Spare
<1>5. IsFiniteSet(A) /\ IsFiniteSet(B)
  BY <1>2, <1>4, FS_Subset
<1>6. PageIds = (A \cup B) \cup {Root}
  BY <1>3, <1>4 DEF Spare
<1>7. PICK C : C = A \cup B
  OBVIOUS
<1>8. IsFiniteSet(C) /\ Cardinality(C) = Cardinality(A) + Cardinality(B)
  <2>1. IsFiniteSet(A \cup B) /\ Cardinality(A \cup B) = Cardinality(A) + Cardinality(B) - Cardinality(A \cap B)
    BY <1>5, FS_Union
  <2>2. Cardinality(A \cap B) = 0
    BY <1>4, FS_EmptySet
  <2>3. Cardinality(A) \in Nat /\ Cardinality(B) \in Nat
    BY <1>5, FS_CardinalityType
  <2> QED
    BY <1>7, <2>1, <2>2, <2>3
<1>9. Cardinality(C \cup {Root}) = Cardinality(C) + 1
  <2>1. Root \notin C
    BY <1>4, <1>7
  <2> QED
    BY <1>8, <2>1, FS_AddElement
<1>10. Cardinality(A) \in Nat /\ Cardinality(B) \in Nat /\ Cardinality(C) \in Nat
  BY <1>5, <1>8, FS_CardinalityType
<1>11. Cardinality(A) + Cardinality(B) + 1 = MaxPage
  BY <1>2, <1>6, <1>7, <1>8, <1>9, <1>10
<1>12. \A p \in A : p \notin B
  BY <1>4
<1>13. A \in SUBSET Nat /\ B \in SUBSET Nat
  BY <1>1, <1>4
<1> QED
  BY <1>1, <1>3, <1>4, <1>5, <1>10, <1>11, <1>12, <1>13

\* Every node but the root has a page of the map or one appended to it.
Places(N, c, d, n) ==
  \/ n = N
  \/ n # N /\ n <= c /\ n \in 1 .. c
  \/ n # N /\ n > c /\ n - c \in 1 .. d /\ n - c <= N - 1 - c

\* With as many pages as nodes, every node is in one of those places.
LEMMA PageKindsOf ==
  ASSUME NEW N \in Nat, NEW c \in Nat, NEW d \in Nat, N <= c + d + 1, NEW n \in 1 .. N
  PROVE  Places(N, c, d, n)
BY DEF Places

\* The pages of a tree: the staged map.
Staged == mapped \union (IF Len(nodes) - 1 - Cardinality(Spare) > 0 THEN NewPages(Len(nodes) - 1 - Cardinality(Spare)) ELSE {})

\* PageOf gives each node a page of its own.
LEMMA NodesPlaced ==
  ASSUME mapped \in SUBSET PageIds, Root \in mapped, NEW N \in Nat, N = Len(nodes), 1 <= N, N <= MaxPage
  PROVE  /\ Placed([n \in 1 .. N |-> PageOf(n)], N, Staged)
         /\ Staged \in SUBSET PageIds /\ mapped \subseteq Staged
<1>1. PICK A, B, c, d : A = Spare /\ B = PageIds \ mapped /\ c = Cardinality(A) /\ d = Cardinality(B)
  OBVIOUS
<1>2. /\ A \in SUBSET Nat /\ IsFiniteSet(A) /\ B \in SUBSET Nat /\ IsFiniteSet(B) /\ c \in Nat /\ d \in Nat /\ c + d + 1 = MaxPage
      /\ Root \notin A /\ Root \notin B /\ A \subseteq PageIds /\ A \subseteq mapped /\ \A p \in A : p \notin B
  BY <1>1, PagesCounted
<1>3. /\ \A n \in 1 .. c : Nth(A, n) \in A
      /\ \A n, k \in 1 .. c : n < k => Nth(A, n) < Nth(A, k)
  BY <1>1, <1>2, NthIs
<1>4. /\ \A n \in 1 .. d : Nth(B, n) \in B
      /\ \A n, k \in 1 .. d : n < k => Nth(B, n) < Nth(B, k)
  BY <1>1, <1>2, NthIs
<1>5. \A n \in 1 .. d : Cardinality({y \in B : y < Nth(B, n)}) = n - 1
  BY <1>1, <1>2, NthPlace
<1>6. \A n, k \in 1 .. c : Nth(A, n) = Nth(A, k) => n = k
  <2> SUFFICES ASSUME NEW n \in 1 .. c, NEW k \in 1 .. c, n < k PROVE Nth(A, n) # Nth(A, k)
    OBVIOUS
  <2>1. PICK x \in Nat, y \in Nat : x = Nth(A, n) /\ y = Nth(A, k)
    BY <1>2, <1>3
  <2>2. x < y
    BY <1>3, <2>1
  <2> QED
    BY <2>1, <2>2
<1>7. \A n, k \in 1 .. d : Nth(B, n) = Nth(B, k) => n = k
  <2> SUFFICES ASSUME NEW n \in 1 .. d, NEW k \in 1 .. d, n < k PROVE Nth(B, n) # Nth(B, k)
    OBVIOUS
  <2>1. PICK x \in Nat, y \in Nat : x = Nth(B, n) /\ y = Nth(B, k)
    BY <1>2, <1>4
  <2>2. x < y
    BY <1>4, <2>1
  <2> QED
    BY <2>1, <2>2
<1>8. \A n \in 1 .. N : Places(N, c, d, n)
  BY <1>2, PageKindsOf
<1>9. Root \in PageIds
  OBVIOUS
<1>10. B \subseteq PageIds
  BY <1>1
<1>11. \A n : PageOf(n) = IF n = N THEN Root ELSE IF n <= c THEN Nth(A, n) ELSE Nth(B, n - c)
  BY <1>1 DEF PageOf
<1>12. ASSUME NEW n \in 1 .. N
       PROVE  \/ n = N /\ PageOf(n) = Root
              \/ n # N /\ n <= c /\ n \in 1 .. c /\ PageOf(n) = Nth(A, n) /\ PageOf(n) \in A
              \/ n # N /\ n > c /\ n - c \in 1 .. d /\ n - c <= N - 1 - c /\ PageOf(n) = Nth(B, n - c) /\ PageOf(n) \in B
  <2>1. Places(N, c, d, n)
    BY <1>8
  <2>2. CASE n = N
    BY <1>11, <2>2
  <2>3. CASE n # N /\ n <= c /\ n \in 1 .. c
    BY <1>3, <1>11, <2>3
  <2>4. CASE n # N /\ n > c /\ n - c \in 1 .. d /\ n - c <= N - 1 - c
    <3>1. ~(n <= c)
      BY <1>2, <2>4
    <3>2. PageOf(n) = Nth(B, n - c)
      BY <1>11, <2>4, <3>1
    <3> QED
      BY <1>4, <2>4, <3>2
  <2> QED
    BY <2>1, <2>2, <2>3, <2>4 DEF Places
<1>13. \A n \in 1 .. N : PageOf(n) \in PageIds
  BY <1>2, <1>9, <1>10, <1>12
<1>14. PICK fresh \in Int : fresh = N - 1 - c
  <2>1. c \in Nat
    BY <1>2
  <2>2. N - 1 - c \in Int
    BY <2>1
  <2> QED
    BY <2>2
<1>15. Staged = mapped \union (IF fresh > 0 THEN NewPages(fresh) ELSE {})
  BY <1>1, <1>14 DEF Staged
<1>16. \A n \in 1 .. N : PageOf(n) \in Staged
  <2> SUFFICES ASSUME NEW n \in 1 .. N PROVE PageOf(n) \in Staged
    OBVIOUS
  <2>1. CASE PageOf(n) \in mapped
    BY <1>15, <2>1
  <2>2. CASE n # N /\ n > c /\ n - c \in 1 .. d /\ n - c <= N - 1 - c /\ PageOf(n) = Nth(B, n - c) /\ PageOf(n) \in B
    <3>1. PICK k \in 1 .. d : k = n - c /\ k <= fresh
      BY <1>14, <2>2
    <3>2. fresh > 0 /\ k - 1 < fresh
      BY <3>1
    <3>3. Cardinality({y \in B : y < PageOf(n)}) = k - 1
      BY <1>5, <2>2, <3>1
    <3>4. PageOf(n) \in NewPages(fresh)
      BY <1>1, <2>2, <3>2, <3>3 DEF NewPages
    <3> QED
      BY <1>15, <3>2, <3>4
  <2> QED
    BY <1>2, <1>12, <2>1, <2>2
<1>17. ASSUME NEW m \in 1 .. N, NEW n \in 1 .. N, PageOf(m) = PageOf(n) PROVE m = n
  <2>1. CASE m # N /\ m <= c /\ m \in 1 .. c /\ PageOf(m) = Nth(A, m) /\ PageOf(m) \in A
    <3>1. n \in 1 .. c /\ PageOf(n) = Nth(A, n)
      BY <1>2, <1>12, <1>17, <2>1
    <3> QED
      BY <1>6, <1>17, <2>1, <3>1
  <2>2. CASE m # N /\ m > c /\ m - c \in 1 .. d /\ m - c <= N - 1 - c /\ PageOf(m) = Nth(B, m - c) /\ PageOf(m) \in B
    <3>1. n - c \in 1 .. d /\ PageOf(n) = Nth(B, n - c)
      BY <1>2, <1>12, <1>17, <2>2
    <3>2. n - c = m - c
      BY <1>7, <1>17, <2>2, <3>1
    <3> QED
      BY <1>2, <3>2
  <2>3. CASE m = N /\ PageOf(m) = Root
    <3>1. n = N
      BY <1>2, <1>12, <1>17, <2>3
    <3> QED
      BY <2>3, <3>1
  <2> QED
    BY <1>12, <2>1, <2>2, <2>3
<1>18. Staged \in SUBSET PageIds /\ mapped \subseteq Staged
  <2>1. \A k : NewPages(k) \subseteq PageIds
    BY DEF NewPages
  <2> QED
    BY <1>15, <2>1
<1>19. PICK pg : pg = [n \in 1 .. N |-> PageOf(n)]
  OBVIOUS
<1>20. pg \in [1 .. N -> PageIds] /\ \A n \in 1 .. N : pg[n] = PageOf(n)
  BY <1>13, <1>19
<1>21. N \in 1 .. N /\ PageOf(N) = Root
  BY <1>11
<1>22. Placed(pg, N, Staged)
  BY <1>16, <1>17, <1>20, <1>21 DEF Placed
<1> QED
  BY <1>18, <1>19, <1>22

\* The items image writes, by the number of children.
ImageItems(nd, k) ==
  IF k = 0 THEN [i \in 1 .. nd.hi - nd.lo + 1 |-> [record |-> Planned[nd.lo + i - 1], child |-> NIL]]
  ELSE [i \in 1 .. k - 1 |-> [record |-> Planned[nodes[nd.kids[1] + i - 1].hi], child |-> PageOf(nd.kids[1] + i - 1)]]

\* The fields of an image.
LEMMA ImageFields ==
  ASSUME NEW n, NEW nd, nd = nodes[n], NEW k, k = nd.kids[2] - nd.kids[1] + 1
  PROVE  /\ Image(n).kind = (IF k = 0 THEN "leaf" ELSE "branch")
         /\ Image(n).prev = PrevIn(n, SiblingsOf(n)) /\ Image(n).next = NextIn(n, SiblingsOf(n))
         /\ Image(n).tail = (IF k = 0 THEN NIL ELSE PageOf(nd.kids[2]))
         /\ Image(n).items = ImageItems(nd, k)
<1>1. PICK K, P, Q, T, I : /\ K = (IF k = 0 THEN "leaf" ELSE "branch")
                          /\ P = PrevIn(n, SiblingsOf(n)) /\ Q = NextIn(n, SiblingsOf(n))
                          /\ T = (IF k = 0 THEN NIL ELSE PageOf(nd.kids[2])) /\ I = ImageItems(nd, k)
  OBVIOUS
<1>2. Image(n) = [kind |-> K, prev |-> P, next |-> Q, tail |-> T, items |-> I]
  BY <1>1, Zenon DEF Image, ImageItems
<1> QED
  BY <1>1, <1>2

\* What image writes for a node.
LEMMA ImageOf ==
  ASSUME NEW E, E = Planned, Forest(E, nodes, level), NEW N \in Nat, N = Len(nodes), level[Len(level)][2] = N,
         NEW pg, pg = [k \in 1 .. N |-> PageOf(k)], NEW n \in 1 .. N, NEW pgs, pgs[pg[n]] = Image(n)
  PROVE  Pictured(pgs, E, nodes, level, pg, n)
<1>1. \A k \in 1 .. N : pg[k] = PageOf(k)
  OBVIOUS
<1>2. PICK nd : nd = nodes[n]
  OBVIOUS
<1>3. PICK l \in Nat : l = level[1][2]
  <2>1. 1 \in 1 .. Len(level)
    BY ForestTypes
  <2> QED
    BY <2>1, ForestTypes
<1>4. PICK im : im = Image(n) /\ im = pgs[pg[n]]
  OBVIOUS
<1>5. PICK a \in Nat, b \in Nat : a = nd.kids[1] /\ b = nd.kids[2]
  BY <1>2, ForestTypes
<1>6. PICK k \in Int : k = b - a + 1
  OBVIOUS
<1>7. /\ im.kind = IF k = 0 THEN "leaf" ELSE "branch"
      /\ im.tail = IF k = 0 THEN NIL ELSE PageOf(b)
      /\ im.items = IF k = 0
                    THEN [i \in 1 .. nd.hi - nd.lo + 1 |-> [record |-> Planned[nd.lo + i - 1], child |-> NIL]]
                    ELSE [i \in 1 .. k - 1 |-> [record |-> Planned[nodes[a + i - 1].hi], child |-> PageOf(a + i - 1)]]
  <2>1. k = nd.kids[2] - nd.kids[1] + 1
    BY <1>5, <1>6
  <2>2. /\ im.kind = (IF k = 0 THEN "leaf" ELSE "branch") /\ im.tail = (IF k = 0 THEN NIL ELSE PageOf(nd.kids[2]))
        /\ im.items = ImageItems(nd, k)
    BY <1>2, <1>4, <2>1, ImageFields
  <2> QED
    BY <1>5, <2>2 DEF ImageItems
<1>8. (n <= l => IsLeafNode(E, nodes[n])) /\ (n > l => IsParent(E, nodes, n))
  BY <1>3, LeafOrParent
<1>9. CASE n <= l
  <2>1. nd.kids = <<1, 0>>
    BY <1>2, <1>8, <1>9 DEF IsLeafNode, NoKids
  <2>2. a = 1 /\ b = 0
    BY <1>5, <2>1
  <2>3. k = 0
    BY <1>6, <2>2
  <2>4. im.kind = "leaf" /\ im.items = [i \in 1 .. nd.hi - nd.lo + 1 |-> [record |-> Planned[nd.lo + i - 1], child |-> NIL]]
    BY <1>7, <2>3
  <2>5. im.items = LeafItems(E, nd)
    BY <2>4 DEF LeafItems
  <2> QED
    BY <1>2, <1>3, <1>4, <1>9, <2>4, <2>5 DEF Pictured
<1>10. CASE ~(n <= l)
  <2>1. n > l
    BY <1>10
  <2>2. 1 <= a /\ a <= b /\ b < n
    BY <1>2, <1>5, <1>8, <2>1 DEF IsParent
  <2>3. k # 0 /\ k - 1 = b - a /\ b \in 1 .. N
    BY <1>6, <2>2
  <2>4. im.kind = "branch" /\ im.tail = PageOf(b)
    BY <1>7, <2>3
  <2>5. im.items = [i \in 1 .. (b - a) |-> [record |-> Planned[nodes[a + i - 1].hi], child |-> PageOf(a + i - 1)]]
    BY <1>7, <2>3
  <2>6. \A i \in 1 .. (b - a) : PageOf(a + i - 1) = pg[a + i - 1]
    <3>1. \A i \in 1 .. (b - a) : a + i - 1 \in 1 .. N
      BY <2>2
    <3> QED
      BY <1>1, <3>1
  <2>7. im.items = [i \in 1 .. (b - a) |-> [record |-> E[nodes[a + i - 1].hi], child |-> pg[a + i - 1]]]
    BY <2>5, <2>6
  <2>8. im.items = BranchItems(E, nodes, pg, n)
    BY <1>2, <1>5, <2>7 DEF BranchItems
  <2>9. im.tail = pg[nodes[n].kids[2]]
    BY <1>1, <1>2, <1>5, <2>3, <2>4
  <2> QED
    BY <1>3, <1>4, <1>10, <2>4, <2>8, <2>9 DEF Pictured
<1> QED
  BY <1>9, <1>10

\* The siblings of a node are those of its level.
LEMMA ImageLinks ==
  ASSUME NEW E, Forest(E, nodes, level), NEW N \in Nat, N = Len(nodes),
         NEW pg, pg = [k \in 1 .. N |-> PageOf(k)], NEW d \in 1 .. Len(level), NEW n \in level[d][1] .. level[d][2],
         NEW pgs, pgs[pg[n]] = Image(n)
  PROVE  Linked(pgs, level, pg, d, n)
<1>1. \A k \in 1 .. N : pg[k] = PageOf(k)
  OBVIOUS
<1>2. Len(level) \in Nat /\ \A e \in 1 .. Len(level) : level[e][1] \in Nat /\ level[e][2] \in Nat
  BY ForestTypes
<1>3. /\ \A e, h \in 1 .. Len(level) : e < h => level[e][2] < level[h][1]
      /\ 1 <= level[d][1] /\ level[d][1] <= level[d][2]
  BY LevelsApart
<1>4. level[d][2] <= Len(nodes) /\ level \in Seq(Nat \X Nat)
  BY DEF Forest
<1>5. SiblingsOf(n) = level[d]
  <2>1. DOMAIN level = 1 .. Len(level)
    BY <1>4
  <2>2. level[d] \in Range(level)
    BY <2>1 DEF Range
  <2>3. level[d][1] <= n /\ n <= level[d][2]
    BY <1>2
  <2>4. PICK s : s = SiblingsOf(n)
    OBVIOUS
  <2>5. s \in Range(level) /\ s[1] <= n /\ n <= s[2]
    BY <2>2, <2>3, <2>4 DEF SiblingsOf
  <2>6. PICK e \in 1 .. Len(level) : s = level[e]
    BY <2>1, <2>5 DEF Range
  <2>7. PICK p \in Nat, q \in Nat, u \in Nat, v \in Nat : p = level[d][1] /\ q = level[d][2] /\ u = level[e][1] /\ v = level[e][2]
    BY <1>2
  <2>8. p <= n /\ n <= q /\ u <= n /\ n <= v /\ n \in Nat
    BY <2>3, <2>5, <2>6, <2>7
  <2>9. (d < e => q < u) /\ (e < d => v < p)
    BY <1>3, <2>7
  <2>10. ~(d < e) /\ ~(e < d)
    BY <2>8, <2>9
  <2>11. d = e
    BY <1>2, <2>10
  <2> QED
    BY <2>4, <2>6, <2>11
<1>6. PICK p \in Nat, q \in Nat : p = level[d][1] /\ q = level[d][2] /\ 1 <= p /\ q <= N
  BY <1>2, <1>3, <1>4
<1>7. PICK im : im = Image(n) /\ im = pgs[pg[n]]
  OBVIOUS
<1>8. im.prev = PrevIn(n, level[d]) /\ im.next = NextIn(n, level[d])
  BY <1>5, <1>7, ImageFields
<1>9. im.prev = (IF n > p THEN PageOf(n - 1) ELSE NIL) /\ im.next = (IF n < q THEN PageOf(n + 1) ELSE NIL)
  BY <1>6, <1>8 DEF PrevIn, NextIn
<1>10. n \in Nat /\ p <= n /\ n <= q
  BY <1>6
<1>11. im.prev = IF n = p THEN NIL ELSE pg[n - 1]
  <2>1. CASE n = p
    <3>1. ~(n > p)
      BY <1>10, <2>1
    <3> QED
      BY <1>9, <2>1, <3>1
  <2>2. CASE n # p
    <3>1. n > p /\ n - 1 \in 1 .. N
      BY <1>6, <1>10, <2>2
    <3> QED
      BY <1>1, <1>9, <2>2, <3>1
  <2> QED
    BY <2>1, <2>2
<1>12. im.next = IF n = q THEN NIL ELSE pg[n + 1]
  <2>1. CASE n = q
    <3>1. ~(n < q)
      BY <1>10, <2>1
    <3> QED
      BY <1>9, <2>1, <3>1
  <2>2. CASE n # q
    <3>1. n < q /\ n + 1 \in 1 .. N
      BY <1>6, <1>10, <2>2
    <3> QED
      BY <1>1, <1>9, <2>2, <3>1
  <2> QED
    BY <2>1, <2>2
<1> QED
  BY <1>6, <1>7, <1>11, <1>12 DEF Linked

\* StageTree writes the tree over the pages.
Written == [p \in PageIds |-> IF \E n \in DOMAIN nodes : PageOf(n) = p
                              THEN Image(CHOOSE n \in DOMAIN nodes : PageOf(n) = p)
                              ELSE Stale]
\* The pages it writes hold the planned entries.
LEMMA TreeStaged ==
  ASSUME Growing(Planned, nodes, level, first, start), ~MoreToGroup, Len(Planned) <= Cardinality(Rows),
         mapped \in SUBSET PageIds, Root \in mapped, Len(nodes) <= MaxPage
  PROVE  Holds(Written, Staged, Planned, nodes, level, [n \in 1 .. Len(nodes) |-> PageOf(n)])
<1>1. Whole(Planned, nodes, level)
  BY Finished
<1>2. Forest(Planned, nodes, level) /\ level[Len(level)][2] = Len(nodes)
  BY <1>1 DEF Whole
<1>3. PICK N \in Nat : N = Len(nodes) /\ 1 <= N /\ N <= MaxPage
  <2>1. Len(nodes) \in Nat
    BY <1>2, ForestTypes
  <2>2. Len(level) \in 1 .. Len(level)
    BY <1>2, ForestTypes
  <2>3. 1 <= level[Len(level)][1] /\ level[Len(level)][1] <= level[Len(level)][2]
    BY <1>2, <2>2, LevelsApart
  <2>4. PICK p \in Nat : p = level[Len(level)][1]
    BY <1>2, <2>2, ForestTypes
  <2> QED
    BY <1>2, <2>1, <2>3, <2>4
<1>4. PICK pg : pg = [n \in 1 .. N |-> PageOf(n)]
  OBVIOUS
<1>5. Placed(pg, N, Staged)
  BY <1>3, <1>4, NodesPlaced
<1>6. pg \in [1 .. N -> PageIds] /\ \A m, n \in 1 .. N : pg[m] = pg[n] => m = n
  BY <1>5 DEF Placed
<1>7. nodes \in Seq(NodeType) /\ DOMAIN nodes = 1 .. N
  <2>1. nodes \in Seq(NodeType)
    BY <1>2 DEF Forest
  <2> QED
    BY <1>3, <2>1
<1>8. \A n \in 1 .. N : pg[n] = PageOf(n)
  BY <1>4
<1>9. PICK pgs : pgs = Written
  OBVIOUS
<1>10. ASSUME NEW n \in 1 .. N PROVE pgs[pg[n]] = Image(n)
  <2>1. PICK p \in PageIds : p = pg[n] /\ PageOf(n) = p
    BY <1>6, <1>8
  <2>2. \E k \in DOMAIN nodes : PageOf(k) = p
    BY <1>7, <2>1
  <2>3. pgs[p] = Image(CHOOSE k \in DOMAIN nodes : PageOf(k) = p)
    BY <1>9, <2>2 DEF Written
  <2>4. PICK k : k = CHOOSE x \in DOMAIN nodes : PageOf(x) = p
    OBVIOUS
  <2>5. k \in 1 .. N /\ PageOf(k) = p
    BY <1>7, <2>2, <2>4
  <2>6. k = n
    BY <1>6, <1>8, <2>1, <2>5
  <2> QED
    BY <2>1, <2>3, <2>4, <2>6
<1>11. ASSUME NEW p \in PageIds, \A n \in 1 .. N : pg[n] # p PROVE pgs[p] = Stale
  <2>1. ~(\E k \in DOMAIN nodes : PageOf(k) = p)
    BY <1>7, <1>8, <1>11
  <2> QED
    BY <1>9, <2>1 DEF Written
<1>12. ASSUME NEW n \in 1 .. N PROVE Pictured(pgs, Planned, nodes, level, pg, n)
  <2>1. pgs[pg[n]] = Image(n) /\ level[Len(level)][2] = N
    BY <1>2, <1>3, <1>10
  <2> QED
    BY <1>2, <1>3, <1>4, <2>1, ImageOf
<1>13. ASSUME NEW d \in 1 .. Len(level), NEW n \in level[d][1] .. level[d][2] PROVE Linked(pgs, level, pg, d, n)
  <2>1. PICK p \in Nat, q \in Nat : p = level[d][1] /\ q = level[d][2] /\ 1 <= p /\ q <= N
    <3>1. level[d][1] \in Nat /\ level[d][2] \in Nat /\ 1 <= level[d][1]
      BY <1>2, ForestTypes, LevelsApart
    <3>2. level[d][2] <= N
      BY <1>2, <1>3 DEF Forest
    <3> QED
      BY <3>1, <3>2
  <2>2. n \in 1 .. N
    BY <1>13, <2>1
  <2>3. pgs[pg[n]] = Image(n)
    BY <1>10, <2>2
  <2> QED
    BY <1>2, <1>3, <1>4, <2>3, ImageLinks
<1>14. OnPages(pgs, Planned, nodes, level, pg)
  BY <1>3, <1>11, <1>12, <1>13 DEF OnPages
<1> QED
  BY <1>1, <1>3, <1>4, <1>5, <1>9, <1>14 DEF Holds

-----------------------------------------------------------------------------
(* The invariant. *)

\* The entries of the rows do not change with anything but the rows.
LEMMA SameEntries ==
  ASSUME setting' = setting, NEW rs, rows' = rs
  PROVE  Entries(rows)' = Entries(rs)
BY DEF Entries, Records, Sorted, Indexed

\* Nor does what may be encoded.
LEMMA SameEncodable ==
  ASSUME setting' = setting, NEW rs, rows' = rs
  PROVE  EveryEncodable(rows)' <=> EveryEncodable(rs)
BY DEF EveryEncodable, Encodable, HasNull

\* The rows planned keep their entries, and stay encodable.
LEMMA SamePlanned ==
  ASSUME setting' = setting, NEW rs, pending'.rows = rs
  PROVE  Entries(pending.rows)' = Entries(rs) /\ (EveryEncodable(pending.rows)' <=> EveryEncodable(rs))
BY DEF Entries, Records, Sorted, Indexed, EveryEncodable, Encodable, HasNull

\* The tree on the pages may be read with the next state as well.
LEMMA StillHeld ==
  ASSUME NEW E, E = Entries(rows)', \E nds, lev, pg : Holds(pages', mapped', E, nds, lev, pg)
  PROVE  (\E nds, lev, pg : Holds(pages, mapped, Entries(rows), nds, lev, pg))'
OBVIOUS

\* Planning a mutation leaves the pages alone.
LEMMA PlanTree ==
  ASSUME TreeInv, pc = "idle", NEW rs, EveryEncodable(rs), NEW c, Plan(rs, c)
  PROVE  TreeInv'
<1>1. CASE Records(rs) # Records(rows)
  <2>1. /\ pending' = [rows |-> rs, counter |-> c, entries |-> Entries(rs)] /\ pc' = "leaves"
        /\ setting' = setting /\ rows' = rows /\ pages' = pages /\ mapped' = mapped
    BY <1>1 DEF Plan, file
  <2>2. pending'.rows = rs /\ pending'.entries = Entries(rs)
    BY <2>1
  <2>3. Entries(pending.rows)' = Entries(rs) /\ EveryEncodable(pending.rows)'
    BY <2>1, <2>2, SamePlanned
  <2>4. PICK old : old = rows
    OBVIOUS
  <2>5. Entries(rows)' = Entries(old) /\ EveryEncodable(rows)'
    BY <2>1, <2>4, SameEntries, SameEncodable DEF TreeInv
  <2>6. \E nds, lev, pg : Holds(pages', mapped', Entries(old), nds, lev, pg)
    BY <2>1, <2>4 DEF TreeInv
  <2>7. (\E nds, lev, pg : Holds(pages, mapped, Entries(rows), nds, lev, pg))'
    BY <2>5, <2>6, StillHeld
  <2> QED
    BY <2>1, <2>2, <2>3, <2>5, <2>7 DEF TreeInv
<1>2. CASE Records(rs) = Records(rows)
  <2>1. rows' = rs /\ setting' = setting /\ pages' = pages /\ mapped' = mapped /\ pc' = "idle"
    BY <1>2 DEF Plan
  <2>2. Entries(rs) = Entries(rows)
    BY <1>2 DEF Entries
  <2>3. Entries(rows)' = Entries(rs) /\ EveryEncodable(rows)'
    BY <2>1, SameEntries, SameEncodable
  <2>4. \E nds, lev, pg : Holds(pages', mapped', Entries(rs), nds, lev, pg)
    BY <2>1, <2>2 DEF TreeInv
  <2>5. (\E nds, lev, pg : Holds(pages, mapped, Entries(rows), nds, lev, pg))'
    BY <2>3, <2>4, StillHeld
  <2> QED
    BY <2>1, <2>3, <2>5 DEF TreeInv
<1> QED
  BY <1>1, <1>2

\* The mutations plan rows that can be encoded.
LEMMA MutateTree ==
  ASSUME IInv, TreeInv, Mutate
  PROVE  TreeInv'
<1>1. pc = "idle" /\ rows \in RowsType /\ EveryEncodable(rows) /\ setting \in SettingType
  BY DEF Mutate, IInv, TreeInv
<1>2. ASSUME NEW l \in Rows, NEW k, k = NIL \/ Encodable(k) PROVE EveryEncodable([rows EXCEPT ![l] = k])
  BY <1>1, <1>2 DEF EveryEncodable, RowsType
<1>3. \A l \in setting.rows : l \in Rows
  BY <1>1 DEF SettingType
<1>4. PICK l \in setting.rows : RemoveRow(l) \/ \E k \in setting.keys : InsertRow(l, k) \/ ReplaceRow(l, k)
  BY DEF Mutate
<1>5. CASE RemoveRow(l)
  <2>1. EveryEncodable([rows EXCEPT ![l] = NIL])
    BY <1>2, <1>3
  <2> QED
    BY <1>1, <1>5, <2>1, PlanTree DEF RemoveRow
<1>6. ASSUME NEW k \in setting.keys, InsertRow(l, k) PROVE TreeInv'
  <2>1. EveryEncodable([rows EXCEPT ![l] = k])
    BY <1>2, <1>3, <1>6 DEF InsertRow
  <2> QED
    BY <1>1, <1>6, <2>1, PlanTree DEF InsertRow
<1>7. ASSUME NEW k \in setting.keys, ReplaceRow(l, k) PROVE TreeInv'
  <2>1. EveryEncodable([rows EXCEPT ![l] = k])
    BY <1>2, <1>3, <1>7 DEF ReplaceRow
  <2> QED
    BY <1>1, <1>7, <2>1, PlanTree DEF ReplaceRow
<1> QED
  BY <1>4, <1>5, <1>6, <1>7

\* A step that leaves the file alone keeps the tree that is on its pages.
LEMMA FileKept ==
  ASSUME TreeInv, UNCHANGED <<setting, file>>
  PROVE  (/\ mapped \in SUBSET PageIds /\ Root \in mapped /\ EveryEncodable(rows)
          /\ \E nds, lev, pg : Holds(pages, mapped, Entries(rows), nds, lev, pg))'
<1>1. setting' = setting /\ rows' = rows /\ pages' = pages /\ mapped' = mapped
  BY DEF file
<1>2. PICK old : old = rows
  OBVIOUS
<1>3. Entries(rows)' = Entries(old) /\ EveryEncodable(rows)'
  BY <1>1, <1>2, SameEntries, SameEncodable DEF TreeInv
<1>4. \E nds, lev, pg : Holds(pages', mapped', Entries(old), nds, lev, pg)
  BY <1>1, <1>2 DEF TreeInv
<1>5. (\E nds, lev, pg : Holds(pages, mapped, Entries(rows), nds, lev, pg))'
  BY <1>3, <1>4, StillHeld
<1> QED
  BY <1>1, <1>3, <1>5 DEF TreeInv

\* Packing and grouping build the tree of the planned rows.
LEMMA BuildTree ==
  ASSUME IInv, TreeInv, PackLeaves \/ GroupNext
  PROVE  TreeInv'
<1>1. UNCHANGED <<setting, file, pending>> /\ pc # "idle" /\ pc' = "group"
  BY DEF PackLeaves, GroupNext
<1>2. pending.rows \in RowsType /\ Planned = Entries(pending.rows) /\ EveryEncodable(pending.rows)
  BY <1>1 DEF IInv, TreeInv, Planned
<1>3. Ascending(Planned)
  BY <1>2, EntriesAscend
<1>4. Growing(Planned, nodes', level', first', start')
  <2>1. CASE PackLeaves
    BY <1>3, <2>1, PackKeeps
  <2>2. CASE GroupNext
    <3>1. Growing(Planned, nodes, level, first, start)
      BY <2>2 DEF GroupNext, TreeInv
    <3> QED
      BY <2>2, <3>1, GroupKeeps
  <2> QED
    BY <2>1, <2>2
<1>5. Growing(Planned, nodes, level, first, start)'
  BY <1>1, <1>4 DEF Planned
<1>6. PICK rs : rs = pending.rows
  OBVIOUS
<1>7. setting' = setting /\ pending'.rows = rs /\ pending' = pending
  BY <1>1, <1>6
<1>8. Entries(pending.rows)' = Entries(rs) /\ EveryEncodable(pending.rows)'
  BY <1>2, <1>6, <1>7, SamePlanned
<1>9. (pending.entries = Entries(pending.rows))'
  BY <1>2, <1>6, <1>7, <1>8 DEF Planned
<1>10. UNCHANGED <<setting, file>>
  BY <1>1
<1>11. (/\ mapped \in SUBSET PageIds /\ Root \in mapped /\ EveryEncodable(rows)
        /\ \E nds, lev, pg : Holds(pages, mapped, Entries(rows), nds, lev, pg))'
  BY <1>10, FileKept
<1> QED
  BY <1>5, <1>8, <1>9, <1>11 DEF TreeInv

\* Staging puts it on the pages, with the rows.
LEMMA StageKeeps ==
  ASSUME IInv, TreeInv, StageTree
  PROVE  TreeInv'
<1>1. /\ pc = "group" /\ ~MoreToGroup /\ Len(nodes) <= MaxPage /\ mapped' = Staged /\ pages' = Written
      /\ rows' = pending.rows /\ setting' = setting /\ pc' = "idle"
  BY DEF StageTree, Staged, Written, Reset
<1>2. pending.rows \in RowsType /\ Planned = Entries(pending.rows) /\ EveryEncodable(pending.rows)
  BY <1>1 DEF IInv, TreeInv, Planned
<1>3. Len(Planned) <= Cardinality(Rows)
  BY <1>2, EntriesAscend
<1>4. Growing(Planned, nodes, level, first, start) /\ mapped \in SUBSET PageIds /\ Root \in mapped
  BY <1>1 DEF TreeInv
<1>5. Holds(Written, Staged, Planned, nodes, level, [n \in 1 .. Len(nodes) |-> PageOf(n)])
  BY <1>1, <1>3, <1>4, TreeStaged
<1>6. Staged \in SUBSET PageIds /\ Root \in Staged
  <2>1. PICK N \in Nat : N = Len(nodes) /\ 1 <= N /\ N <= MaxPage
    <3>1. PICK a \in Nat, b \in Nat, N \in Nat : a = level[Len(level)][1] /\ b = level[Len(level)][2] /\ N = Len(nodes)
      BY <1>4, GrowingTypes
    <3>2. /\ 1 <= level[Len(level)][1] /\ level[Len(level)][1] <= first /\ first <= level[Len(level)][2]
          /\ level[Len(level)][2] <= Len(nodes) /\ first \in Nat
      BY <1>4, GrowingTypes
    <3>3. 1 <= a /\ a <= first /\ first <= b /\ b <= N /\ first \in Nat
      BY <3>1, <3>2
    <3>4. 1 <= N
      BY <3>3
    <3> QED
      BY <1>1, <3>1, <3>4
  <2> QED
    BY <1>4, <2>1, NodesPlaced
<1>7. PICK rs : rs = pending.rows
  OBVIOUS
<1>8. Entries(rows)' = Entries(rs) /\ EveryEncodable(rows)'
  BY <1>1, <1>2, <1>7, SameEntries, SameEncodable
<1>9. \E nds, lev, pg : Holds(pages', mapped', Entries(rs), nds, lev, pg)
  BY <1>1, <1>2, <1>5, <1>7
<1>10. (\E nds, lev, pg : Holds(pages, mapped, Entries(rows), nds, lev, pg))'
  BY <1>8, <1>9, StillHeld
<1> QED
  BY <1>1, <1>6, <1>8, <1>10 DEF TreeInv

\* Every step keeps the tree.
LEMMA TreeInvNext == IInv /\ TreeInv /\ [Next]_vars => TreeInv'
<1> SUFFICES ASSUME IInv, TreeInv, [Next]_vars PROVE TreeInv'
  OBVIOUS
<1>1. CASE Mutate
  BY <1>1, MutateTree
<1>2. CASE PackLeaves \/ GroupNext
  BY <1>2, BuildTree
<1>3. CASE StageTree
  BY <1>3, StageKeeps
<1>4. CASE RefuseTree \/ RefuseBudget
  <2>1. UNCHANGED <<setting, file>> /\ pc' = "idle"
    BY <1>4 DEF RefuseTree, RefuseBudget, Reset
  <2>2. (/\ mapped \in SUBSET PageIds /\ Root \in mapped /\ EveryEncodable(rows)
         /\ \E nds, lev, pg : Holds(pages, mapped, Entries(rows), nds, lev, pg))'
    BY <2>1, FileKept
  <2> QED
    BY <2>1, <2>2 DEF TreeInv
<1>5. CASE UNCHANGED vars
  <2>1. UNCHANGED <<setting, file>> /\ UNCHANGED <<pc, pending, nodes, level, first, start>>
    BY <1>5 DEF vars
  <2>2. (/\ mapped \in SUBSET PageIds /\ Root \in mapped /\ EveryEncodable(rows)
         /\ \E nds, lev, pg : Holds(pages, mapped, Entries(rows), nds, lev, pg))'
    BY <2>1, FileKept
  <2>3. ASSUME pc # "idle" PROVE (pending.entries = Entries(pending.rows) /\ EveryEncodable(pending.rows))'
    <3>1. PICK rs : rs = pending.rows
      OBVIOUS
    <3>2. setting' = setting /\ pending'.rows = rs /\ pending' = pending
      BY <2>1, <3>1
    <3>3. pending.entries = Entries(rs) /\ EveryEncodable(rs)
      BY <2>3, <3>1 DEF TreeInv
    <3>4. Entries(pending.rows)' = Entries(rs) /\ EveryEncodable(pending.rows)'
      BY <3>2, <3>3, SamePlanned
    <3> QED
      BY <3>2, <3>3, <3>4
  <2>4. (pc = "group" => Growing(Planned, nodes, level, first, start))'
    BY <2>1 DEF TreeInv, Planned
  <2> QED
    BY <2>1, <2>2, <2>3, <2>4 DEF TreeInv
<1> QED
  BY <1>1, <1>2, <1>3, <1>4, <1>5 DEF Next, Build

\* An empty leaf is a tree over no entries.
LEMMA EmptyTree ==
  ASSUME NEW E, E = <<>>, pages = [p \in PageIds |-> IF p = Root THEN EmptyLeaf ELSE Stale], mapped = {Root}
  PROVE  \E nds, lev, pg : Holds(pages, mapped, E, nds, lev, pg)
<1>1. PICK nd : nd = Node(1, 0, NoKids)
  OBVIOUS
<1>2. nd.lo = 1 /\ nd.hi = 0 /\ nd.kids = NoKids /\ nd \in NodeType
  BY <1>1 DEF Node, NoKids, NodeType
<1>3. PICK nds : nds = <<nd>>
  OBVIOUS
<1>4. nds \in Seq(NodeType) /\ Len(nds) = 1 /\ nds[1] = nd
  BY <1>2, <1>3
<1>5. PICK lev : lev = <<<<1, 1>>>>
  OBVIOUS
<1>6. lev \in Seq(Nat \X Nat) /\ Len(lev) = 1 /\ lev[1] = <<1, 1>> /\ lev[1][1] = 1 /\ lev[1][2] = 1
  BY <1>5
<1>7. PICK pg : pg = [n \in 1 .. 1 |-> Root]
  OBVIOUS
<1>8. Root \in PageIds /\ 1 <= MaxPage
  BY IndexAssumption DEF PageIds, Root
<1>9. Ascending(E) /\ Len(E) = 0
  BY DEF Ascending
<1>10. IsLeafNode(E, nd)
  <2>1. LeafWidths(E, 1, 0) = <<>>
    BY DEF LeafWidths
  <2>2. PICK s : s = <<>>
    OBVIOUS
  <2>3. Sums(s)[0] = 0
    <3>1. s \in Seq(Nat)
      BY <2>2
    <3> QED
      BY <3>1, SumsAre
  <2>4. 0 <= AreaBytes /\ 0 - 1 + 1 = 0 /\ 1 <= 1 /\ 1 <= 0 + 1 /\ 0 <= 0
    BY IndexAssumption
  <2> QED
    BY <1>2, <1>9, <2>1, <2>2, <2>3, <2>4 DEF IsLeafNode
<1>11. Leaves(E, nds, 1)
  <2>1. InLine(nds, 1, 1)
    BY DEF InLine
  <2>2. \A j \in 1 .. 1 : j = 1
    OBVIOUS
  <2>3. \A j \in 1 .. 1 : IsLeafNode(E, nds[j])
    BY <1>4, <1>10, <2>2
  <2> QED
    BY <1>2, <1>4, <1>9, <2>1, <2>3 DEF Leaves
<1>12. Forest(E, nds, lev)
  <2>1. (\A d \in 1 .. 1 : d = 1) /\ (\A d \in 2 .. 1 : FALSE) /\ 1 <= 1
    OBVIOUS
  <2>2. \A d \in 1 .. Len(lev) : lev[d][1] <= lev[d][2] /\ lev[d][2] <= Len(nds)
    BY <1>4, <1>6, <2>1
  <2> QED
    BY <1>4, <1>6, <1>11, <2>1, <2>2 DEF Forest
<1>13. Whole(E, nds, lev)
  <2>1. Full(E, nds)
    BY <1>4, <1>9 DEF Full
  <2>2. Paired(nds, Len(nds) - 1)
    BY <1>4 DEF Paired
  <2>3. Len(lev) <= MaxDepth
    BY <1>6, IndexAssumption
  <2> QED
    BY <1>4, <1>6, <1>9, <1>12, <2>1, <2>2, <2>3 DEF Whole
<1>14. pg \in [1 .. 1 -> PageIds] /\ pg[1] = Root /\ \A n \in 1 .. 1 : n = 1 /\ pg[n] = Root
  BY <1>7, <1>8
<1>15. Placed(pg, Len(nds), mapped)
  BY <1>4, <1>14 DEF Placed
<1>16. OnPages(pages, E, nds, lev, pg)
  <2>1. pages[Root] = EmptyLeaf
    BY <1>8
  <2>2. pages[Root].kind = "leaf" /\ pages[Root].items = <<>> /\ pages[Root].prev = NIL /\ pages[Root].next = NIL
    BY <2>1 DEF EmptyLeaf
  <2>3. LeafItems(E, nd) = <<>>
    BY <1>2 DEF LeafItems
  <2>4. Pictured(pages, E, nds, lev, pg, 1)
    BY <1>4, <1>6, <1>14, <2>2, <2>3 DEF Pictured
  <2>5. Linked(pages, lev, pg, 1, 1)
    BY <1>6, <1>14, <2>2 DEF Linked
  <2>6. \A d \in 1 .. Len(lev) : d = 1 /\ \A n \in lev[d][1] .. lev[d][2] : n = 1
    BY <1>6
  <2>7. \A p \in PageIds : (\A n \in 1 .. Len(nds) : pg[n] # p) => pages[p] = Stale
    BY <1>4, <1>14
  <2> QED
    BY <1>4, <1>14, <2>4, <2>5, <2>6, <2>7 DEF OnPages
<1>17. Holds(pages, mapped, E, nds, lev, pg)
  BY <1>13, <1>15, <1>16 DEF Holds
<1> QED
  BY <1>17

\* The entries of no row, and of one.
LEMMA FirstEntries ==
  ASSUME setting \in SettingType
  PROVE  /\ rows = [l \in Rows |-> NIL] => Entries(rows) = <<>> /\ EveryEncodable(rows)
         /\ \A k \in Keys : rows = OneRow(k) /\ ~HasNull(k) => Entries(rows) = <<Record(k, 1)>> /\ EveryEncodable(rows)
<1>1. ASSUME rows = [l \in Rows |-> NIL] PROVE Entries(rows) = <<>> /\ EveryEncodable(rows)
  <2>1. \A l \in Rows : rows[l] = NIL
    BY <1>1
  <2>2. Records(rows) = {}
    BY <2>1 DEF Records, Indexed
  <2>3. Cardinality({}) = 0
    BY FS_EmptySet
  <2>4. Entries(rows) = <<>>
    BY <2>2, <2>3 DEF Entries, Sorted
  <2> QED
    BY <2>1, <2>4 DEF EveryEncodable
<1>2. ASSUME NEW k \in Keys, rows = OneRow(k), ~HasNull(k) PROVE Entries(rows) = <<Record(k, 1)>> /\ EveryEncodable(rows)
  <2>1. k \in Nat /\ k # NIL /\ 1 \in Rows
    BY IndexAssumption
  <2>2. rows[1] = k /\ \A l \in Rows : l # 1 => rows[l] = NIL
    BY <1>2, <2>1 DEF OneRow
  <2>3. Indexed(k) /\ ~Indexed(NIL)
    BY <1>2, <2>1 DEF Indexed, HasNull
  <2>4. {x \in Rows : Indexed(rows[x])} = {1}
    BY <2>1, <2>2, <2>3
  <2>5. PICK S : S = Records(rows)
    OBVIOUS
  <2>6. S = {Record(k, 1)}
    BY <2>2, <2>4, <2>5 DEF Records
  <2>7. IsFiniteSet(S) /\ Cardinality(S) = 1
    BY <2>6, FS_Singleton
  <2>8. S \in SUBSET RecordType
    BY <2>1, <2>6 DEF RecordType, Record
  <2>9. PICK t : t = Sorted(S)
    OBVIOUS
  <2>10. t \in Seq(RecordType) /\ Len(t) = 1 /\ t[1] \in S
    <3>1. t \in Seq(RecordType) /\ Len(t) = Cardinality(S) /\ \A i \in 1 .. Len(t) : t[i] \in S
      BY <2>7, <2>8, <2>9, SortedIs
    <3> QED
      BY <2>7, <3>1
  <2>11. t[1] = Record(k, 1)
    BY <2>6, <2>10
  <2>12. t = <<Record(k, 1)>>
    BY <2>10, <2>11
  <2>13. EveryEncodable(rows)
    BY <1>2, <2>2 DEF EveryEncodable, Encodable
  <2> QED
    BY <2>5, <2>9, <2>12, <2>13 DEF Entries
<1> QED
  BY <1>1, <1>2

\* The fields of a leaf of one record.
LEMMA LeafFields ==
  ASSUME NEW r
  PROVE  Leaf(r).kind = "leaf" /\ Leaf(r).prev = NIL /\ Leaf(r).next = NIL /\ Leaf(r).items = <<[record |-> r, child |-> NIL]>>
<1>1. PICK e : e = <<[record |-> r, child |-> NIL]>>
  OBVIOUS
<1>2. PICK x : x = EmptyLeaf
  OBVIOUS
<1>3. x = [kind |-> "leaf", prev |-> NIL, next |-> NIL, tail |-> NIL, items |-> <<>>]
  BY <1>2 DEF EmptyLeaf
<1>4. PICK y : y = [x EXCEPT !.items = e]
  OBVIOUS
<1>5. y.kind = "leaf" /\ y.prev = NIL /\ y.next = NIL /\ y.items = e
  BY <1>3, <1>4
<1>6. Leaf(r) = y
  BY <1>1, <1>2, <1>4 DEF Leaf
<1> QED
  BY <1>1, <1>5, <1>6

\* The fields of a branch that has kept only its tail child.
LEMMA TailFields ==
  ASSUME NEW q, NEW y, y = [EmptyLeaf EXCEPT !.kind = "branch", !.tail = q]
  PROVE  y.kind = "branch" /\ y.prev = NIL /\ y.next = NIL /\ y.tail = q /\ y.items = <<>>
<1>1. PICK e : e = <<>>
  OBVIOUS
<1>2. EmptyLeaf = [kind |-> "leaf", prev |-> NIL, next |-> NIL, tail |-> NIL, items |-> e]
  BY <1>1 DEF EmptyLeaf
<1>3. PICK x : x = EmptyLeaf
  OBVIOUS
<1>4. x = [kind |-> "leaf", prev |-> NIL, next |-> NIL, tail |-> NIL, items |-> e] /\ y = [x EXCEPT !.kind = "branch", !.tail = q]
  BY <1>2, <1>3
<1>5. y.kind = "branch" /\ y.prev = NIL /\ y.next = NIL /\ y.tail = q /\ y.items = e
  BY <1>4
<1> QED
  BY <1>1, <1>5

\* A leaf under a root with a tail child alone is a tree over one entry.
LEMMA TailTree ==
  ASSUME NEW k \in Keys, RecordFits(Width[k]), NEW E, E = <<Record(k, 1)>>, mapped = {Root, 2},
         pages = [p \in PageIds |->
                   IF p = Root THEN [EmptyLeaf EXCEPT !.kind = "branch", !.tail = 2]
                   ELSE IF p = 2 THEN Leaf(Record(k, 1)) ELSE Stale]
  PROVE  \E nds, lev, pg : Holds(pages, mapped, E, nds, lev, pg)
<1>1. PICK x, y : x = Node(1, 1, NoKids) /\ y = Node(1, 1, <<1, 1>>)
  OBVIOUS
<1>2. /\ x.lo = 1 /\ x.hi = 1 /\ x.kids = NoKids /\ x \in NodeType
      /\ y.lo = 1 /\ y.hi = 1 /\ y.kids[1] = 1 /\ y.kids[2] = 1 /\ y \in NodeType
  BY <1>1 DEF Node, NoKids, NodeType
<1>3. PICK nds : nds = <<x, y>>
  OBVIOUS
<1>4. nds \in Seq(NodeType) /\ Len(nds) = 2 /\ nds[1] = x /\ nds[2] = y
  BY <1>2, <1>3
<1>5. PICK lev : lev = <<<<1, 1>>, <<2, 2>>>>
  OBVIOUS
<1>6. lev \in Seq(Nat \X Nat) /\ Len(lev) = 2 /\ lev[1][1] = 1 /\ lev[1][2] = 1 /\ lev[2][1] = 2 /\ lev[2][2] = 2
  BY <1>5
<1>7. PICK pg : pg = [n \in 1 .. 2 |-> IF n = 1 THEN 2 ELSE Root]
  OBVIOUS
<1>8. Root \in PageIds /\ 2 \in PageIds /\ Root # 2 /\ Root = 1
  BY IndexAssumption DEF PageIds, Root
<1>9. PICK r \in Rec : r = Record(k, 1)
  BY IndexAssumption DEF Rec, Record
<1>10. E \in Seq(Rec) /\ Len(E) = 1 /\ E[1] = r
  BY <1>9
<1>11. Ascending(E)
  BY <1>10 DEF Ascending
<1>12. PICK w \in Nat : w = Width[k] /\ w <= AreaBytes
  <2>1. Width[k] \in Nat
    BY IndexAssumption
  <2> QED
    BY <2>1, FitsTwice
<1>13. E[1].key = k
  BY <1>9, <1>10 DEF Record
<1>14. IsLeafNode(E, x)
  <2>1. PICK s : s = LeafWidths(E, 1, 1)
    OBVIOUS
  <2>2. s = [i \in 1 .. 1 |-> Width[E[1 + i - 1].key]]
    BY <2>1 DEF LeafWidths
  <2>3. 1 + 1 - 1 = 1 /\ 1 - 1 + 1 = 1 /\ 1 \in 1 .. 1 /\ \A i \in 1 .. 1 : i = 1
    OBVIOUS
  <2>4. s = [i \in 1 .. 1 |-> w]
    BY <1>12, <1>13, <2>2, <2>3
  <2>5. s \in Seq(Nat) /\ Len(s) = 1 /\ s[1] = w
    BY <2>4
  <2>6. Sums(s)[0] = 0 /\ Sums(s)[1] = Sums(s)[1 - 1] + s[1]
    BY <2>5, SumsAre
  <2>7. Sums(s)[1] = w
    BY <2>5, <2>6
  <2>8. Sums(LeafWidths(E, x.lo, x.hi))[x.hi - x.lo + 1] <= AreaBytes
    BY <1>2, <1>12, <2>1, <2>3, <2>7
  <2> QED
    BY <1>2, <1>10, <2>8 DEF IsLeafNode
<1>15. Leaves(E, nds, 1)
  <2>1. InLine(nds, 1, 1)
    BY DEF InLine
  <2>2. \A j \in 1 .. 1 : j = 1
    OBVIOUS
  <2>3. \A j \in 1 .. 1 : IsLeafNode(E, nds[j])
    BY <1>4, <1>14, <2>2
  <2>4. 1 <= 1 /\ 1 <= Len(nds)
    BY <1>4
  <2> QED
    BY <1>2, <1>4, <1>10, <2>1, <2>3, <2>4 DEF Leaves
<1>16. IsParent(E, nds, 2)
  <2>1. BranchWidths(E, nds, 1, 1) = <<>>
    BY DEF BranchWidths
  <2>2. PICK s : s = <<>>
    OBVIOUS
  <2>3. Sums(s)[0] = 0
    <3>1. s \in Seq(Nat)
      BY <2>2
    <3> QED
      BY <3>1, SumsAre
  <2>4. 0 <= AreaBytes /\ 1 - 1 = 0 /\ 1 <= 1 /\ 1 < 2
    BY IndexAssumption
  <2>5. nds[2].kids[1] = 1 /\ nds[2].kids[2] = 1 /\ nds[2].lo = nds[1].lo /\ nds[2].hi = nds[1].hi
    BY <1>2, <1>4
  <2>6. Sums(BranchWidths(E, nds, 1, 1))[1 - 1] <= AreaBytes
    BY <2>1, <2>2, <2>3, <2>4
  <2> QED
    BY <2>4, <2>5, <2>6 DEF IsParent
<1>17. Adopted(E, nds, 2, 2, 1, 1)
  <2>1. (\A j \in 2 .. 2 : j = 2) /\ (\A j \in 2 .. (2 - 1) : FALSE) /\ ~(2 > 2) /\ 1 <= 1
    OBVIOUS
  <2>2. nds[2].kids[1] = 1 /\ nds[2].kids[2] = 1
    BY <1>2, <1>4
  <2> QED
    BY <1>16, <2>1, <2>2 DEF Adopted, InLine
<1>18. Forest(E, nds, lev)
  <2>1. (\A d \in 1 .. 2 : d = 1 \/ d = 2) /\ (\A d \in 2 .. 2 : d = 2) /\ 1 <= 1 /\ 2 <= 2 /\ 1 <= 2 /\ 2 >= 1 /\ 1 + 1 = 2 /\ 2 - 1 = 1
    OBVIOUS
  <2>2. \A d \in 1 .. Len(lev) : lev[d][1] <= lev[d][2] /\ lev[d][2] <= Len(nds)
    BY <1>4, <1>6, <2>1
  <2>3. \A d \in 2 .. Len(lev) : /\ lev[d][1] = lev[d - 1][2] + 1
                                 /\ Adopted(E, nds, lev[d][1], lev[d][2], lev[d - 1][1], lev[d - 1][2])
    BY <1>6, <1>17, <2>1
  <2> QED
    BY <1>4, <1>6, <1>15, <2>1, <2>2, <2>3 DEF Forest
<1>19. Whole(E, nds, lev)
  <2>1. \A j \in 1 .. 2 : j = 1 \/ j = 2
    OBVIOUS
  <2>2. Full(E, nds)
    BY <1>2, <1>4, <1>10, <2>1 DEF Full
  <2>3. Paired(nds, Len(nds) - 1)
    <3>1. \A j \in 1 .. (2 - 1) : j = 1
      OBVIOUS
    <3> QED
      BY <1>2, <1>4, <3>1 DEF Paired
  <2>4. Len(lev) <= MaxDepth
    BY <1>6, IndexAssumption
  <2> QED
    BY <1>4, <1>6, <1>11, <1>18, <2>2, <2>3, <2>4 DEF Whole
<1>20. pg \in [1 .. 2 -> PageIds] /\ pg[1] = 2 /\ pg[2] = Root /\ \A n \in 1 .. 2 : n = 1 \/ n = 2
  BY <1>7, <1>8
<1>21. Placed(pg, Len(nds), mapped)
  BY <1>4, <1>8, <1>20 DEF Placed
<1>22. /\ pages[2] = Leaf(Record(k, 1)) /\ pages[Root] = [EmptyLeaf EXCEPT !.kind = "branch", !.tail = 2]
       /\ \A p \in PageIds : p # Root /\ p # 2 => pages[p] = Stale
  BY <1>8
<1>23. /\ pages[2].kind = "leaf" /\ pages[2].prev = NIL /\ pages[2].next = NIL
       /\ pages[2].items = <<[record |-> r, child |-> NIL]>>
  <2>1. r = Record(k, 1)
    BY <1>9
  <2>2. PICK u : u = Leaf(r)
    OBVIOUS
  <2>3. u.kind = "leaf" /\ u.prev = NIL /\ u.next = NIL /\ u.items = <<[record |-> r, child |-> NIL]>>
    BY <2>2, LeafFields
  <2>4. pages[2] = u
    BY <1>22, <2>1, <2>2
  <2> QED
    BY <2>3, <2>4
<1>24. /\ pages[Root].kind = "branch" /\ pages[Root].prev = NIL /\ pages[Root].next = NIL
       /\ pages[Root].items = <<>> /\ pages[Root].tail = 2
  <2>1. PICK u : u = [EmptyLeaf EXCEPT !.kind = "branch", !.tail = 2]
    OBVIOUS
  <2>2. u.kind = "branch" /\ u.prev = NIL /\ u.next = NIL /\ u.tail = 2 /\ u.items = <<>>
    BY <2>1, TailFields
  <2>3. pages[Root] = u
    BY <1>22, <2>1
  <2> QED
    BY <2>2, <2>3
<1>25. Pictured(pages, E, nds, lev, pg, 1)
  <2>1. LeafItems(E, x) = [i \in 1 .. (1 - 1 + 1) |-> [record |-> E[1 + i - 1], child |-> NIL]]
    BY <1>2 DEF LeafItems
  <2>2. 1 - 1 + 1 = 1 /\ (\A i \in 1 .. 1 : i = 1) /\ 1 + 1 - 1 = 1 /\ 1 <= 1
    OBVIOUS
  <2>3. LeafItems(E, x) = [i \in 1 .. 1 |-> [record |-> r, child |-> NIL]]
    BY <1>10, <2>1, <2>2
  <2>4. LeafItems(E, x) = <<[record |-> r, child |-> NIL]>>
    BY <2>3
  <2> QED
    BY <1>4, <1>6, <1>20, <1>23, <2>2, <2>4 DEF Pictured
<1>26. Pictured(pages, E, nds, lev, pg, 2)
  <2>1. nds[2].kids[1] = 1 /\ nds[2].kids[2] = 1 /\ 1 - 1 = 0 /\ ~(2 <= 1)
    BY <1>2, <1>4
  <2>2. BranchItems(E, nds, pg, 2) = <<>>
    BY <2>1 DEF BranchItems
  <2> QED
    BY <1>6, <1>20, <1>24, <2>1, <2>2 DEF Pictured
<1>27. Linked(pages, lev, pg, 1, 1) /\ Linked(pages, lev, pg, 2, 2)
  BY <1>6, <1>20, <1>23, <1>24 DEF Linked
<1>28. OnPages(pages, E, nds, lev, pg)
  <2>1. \A d \in 1 .. Len(lev) : d = 1 \/ d = 2
    BY <1>6
  <2>2. (\A n \in lev[1][1] .. lev[1][2] : n = 1) /\ (\A n \in lev[2][1] .. lev[2][2] : n = 2)
    BY <1>6
  <2>3. \A d \in 1 .. Len(lev) : \A n \in lev[d][1] .. lev[d][2] : Linked(pages, lev, pg, d, n)
    BY <1>27, <2>1, <2>2
  <2>4. \A n \in 1 .. Len(nds) : Pictured(pages, E, nds, lev, pg, n)
    BY <1>4, <1>20, <1>25, <1>26
  <2>5. \A p \in PageIds : (\A n \in 1 .. Len(nds) : pg[n] # p) => pages[p] = Stale
    <3>1. 1 \in 1 .. Len(nds) /\ 2 \in 1 .. Len(nds)
      BY <1>4
    <3> QED
      BY <1>20, <1>22, <3>1
  <2> QED
    BY <2>3, <2>4, <2>5 DEF OnPages
<1>29. Holds(pages, mapped, E, nds, lev, pg)
  BY <1>19, <1>21, <1>28 DEF Holds
<1> QED
  BY <1>29

\* The first tree.
LEMMA TreeInvInit == Init => TreeInv
<1> SUFFICES ASSUME Init PROVE TreeInv
  OBVIOUS
<1>1. setting \in SettingType /\ setting.keys \subseteq Keys /\ pc = "idle"
  BY IndexAssumption DEF Init, SettingType
<1>2. Root \in PageIds /\ 2 \in PageIds
  BY IndexAssumption DEF PageIds, Root
<1>3. CASE /\ rows = [l \in Rows |-> NIL]
           /\ mapped = {Root} /\ pages = [p \in PageIds |-> IF p = Root THEN EmptyLeaf ELSE Stale]
  <2>1. Entries(rows) = <<>> /\ EveryEncodable(rows)
    BY <1>1, <1>3, FirstEntries
  <2>2. \E nds, lev, pg : Holds(pages, mapped, Entries(rows), nds, lev, pg)
    BY <1>3, <2>1, EmptyTree
  <2> QED
    BY <1>1, <1>2, <1>3, <2>1, <2>2 DEF TreeInv
<1>4. ASSUME NEW k \in setting.keys, ~HasNull(k), RecordFits(Width[k]), rows = OneRow(k), mapped = {Root, 2},
             pages = [p \in PageIds |->
                       IF p = Root THEN [EmptyLeaf EXCEPT !.kind = "branch", !.tail = 2]
                       ELSE IF p = 2 THEN Leaf(Record(k, 1)) ELSE Stale]
      PROVE  TreeInv
  <2>1. k \in Keys
    BY <1>1
  <2>2. Entries(rows) = <<Record(k, 1)>> /\ EveryEncodable(rows)
    BY <1>1, <1>4, <2>1, FirstEntries
  <2>3. \E nds, lev, pg : Holds(pages, mapped, Entries(rows), nds, lev, pg)
    BY <1>4, <2>1, <2>2, TailTree
  <2> QED
    BY <1>1, <1>2, <1>4, <2>2, <2>3 DEF TreeInv
<1> QED
  BY <1>3, <1>4 DEF Init

\* The next mutation of the table accepts the index the last one left behind, whatever the
\* rows and their keys, the width of the records, and the trees and budgets refused before:
\* load finds every entry in order, siblings, depths and separators right, and the map owning
\* every page of the tree.
THEOREM NextLoadIsAccepted == Spec => []NextLoadAccepts
<1>1. IInv /\ TreeInv => NextLoadAccepts
  <2> SUFFICES ASSUME IInv, TreeInv, pc = "idle" PROVE LoadAccepts
    BY DEF NextLoadAccepts
  <2>1. PICK nds, lev, pg : Holds(pages, mapped, Entries(rows), nds, lev, pg)
    BY DEF TreeInv
  <2>2. NoDuplicates(rows) /\ EveryEncodable(rows)
    BY DEF IInv, TreeInv
  <2> QED
    BY <2>1, <2>2, LoadIsAccepted
<1> QED
  BY <1>1, IInvInit, IInvNext, TreeInvInit, TreeInvNext, PTL DEF Spec

=============================================================================
