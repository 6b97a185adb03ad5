---------------------------- MODULE EditJournal ----------------------------
(***************************************************************************)
(* The journal of page edits (write/page_edits.rs) and its two users.  A   *)
(* row change is one plan, made on the opened file and published at once   *)
(* (update_pages.rs).  A cascade or a schema edit is a sequence of plans:  *)
(* each is made on the private copy, to which the plans before it were     *)
(* written, and a combined journal remembers what they did to the original *)
(* (page_edits_sequence.rs).                                               *)
(*                                                                         *)
(* Within a plan several components edit pages without seeing each other's *)
(* edits: each reads the file as it was before the plan.  A page has Cells *)
(* (its bytes, or a record), each with a value.  Pages count from 1.       *)
(***************************************************************************)
EXTENDS Naturals, Sequences, FiniteSets

CONSTANTS Cells, Values,
          Blank,       \* the initial value of a cell
          MaxPages,    \* the width of a page reference
          MaxEdits,    \* bound on the edits of one plan
          MaxPlans,    \* bound on the plans of one sequence
          MaxForeign   \* bound on the files somebody else publishes

Page == [Cells -> Values]
File == UNION {[1 .. n -> Page] : n \in 1 .. MaxPages}
BlankPage == [c \in Cells |-> Blank]

ASSUME JournalAssumption ==
  /\ Cells # {} /\ Blank \in Values
  /\ MaxPages \in Nat \ {0} /\ MaxEdits \in Nat /\ MaxPlans \in Nat /\ MaxForeign \in Nat

VARIABLES target,    \* the file under the path
          original,  \* the file DatabaseReader::open holds
          private,   \* the private copy
          combined,  \* the journal of a sequence
          plan,      \* the journal of the plan being made
          base,      \* the file the plan is made on
          pc, kind,
          edits, plans, foreign,
          copied,    \* ghost: the private copy before any plan
          intents,   \* ghost: page, cell and value of every accepted edit of the plan
          ideal      \* ghost: the original with the plans applied one after another

vars == <<target, original, private, combined, plan, base, pc, kind,
          edits, plans, foreign, copied, intents, ideal>>

-----------------------------------------------------------------------------
(* PageEdits. *)

\* Every change is found by its page.
Change == [before : Page, after : Page]
NewJournal(n) == [first |-> n, changes |-> <<>>, append |-> <<>>]

ChangedPages(j) == DOMAIN j.changes
NextAppendPage(j) == j.first + Len(j.append) + 1
WithAfter(j, p, image) == [j EXCEPT !.changes[p].after = image]
WithChange(j, p, change) ==
  [j EXCEPT !.changes = [q \in DOMAIN @ \union {p} |-> IF q = p THEN change ELSE @[q]]]

\* The page as the journal leaves it.
Current(j, file, p) == IF p \in ChangedPages(j) THEN j.changes[p].after ELSE file[p]

Differ(before, after) == {c \in Cells : before[c] # after[c]}

\* replace merges two changes of one page if no cell gets two new values.
MergeableWithoutCheck(existing, before, after) == TRUE
Mergeable(existing, before, after) ==
  \A c \in Differ(before, after) : existing[c] \in {before[c], after[c]}
MergedCells(existing, before, after) ==
  [c \in Cells |-> IF before[c] # after[c] THEN after[c] ELSE existing[c]]

Replace(j, p, before, after) ==
  IF p \in ChangedPages(j)
  THEN WithAfter(j, p, MergedCells(j.changes[p].after, before, after))
  ELSE WithChange(j, p, [before |-> before, after |-> after])
ReplaceAccepted(j, p, before, after) ==
  p \in ChangedPages(j) => /\ j.changes[p].before = before
                           /\ Mergeable(j.changes[p].after, before, after)

-----------------------------------------------------------------------------
(* Opening, and what others do meanwhile. *)

Open(k) ==
  /\ pc = "start"
  /\ original' = target /\ kind' = k
  /\ combined' = NewJournal(Len(target)) /\ ideal' = target
  /\ pc' = IF k = "direct" THEN "plan" ELSE "copy"
  /\ UNCHANGED <<target, private, plan, base, edits, plans, foreign, copied, intents>>

\* schema::edit::run and Plan::publish stage inside the mutation of atomic_update.
Copy ==
  /\ pc = "copy"
  /\ private' = target /\ copied' = target
  /\ pc' = "plan"
  /\ UNCHANGED <<target, original, combined, plan, base, kind, edits, plans, foreign,
                 intents, ideal>>

ForeignPublish(file) ==
  /\ foreign < MaxForeign /\ pc \in {"copy", "maps"}
  /\ target' = file /\ foreign' = foreign + 1
  /\ UNCHANGED <<original, private, combined, plan, base, pc, kind, edits, plans,
                 copied, intents, ideal>>

-----------------------------------------------------------------------------
(* Making a plan. *)

\* FileSource::from_file, DatabaseReader::from_source: the plan reads the copy.
BeginPlan ==
  /\ pc = "plan" /\ plans < (IF kind = "direct" THEN 1 ELSE MaxPlans)
  /\ base' = IF kind = "direct" THEN original ELSE private
  /\ plan' = NewJournal(Len(base'))
  /\ edits' = 0 /\ intents' = {} /\ pc' = "content" /\ plans' = plans + 1
  /\ UNCHANGED <<target, original, private, combined, kind, foreign, copied, ideal>>

Edit(j, new) ==
  /\ edits < MaxEdits /\ edits' = edits + 1
  /\ plan' = j /\ intents' = intents \union new
  /\ UNCHANGED <<target, original, private, combined, base, pc, kind, plans, foreign,
                 copied, ideal>>
Intents(p, before, after) == {<<p, c, after[c]>> : c \in Differ(before, after)}

\* A component read the page and replaces it.
ReplacePage(p, after) ==
  /\ pc = "content" /\ p \in DOMAIN base /\ after # base[p]
  /\ ReplaceAccepted(plan, p, base[p], after)
  /\ Edit(Replace(plan, p, base[p], after), Intents(p, base[p], after))

AppendPage(image) ==
  /\ pc \in {"content", "maps"} /\ NextAppendPage(plan) <= MaxPages
  /\ Edit([plan EXCEPT !.append = @ \o <<image>>], {})

\* set_image of a page the plan appended.
SetAppended(i, image) ==
  /\ pc = "content" /\ i \in DOMAIN plan.append
  /\ Edit([plan EXCEPT !.append[i] = image], {})

\* finish_maps comes last.
FinishMaps ==
  /\ pc = "content" /\ pc' = "maps"
  /\ UNCHANGED <<target, original, private, combined, plan, base, kind, edits, plans,
                 foreign, copied, intents, ideal>>

\* map_record works on the page as edited so far, if the record is still the one read.
MapRecord(p, c, v) ==
  LET now == Current(plan, base, p) IN
  /\ pc = "maps" /\ p \in DOMAIN base /\ v # base[p][c]
  /\ now[c] = base[p][c]
  /\ Edit(IF p \in ChangedPages(plan)
          THEN WithAfter(plan, p, [now EXCEPT ![c] = v])
          ELSE Replace(plan, p, base[p], [now EXCEPT ![c] = v]),
          {<<p, c, v>>})

\* patch_bytes of a bitmap page of the file.
PatchBytes(p, c, v) ==
  LET now == Current(plan, base, p) IN
  /\ pc = "maps" /\ p \in DOMAIN base
  /\ p \in ChangedPages(plan) => now[c] = plan.changes[p].before[c] \/ now[c] = v
  /\ Edit(IF p \in ChangedPages(plan)
          THEN WithAfter(plan, p, [now EXCEPT ![c] = v])
          ELSE Replace(plan, p, base[p], [now EXCEPT ![c] = v]),
          IF v = base[p][c] THEN {} ELSE {<<p, c, v>>})

\* patch_bytes of a bitmap page the plan appended.
PatchAppended(i, c, v) ==
  /\ pc = "maps" /\ i \in DOMAIN plan.append
  /\ Edit([plan EXCEPT !.append[i][c] = v], {})

-----------------------------------------------------------------------------
(* Applying plans. *)

\* The file after writing the pages of a journal to it.
Written(j, file) ==
  [p \in 1 .. Len(file) |-> IF p \in ChangedPages(j) THEN j.changes[p].after ELSE file[p]]
    \o j.append

\* publish_changes_with_appends writes only the ranges that differ, and appends at the
\* length of the file it planned on, leaving a hole if the copy is shorter.
Patched(j, file) ==
  LET size == j.first + Len(j.append)
      last == IF size > Len(file) /\ j.append # <<>> THEN size ELSE Len(file)
      old(p) == IF p <= Len(file) THEN file[p] ELSE BlankPage
  IN  [p \in 1 .. last |->
         IF p \in ChangedPages(j) THEN MergedCells(old(p), j.changes[p].before, j.changes[p].after)
         ELSE IF p > j.first /\ p <= size THEN j.append[p - j.first]
         ELSE old(p)]

VerifiedChanges(orig, candidate, j) ==
  /\ Len(candidate) = Len(orig) + Len(j.append)
  /\ \A p \in ChangedPages(j) : candidate[p] = j.changes[p].after
  /\ \A i \in DOMAIN j.append : candidate[Len(orig) + i] = j.append[i]
\* verify_changes reads every page, the unchanged ones too.
Verified(orig, candidate, j) ==
  /\ Len(candidate) = Len(orig) + Len(j.append)
  /\ \A p \in DOMAIN orig :
       /\ p \in ChangedPages(j) => orig[p] = j.changes[p].before
       /\ candidate[p] = Current(j, orig, p)
  /\ \A i \in DOMAIN j.append : candidate[Len(orig) + i] = j.append[i]

\* advance: a page changed before keeps its first before and takes the last after; a
\* page appended before is replaced.
AdvanceLastBefore(earlier, change) == change
Advance(earlier, change) == [earlier EXCEPT !.after = change.after]
AdvanceAccepted(j, p, change) ==
  IF p > j.first
  THEN p - j.first \in DOMAIN j.append /\ j.append[p - j.first] = change.before
  ELSE p \in ChangedPages(j) => j.changes[p].after = change.before

\* Changes concern different pages, so their order does not matter.
CombinedChange(j, pl, p) ==
  IF p \notin ChangedPages(pl) THEN j.changes[p]
  ELSE IF p \in ChangedPages(j) THEN Advance(j.changes[p], pl.changes[p]) ELSE pl.changes[p]
Combined(j, pl) ==
  [first |-> j.first,
   changes |-> [p \in ChangedPages(j) \union {q \in ChangedPages(pl) : q <= j.first} |->
                  CombinedChange(j, pl, p)],
   append |-> [i \in DOMAIN j.append |->
                 IF j.first + i \in ChangedPages(pl) THEN pl.changes[j.first + i].after
                                                     ELSE j.append[i]] \o pl.append]

\* The edits of the plan, one after another.
Applied(file) ==
  [p \in 1 .. Len(file) |->
     [c \in Cells |-> IF \E v \in Values : <<p, c, v>> \in intents
                      THEN CHOOSE v \in Values : <<p, c, v>> \in intents
                      ELSE file[p][c]]]
    \o plan.append

ApplyPrivate ==
  /\ pc = "maps" /\ kind = "sequence"
  /\ plan.first + 1 = NextAppendPage(combined) /\ Len(private) = plan.first
  /\ \A p \in ChangedPages(plan) : AdvanceAccepted(combined, p, plan.changes[p])
  /\ combined' = Combined(combined, plan)
  /\ private' = Written(plan, private)
  /\ ideal' = Applied(ideal)
  /\ pc' = "plan" /\ plan' = NewJournal(1) /\ base' = <<BlankPage>> /\ edits' = 0 /\ intents' = {}
  /\ UNCHANGED <<target, original, kind, plans, foreign, copied>>

\* The call is over, and what it held is gone.
End ==
  /\ pc' = "end"
  /\ original' = <<BlankPage>> /\ private' = <<BlankPage>> /\ base' = <<BlankPage>>
  /\ copied' = <<BlankPage>> /\ combined' = NewJournal(1) /\ plan' = NewJournal(1)
  /\ intents' = {} /\ edits' = 0 /\ plans' = 0
  /\ UNCHANGED <<kind, foreign>>

\* One plan: copy, write, verify, publish.
PublishDirect ==
  LET candidate == Patched(plan, target) IN
  /\ pc = "maps" /\ kind = "direct"
  /\ Verified(original, candidate, plan)
  /\ target' = candidate /\ ideal' = Applied(ideal)
  /\ End

\* A sequence: verify_private, publish.
PublishSequence ==
  /\ pc = "plan" /\ kind = "sequence" /\ plans > 0
  /\ Verified(original, private, combined)
  /\ target' = private
  /\ End /\ UNCHANGED ideal

\* An edit, a plan or the candidate is refused, or a stage of the publication fails.
Refuse == pc \notin {"start", "end"} /\ End /\ UNCHANGED <<target, ideal>>

-----------------------------------------------------------------------------

Init ==
  /\ target \in {<<BlankPage>>, <<BlankPage, BlankPage>>}
  /\ ideal = target
  /\ original = <<BlankPage>> /\ private = <<BlankPage>> /\ base = <<BlankPage>>
  /\ copied = <<BlankPage>> /\ combined = NewJournal(1) /\ plan = NewJournal(1)
  /\ pc = "start" /\ kind = "direct"
  /\ edits = 0 /\ plans = 0 /\ foreign = 0 /\ intents = {}

Next ==
  \/ \E k \in {"direct", "sequence"} : Open(k)
  \/ Copy \/ BeginPlan \/ FinishMaps \/ ApplyPrivate \/ PublishDirect \/ PublishSequence \/ Refuse
  \/ \E n \in 1 .. 2, c \in Cells, v \in Values :
       ForeignPublish([p \in 1 .. n |-> [BlankPage EXCEPT ![c] = v]])
  \/ \E p \in 1 .. MaxPages, image \in Page :
       ReplacePage(p, image) \/ SetAppended(p, image)
  \/ \E image \in Page : AppendPage(image)
  \/ \E p \in 1 .. MaxPages, c \in Cells, v \in Values :
       MapRecord(p, c, v) \/ PatchBytes(p, c, v) \/ PatchAppended(p, c, v)

Spec == Init /\ [][Next]_vars

-----------------------------------------------------------------------------
(* Properties. *)

\* A plan does to the file it was made on what its components asked for, and nothing
\* else: the edits of replace, map_record and patch_bytes, made blind of each other,
\* never overwrite one another.
PlanIsItsEdits ==
  pc \in {"content", "maps"} =>
    \A p \in DOMAIN base, c \in Cells :
      {Current(plan, base, p)[c]} =
        IF \E v \in Values : <<p, c, v>> \in intents
        THEN {v \in Values : <<p, c, v>> \in intents} ELSE {base[p][c]}

\* The combined journal of a sequence describes the private file against the file the
\* sequence started from, appended pages that later plans edited included: verify_private
\* accepts what apply_private wrote unless the path named another file when it was copied.
JournalDescribesPrivate ==
  pc \in {"plan", "content", "maps"} /\ kind = "sequence" /\ copied = original =>
    Verified(original, private, combined)

\* What is published is the opened file with the plans applied one after another, even
\* if the path was given another file before the copy was made.
PublishesTheSequence ==
  [][(PublishDirect \/ PublishSequence) => target' = ideal']_vars
=============================================================================
