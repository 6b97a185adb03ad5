----------------------------- MODULE LongValues -----------------------------
(***************************************************************************)
(* Memo and OLE values of one table.  A short value is kept in the row     *)
(* behind a header; a longer one is a fragment on a page of its column, or *)
(* a chain of fragments each on a page of its own, and the header in the   *)
(* row refers to the first.  Every row call loads and checks all pages and *)
(* references of the table (mutation_load), removes the fragments of the   *)
(* row or of the assigned fields, places the new ones, on pages the same   *)
(* call emptied too, and stages pages and map bits (mutation).             *)
(*                                                                         *)
(* One action is one published plan; a refused call is a stuttering step.  *)
(* A payload is the sequence of its bytes; each byte names the row, the    *)
(* column and its position, so that a misread shows.  Pages are numbered   *)
(* from 1 and only the pages long values may touch are represented.        *)
(***************************************************************************)
EXTENDS DataPage

CONSTANTS Columns,        \* 1 .. n: the long-value columns, in the order of their maps
          Ole,            \* the LongBinary ones; the others are Memo
          Property,       \* the LvProp column of the system catalog, or none
          Rows,
          Lens,           \* the lengths of the payloads callers give, NIL for null
          InlineLimit,    \* INLINE_LIMIT
          PropertyLimit,  \* MAX_SINGLE_PAGE_PROPERTY_PAYLOAD
          ChainPointer,   \* CHAIN_POINTER_LEN
          MaxDeclared,    \* MAX_DECLARED_LENGTH
          MaxChainDepth,  \* fragments the budget lets a chain have
          MaxPages,       \* pages a 24-bit reference can name
          Files

VARIABLES rows,     \* row -> its fields, or NIL
          pages, global,
          owned, avail,   \* column -> pages of its maps
          given           \* what the callers stored last, for comparison

vars == <<rows, pages, global, owned, avail, given>>

PageNumbers == 1 .. MaxPages
Lowest(S) == CHOOSE p \in S : \A q \in S : p <= q
SinglePageLimit == PageBytes - DirectoryOffset - EntryLen
FragmentLimit == SinglePageLimit - ChainPointer

\* Stored fields.
Null == [form |-> "null"]
Inline(bytes) == [form |-> "inline", bytes |-> bytes]
External(storage, length, target) ==
  [form |-> "external", storage |-> storage, length |-> length, target |-> target]

-----------------------------------------------------------------------------
(* LongValueCursor. *)

\* validate_lval_row: the referenced fragment; deleted siblings are passed over.
FragmentAt(l) ==
  /\ l[1] \in DOMAIN pages /\ pages[l[1]].tag = "data" /\ pages[l[1]].owner = "LVAL"
  /\ l[2] \in DOMAIN pages[l[1]].slots
  /\ \A s \in DOMAIN pages[l[1]].slots :
       \/ pages[l[1]].slots[s].kind = "ordinary" /\ pages[l[1]].slots[s].len > 0
       \/ pages[l[1]].slots[s].kind = "deleted" /\ s # l[2]

\* next_chunk: s.next is the fragment to read, NIL at the end.  A fragment of the other
\* storage has no such length or no such pointer.
NextChunk(ref, s) ==
  LET row == pages[s.next[1]].slots[s.next[2]].val
      emitted == s.bytes \o row.bytes
  IN  IF /\ \A i \in DOMAIN s.chunks : s.chunks[i] # s.next
         /\ Len(s.chunks) < MaxChainDepth
         /\ FragmentAt(s.next)
         /\ (ref.storage = "chained") = row.chained
         /\ IF row.next = NIL THEN Len(emitted) = ref.length ELSE Len(emitted) < ref.length
        THEN [next |-> row.next, bytes |-> emitted, chunks |-> Append(s.chunks, s.next), ok |-> TRUE]
        ELSE [s EXCEPT !.next = NIL, !.ok = FALSE]

\* The whole stream of a reference.
Stream(ref) ==
  LET walk[n \in 0 .. MaxChainDepth + 1] ==
        IF n = 0 THEN [next |-> ref.target, bytes |-> <<>>, chunks |-> <<>>, ok |-> TRUE]
        ELSE LET s == walk[n - 1] IN IF s.next = NIL THEN s ELSE NextChunk(ref, s)
  IN  walk[MaxChainDepth + 1]

\* What a reader of the row sees: LongValue::decode and the stream.
Read(field) ==
  CASE field.form = "null" -> NIL
    [] field.form = "inline" -> field.bytes
    [] field.form = "external" -> Stream(field).bytes

-----------------------------------------------------------------------------
(* mutation_load. *)

Existing(S) == {p \in S : p \in DOMAIN pages}

\* The bytes between the directory and the lowest row.
Gap(pg) ==
  LET used[n \in 0 .. Len(pg.slots)] == IF n = 0 THEN 0 ELSE used[n - 1] + pg.slots[n].len
  IN  PageBytes - DirectoryOffset - EntryLen * Len(pg.slots) - used[Len(pg.slots)]

\* live_slots, on owned pages: a directory without a row is accepted on the page the
\* catalog's property column starts with, a page without a live row on no other.
LiveChecked(pg, c) ==
  /\ pg.tag = "data" /\ pg.owner = "LVAL"
  /\ IF pg.slots = <<>>
       THEN c \in Property /\ pg.free = PageBytes - DirectoryOffset
       ELSE /\ \A s \in DOMAIN pg.slots :
                 \/ pg.slots[s].kind = "deleted"
                 \/ pg.slots[s].kind = "ordinary" /\ pg.slots[s].len > 0
            /\ LiveSlots(pg) # {} /\ pg.free = Gap(pg)

\* live_slots, on free pages: a released page has only deleted rows.
FreeChecked(pg) ==
  /\ pg.slots # <<>> /\ pg.free = Gap(pg)
  /\ \A s \in DOMAIN pg.slots : pg.tag = "data" \/ pg.slots[s].kind = "deleted"

Payloads == UNION {owned[c] : c \in Columns}
FreePages == {p \in Existing(global) : pages[p].owner = "LVAL"}

\* The external references of the table, with the row and column they are in and
\* their streams.
Referring == {x \in Rows \X Columns : rows[x[1]] # NIL /\ rows[x[1]][x[2]].form = "external"}
References ==
  {LET s == Stream(rows[x[1]][x[2]])
   IN  [row |-> x[1], col |-> x[2], storage |-> rows[x[1]][x[2]].storage,
        ok |-> s.ok, chunks |-> {s.chunks[i] : i \in DOMAIN s.chunks}] : x \in Referring}

\* load: maps first, then every reference against them.
MapsLoad ==
  /\ \A c \in Columns :
       /\ Existing(avail[c]) \subseteq owned[c]
       /\ \A p \in Existing(owned[c]) : p \notin global /\ LiveChecked(pages[p], c)
       /\ \A d \in Columns \ {c} : owned[c] \cap owned[d] = {}
  /\ \A p \in FreePages : FreeChecked(pages[p])

\* exclude_other_ownership: no page of another object among them.
OthersExcluded(other) == other \cap (Payloads \union FreePages) = {}

\* references: every stream ends, stays on pages of its column, no page mixes the two
\* storages, no two references meet, and no live fragment is left over.
ReferencesLoad(refs) ==
  /\ \A x \in refs : x.ok /\ \A l \in x.chunks : l[1] \in owned[x.col]
  /\ \A x, y \in refs : x # y =>
       /\ x.chunks \cap y.chunks = {}
       /\ \A l \in x.chunks, k \in y.chunks : l[1] = k[1] => x.storage = y.storage
  /\ \A p \in Existing(Payloads) : \A s \in LiveSlots(pages[p]) :
       \E x \in refs : <<p, s>> \in x.chunks

\* Pages of the table's rows, indexes and of other tables.
OtherPages == {p \in DOMAIN pages : pages[p].owner # "LVAL"}
Loads == MapsLoad /\ OthersExcluded(OtherPages) /\ ReferencesLoad(References)

\* PayloadPage, before the call.
ColumnOf(p) == IF \E c \in Columns : p \in owned[c] THEN CHOOSE c \in Columns : p \in owned[c] ELSE NIL
StorageOf(refs, p) ==
  LET on == {x \in refs : \E l \in x.chunks : l[1] = p}
  IN  IF on = {} THEN NIL ELSE (CHOOSE x \in on : TRUE).storage

\* LongValues as loaded: the pages it may change and the first one it may append.
Loaded ==
  LET refs == References
  IN  [mem |-> [p \in Existing(Payloads) \union FreePages |->
                  [col |-> ColumnOf(p), storage |-> StorageOf(refs, p), image |-> pages[p],
                   changed |-> FALSE]],
       refs |-> refs, append |-> Len(pages) + 1, ok |-> TRUE]

-----------------------------------------------------------------------------
(* remove_selected. *)

\* The fragments of the selected columns of the row.
Selected(w, r, cols) == UNION {x.chunks : x \in {y \in w.refs : y.row = r /\ y.col \in cols}}

RemoveSlots(pg, S) ==
  LET after[n \in 0 .. MaxBuiltRows] ==
        IF n = 0 THEN pg
        ELSE IF MaxBuiltRows - n + 1 \in S THEN RemoveRow(after[n - 1], MaxBuiltRows - n + 1)
        ELSE after[n - 1]
  IN  after[MaxBuiltRows]

RemovedPage(m, S) ==
  LET image == RemoveSlots(m.image, S)
  IN  CASE S = {} -> m
        [] image.tag = "released" -> [col |-> NIL, storage |-> NIL, image |-> image, changed |-> TRUE]
        [] OTHER -> [m EXCEPT !.image = image, !.changed = TRUE]

\* Mutant: an emptied page stays with its column.
RemoveKeepingColumn(w, gone) ==
  [w EXCEPT !.mem = [p \in DOMAIN @ |->
     LET S == {l[2] : l \in {k \in gone : k[1] = p}}
     IN  [RemovedPage(@[p], S) EXCEPT !.col = w.mem[p].col]]]
RemoveSelected(w, gone) ==
  [w EXCEPT !.mem = [p \in DOMAIN @ |-> RemovedPage(@[p], {l[2] : l \in {k \in gone : k[1] = p}})]]

-----------------------------------------------------------------------------
(* place and encode. *)

Fragment(bytes, chained, next) ==
  Slot("ordinary", Len(bytes) + (IF chained THEN ChainPointer ELSE 0),
       [bytes |-> bytes, chained |-> chained, next |-> next])

\* Only single-page values share a page.
Shareable(w, c, storage, len) ==
  {p \in DOMAIN w.mem :
     /\ w.mem[p].col = c /\ w.mem[p].storage = storage /\ storage = "single"
     /\ AppendFits(w.mem[p].image, len)}
Unused(w) == {p \in DOMAIN w.mem : w.mem[p].col = NIL}

Put(w, p, m) == [w EXCEPT !.mem = [q \in DOMAIN @ \union {p} |-> IF q = p THEN m ELSE @[q]]]
Fresh(c, storage, slot) ==
  [col |-> c, storage |-> storage, image |-> NewPage("LVAL", slot), changed |-> TRUE]

\* Mutant: a released page keeps its old directory and the row goes behind it.
PlaceBehind(w, c, storage, slot) ==
  IF Unused(w) = {} THEN [w |-> Put(w, w.append, Fresh(c, storage, slot)), at |-> <<w.append, 1>>]
  ELSE LET p == Lowest(Unused(w))
       IN  [w |-> Put(w, p, Fresh(c, storage, slot)), at |-> <<p, Len(w.mem[p].image.slots) + 1>>]

\* place: a page with room, else an unused page, else one more page.
Place(w, c, storage, slot) ==
  LET open == Shareable(w, c, storage, slot.len)
      shared == Lowest(open)
      unused == Lowest(Unused(w))
      image == AppendRow(w.mem[shared].image, slot)
  IN  CASE open # {} ->
             [w |-> Put(w, shared, [w.mem[shared] EXCEPT !.image = image, !.changed = TRUE]),
              at |-> <<shared, Len(image.slots)>>]
        [] open = {} /\ Unused(w) # {} ->
             [w |-> Put(w, unused, Fresh(c, storage, slot)), at |-> <<unused, 1>>]
        [] OTHER ->
             [w |-> IF w.append <= MaxPages
                      THEN [Put(w, w.append, Fresh(c, storage, slot)) EXCEPT !.append = @ + 1]
                      ELSE [w EXCEPT !.ok = FALSE],
              at |-> <<w.append, 1>>]

CeilDiv(a, b) == (a + b - 1) \div b

\* The chain is written from its end, so that each fragment knows the next one.
PlaceChain(w, c, bytes) ==
  LET k == CeilDiv(Len(bytes), FragmentLimit)
      part(i) == SubSeq(bytes, (i - 1) * FragmentLimit + 1,
                        IF i = k THEN Len(bytes) ELSE i * FragmentLimit)
      chain[n \in 0 .. k] ==
        IF n = 0 THEN [w |-> w, at |-> NIL]
        ELSE LET rest == chain[n - 1]
             IN  Place(rest.w, c, "chained", Fragment(part(k - n + 1), TRUE, rest.at))
  IN  IF k <= MaxChainDepth THEN chain[k] ELSE [w |-> [w EXCEPT !.ok = FALSE], at |-> NIL]

\* encode, for one value: where it goes and what the row stores of it.
Encoded(w, c, bytes) ==
  LET limit == IF c \in Property THEN PropertyLimit ELSE SinglePageLimit
      storage == IF Len(bytes) <= limit THEN "single" ELSE "chained"
      placed == IF storage = "single" THEN Place(w, c, storage, Fragment(bytes, FALSE, NIL))
                                      ELSE PlaceChain(w, c, bytes)
  IN  CASE bytes = NIL \/ (bytes = <<>> /\ c \in Ole) -> [w |-> w, field |-> Null]
        [] Len(bytes) <= InlineLimit -> [w |-> w, field |-> Inline(bytes)]
        [] OTHER -> [w |-> IF Len(bytes) <= MaxDeclared THEN placed.w ELSE [w EXCEPT !.ok = FALSE],
                     field |-> External(storage, Len(bytes), placed.at)]

\* The columns in their order; the others keep the header they have.
EncodeRow(w, values, cols, old) ==
  LET row[c \in 0 .. Cardinality(Columns)] ==
        IF c = 0 THEN [w |-> w, fields |-> <<>>]
        ELSE LET done == row[c - 1]
                 one == IF c \in cols THEN Encoded(done.w, c, values[c]) ELSE [w |-> done.w, field |-> old[c]]
             IN  [w |-> one.w, fields |-> Append(done.fields, one.field)]
  IN  row[Cardinality(Columns)]

-----------------------------------------------------------------------------
(* stage. *)

Changed(w) == {p \in DOMAIN w.mem : w.mem[p].changed}
Available(m) == m.storage = "single" /\ HasCapacity(m.image, 1)

\* Mutant: a page that changed its column stays in the map of the old one.
OwnedBoth(w, c) == owned[c] \union {p \in Changed(w) : w.mem[p].col = c}
OwnedAfter(w, c) == (owned[c] \ Changed(w)) \union {p \in Changed(w) : w.mem[p].col = c}
AvailAfter(w, c) ==
  (avail[c] \ Changed(w)) \union {p \in Changed(w) : w.mem[p].col = c /\ Available(w.mem[p])}

Stage(w) ==
  /\ w.ok
  /\ pages' = [p \in 1 .. w.append - 1 |->
                 IF p \in DOMAIN w.mem /\ w.mem[p].changed THEN w.mem[p].image ELSE pages[p]]
  /\ owned' = [c \in Columns |-> OwnedAfter(w, c)]
  /\ avail' = [c \in Columns |-> AvailAfter(w, c)]
  /\ global' = (global \ Changed(w)) \union {p \in Changed(w) : w.mem[p].col = NIL}

-----------------------------------------------------------------------------
(* The row calls. *)

Payload(r, c, n) == IF n = NIL THEN NIL ELSE [i \in 1 .. n |-> <<r, c, i>>]
Remember(r, values, cols) ==
  given' = [given EXCEPT ![r] =
    [c \in Columns |-> IF c \in cols
                         THEN IF values[c] = <<>> /\ c \in Ole THEN NIL ELSE values[c]
                         ELSE given[r][c]]]

Insert(w, r, values) ==
  /\ rows[r] = NIL
  /\ \E e \in {EncodeRow(w, values, Columns, <<>>)} :
       Stage(e.w) /\ rows' = [rows EXCEPT ![r] = e.fields]
  /\ Remember(r, values, Columns)

\* A replacement removes what every column had, a field update what the assigned
\* ones had.
Update(w, r, values, cols) ==
  /\ rows[r] # NIL
  /\ \E e \in {EncodeRow(RemoveSelected(w, Selected(w, r, cols)), values, cols, rows[r])} :
       Stage(e.w) /\ rows' = [rows EXCEPT ![r] = e.fields]
  /\ Remember(r, values, cols)

Delete(w, r) ==
  /\ rows[r] # NIL
  /\ \E v \in {RemoveSelected(w, Selected(w, r, Columns))} : Stage(v)
  /\ rows' = [rows EXCEPT ![r] = NIL] /\ given' = [given EXCEPT ![r] = NIL]

Init ==
  \E f \in Files :
    /\ pages = f.pages /\ global = PageNumbers \ f.taken
    /\ owned = f.owned /\ avail = [c \in Columns |-> {}]
    /\ rows = [r \in Rows |-> NIL] /\ given = [r \in Rows |-> NIL]

Values(r) == {[c \in Columns |-> Payload(r, c, n[c])] : n \in [Columns -> Lens]}

\* Every call loads before anything else.
Next ==
  /\ Loads
  /\ \E w \in {Loaded}, r \in Rows :
       \/ \E values \in Values(r) : Insert(w, r, values) \/ Update(w, r, values, Columns)
       \/ \E c \in Columns, n \in Lens :
            Update(w, r, [d \in Columns |-> Payload(r, d, n)], {c})
       \/ Delete(w, r)

Spec == Init /\ [][Next]_vars

-----------------------------------------------------------------------------
(* Properties. *)

\* No sequence of row calls leads to a file the next call refuses: every reference
\* ends, no two share a fragment, no fragment is left without a reference, no page
\* belongs to two columns or holds both kinds of storage.
NextLoadAccepts == Loads

\* Every field reads back, byte by byte, what was last stored in it, whichever pages
\* its fragments share, were moved to or were released by other rows and columns.
ReadsGiven ==
  \A r \in Rows :
    IF rows[r] = NIL THEN given[r] = NIL
    ELSE \A c \in Columns : Read(rows[r][c]) = given[r][c]

\* Every page of the file that holds long values is owned or free, not both, and a
\* page of another object is neither taken nor given away.
PagesAccounted ==
  \A p \in DOMAIN pages :
    IF pages[p].owner = "LVAL" THEN (p \in global) # (p \in Payloads)
                               ELSE p \notin Payloads
=============================================================================
