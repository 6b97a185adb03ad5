# jet3-rs: a TLA+ model of creating and editing files

jet3-rs reads, creates and edits Jet 3 database files (`.mdb`, Access 97). A file is an
array of 2048-byte pages. Readers only read. Every edit is *planned* against an open file,
as a list of changed and appended pages, and the finished plan is *published*: the file is
copied to a private sibling, the pages are written there, the copy is validated, synchronised
and renamed over the original. This project models how files are created, edited and published,
with what readers and the validator make of them, and checks and proves what makes it correct.

Line numbers are given in `PROJECT.json` (`map`), definition by definition. All paths below
are relative to `src/crates/jet3/src/`.

## 1. Inventory

| Component (sources) | State | Operations | What makes it correct |
|---|---|---|---|
| Atomic publication (`write/atomic.rs`, `write/update_pages.rs`) | the target path, a private sibling, their inodes, what of both is on disk | `atomic_update`, `atomic_create`: stat, private name, copy, mutate, metadata, validate, synchronise, identity check, rename or link, directory synchronisation, cleanup | at every moment and after any crash the path names the old or the new file, complete; an error before the rename means nothing happened; files of others are not touched |
| Data page editor (`row/data_page.rs`, `insert_page.rs`, `update_page.rs`, `delete_page.rs`, `directory.rs`) | slot directory at the front of a page, packed row bytes at its end | append, replace, remove, release | slot words describe the bytes; a move of one row does not disturb another |
| Row storage (`row/mutation_graph.rs`, `mutation_place.rs`, `mutation_pages.rs`, `write/insert.rs`, `row_update.rs`, `update.rs`, `delete.rs`) | pages of a table, rows whose slot points to storage elsewhere, row count | insert, replace, patch a field, delete | a row is found under its locator as long as it lives; no storage is shared, lost or left behind |
| Usage maps (`alloc/`) | per table a map of owned and one of available pages, one map of free pages for the file | mark, clear, convert inline to indirect, grow by bitmap pages | each page is accounted for exactly once, the pages of the maps too |
| Page edit journal (`write/page_edits*.rs`, `write/driver.rs`) | changed pages (before and after), appended pages, delayed map changes | replace, append, patch, map bit, finish, apply a sequence | two edits of one page combine or the plan is refused |
| Relationships (`relationship/`) | constraints between tables | check a row change, cascade it, stage and publish the cascade | no orphan, children follow their parent, all or nothing |
| Index mutation (`index/`) | B-trees of encoded keys | insert and remove entries, rewrite leaves and branches, unique check | the tree holds an entry for each row, in order |
| Long values (`long_value/`) | memo and OLE payloads: inline, on a page shared by one column, or a chain of pages | load, encode, place, remove, stage, read | a field reads what was stored; no payload page is lost or owned twice |
| AutoNumber (`write/auto_number.rs`) | a 32-bit counter in the table definition | allocate, reset by an explicit value, write | a generated value is new until the counter wraps |
| Catalog (`catalog/`) | objects with identifiers, names, kinds, properties and grants | find, add, rename, remove | names and identifiers stay unique, relationship rows follow renames |
| Table definitions (`definition/`) | columns with a storage place for life, physical and logical indexes, long-value maps, a chain of pages | decode, encode, give a column its place | what the writer accepts the reader reads |
| Row codec (`row/writer*.rs`, `reader*.rs`) | none | encode a row, read a row under a later definition | a column reads what it was given, whatever columns came and went since |
| Schema edits (`schema/`) | a private copy and its journal | create, drop, rename of tables and columns, create, drop, rename, replace of indexes, create, drop, replace of relationships, options and properties | definitions, maps, catalog and relationships agree after any sequence of edits |
| Create composer (`create/`) | none after it returns | composes a new file, reads it back and compares, `atomic_create` publishes it | the result is what was asked for, opens and validates |
| Properties and value policy (`properties/`) | options of a table and its columns, by name | required, zero length and rule checks | an option stays with its column |
| Validation (`validate/`) | none | reports inconsistencies of a file | accepts what the library publishes |
| Format, budgets (`format/`) | monotone counters | charge, refuse | every loop over file content is bounded |
| Keys, collation (`index/key/`) | none | encode, compare | - |
| Command line, test kit, oracle, fuzz, benches | - | - | - |

**How they interact.** `write::driver::apply` opens the target, asks `relationship` whether
the change cascades, and otherwise plans it: the row part on the data pages, then indexes and
long values, all as edits of one `PageEdits` journal. The journal delays map changes until
`finish_maps`, because growing a map appends pages. The finished plan goes to
`update_pages::publish_changes_with_appends`, whose callbacks write and verify the private
copy inside `atomic_update`. A cascade publishes several plans at once: each is planned on a
private file to which the previous ones were applied (`page_edits_sequence`). So does
a schema edit (`schema::edit_schema`): each of its steps reads the private file
the step before left, and all of them are published together. A creation has no file to start
from: the composer plans all pages at once, and a separate piece of code reads them back.

**What is hard.** The library is synchronous and starts no thread. What is concurrent lies
outside: other calls and processes on the same path, kills, power loss, failing system calls.
Inside, the difficulty is in sequences: of row operations that move rows between pages, of
map changes that change the file they describe, of assignments that meet again around a
cycle of relationships, of schema edits under rows that are never rewritten. `PROJECT.json` lists each under `hazards`, at its line.

## 2. Modules

    AtomicFile        what publication promises: one atomic replacement
    AtomicPublish     the stages of atomic_update and atomic_create, with crashes
    PublishRefinement AtomicPublish implements AtomicFile (refinement mapping)
    AtomicPublishProofs   theorems about AtomicPublish, the refinement included
    DataPage          a data page as a sequence of slots
    PageLayout        the same page as bytes, next to a DataPage
    PageLayoutProofs  theorems about PageLayout
    TableRows         what a table promises: rows under stable locators
    RowStore          placing rows on pages (EXTENDS DataPage), refines TableRows
    RowStoreProofs    theorems about RowStore
    UsageMaps         recording and applying map changes
    UsageMapsProofs   theorems about UsageMaps
    EditJournal       merging page edits, chaining plans over a private file
    EditJournalProofs theorems about EditJournal
    IndexTree         loading, changing and rewriting one index
    IndexTreeProofs   theorems about IndexTree
    AutoNumber        the counter of generated values
    AutoNumberProofs  theorems about AutoNumber
    Cascade           checking and cascading row changes
    CascadeProofs     theorems about Cascade
    LongValues        payloads of memo and OLE columns (EXTENDS DataPage)
    RowCodec          one stored row: written once, read under any later definition
    TableDefinition   columns, indexes, long-value maps, chain of pages
    SchemaFile        a file as the schema editor sees it; its storage steps
    RelationCatalog   relationship rows, endpoint indexes and their validation
    SchemaEdit        edits of indexes, options and properties
    SchemaTables      edits of tables, columns and relationships
    Validation        what DatabaseReader::validate accepts
    Composer          create_database: planning a whole file
    CreateCheck       create_database: comparing the written file with the request
    Schema            a file created, then edited and inserted into
    MC*               constants for TLC

The modules from `RowCodec` to `Schema` extend one another in this order.

### AtomicPublish
A *call* walks through `pc` values named after `PublishStage`. The file system is external:
`dir` is the directory as processes see it, `dirs` the directories a power loss may leave
behind (a directory change is durable for certain only after the directory synchronisation),
and an inode has contents and a flag that tells whether they survive a power loss. `Stat`, `CreatePrivate`, `Copy`, `Mutation`,
`Metadata`, `Validation`, `FileSync`, `Publish`, `UnlinkPrivate` and `DirectorySync` are the
stages; `StageFails` is the failure of any of them, hooks included; `Cleanup` and
`DropPrivate` are the two ways out, `Return` the error or success the caller sees.
`HookSubstitutes` is a caller's hook replacing the private entry under the library's feet,
the case `verify_path_identity` is for. An image is a sequence of pages, each
original, zero or marked with its writer, which tells old, new, mixed, torn and foreign files
apart. `Exclusive` says whether callers exclude each other, as the documentation asks of them.

The model keeps some of the code's properties that a reader may not expect: a file published
by somebody else between the metadata call and the copy is noticed only if it is shorter or
the pages verified differ; a
creation that fails after the link removes the private name without a second identity check;
if capturing the identity of a fresh private file fails and its removal fails too, the entry
stays and is not reported.

### DataPage, PageLayout
`DataPage` has the operators for a page as slots: an ordinary row, a link (a slot
with a pointer to storage elsewhere), hidden storage, a tombstone. `PageLayout` holds the
bytes: slot words, row ends that follow from the previous slot, compaction by moving bytes.
Its state carries both, each operation is applied to both, and the run checks that reading
the bytes gives the slots.

### RowStore
State: `pages`, the map `global` of free pages, `owned` and `avail` per table, the row count.
One action per call of the library: `Insert` (into an available page, a released page or a
new one), `Replace` (in place, collapse into the logical slot, resize the storage, relocate),
`PatchField`, `Delete`. Each (`Operation`) starts with `GraphLoads`, the checks of `RowGraph::load`: a file
that violates them is refused by every later call, which is why its truth is an invariant.
A row is a value and a length; `Lens` gives the lengths a value can be encoded with, and
`PatchField` keeps the one the row has.

### UsageMaps
A map is inline (a window of bits at a base) or indirect (references to bitmap pages). One
plan takes, reuses and releases pages, recorded in `changes`; `Finish` begins the
application: all table maps in some order, the global map last, then the loop that
includes the pages appended meanwhile. `Publish` replaces the file. `Bases` are the first
pages of the inline windows of tables: 0 in the maps the program writes, any in a file it
opens (the base of the global map is checked, `mutation_map.rs:40`).

### Cascade
Rows have two columns; a schema is an assignment of rows to tables and a set of constraints.
`Direct` is the path without a cascade, `Prepare`, `Propagate`, `NextRow`, `Publish` the one
with it, `ConstraintViolated`, `BudgetExhausted` and `Refuse` its refusals. Keys are compared
as the code does: null equals null when children are selected, an all-null child is exempt
from the check. `Component`, the constraints a mutation must know, is what the loop of
`component.rs` ends with: the constraints of all tables `Connected` to the one named, the
tables that no set closed under constraints can leave out.

### EditJournal
The journal of a plan is a function from pages to a before and an after image, the pages
appended and the delayed map changes; an image is a few cells, so that two edits may touch
the same cell or different ones. `ReplacePage`, `AppendPage`, `SetAppended`, `MapRecord`,
`PatchBytes` and `FinishMaps` are the operations components call blind of each other.
`ApplyPrivate` writes the plan into the private file and folds it into the combined journal
(`Advance`), `PublishSequence` and `PublishDirect` are the two ends. A ghost variable keeps
the edits a plan asked for. `ForeignPublish` is another writer. Two edits that put the same
byte at one place merge into one: the library's callers never record two increments of one
counter in one plan, and an edit here is an assignment.

### IndexTree
State: the rows with their keys, the pages of the index, its usage map, the two counters of
the table definition. A mutation begins with `LoadAccepts`, all checks of `load`: the tree is
read breadth first, sibling links, depths and separator bounds are checked and the entries
compared with those of the rows. `InsertRow`, `RemoveRow` and `ReplaceRow` change the entries;
`PackLeaves`, `GroupNext` (one branch per step) and `StageTree` are the planning and writing
of the new tree. Keys are numbers with a width; `PartNull` are keys of several fields, some of
them null. A page of the map that the new tree does not use is `Stale`: the library reads
only its kind and owner.

### AutoNumber
`state` is the counter, `rows` the values; `used` and `wrapped` are history. An insertion the
unique index refuses publishes nothing, the counter included, so after a wrap a generated
insertion that meets a stored value is refused again and again until an explicit value moves
the counter; the model has no property against this, as nothing in the repository promises
otherwise.

### LongValues
State: the payload pages, the fields of each row, the owned and available pages of each
column, the free pages of the file; `given` remembers the payloads callers passed. `Insert`,
`Update` (of a row or of some of its fields) and `Delete` are one published plan each:
`Loads` (all checks of `mutation_load`), `RemoveSelected`, `EncodeRow` with `Place` and
`PlaceChain`, `Stage`. A byte of a payload names its row, column and position, so that a
misread shows. `Read` is the reader that follows the header.

### RowCodec, TableDefinition
A row is a sequence of bytes with small bytes (`Block` values, `Bits` presence bits), so that
the boundaries that do not fit one byte, and the jump table for them, occur in rows of a
dozen bytes. `WriteRow` is the writer, `RowValue` the reader of one column under the
definition of today. A definition is a record with the counts of its header, columns,
physical and logical indexes and maps; its length decides the chain of pages. Names have one
length and two relations between them, equality and collation (`Fold`).

### SchemaFile, RelationCatalog, SchemaEdit, SchemaTables
A file is a record of pages, free pages, map rows, definitions, catalog objects, grants,
relationship rows, rows and trees. A step of an edit maps a file to the set of files it may
leave, empty when it refuses; an edit composes its steps, in the order of the code. Not
represented: the storage of the system tables, maps that are not inline, trees of more than
one page, more than one data page per table (these are the subject of `UsageMaps`,
`IndexTree` and `RowStore`), the pages of property blobs, index statistics, budgets, byte
order. A payload outside its row fills a page, and the value in the row is the number of that
page.

### Composer, CreateCheck
`CreateDatabase` is the set of files a request publishes: `ComposeTable` or `ComposeGraph`
plan the pages in the composer's order, and `CreateTables`, `CreateTableRows` or
`CreateGraph` compare the file with the request, as `create/check.rs`,
`api_relationship_graph.rs` and `graph_schema_check.rs` do. The two parts of the code decide
independently where the tree of a relationship is. Requests in the runs have no validation
rule and no explicit AutoNumber.

### Schema
One action per edit of the public API, and `Insert`, the writer of rows. Beside the file the state holds
what the caller asked for, by storage ordinal and root page instead of by name: the values
`given` to each row, the columns declared `required`, the rows that were `late` for it, the relationships as `links`. The
properties compare the file with these.

## 3. Runs

| Run | Asks | Bounds |
|---|---|---|
| `publish_race` | two calls at once on one path, updating or creating, with failures and a crash, without exclusion: are private files private, is what is published the plan, is the target never written in place, can a call lose an update only after its copy, are foreign entries left alone, does an early error mean unpublished, is a leftover reported | two writers, two calls, two private names, one substitution, one crash; at first a file of two pages or none |
| `publish_crash` | is the target always complete, is the protocol an atomic replacement (`AtomicFile`) | two writers in turn, two crashes between any two steps, one private name, so that leftovers of a crash are met |
| `page_layout` | do bytes and slots agree | ten bytes, three slots, rows of 1 and 4 bytes: full by bytes and full by slots both occur |
| `rowstore` | does the next call accept the file, do the maps partition the pages, do available bits of touched pages tell the truth, is a table a set of rows (`TableRows`) | two tables, three pages of ten bytes, two values of length 1 and one of length 5 |
| `usage_maps` | are all pages accounted for, will the next plan accept the maps, does a plan end | bitmap pages of three bits, windows of four from page 0 or 2, three references, so that conversion, growth and exhaustion all happen within nine pages |
| `usage_maps_shifted` | expected violation: are all bitmap pages a plan places included in the global map, whatever the windows of the tables | windows of five bits, those of the tables from page 5 on |
| `edit_journal` | does a plan contain all its edits, does the combined journal describe the private file, is what is published the sequence applied to the file that was opened | at most three pages of two cells, two edits in each of two plans, one foreign publication |
| `index_tree` | are unique keys unique, does planning end, does the next mutation accept the index | three rows, keys all-null, partly null, plain and too wide, every null policy; and seven rows with one key, leaves of two records, branches of three children: trees of three levels that grow and shrink |
| `auto_number` | is a generated value new until the counter wraps | eight counter values, two rows |
| `cascade` | no orphan, children follow, exactly the closure is deleted, a cascade ends | three rows, two columns, two values and null, 17 schemas with every valid content; and four tables, three of them in a circle |
| `long_values` | does each field read what was stored, are the pages accounted for, does the next call accept the file | two rows, a Memo and a property column, lengths inline, single page and chained, at most four pages; files without pages, with a first page, with a free page of another table |
| `schema` | after any edits, does the file validate (but for rows older than the Required option of a column), is every page accounted for, do old rows read right in every column, do options stay with their columns and relationships with their tables | eight created files, each with up to 14 requests and four or five edits in any order |

Why these bounds suffice: pages, windows and directories enter the code only through
comparisons with their size, so that each limit is reached with small ones; a row's chain
involves at most its logical page, its storage page and a candidate, hence three pages; a
conflict needs two writers, a repeated failure two crashes; a cascade is a walk over
constraints, and three rows make a chain, a fork and a self reference. A counter bounded for
TLC (`MaxCalls`, `MaxCrashes`, `MaxSubstitutions`, `MaxPages`, `MaxChanges`, `MaxDepth`, `MaxNodes`, `Work`; `edits` of a case in Schema) is a
constant with that name. Inodes and values are symmetric.
`CHECK_DEADLOCK FALSE` stands where callers may simply stop calling.

Initial files are files the library can meet: `MCRowStore` starts with empty tables, a
chain inside one page as DAO leaves it, a chain of several hops (which the library reads and
does not edit) and a page still offered though it has no slot left.

**Fairness.** Safety needs none. `PlansEnd`, `BuildEnds` and `CascadesEnd` assume weak fairness of the
steps of a computation in progress (`Progress`; `Build` in IndexTree, for `BuildEnds`): it is a loop in the calling thread that
waits for nobody. Starting a call is not fair, nor is any failure.

**What `usage_maps` shows.** Converting the global map presets every bit beyond the end of the
file and so forgets bits the same plan already cleared for appended pages; the final loop
(`mutation_map.rs:274`) repairs this, and also picks up the bitmap pages appended meanwhile.
Dropping it, or running it before the growth, loses pages (see the mutants).

**What `usage_maps_shifted` shows.** The repair fails when the final loop is itself what
converts the global map. Pages 2 and 3 are appended for a table whose inline window starts at
page 5; that map converts and places bitmap pages 4 and 5. The changes recorded for the global
map are all in its window, so it is still inline when the loop begins. The loop clears 2, 3 and
4; page 5 is outside the window, so the map converts, `ensure_slot` presets every bit from the
old end of the file on, and 2, 3 and 4 are free again. The loop does not go back, nothing
between it and publication looks at the maps, and the next plan may take these pages for
another table. The comment above the loop says that it includes every newly placed bitmap
(`mutation_map.rs:272`; `findings`). It takes a table map whose window leaves out pages the
global window has. The maps the program writes itself are no such maps, and for these `UsageMapsProofs`
proves that the loop is enough.

**What `index_tree` shows.** A tree is never rewritten in part, so acceptance by the next
load says that packing, grouping, page reuse and links agree. `BuildEnds` depends on the rule
that a record takes at most half a page less a child reference (`builder.rs:69`): with wider
ones the branch from which `builder.rs:101` takes a child would be empty and grouping would
go round for ever.

**What `cascade` shows.** With a circle of one-to-one relationships entered from two
columns, two values chase each other forever; no visited mark ends this, only the work budget
(`cascade.rs:109`). `ChildrenFollow` makes an exception of columns that two parents set (`Contested`): a
child of two parents that end with different keys can follow only one of them, and a null key
is exempt from the final check, so that the result is published.

**What `long_values` shows.** A call may release a page and take it again for another column
and another form of storage; only the difference between the first and the last state may
reach the maps (`mutation.rs:309`). A page that keeps its column after its last fragment is
removed makes the next load refuse the table (see the mutants).

**What `schema` shows.** Edits that refuse are no steps, so the run is about the sequences the
code accepts. The cases: columns of each class that come and go under rows; memo columns and
whole tables that are dropped and made again; indexes, created, replaced and renamed into
names that differ in case only; relationships over an index the child has anyway, over trees
of their own, of a table with itself, of two fields, and two sharing a tree; options. The
assumption `CasesConstants`, which TLC evaluates first, says that each case is created: what
the composer writes passes the independent check. `PublishedValidates` is about the whole
validator, its Required check included, with one exception. A column may be made Required, by
setting the option or by creating the column, over rows that hold null in it: the edit is
accepted, since it changes "constraints for future writes; existing values remain intact"
(`schema/edit.rs:52`), and `validate` then refuses the file with `RequiredValue`
(`validate/mod.rs:427`). Nothing in the repository says that such a file must validate, so this
is no finding; but `DatabaseValid(file)` is not an invariant, and the shortest way out of it is one
`create_column`. The variable `late` records exactly these rows when the column is declared, and the
property excuses them and no others: a null that gets into a Required column later, through an
insertion that does not see the option, violates it, as does any other complaint of the
validator about a file with such rows.

## 4. Proofs

Each theorem is for every value of the constants that satisfies the assumptions named beside
their declarations. These say that the constants have their types, and what else the code
checks or guarantees: sizes are positive, both sides of a constraint name as many columns,
files to start from are ones the library accepts. TLC evaluates them in the runs.

**AtomicPublishProofs**, for any sets of writers, inodes and names and any number of calls and
crashes:

- `TypeCorrect`: the type invariant;
- `TargetAlwaysIntact`: in every directory a power loss may leave behind, the target names a
  complete file whose bytes were synchronised before it got that name;
- `PrivateAlwaysPrivate`: no two calls share a private file, and none works on the target's;
- `PublishedNeverWritten`: the bytes of the file the target names never change;
- `TargetTakesThePlan`: the target changes only to the planned image, with its old permissions;
- `FailureTellsTheTruth`, `LeftoversAreReported`, `ForeignFilesStay`: what an error says of
  publication and of a private file left behind is true, and a file somebody put in place of
  a private copy stays;
- `OnlyTheCopyIsStale`: an update that publishes over a page it never saw had copied the
  target, or taken its length, before that page was published;
- `PublicationIsAtomic`: if callers exclude each other (`Exclusive`), the protocol
  implements `AtomicFile`. Initial states map to initial states, and every step to a step or a
  stutter: publication is the `Commit`, the directory synchronisation leaves one stable image
  for the success that is reported, and a power loss picks one of those that are stable.

`TargetIntact` is not inductive: a rename preserves it only if the inode renamed is complete
and on disk. The inductive invariant `IInv` adds: the visible directory is one of those a
power loss may leave; `Ownership`, the private inode of a call is held by no other call in
flight, and no possible directory names it as the target; `NameHeld`, the private name is one
of the attempts; `WantPlanned`, the image a call is after is a planned one; `Ready`, a
validated private file that still has its name holds a planned image, and after `FileSync`
it survives a power loss. The condition on the name matters: a hook may have substituted the
entry and the validator may have read the substitute, so nothing is known then, and the
identity check makes `Publish` refuse. The action properties need a second one, `SInv`: what a
call knows at each stage (`ModeSet`, `Validated`, `LengthTaken`, `Copied`...), which another
call cannot take away.

**AutoNumberProofs**, for every width of the counter and any set of rows: `TypeCorrect`;
`CounterAlwaysCovers`, until it wraps the counter has passed every value the column held;
`GeneratedAlwaysNew`, before the wrap a generated value is new, among deleted rows too. The
inductive invariant adds `RowsUsed`, that the values of living rows are among those used. The
casts between signed values and the counter are a lemma (`Casts`).

**PageLayoutProofs**, for every page size, slot limit and set of row lengths:
`DirectoryStaysValid`, slot words descend without overlap, clear of the directory, and the
free-byte count is the gap; `BytesImplementSlots`, every slot reads as the kind, length and
bytes last stored in it. The inductive invariant says more than that each row can be read:
rows are `Packed`, without a gap between them, so that a move by one distance keeps them
apart, and each cell is the byte of the row its position belongs to (`Laid`). One lemma says what a move of
the rows below a slot does to `Laid`; append, replace, remove and reuse are instances.

**RowStoreProofs**, for any page size, number of pages, set of tables and accepted file to start from:
`MapsStayAPartition`, a page is free, beyond the end or with the one table its header names;
`RoomIsKnown`, the available bits of the pages a call changed say whether a minimum row fits.
`MapsPartition` with the types is inductive. The work is in `Stage`, which turns the
before and after images of the pages a call touched into map bits: every operation is shown to hand it
pages of the table, released pages among them only when they were emptied.

On it rest two more. `EveryCallAccepts`: whatever sequence of calls came before, the rows of
every table load with the stored count, every page is packed and every released page is empty.
`RowStoreImplementsTableRows`: the placing, relocating and collapsing of rows over chains of
records is an operation on one row of one table, and no row of any table changes its locator or its value
otherwise. The invariant `AInv` is the one of the maps with `NextCallAccepts`, which is
inductive beside it because the maps say whose records a page holds. The argument has four parts.
`RowBytes` is a sum: a row put on a page, replaced or removed changes it by its length
(`RowBytesAppend`, `RowBytesExcept`), so the space an edit computes is the gap that is left. A
walk depends on the records it meets only (`WalkLocal`), the walk of a set is the union of
the walks of its members (`WalkUnion`), and the walk of a row has an end (`WalkEnds`: as no two
links have one target, a walk without an end would have more records than it has). So the records of a table load if and only if they are those of its rows,
each with a walk of its own, and dropping or adding the records of one row keeps that
(`LoadsDrop`, `LoadsAdd`). Each operation is then a sequence of edits of single records
that makes the records of one row give way to others (`Outcome`), and such a step (`RowStep`) changes the rows
that readers see as `TableRows` says (`RowsChange`). What the recursive functions compute is
shown by `Induct`: a set that holds 0 and with each number below m its successor holds 0 .. m,
as there would be a least number missing otherwise.

**UsageMapsProofs**, for any number of maps and sizes of windows and bitmap pages:
`PagesStayAccounted`, the published maps say exactly what every page is used for;
`PlansFollow`, the guard of the next plan accepts them. Both under `WindowsFromTheStart`: the
inline windows of tables start at or before page 2, the first page a table can own. Maps the
program writes start at 0 (`schema/map.rs:20`, `create/composer/mod.rs:331`). Without the
hypothesis the statement is false, which is how the finding of run `usage_maps_shifted` was made.
The inductive invariant relates the maps in work to the changes still to be applied: `Final`,
what a map will hold when its list is done, is what `placed` says. For the global map it says
so of pages before the old end of the file only, and three more parts carry the final
loop: `Mirrored`, every page a table map takes or gives back is in the global list as
well; `Beyond`, if the plan reaches past the global window while the map is inline, one of
its recorded changes lies past it, so that its own list converts it before the loop begins;
`IncludeInv`, what the loop has passed stays clear, because the map is indirect by then, or
no page lies past its window, and new slots come after the ones passed.

**CascadeProofs**, for any rows, columns, values, schemas and budget:
`IntegrityHolds`, no published content has an orphan or two parents with one key, under any
constraint of the file, also those the change was not checked against; `DeletionsTakeTheClosure`, a deletion takes
exactly the least set that holds the named row and is closed under deleting constraints. For
the first, `Spread` says that a change has reached only tables connected to the named one,
so that constraints outside its component see no change (`Locality`); those inside are checked
by `Accepted`, against parents (`ParentsFor`) that are shown to be parents of the result.
For the second, `NotTooMuch` (every deleted row is reached), `Queued` and `NotTooLittle`
(what a deleted row reaches is deleted, or the row is queued, or the constraint is still to be
tried) hold in every state of the propagation, whatever the order of the queue.
`ChildrenAlwaysFollow`, the children of a row whose key changes take the new key column by column, around
circles too, unless the caller set the column or another row sets it as well. Its invariant `Followed` says
so of every row whose key is assigned and that is not queued: a row assigned again is queued
again, and what another row overwrites is contested from then on, since nothing that is assigned
becomes unassigned. It takes the assumption that the columns of a child are distinct, which
holds because they are those of an index (`definition/physical_index.rs:205`).

**EditJournalProofs**, for any cells, values, files and numbers of edits and plans:
`EditsAreKept`, a journal's pages are the file with exactly the accepted edits;
`PrivateVerifies`, `verify_private` accepts what the plans wrote, pages appended by one plan
and edited by a later one included; `PublishesThePlans`, only the opened file with the plans
applied in order is published, whatever file was copied. The invariant says that the journal
of a plan starts from the pages of the file it is made on and holds exactly its edits, that
verification accepts the private file if the copy was made of the file opened, and that a private
file it accepts, whatever was copied, is the opened file with the plans applied. The main
lemma is that a combined journal leads where the earlier one and the plan lead one after the other.

**IndexTreeProofs**, for any rows, keys, widths, page sizes and file sizes:
`UniqueStaysUnique` and `NextLoadIsAccepted`. The rows are replaced by the planned ones when the
tree is staged, long after the key was looked for, so the invariant `IInv` of the first is about
both.

`NextLoadIsAccepted` says that whatever was inserted, removed, replaced or refused, `load`
accepts the index the last mutation left. Its invariant, `TreeInv`, is that the pages hold
(`Holds`) a tree over the entries of the rows: nodes in levels, the leaves covering the
entries in order, every level adopting the one below it without gap, each node on a page of
its own of the map, with the siblings, items and tail its place gives it, every other page
stale; and, while a tree is built, that the nodes and levels so far are such a forest over the
planned entries (`Growing`). The lemmas are in three parts.
- *What is held is read* (`LoadIsAccepted`): the breadth first levels of the reader are the levels
  of the tree (`LevelsAre`, `VisitedIs`), so every page parses at its depth (`PageReads`), the
  leaves give back the entries (`EntriesAreRead`), and the separators bound what is below
  them (`StructureIsValid`).
- *What is built is a tree*: the greedy cut of the leaves takes at least one entry and as many as
  fit (`LeavesPacked`); a group has at least two children, since `RecordFits` admits only records
  of which two separators fit in a page, and a group that gives up a child so that the last
  one is not alone keeps two (`GroupFits`, `GroupKeeps`); so each level has
  at most half the nodes of the one below (`HalfAsMany`), and the depth is within `MaxDepth`
  (`DepthAllowed`).
- *What is staged holds the tree* (`NodesPlaced`, `TreeStaged`), and both initial states do
  (`EmptyTree`, `TailTree`).

The depth takes `DepthAssumption`: a tree over all rows, two children under each branch, is within
the depth the reader allows. That depth is `DEFAULT_MAX_CHAIN_DEPTH`, 4096
(`format/resource.rs:21`), far more than any file needs; a caller that lowers it gets refusals,
which `LoadAccepts` as the guard of `Mutate` models as a mutation that does not begin. The
library's induction theorems take an operator as parameter, which the provers cannot
instantiate; `Induct` (from `WFMin`) and `Recursion` state induction over an interval of
numbers with a set in place of the operator, and the recursive functions of the module
(`Sums`, `FlattenSeq`, `Levels`, `LeafStart`, `Below`, `Doublings`) are reasoned about through them.

**Left to TLC.**
- Liveness, which the prover cannot do: `PlansEnd`, `BuildEnds`, `CascadesEnd`.
- `LongValues` and the modules from `RowCodec` to `Schema`: not proved. Walking and placing
  chains, row boundaries, the planning of several tables and the removal of lists of maps are
  recursive functions and folds; each would need lemmas like those about the walks of RowStore.

## 5. Not modelled

- Byte formats: the records of definitions, catalog rows, property blobs and map rows; sort
  keys and collation tables; dates, decimals and text. The repository compares these with
  recorded files. What reader and writer must agree on beyond the bytes is modelled.
- Of the composer: the fixed layout for one table of one Long, the pages of the system tables,
  the pages of property blobs.
- The traversal of maps by readers (`alloc/traverse.rs`) and the wire decoding of maps.
- The Windows publication, where synchronising a directory is a no-op.
- Budgets, except where they end a loop that would not end otherwise; elsewhere exhausting one
  is a refusal that may happen at any point, and planning touches no file.
- Deleting and replacing rows in `Schema`: row calls and schema edits meet in the model through
  insertion only. The command line and development tools.

## 6. Plan

1. Theorems: the chains of LongValues, along the lines of RowStore.
2. `IndexEntries`, an ordered set, as abstract specification of `IndexTree`; several indexes
   of one table in one plan, refused together.
3. `Mutation`: row, index, long value and map edits in one plan, composed from the modules there are.
4. Deletion and replacement of rows in `Schema`.
