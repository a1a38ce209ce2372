# libdxfrw in TLA+

libdxfrw reads and writes DXF and DWG drawings. A program that uses it (LibreCAD,
the `dwg2dxf` tool of this repository) implements `DRW_Interface`, the *filter*:
while a file is read the codec calls `add...()` for what it finds, while a file is
written it calls `write...()` and the filter calls the codec back with every record
to emit. The codec is sequential; what makes it hard is that one save is a long
conversation in which any record can be refused half-way, that what was refused must
disappear from the stream, from the handle maps and from the filter's own records,
and that the result must replace the user's drawing whole or not at all, beside
other processes and across crashes.

The modules here model both directions: the file system transaction, the allocation of
handles, the DXF write session and what a DWG write can take back on the saving side;
how a DXF file is taken apart, how the frames of a DWG file are consumed, and the
compressed and error-corrected pages of R2007 on the reading side.

Paths below are relative to the repository; the library is in `src/src`, of which
`LX` is `libdxfrw.cpp`, `D` is `libdwgr.cpp`, `W` is `intern/dwgwriter15.cpp` and `R`
is `intern/dwgreader.cpp`.

## 1. Inventory

| Component | State | Operations | Interacts with | Hard behaviours | What makes it correct |
|---|---|---|---|---|---|
| **Output transaction** `intern/dwg_dxf_output_transaction.{h,cpp}` | directory and file descriptors, temporary's name, stream, mode to restore | `open`, `commit`, `abort`, destructor | file system, other processes; used by both `write()` | interleaved saves, stale identity checks, failures at every call, crash | the destination is always whole, also after a crash; the temporary is not wider than the destination, and is left behind only where nothing could remove it |
| **Handle allocator** `handle_allocator.h` | explicit reservations, minted handles, next candidate | `reserve`, `seedReserved[Dxf]`, `next`, `resetGenerated`, `current` | every writer | the end of the 32-bit range, reuse after a reset | a handle has one holder, `$HANDSEED` is above all |
| **DXF write session** `dxfRW::write` and the `write...` calls (`LX`, `libdxfrw.h`, `intern/dxfwriter.h`) | handle maps, undo log, open scopes, buffered bytes, error latches, block being written | sections, one call per record type, `reserveHandle`, `preallocateEntityHandle`, `markSourceHandleAmbiguous` | filter callbacks, allocator, output transaction | refusal inside nested scopes, planned handles, retries of a codec | unique handles, references and owners that exist, exact rollback |
| **DXF encoders** `intern/dxfwriter.{h,cpp}` | stream, sticky error | `writeString`, `writeInt16`, ... text and binary | write session | sticky errors against scope errors | a record that failed leaves no byte |
| **DXF reader** `intern/dxfreader.{h,cpp}`, `dxfRW::read`, `process...` (from `LX` 8926) | pending code-0 token, seen handles, staged block events, reading context | section and record processors | filter callbacks, text codec | a code-0 token has one consumer; the events of a BLOCK are held back until its ENDBLK is valid | every record is delivered once or not at all, in the file's order, with its own parts; `addBlock` is balanced by `endBlock`; self handles are distinct |
| **DWG write transactions** `dwgRW::write`, `begin/commit/rollbackDwgWriteTransaction`, `rollbackLastDwgObjectWrite` (`D`, `W`) | frames, owner lists, blocks, tables, counters, checkpoints, captured callers' records | entity, compound, object and raw writes, scopes | filter callbacks, allocator, DWG writers | refusal inside compounds and nested scopes, stale checkpoints | what is taken back is exactly what was written |
| **DWG writers** `intern/dwgwriter*.{h,cpp}`, layout validation | object map, page map, class and named-object ledgers | frames, section emission, file header, handles section | bit buffers, data storage | R2004/R2007 page maps, section lengths, class instance counts | the maps describe the bytes; every admitted class instance has a frame |
| **DWG reader driver** `dwgRW::read`, `readBuffer`, `processDwg` (`D` 777 to 884, 3301 to 3670) | reader, diagnostics | open, sniff version, read header, tables, blocks, entities, objects, coverage report | DWG readers, filter | failure at each phase, a report after failure | the report says complete only of a whole read |
| **DWG readers** `intern/dwgreader*.{h,cpp}` | object map still to read, deferred map, leases, ledger of dispositions, block journal | per-version containers, tables, blocks, entities, objects | bit buffers, decompression, RS codec | cyclic or shared owner chains, partial damage, callbacks that throw in a replay | reading terminates, each map entry is consumed once and delivered where it belongs |
| **Bit buffers** `intern/dwgbuffer.*`, `dwgbufferw.*` | position, bit offset, error | get and put of each DWG type | all DWG code | bit alignment, end of data, widths | what is put is what is got |
| **Containers** `intern/rscodec.*`, `dwgutil.*`, `dwgobjectframe.cpp` | none | Reed-Solomon, LZ77 variants, CRC, frame layout | DWG readers and writers | off-by-one at block and window boundaries | decode inverts encode; up to t errors per block are corrected, more are never taken for a correction |
| **Data storage** `drw_datastorage.*`, `drw_acis.*` | records and links of the ACDSDATA section | parse, link to entities, emit | readers and writers of both formats | records without entity, entities without record | each record is linked to one entity |
| **Data model** `drw_entities.*`, `drw_objects.*`, `drw_header.*`, `drw_classes.*`, `drw_base.h` | the records themselves | `parseCode`, `parseDwg`, `encodeDwg` per type | all codecs | none beyond the format | field by field |
| **Text codecs** `intern/drw_textcodec.*`, `drw_cptable*.h` | code page | to and from UTF-8 | all codecs | none | table lookups |
| **Command line** `src/dwg2dxf` | the drawing in memory (`dx_data`) | import, export, handle remapping (`dx_iface`) | both codecs as a filter | which handles to reserve or remap | modelled as the filter of the write session |

Tests, tools, metadata, build files and documents are not components of the running
library.

## 2. Modules

| Module | Models | Extends or instances |
|---|---|---|
| `AtomicReplace` | abstract: readers of a destination see the old file or one whole new one; each save ends committed or failed | |
| `OutputTransaction` | `DwgDxfOutputTransaction`, POSIX branch, one action per system call | refines `AtomicReplace` |
| `HandleSource` | abstract: a source of handles that never has two holders | |
| `HandleAllocator` | `HandleAllocator` | refines `HandleSource` |
| `DxfWriteSession` | `dxfRW::write` and what the filter calls during it | instances `HandleAllocator` |
| `DwgWriteScopes` | what a `dwgRW` write can take back | instances `HandleAllocator` |
| `DxfReader` | `dxfRW::read`: sections, tables, blocks, compounds, the boundary token, staging | |
| `FrameCoverage` | abstract: each frame of a handle map is settled once, and one report tells whether all were published | |
| `DwgReader` | `processDwg()` and the readers' blocks, entities and objects phases over the ledger of frames | refines `FrameCoverage` |
| `RsCodec`, `LzCodec` | pure algorithms: `RScodec` and the block layouts built with it, the R2007 compressor and decompressor | `Tables` (one value computed once) |
| `R2007Section` | a section written to pages, damaged, and read back | extends `RsCodec`, `LzCodec` |
| `MC...` | instances for TLC | |
| `OutputTransactionProofs`, `OutputAtomicityProofs`, `HandleAllocatorProofs`, `DxfWriteSessionProofs`, `DwgWriteScopesProofs`, `DxfReaderProofs`, `DwgReaderProofs`, `DwgDeliveryProofs` | theorems | |

### OutputTransaction

`pc[w]` is the system call transaction `w` makes next; `tmp`, `strm`, `dirFd`,
`tmode`, `tries` are `m_temporary`, `m_stream`, `m_directoryDescriptor`,
`m_targetMode` and the counter of the name loop. The file system is `entry` (what a
name leads to in a directory), `data` and `mode` of each file, and what a machine
crash would leave: `durable` and `disk`. `pathDir` is the directory the parent path
currently names, which matters because the code creates and reopens the temporary by
path and does everything else relative to the descriptor.

Each system call of `open()`, `commit()`, `abort()` is an action with its failure
branch. A comparison of files fails when the files differ or when one of the calls that
ask for their status fails (`Checked`); `fstatat` of the destination may fail and leave
its mode unknown; `abort()` removes nothing if it cannot examine the temporary, and
ignores a failing `unlinkat` (`kept` remembers both). The environment kills processes,
writes cached data and entries back at any time and in any order, crashes the machine,
makes the path lead to another directory, back to an earlier one included, and replaces
or removes a temporary, each as often as a bound allows. `returned` remembers the
transactions to whose directory the path came back.

`Draws[w]` is the set of names the random suffix of a transaction can give. Where all
transactions work in one directory they share the names, so they collide. Where they
work in different ones they draw different names: there are 62^6 suffixes, and with
equal ones a transaction whose temporary another program removed after the last check
could rename the temporary another transaction created under that name.

`open()` reopens the exclusive temporary without `ios::trunc`, but opening an
`ofstream` without `ios::in` truncates anyway; the file is empty at that point, so
nothing is lost and the model has nothing to say about it.

### HandleAllocator

The allocator is a record with the members of the class. Its operators are functions
from allocator to allocator (`Reserved`, `Minted`, `Exhausted`, `ResetGenerated`), so
that a writer's action can make several calls in one step; the module's own `Next`
lets the calls happen in any order.

### DxfWriteSession

`phase` follows `write()` through its sections. Each open `RecordStateScope` /
`EntityRecordScope` together with its `DxfWriterRecordScope` is one element of
`scopes`, with the buffered records and what it will restore; `log` is
`m_dxfWriteMutations`; `maps` the source-handle maps of `DRW_WritingContext` and the
sets beside it. The filter's calls are actions of their own (`BeginRecord`,
`WriteVertex`, `BeginAttrib`, `WriteSequenceEnd`, ...), each value of a record may be
rejected (`AbortRecord`) or the byte writer may fail (`WriterFails`), and the write
ends in `Publish` or `FailWrite`. A codec can be used again (`StartWrite` after a
failure or a success).

The filter follows the documented contract unless `Habits` says otherwise
("preallocate": plans entity handles in `writeBlockRecords()`; "share": sends several
entities of one source it did not mark; "remap": takes replacement handles with
`allocHandle()` before the write, as `dx_iface` does): it re-seeds the source handle on
each call, sends each block and preserved object once, plans and marks only while
block records are written, marks before it plans, and reserves what it keeps before the write.
A fourth habit, "keepOwners", is `dx_iface`'s: the entity it sends is the one it read, so
`parentHandle` may still be the owner it had in the source drawing (`SourceOwners`,
handles the new file does not have). `OwnerHandle` is `writeObjectOwner`'s choice: what
`parentHandle` says, then the record of the block being written, then the record of
model or paper space (`session_records` writes to paper space, `session_sources` to model
space). Values rejected in a dictionary or in a layout roll back their own
scope and latch nothing, as in the code.

### DwgWriteScopes

`ledger` is the part of the writer a `CompoundWriteCheckpoint` is about: the object
map, the entity lists of model space and of each user block, the blocks, the open
block, admitted layers, and the extended-data failure flag, which a rollback keeps.
`held` is what the filter's own DRW records contain (handle and owner), `scopes` is
`m_dwgWriteTransactions` and `lastWrite` is `m_lastWriteTransaction`. An entity is a
sequence of parts (the record, then attributes or vertices, then SEQEND); writing one
is a step, because nothing else of the process runs in between, and its failure after
any number of framed parts is another. `begun` and `undo` are history variables for
the properties.

Only the innermost scope can be ended; the code refuses every other token and
changes nothing. `insertHandles` are recorded and cut exactly as `entityHandles` and
are not listed separately. The filter closes its scopes before it leaves a callback,
defines blocks outside scopes, takes back a last write right after it, and writes an
entity that already has an owner within the content of that block, unless `Habits`
says otherwise ("defineInScope", "undoLate"). That last guard, on the owner, is how the
calls are meant to be used; the code does not check it. The allocator is assumed to have
a handle left for every part (`Room`); a write that runs out of handles is modelled in
`DxfWriteSession` only.

### DxfReader

A file is a sequence of records, a record being a code-0 group and the groups up to the
next one. Each action is what the code does from one code-0 group to the next one:
`Follow`, `FirstRecord` and `EndRecord` of an entity or object, `BeginParts`, `NextPart`
and `EndParts` of an INSERT or POLYLINE with its ATTRIBs or VERTEXes and SEQEND,
`BeginBlock` to `EndBlock`, `OpenTable`, `NextRow`, `EndRows`, the sections kept or
skipped. `pending` is the code-0 group that was read ahead (`nextentity` with
`m_hasPendingEntityBoundary`), `parent` and `block` the locals of the running processor,
`staged` the callbacks `DxfBlockEventSink` holds back (and the rows of a table, the
classes). `seen` is the registry of self handles. `Fail`, `ParserThrows`, `FlushThrows`
and `EndOfFile` can happen wherever the code has that path.

What is delivered is compared with `Expected`, which is defined on the records alone,
as grammar: which spans of the section are complete entities, blocks or tables, and
which callbacks they ask for. `Unheard` are the children of a block that its sink has no
method for: they are expected and reach nobody, which is finding 3; everything else
expected is delivered, and nothing else. `tokens`, `issued` are ghosts for that purpose.
The fields of a record are left out; that a record lacks a required one is the choice of
`Fail` or of a handle 0.

### DwgReader

`book` is the ledger: the map of frames still to be read (`ObjectMap`), the map of
frames an earlier phase deferred (`objObjectMap`), the leases of frames taken out of
either, and the disposition and the receipts of each frame. Its operators (`Marked`,
`Detached`, `Discarded`, `Deferred`, ...) are functions from ledger to ledger that
raise `alarm` where the code reports a transition it does not expect.

`scope` is the block being read. In the layouts up to R2000 the entities of a block are
a chain of handles, walked and delivered one by one (`OpenBlock`, `WalkEntity`,
`EndChain`, `CloseBlock`, `CommitBlock`). From R2004 on the block record lists them:
its claims are probed first (`CheckClaims`), the frames are read into a journal that
may be refused room (`OpenJournal`, `JournalEntity`, `FailJournal`, `SealJournal`) and
replayed to the application once the whole block was accepted (`ReplayValue`,
`ReplayReceipt`, `EndReplay`); both callbacks may throw. What no block consumed is
swept (`SweepEntity`), then objects are read, and `Finish` makes the coverage report.

A file is given by what its frames are, whether they can be read, who owns them, how
they are linked, and the block records. `FilesAssumption` says of it only that handles
are numbers and the lists of a record sequences.

Three places are simpler than the code. The frame of a block record whose journal is
given up ends quarantined here and failed there; both count as lost. The receipt and the
reachability of an object are two callbacks (`R` 2232 and 2241) and here one step, which
may throw. The refusal of a receipt whose static artifact is not valid (`R` 2093) is left
out.

### RsCodec, LzCodec and R2007Section

The codec's tables, generator, encoder and decoder (syndromes, Berlekamp's algorithm,
Chien search, Forney's formula) are the code's loops as recursive functions and folds,
with symbols in polynomial form; `dwgUtil`'s consecutive and interleaved layouts are on
top. `compressDataPage()` with its matcher and emitter, and `decompress21()` with its
copy orders and offset forms, are operators on sequences of bytes. `R2007Section`
writes a section page by page (`WritePage`, with the writer's own validation of each
compressed page), damages symbols (`Damage`, `BurstOfDamage`) and reads it back
(`ReadPage`). A checksum is modelled by the content it stands for, so a mismatch in the
model is a difference of content. `ReadPage` is the branch for R2007: the pages of R2004,
which share `parseDataPage()`, and the refusals of a page whose geometry cannot be right
are left out, since the writer lays out every page here and only its symbols are damaged.

## 3. Runs

| Run | Shows | Bounds |
|---|---|---|
| `output_crash` | the destination is whole at every moment and after a crash, the temporary is never wider than it, and refinement of `AtomicReplace` | two transactions, two colliding names, two attempts, three permission bits, kills, one machine crash |
| `output_redirect` | the destination is whole unless the path came back to the directory of the transaction that published it, nothing redirected or displaced before the close is published, and a transaction that ends leaves no temporary it could have removed | two transactions with names of their own, two directories, two moves, there and back included, one foreign or removed file |
| `handle_allocator` | the allocator's invariant, action property and refinement of `HandleSource` | handles 0..9, two literals |
| `session_records` | unique handles, `$HANDSEED`, owners, all-or-nothing records, exact rollback | one block and paper space, two sources, one owner of the source drawing, two records with children, three literals, handles up to 16 so that they run out |
| `session_sources` | unique handles, references and modeler keys over two writes with failures, shared sources, a kept object, layouts one of which cannot be reserved and remapped objects | two writes of two calls, handles up to 11 |
| `session_dangling_member` | *violation*, finding 1 | one planned source |
| `dwg_scopes` | frames, lists, counters and callers' records under two nested scopes with all their options | two writing calls after any table calls, one insert with attribute and SEQEND, one line, one object, one raw object, one layer, one block |
| `dwg_scope_blocks` | *violation*, finding 2 | two blocks, one line |
| `dxf_read` | blocks balanced, exactly the expected callbacks in order, distinct self handles | every sequence of seven records, among them one the block sink has no method for, two handles |
| `dxf_read_dropped` | *violation*, finding 3 | six records, one of them a TOLERANCE |
| `dwg_read` | the ledger never alarmed, one delivery per frame, in its block, whole blocks, a truthful report, termination, refinement of `FrameCoverage` | about two thousand files of six frames and two block records |
| `r2007_pages` | correctable damage is repaired exactly, also bursts over interleaved blocks; a block is called corrected only if it became a codeword; the compressor's output is always accepted by the decompressor | sixty sections with RS(255,251) and RS(7,3) |

**Why the bounds are enough.** The transactions are symmetric and touch each other
only through a name or through the destination; two of them, with names they can both
draw in `output_crash`, give every pairwise order, and the theorems below cover any
number. Two directories and two moves are the path leading elsewhere and back between any
two calls, which is what it takes to defeat a comparison by path. One crash is enough because a crash ends every process. Handles are small numbers with the real
structure (literals below the first candidate, one value that is never handed out), so
that a run reaches the end of the range. A record that is refused inside a record
inside the BLOCKS section needs three scopes, which two calls reach. For the DWG
scopes two nested levels are the smallest case in which a commit passes captures to a
parent that is then rolled back, and two writing calls the smallest in which one is
kept and another taken back; every option of a scope is chosen freely.

Seven records are what a block with a compound in it takes, from BLOCK to the record
after its ENDBLK; the handles of a file matter only for being equal or not, so two, in
symmetry, suffice. Six frames are the delimiters of two blocks and two entities or
objects: enough for a list that misses, repeats or shares one, for a chain that ends
early, runs in a circle or enters another block or a delimiter, and for a failure
before or after a success. The sections of `r2007_pages` reach the short and
the long literal runs and the short, medium and long matches at near distances; runs long
enough for the 0xffff loop of the emitter and distances near the end of the window are
not among them. Damage is exhaustive for up to three symbols over three
blocks in the field of eight symbols, where each block corrects two, and sampled at
block and page boundaries in the field of bytes.

**Fairness.** `dwg_read` needs it for `Terminates`: a read is one call that runs until it
returns, so its next step is weakly fair; which step, and with which outcome, is left
open, and callbacks that return are taken for granted. The output transaction needs none:
it runs through without a wait, and what matters, what it leaves behind when it ends, is
the action property `LeavesNothingBehind`. It excepts a killed process and a temporary that
`abort()` could not examine or remove (`kept`). A temporary created where the path led
after the directory was opened is not in that directory, and a file the stream's open
creates because the temporary is gone is not the temporary; `abort()` leaves both.

**Deadlock** is not checked where the modelled work ends (the write or read is done, or
all transactions have ended).

## 4. Proofs

Proved by TLAPS for every value of the constants that satisfies the named
assumptions.

**Output transaction.** `Cooperative` says that no other program replaces a temporary
and that the path keeps naming one directory (`MaxForeign = 0`, `MaxDirs = 1`).

* `OutputTransactionProofs!TypeCorrect`: `TypeOK`, and that each call of a transaction
  finds the descriptor, the temporary and the attempts it needs (`HoldsOK`). The two
  are proved together, as `TypeInv`: the range of `tries` after a refused name depends
  on where in the loop the transaction is. One lemma per action.
* `OutputAtomicityProofs!DestinationAtomic`: with any
  number of transactions, with failures, kills, write-back and crashes in any order,
  the destination is whole and would be after a crash, if `Cooperative`. That the
  destination is whole is not inductive: a rename makes the *temporary* the
  destination, so the invariant says that a transaction in `commit()` still holds its
  name (`HoldsItsName`), that its stream is its own file (`StreamIsOwn`), that this
  file is whole after the flush and on disk after the fsync (`CommitIsOrdered`), and
  that a file that has been a destination, in the cache or on disk, is never written
  again (`DestinationSettled`).
* `OutputAtomicityProofs!OutputImplementsReplace`: the refinement of `AtomicReplace`
  by that invariant, one lemma per system call, if `Cooperative`.
* `OutputTransactionProofs!PublishesHeld`: nothing redirected or displaced before the close
  is published, with any number of moves, back to earlier directories included, and of
  foreign files. It speaks of the transactions to whose directory the path did not come
  back, and the invariant says why that is enough: once the path has left the directory of
  such a transaction it leads elsewhere for as long as the transaction lasts, so a
  comparison that succeeds after the close finds the path where it was at the close.
  `NeverWider` needs no assumption either.

**Handle allocator.** `AllocatorCorrect`, `NeverMintsTwice`, `FreshWriteMintsFromFirst`,
`AllocatorImplementsSource`: the invariants, the action property and the refinement,
from `Sound`: every holder of a handle is below `m_next`, `m_next` is at least
`FirstHandle`, and it is `FirstHandle` as long as nothing but literals is reserved and
nothing was minted.

**DXF write session.** For any sources, blocks, members of the group, preserved objects,
handle space and number of calls and writes, with all `Habits`. What is published is
decided by every step before it, so the invariants of the runs, which speak of the
published file only, say nothing of the steps that lead there. `IInv` says:

* the maps and the stream are *coherent*: each handle is claimed by at most one of the
  sources it was planned for or given to, the blocks (three handles each), the objects
  to keep and the codec's literals (`ClaimsApart`); a record with a claimed handle is
  what claimed it (`Obeyed`); all are below the allocator's next handle (`Below`);
  records of written sources are marked, modelers are unique, blocks and references are
  in the stream, and so are owners, but for those the filter named in `parentHandle`;
* this holds not only of the present maps with all that is written, but of every point a
  rollback can return to: the maps an open scope remembers, with the stream below
  that scope (`WorldsIn`), where *below* the allocator's next handle stays true because
  handles are never given back;
* undoing the log from its end leads to exactly those maps: between two such points the
  log is a path, each entry undoing one difference (`PathsIn`). Without it a rollback
  restores what the log says, not what the scope found;
* what an open scope holds and remembers of the block being written and of the records
  collected (`HoldsIn`), and what the sections built so far contain (`SectionsOK`).

What the calls reported is in `Tally`, an invariant beside `IInv`: as long as the write
has not failed, every accepted call has its number of records in the stream, and every
record there is an accepted call's or the codec's own. An open record belongs to the
last call, which is not accepted yet, and holds as many records as it asked for, one
less while an attribute is open; if that attribute is taken back the count stays short,
but then the INSERT is failed and is taken back too.

`RollbackGivesBack` follows from the paths; `HandlesStayUnique`, `HandseedStaysAbove`,
`OwnersArePublished` and `ModelerKeysName` from coherence of what `Publish` writes, and
`PublishesExactly` from `Tally`. `OwnersArePublished` is about the owner the codec
chooses; one the filter named is emitted as it is, and need not be in the file. `NothingDangles` assumes that no handle is planned
(`"preallocate" \notin Habits`): with it the property is false, as
`session_dangling_member` shows. The assumption that sources
are not called "fixed", "block", "group", "kept" or "none" concerns only the names the
model gives to records that are no entities.

**DWG write transactions.** For any entities, parts, blocks, layers, raw handles and
depth of scopes. A checkpoint holds lengths, not contents, so what a rollback takes the
writer back to depends on everything that happened since, including inner scopes that
committed, rolled back or undid a write.

* `DwgWriteScopesProofs!ScopesTypeCorrect`: the types, with `Behind`: every handle that
  anything carries (a record, a capture of a scope or of the last write, a layer, a
  frame) is below the allocator's next one.
* `HandlesStayDistinct`: no two records carry one handle and no record another's frame,
  if the drawing comes with distinct handles (`PresetsDistinct`), with all `Habits`.
  What restores a handle later counts as carrying it now (`OneBearer`).
* `SkipsChangeNothing`: a reported skip changed nothing.
* `RollbackTakesBack` (without `"defineInScope"`, the habit finding 2 is about) and
  `LastWriteUndone` (without `"undoLate"`): an open scope's ledger at its begin is what
  its checkpoint cuts the present ledger to (`Continues`), and so is the ledger before
  the last write (`Before`), which differs from the present one by the ends of lists
  (`Newest`).
* `ListsStayGood`, `CompoundsStayTogether`: for the documented calls (`Habits = {}`), and
  the second if no record is a part of two entities (`PartsUnshared`). Every ledger that
  can come back satisfies both (`FineLedgers`), not only the present one; and a record
  whose handle a rollback restores has no frame before the checkpoint (`FrameInv`).
* `RollbackRestoresCallers`: the callers' records, with all `Habits`. What a capture
  restores depends on what was captured before it, so the invariant follows each record
  through the open scopes: going back over the captures of a scope from where the next
  one began gives the record the scope found (`HeldBack`), a scope that does not track
  has captured nothing (`UntrackedEmpty`), what opted out of an inner scope counts as
  opted out of those around it (`LooseNested`), and what undoing the last write would
  restore is the newest capture of the innermost scope (`WriteKept`), so that taking it
  back takes away a capture at the end.

**DXF reader.** For any names, handles and any number of records.

* `DxfReaderProofs!DistinctHandles`: the handles delivered, staged and held by the open
  record, its parent and the open block are pairwise different and all registered, so a
  record the registry accepts is new to all of them; those of earlier sections are in
  the registry too.
* `BlocksStayBalanced`: the callbacks made so far end inside a block
  exactly if the running `processBlock()` has published its block or an exception left
  it open, and what is staged holds neither `addBlock` nor `endBlock`, so that
  delivering any prefix of it keeps the alternation.
* `RecordsReachTheApplication`: at every moment, also after a failure, the callbacks of a
  section are those its records have made due. `Expected` is a grammar over all the
  records of the section, so what has to be shown is that one more record changes it by
  exactly what the step calls. `WhereInv` says where the reader is *in the records*: the
  record it holds is the last one read; the entities before it are complete and none of
  them has the present record as a part (`EntityAt`), or it is a part, and the parts
  collected are the records since the parent; the blocks before the open one have ended
  (`EndedBefore`) and what is staged are its children (`BlockOpen`); the rows staged are
  those since TABLE (`RowsAt`). `DueInv` is the property for the reader's position. The
  lemmas about the grammar (`EntityEnds`, `PartsEnd`, `LastBlock`, `RowsAreDue`, ...) hold
  for any two sequences of records one of which continues the other.

**DWG reader.** For any set of frames and any files over it; the inductive invariant is
`CoreInv`.

* `DwgReaderProofs!LedgerInOrder`, `HeardOnce`: the two maps and the leases are
  disjoint, a frame in a map has the disposition of that map, and a receipt stands for
  a publication (`InOrder`). What the application heard of is settled or is the frame
  the open journal replays (`Once`, `Fresh`), and the position in a chain, a journal or
  a replay determines which frames are leased (`Walking`, `Journalling`, `Replaying`).
* `BlocksEnd`: blocks end where they began, from the same invariant.
* `ReadImplementsCoverage`: no step changes a settled disposition (`Keeps`), and a
  report of a complete read finds nothing lost.
* `DwgDeliveryProofs!ToldAtHome`, `HeardWhenWhole`, `CompleteMeansAll`: where the
  application hears of a frame. `CoreInv` does not say which calls a journal holds, so
  `DeliveryInv` adds that its entities stand between the calls of their block, or after
  them for a space (`Ordered`), that every frame listed before the position of the
  journal is settled or staged, leased and owned by the block (`Accounted`), that the
  position of the replay tells which block is open (`Entered`), and that a block left
  open fails the phase, so that the sweep runs outside of all blocks (`Outside`). That
  the probe of claims left one record for each BLOCK (`Sole`) makes what is told of a
  block told of its record.

**Induction.** The library's induction theorems take an operator and cannot be
instantiated here. What a function defined over the undo log or over the open scopes
returns is proved from `IntervalInduction` and `IterationExists` of
`HandleAllocatorProofs`, which state induction over an interval for sets.

Model-checked only, and why:

* liveness (`Terminates`) and with it fairness;
* `DestinationWholeUnlessReturned` and `LeavesNothingBehind`: a path that moves and other
  programs that replace temporaries;
* the properties of `R2007Section`: they are about what the recursive algorithms of
  `RsCodec` and `LzCodec` compute, an induction over data.

## 5. Findings

1. *(code)* `session_dangling_member`. A GROUP refers to a planned handle whose entity
   was never written: `preallocateEntityHandle()` and `writeEntity()` fill the same map,
   and `writeObjects()` takes an entry as proof of a written entity.
2. *(code)* `dwg_scope_blocks`. `rollbackCompoundWrite()` cuts the entity lists of user
   blocks only if the number of blocks is that of the checkpoint. A scope that calls
   `defineBlock()` and also fills an older block leaves that block listing entities
   without frames, and `emitDeferredBlockControl()` then refuses the whole file.
3. *(code)* `dxf_read_dropped`. `DxfBlockEventSink` overrides the callbacks of
   `DRW_Interface` one by one and lacks `addTolerance`, `addCamera`,
   `addGeoPositionMarker` and `addSectionObject`: inside a block such an entity reaches
   the empty default, so a TOLERANCE of a block is lost.

Further observations made while modelling, without a run of their own. On saving:

* The temporary is created and reopened by path, checked and renamed through the
  directory descriptor. If the path leads elsewhere while the stream is opened and is back
  before the checks, the stream fills a file of the other directory, and the empty
  exclusive file is renamed over the destination and reported as a success. With the
  constants of `output_redirect` TLC finds this as a violation of `DestinationWhole`;
  `DestinationWholeUnlessReturned` excepts exactly the files of such transactions.
* `writeEntity()` prefers `ent->parentHandle` to the BLOCK_RECORD being written (`LX` 2648).
  The comment beside it expects it set for raw replays only, but `dx_iface` sends entities
  as they were read, with the owner of the source drawing, while the handles of block
  records are minted anew: the group 330 names no record of the file, or another one. This
  is the habit "keepOwners"; `OwnersPublished` without `SourceOwners` fails in
  `session_records`.
* The destination's permissions are those of the time of `open()`; a change during the
  save is undone by it. `m_committed` is never reset: the second `commit()` of a reused
  object is refused, and as the destructor aborts only what was not committed, its
  temporary stays.
* A layout or plot settings object whose handle cannot be reserved during a DXF write
  is dropped and the file published; the failure is reported by the *next* `write()`.
  `reserveHandle()` is documented to latch the writer.
* Two entities of one source the filter did not mark as ambiguous share a handle; the
  header asks the filter to mark it. `markSourceHandleAmbiguous()` after
  `preallocateEntityHandle()` of the same source leaves the planned handle unused;
  references already emitted with it dangle.
* A handle the filter takes with `allocHandle()` before `write()` and does not reserve
  is forgotten by the reset at the start of the write and minted again.
* `writeRawDwgObject()`, `defineBlock()` and `endBlockContent()` leave the checkpoint of
  an earlier entity armed; `rollbackLastDwgObjectWrite()` afterwards takes them back too
  (`Habits = {"undoLate"}`).
* A required failure marked inside a DWG scope is cleared when the scope is rolled
  back, also without `suppressFailureCounters`.
* A compound written with a preset `parentHandle` of a user block while no block is open
  is listed in that block and its attributes in model space.
* Scopes still open when the DWG callbacks end are not noticed, and ending one after
  `write()` returned is not refused, although the writer is gone by then.

On reading DXF:

* An exception of a callback during `blockEvents.flush()` (`LX` 10246) leaves `addBlock`
  without `endBlock`, although the comment at `LX` 10044 wants every later failure
  balanced; `BlocksBalanced` exempts it.
* `processVertex()` (`LX` 11352) does not reset the flags of an insertion point between
  two vertices, so a second VERTEX without one is accepted.
* The handles of BLOCK_RECORD rows are not registered. The branch of `processDxf()` for
  an EOF without newline cannot be reached.

On reading DWG:

* Up to R2000 a typed entity whose body cannot be read leaves `nextEntLink = 0` (`R`
  9030): the walk ends, and the rest of a named block is delivered by the sweep, outside
  its block. The comment at `R` 7917 says that a single bad entity does not drop the rest.
* In R2004 an owner that differs only by `entryParse()` does not make the scope unsafe;
  the chained walk does check it.
* From R2004 on a callback that throws during a replay leaves `addBlock` without
  `endBlock`; `BlocksBalanced` exempts it. A BLOCK receipt that throws up to R2000
  leaves the ENDBLK frame "unresolved".
* The branch of `walkBlockRecordEntities()` for 2004 and later is unreachable, and so is
  the recovery of a stale owner that `dwgreader.h` 1334 describes: the probe of claims
  refuses the record first. `SealJournal`'s check and the one before reachability is
  published repeat what the journal already ensured.
* `calcDecode()` computes one coefficient more than its rows declare (`rscodec.cpp` 257)
  before it refuses a locator of too high a degree, if all syndromes but the last are 0;
  the rows of the model are one longer. The damage of `r2007_pages` never gives such
  syndromes, so no run shows it.
* `findCompressionMatch()` tests a distance above 0x400 that its window never yields.
* A wrong page checksum of R2007 is a warning only; the page is used.

## 6. Not modelled

* The Windows branch of the output transaction.
* DXF writing: R12, table rows other than block records, IMAGE definitions and reactors,
  `bindSourceEntityHandle`, raw sections, values of records, header variables other than
  `$HANDSEED`.
* DWG writing: tables other than LAYER, class and named-object ledgers and receipts, raw
  entities, the R2000 contiguity check, everything about bytes.
* DXF reading: the fields of records, the grammars inside a single record (application
  groups, MLEADER contexts), ASCII and binary group decoding, header variables, the
  pre-scan of the version.
* DWG reading: compound entities and their staging, frames of table records, custom and
  unknown classes, data storage links, a read without a ledger, failures of allocation
  other than a journal refused room, an exception of the final callbacks, the choice of
  the reader by version.
* R2007: system pages, checksums as numbers, page alignment, encryption; of R2004 the
  compression (`decompress18`) and the section maps; the framing of objects.
* Bit buffers and data storage: sequential byte formats; what matters of them is that
  each get inverts its put, value by value.
* The data model and the text codecs, some nine tenths of the lines of the library:
  field-by-field transcriptions of file formats and code page tables, without state
  that outlives a record. A module of them would restate the format and find nothing.

## 7. What is left

In order of what a mistake would cost:

1. Compound entities in `DwgReader`: a POLYLINE or INSERT consumes the frames of its
   parts, which are leased together and settled together.
2. The class and named-object ledgers of the DWG writers, composed with
   `DwgWriteScopes`.
3. The R2004 compression beside that of R2007.
