--------------------------- MODULE DwgWriteScopes ---------------------------
(* What a dwgRW write can take back (src/libdwgr.cpp): the frames, owner     *)
(* lists and blocks of the writer, the callers' records, the scope every     *)
(* entity write leaves behind and the explicit scopes the filter opens       *)
(* around several writes.  Handles are only ever consumed.                   *)
EXTENDS Integers, Sequences, FiniteSets

CONSTANTS FirstHandle, MaxHandle, FixedHandles,    \* see HandleAllocator
          Entities,       \* DRW entities the filter may write
          Parts,          \* for each: itself, then the children written with it
          Objects,        \* typed OBJECTS records
          Raws,           \* handles of raw objects to replay
          Layers,         \* layer records
          Preset,         \* for each record the handle it came with, or 0
          Blocks,         \* names of user blocks
          Habits,         \* what the filter does besides the documented calls
          MaxCalls, MaxScopes    \* bounds: calls that write, nesting of scopes

Children == UNION {{Parts[e][n] : n \in 2..Len(Parts[e])} : e \in Entities}
Records == Entities \cup Children \cup Objects \cup Layers

ASSUME ScopesAssumption ==
  /\ FirstHandle \in Nat \ {0} /\ MaxHandle \in Nat /\ FirstHandle < MaxHandle
  /\ FixedHandles \subseteq 1..(FirstHandle - 1)
  /\ Parts \in [Entities -> Seq(Entities \cup Children)]
  /\ \A e \in Entities : Len(Parts[e]) >= 1 /\ Parts[e][1] = e
  \* A record that stands twice in a list of children is refused before the
  \* first frame; records of different types are different objects.
  /\ \A e \in Entities : \A n, m \in DOMAIN Parts[e] : Parts[e][n] = Parts[e][m] => n = m
  /\ (Entities \cup Children) \cap (Objects \cup Layers) = {}
  /\ Objects \cap Layers = {} /\ Records \cap (Blocks \cup {"raw"}) = {}
  /\ Preset \in [Records -> 0..(MaxHandle - 1)]
  /\ Raws \subseteq FirstHandle..(MaxHandle - 1)
  /\ Habits \subseteq {"defineInScope",  \* defines blocks inside a scope
                       "undoLate"}       \* calls rollbackLast...() after other calls
  /\ MaxCalls \in Nat /\ MaxScopes \in Nat

VARIABLES
  phase,       \* the callback: tables, content or done
  alloc,       \* the writer's HandleAllocator
  ledger,      \* the writer's frames and the lists that go with them
  held,        \* the callers' records: handle and owner
  scopes,      \* m_dwgWriteTransactions, innermost last
  lastWrite,   \* m_lastWriteTransaction
  written,     \* m_successfulEntityWrites
  skips,       \* m_writeSkipCounters
  required,    \* m_requiredWriteFailure
  result,      \* what write() returned
  calls,       \* calls so far
  begun,       \* history: what the scopes found when they were opened
  undo         \* history: the frames of the last entity write, and whether a call
               \* that leaves m_lastWriteTransaction alone came since

vars == <<phase, alloc, ledger, held, scopes, lastWrite, written, skips, required,
          result, calls, begun, undo>>

Handle == INSTANCE HandleAllocator WITH got <- 0

\* One user block: PendingUserBlock.
Block(name, record, entities) ==
  [name |-> name, record |-> record, entities |-> entities]
IsBlock(l, h) == \E i \in DOMAIN l.blocks : l.blocks[i].record = h
Listed(l) == {l.model[i] : i \in DOMAIN l.model}
             \cup UNION {{l.blocks[b].entities[i] : i \in DOMAIN l.blocks[b].entities} :
                         b \in DOMAIN l.blocks}
Framed(l) == {l.frames[i].handle : i \in DOMAIN l.frames}
NoLedger == [frames |-> <<>>, model |-> <<>>, blocks |-> <<>>, active |-> 0,
             layers |-> [x \in Layers |-> 0], eed |-> FALSE]

\* Mutant: a rollback always ends outside any block.
CheckpointOutside(l, admission) ==
  [frames |-> Len(l.frames), model |-> Len(l.model),
   lists |-> [i \in DOMAIN l.blocks |-> Len(l.blocks[i].entities)],
   blocks |-> Len(l.blocks), active |-> 0,
   admission |-> admission, layers |-> l.layers]
\* checkpointCompoundWrite() and checkpointPublicTransaction(): lengths of what
\* only grows, copies of the rest.
Checkpoint(l, admission) ==
  [frames |-> Len(l.frames), model |-> Len(l.model),
   lists |-> [i \in DOMAIN l.blocks |-> Len(l.blocks[i].entities)],
   blocks |-> Len(l.blocks), active |-> l.active,
   admission |-> admission, layers |-> l.layers]

Truncated(s, n) == IF n <= Len(s) THEN SubSeq(s, 1, n) ELSE s

\* Mutant: rollback leaves the owner lists of model space alone.
RolledBackModelKept(l, c) ==
  [frames |-> Truncated(l.frames, c.frames), model |-> l.model,
   blocks |-> Truncated(l.blocks, c.blocks), active |-> c.active,
   layers |-> IF c.admission THEN c.layers ELSE l.layers, eed |-> l.eed]
\* Mutant: rollback leaves the owner lists of the blocks alone.
RolledBackBlocksKept(l, c) ==
  [frames |-> Truncated(l.frames, c.frames), model |-> Truncated(l.model, c.model),
   blocks |-> Truncated(l.blocks, c.blocks), active |-> c.active,
   layers |-> IF c.admission THEN c.layers ELSE l.layers, eed |-> l.eed]
\* rollbackCompoundWrite(): the lists of the blocks are cut only when there are
\* as many blocks as at the checkpoint, and only then the blocks themselves.
\* An EED failure stays.
RolledBack(l, c) ==
  LET cut == [i \in DOMAIN l.blocks |->
                Block(l.blocks[i].name, l.blocks[i].record,
                      IF Len(c.lists) = Len(l.blocks)
                      THEN Truncated(l.blocks[i].entities, c.lists[i])
                      ELSE l.blocks[i].entities)]
  IN [frames |-> Truncated(l.frames, c.frames),
      model |-> Truncated(l.model, c.model),
      blocks |-> Truncated(cut, c.blocks),
      active |-> c.active,
      layers |-> IF c.admission THEN c.layers ELSE l.layers,
      eed |-> l.eed]

\* Mutant: the allocator is rewound with the rest of the scope.
AllocatorRewound(a) == IF begun = <<>> THEN a ELSE begun[Len(begun)].alloc
\* The allocator is no part of a checkpoint: handles that were given out once
\* stay reserved.
AllocatorAfter(a) == a

Framing(l, h, record) == [l EXCEPT !.frames = Append(@, [handle |-> h, of |-> record])]

---------------------------------------------------------------------------
(* Handles and frames of an entity and its children.                        *)

\* A record that came without a handle gets the next one, any other keeps its
\* handle and has it reserved: the allocator and the handle after that.
Took(a, r) == IF held[r].handle = 0 THEN Handle!Minted(a)
              ELSE Handle!Reserved(a, held[r].handle)
Taken(a, r) == IF held[r].handle = 0 THEN Handle!MintedHandle(a) ELSE held[r].handle

\* The allocator after n parts of e have their handles, and those handles.
Assigned(e) ==
  LET after[n \in 0..Len(Parts[e])] ==
        IF n = 0 THEN [alloc |-> alloc, handles |-> <<>>]
        ELSE [alloc |-> Took(after[n - 1].alloc, Parts[e][n]),
              handles |-> Append(after[n - 1].handles,
                                 Taken(after[n - 1].alloc, Parts[e][n]))]
  IN after

\* prepareBlockOwnedEntity(): an entity without an owner belongs to the block
\* whose content is being written.
OwnerOf(e) == IF held[e].owner = 0 THEN ledger.active ELSE held[e].owner

\* canRecordBlockOwnedEntity(), for an entity that is nobody's child.
CanOwn(e) == OwnerOf(e) = 0 \/ /\ IsBlock(ledger, OwnerOf(e))
                               /\ ledger.active \in {0, OwnerOf(e)}

\* Mutant: the children of an entity in a block are listed in model space.
ListForEntityOnly(e, n) == IF n = 1 THEN OwnerOf(e) ELSE 0
\* recordBlockOwnedEntity(): where part n of e is listed, 0 for model space.
\* A child follows the open block; its own owner is e, which is no block.
ListFor(e, n) == IF n = 1 THEN OwnerOf(e) ELSE ledger.active

Recording(l, h, list) ==
  IF list = 0 THEN [l EXCEPT !.model = Append(@, h)]
  ELSE [l EXCEPT !.blocks = [i \in DOMAIN @ |->
          IF @[i].record = list
          THEN Block(@[i].name, @[i].record, Append(@[i].entities, h)) ELSE @[i]]]

\* The ledger after the frames of the first n parts of e.
Staged(e, handles) ==
  LET after[n \in 0..Len(handles)] ==
        IF n = 0 THEN ledger
        ELSE Recording(Framing(after[n - 1], handles[n], Parts[e][n]),
                       handles[n], ListFor(e, n))
  IN after

\* finishObject() rejects a second frame with the same handle, the compound
\* writers two parts with one handle, recordBlockOwnedEntity() a second entry.
Unframed(handles) ==
  /\ \A n \in DOMAIN handles : handles[n] \notin Framed(ledger) \cup Listed(ledger)
  /\ \A n, m \in DOMAIN handles : handles[n] = handles[m] => n = m
Writable(e) == CanOwn(e) /\ Unframed(Assigned(e)[Len(Parts[e])].handles)

\* What the write of e leaves in the callers' records.
Stamped(e, handles) ==
  [r \in Records |->
     IF r = e THEN [handle |-> handles[1], owner |-> OwnerOf(e)]
     ELSE IF \E n \in 2..Len(handles) : Parts[e][n] = r
     THEN [handle |-> handles[CHOOSE n \in 2..Len(handles) : Parts[e][n] = r],
           owner |-> handles[1]]
     ELSE held[r]]

\* captureEntityWriteState(), captureTableWriteState().
Captured(R) == [r \in R |-> held[r]]
PartsOf(e) == {Parts[e][n] : n \in DOMAIN Parts[e]}

NoCaptures == <<>>
NoWrite == [checkpoint |-> Checkpoint(NoLedger, FALSE), captured |-> NoCaptures,
            live |-> FALSE]
NoUndo == [frames |-> {}, overtaken |-> FALSE]
Overtaken == [undo EXCEPT !.overtaken = TRUE]

Innermost == scopes[Len(scopes)]
Tracking == scopes # <<>> /\ Innermost.track

\* Mutant: a successful write is remembered by no scope.
NothingRemembered(R) == scopes
\* rememberCallerMutations(): the innermost scope, if it tracks.
Remembered(R) ==
  IF ~Tracking THEN scopes
  ELSE [scopes EXCEPT ![Len(scopes)].captured = Append(@, Captured(R))]

---------------------------------------------------------------------------
(* One action per call of the filter.                                       *)

Init ==
  /\ phase = "tables" /\ ledger = NoLedger
  /\ alloc = LET seeded == Handle!Seeded(Handle!NewAllocator)
                 kept == (Raws \cup {Preset[r] : r \in Records}) \ {0}
             IN [explicitReserved |-> seeded.explicitReserved \cup kept,
                 allocated |-> {},
                 next |-> IF \A h \in kept : h < FirstHandle THEN FirstHandle
                          ELSE Handle!Highest(kept) + 1]
  /\ held = [r \in Records |-> [handle |-> Preset[r], owner |-> 0]]
  /\ scopes = <<>> /\ lastWrite = NoWrite
  /\ written = 0 /\ skips = 0 /\ required = FALSE
  /\ result = "none" /\ calls = 0
  /\ begun = <<>> /\ undo = NoUndo

In(p) == phase = p /\ calls < MaxCalls
Room(n) == Cardinality(Handle!Unused(alloc)) > n

\* The records the filter has committed to keep alive for the scopes around it,
\* but which the innermost one does not track, are on their own from now on.
Loosened(R) ==
  [i \in DOMAIN begun |-> [begun[i] EXCEPT !.loose = @ \cup R]]

\* addLayer(): a layer of a known name keeps its handle.
AddLayer(x) ==
  /\ In("tables") /\ Room(1)
  /\ LET known == ledger.layers[x]
         handle == IF known # 0 THEN known ELSE Handle!MintedHandle(alloc)
     IN /\ alloc' = IF known # 0 THEN alloc ELSE Handle!Minted(alloc)
        /\ ledger' = [ledger EXCEPT !.layers[x] = handle]
        /\ held' = [held EXCEPT ![x].handle = handle]
  /\ scopes' = Remembered({x})
  /\ begun' = IF Tracking THEN begun ELSE Loosened({x})
  /\ calls' = calls + 1
  /\ UNCHANGED <<phase, lastWrite, written, skips, required, result, undo>>

\* The table callbacks are over: writeDwgObjects().
StartContent ==
  /\ phase = "tables" /\ scopes = <<>>
  /\ IF required THEN phase' = "done" /\ result' = "refused"
     ELSE phase' = "content" /\ UNCHANGED result
  /\ UNCHANGED <<alloc, ledger, held, scopes, lastWrite, written, skips, required,
                 calls, begun, undo>>

\* defineBlock(): three handles, the frames of BLOCK and ENDBLK.
MayDefine == scopes = <<>> \/ "defineInScope" \in Habits
Trio(a) == LET one == Handle!Minted(a)  two == Handle!Minted(one)
           IN [record |-> Handle!MintedHandle(a), block |-> Handle!MintedHandle(one),
               endblk |-> Handle!MintedHandle(two), alloc |-> Handle!Minted(two)]
DefineBlock(b) ==
  /\ In("content") /\ Room(3) /\ MayDefine
  /\ ledger.active = 0 /\ \A i \in DOMAIN ledger.blocks : ledger.blocks[i].name # b
  /\ LET trio == Trio(alloc)
     IN /\ ledger' = [Framing(Framing(ledger, trio.block, b), trio.endblk, b)
                        EXCEPT !.blocks = Append(@, Block(b, trio.record, <<>>))]
        /\ alloc' = trio.alloc
  /\ calls' = calls + 1 /\ undo' = Overtaken
  /\ UNCHANGED <<phase, held, scopes, lastWrite, written, skips, required, result,
                 begun>>

\* A block that cannot be encoded: its BLOCK frame, if it got that far, goes.
DefineBlockFails(b, framed) ==
  /\ In("content") /\ Room(3) /\ MayDefine
  /\ ledger.active = 0 /\ \A i \in DOMAIN ledger.blocks : ledger.blocks[i].name # b
  /\ LET trio == Trio(alloc)
     IN /\ ledger' = RolledBack(IF framed THEN Framing(ledger, trio.block, b) ELSE ledger,
                                Checkpoint(ledger, FALSE))
        /\ alloc' = trio.alloc
  /\ skips' = skips + 1 /\ calls' = calls + 1
  /\ UNCHANGED <<phase, held, scopes, lastWrite, written, required, result, begun, undo>>

BeginBlockContent(i) ==
  /\ phase = "content" /\ ledger.active = 0
  /\ ledger' = [ledger EXCEPT !.active = ledger.blocks[i].record]
  /\ undo' = Overtaken
  /\ UNCHANGED <<phase, alloc, held, scopes, lastWrite, written, skips, required,
                 result, calls, begun>>

EndBlockContent ==
  /\ phase = "content" /\ ledger.active # 0
  /\ ledger' = [ledger EXCEPT !.active = 0]
  /\ undo' = Overtaken
  /\ UNCHANGED <<phase, alloc, held, scopes, lastWrite, written, skips, required,
                 result, calls, begun>>

\* encodeEntityForWrite(), writeInsert(), writePolyline(): every part is framed
\* and listed, and the scope of the whole is kept for rollbackLast...().  The
\* filter writes an entity that has an owner within that block's content.
WriteEntity(e) ==
  /\ In("content") /\ Room(Len(Parts[e])) /\ Writable(e)
  /\ held[e].owner \in {0, ledger.active}
  /\ LET assigned == Assigned(e)[Len(Parts[e])]
     IN /\ alloc' = assigned.alloc
        /\ ledger' = Staged(e, assigned.handles)[Len(Parts[e])]
        /\ held' = Stamped(e, assigned.handles)
        /\ undo' = [frames |-> {assigned.handles[n] : n \in DOMAIN assigned.handles},
                    overtaken |-> FALSE]
  /\ scopes' = Remembered(PartsOf(e))
  /\ begun' = IF Tracking THEN begun ELSE Loosened(PartsOf(e))
  /\ lastWrite' = [checkpoint |-> Checkpoint(ledger, FALSE),
                   captured |-> Captured(PartsOf(e)), live |-> TRUE]
  /\ written' = written + 1 /\ calls' = calls + 1
  /\ UNCHANGED <<phase, skips, required, result>>

\* The same calls when a part cannot be encoded or listed: after n frames the
\* writer goes back to where it was and the callers' records are restored.
\* A failure over extended data is remembered for the whole file.
RejectEntity(e, n, eed) ==
  /\ In("content") /\ Room(Len(Parts[e]))
  /\ n < Len(Parts[e]) /\ (n > 0 => Writable(e)) /\ (eed => Writable(e))
  /\ LET assigned == Assigned(e)[Len(Parts[e])]
         staged == Staged(e, assigned.handles)[n]
     IN /\ alloc' = assigned.alloc
        /\ ledger' = [RolledBack(staged, Checkpoint(ledger, FALSE))
                        EXCEPT !.eed = @ \/ eed]
  /\ skips' = skips + 1 /\ calls' = calls + 1 /\ lastWrite' = NoWrite
  /\ UNCHANGED <<phase, held, scopes, written, required, result, begun, undo>>

\* Mutant: the checkpoint of an earlier entity stays armed over an object.
StillArmed == lastWrite
\* "Do not leave an earlier entity checkpoint armed for rollback after this
\* object."
Disarmed == NoWrite

\* writeObjectTransaction()
WriteObject(o) ==
  /\ In("content") /\ Room(1) /\ Taken(alloc, o) \notin Framed(ledger)
  /\ alloc' = Took(alloc, o)
  /\ ledger' = Framing(ledger, Taken(alloc, o), o)
  /\ held' = [held EXCEPT ![o].handle = Taken(alloc, o)]
  /\ scopes' = Remembered({o})
  /\ begun' = IF Tracking THEN begun ELSE Loosened({o})
  /\ lastWrite' = Disarmed
  /\ calls' = calls + 1
  /\ UNCHANGED <<phase, written, skips, required, result, undo>>

RejectObject(o) ==
  /\ In("content") /\ Room(1)
  /\ alloc' = Took(alloc, o)
  /\ ledger' = RolledBack(Framing(ledger, Taken(alloc, o), o), Checkpoint(ledger, FALSE))
  /\ lastWrite' = NoWrite /\ skips' = skips + 1 /\ calls' = calls + 1
  /\ UNCHANGED <<phase, held, scopes, written, required, result, begun, undo>>

\* writeRawDwgObject(), of an object that is no entity.
WriteRawDwgObject(h) ==
  /\ In("content") /\ h \notin Framed(ledger)
  /\ alloc' = Handle!Reserved(alloc, h)
  /\ ledger' = Framing(ledger, h, "raw")
  /\ calls' = calls + 1 /\ undo' = Overtaken
  /\ UNCHANGED <<phase, held, scopes, lastWrite, written, skips, required, result,
                 begun>>

---------------------------------------------------------------------------
(* Taking back.                                                              *)

\* restoreEntityWriteStates() and restoreTableWriteStates() go backwards, so
\* that the earliest capture of a record is the one that stays.
FirstCapture(captured, r) ==
  CHOOSE i \in DOMAIN captured :
    /\ r \in DOMAIN captured[i]
    /\ \A j \in 1..(i - 1) : r \notin DOMAIN captured[j]
Restored(captured) ==
  [r \in Records |-> IF \E i \in DOMAIN captured : r \in DOMAIN captured[i]
                     THEN captured[FirstCapture(captured, r)][r] ELSE held[r]]

\* forgetCallerMutations(): the latest capture of these records.
Forgotten(captured, R) ==
  LET mine == {i \in DOMAIN captured : DOMAIN captured[i] = R}
      last == CHOOSE i \in mine : \A j \in mine : j <= i
  IN IF mine = {} THEN captured
     ELSE [i \in 1..(Len(captured) - 1) |-> captured[IF i < last THEN i ELSE i + 1]]

\* rollbackLastDwgObjectWrite(): the documented use is right after the write.
UndoLast(restore) ==
  /\ phase = "content" /\ lastWrite.live
  /\ undo.overtaken => "undoLate" \in Habits
  /\ ledger' = RolledBack(ledger, lastWrite.checkpoint)
  /\ held' = IF restore THEN Restored(<<lastWrite.captured>>) ELSE held
  /\ scopes' = IF ~Tracking THEN scopes
               ELSE [scopes EXCEPT ![Len(scopes)].captured =
                       Forgotten(@, DOMAIN lastWrite.captured)]
  /\ begun' = IF restore THEN begun ELSE Loosened(DOMAIN lastWrite.captured)
  /\ lastWrite' = NoWrite
  /\ written' = IF written = 0 THEN 0 ELSE written - 1
  /\ UNCHANGED <<phase, alloc, skips, required, result, calls, undo>>

BeginScope(track, suppress, admission) ==
  /\ phase # "done" /\ Len(scopes) < MaxScopes
  /\ scopes' = Append(scopes,
                 [checkpoint |-> Checkpoint(ledger, admission), track |-> track,
                  suppress |-> suppress, written |-> written, skips |-> skips,
                  required |-> required, captured |-> <<>>])
  /\ begun' = Append(begun, [ledger |-> ledger, held |-> held, alloc |-> alloc,
                             written |-> written, loose |-> {}])
  /\ lastWrite' = NoWrite
  /\ UNCHANGED <<phase, alloc, ledger, held, written, skips, required, result,
                 calls, undo>>

Outer == SubSeq(scopes, 1, Len(scopes) - 1)

\* The captures go to the scope around, if that one tracks.
CommitScope ==
  /\ scopes # <<>>
  /\ LET inner == Innermost.captured
         kept == Outer # <<>> /\ Outer[Len(Outer)].track
         lost == UNION {DOMAIN inner[i] : i \in DOMAIN inner}
     IN /\ scopes' = IF kept THEN [Outer EXCEPT ![Len(Outer)].captured = @ \o inner]
                     ELSE Outer
        /\ begun' = [i \in DOMAIN Outer |->
                        IF kept THEN begun[i]
                        ELSE [begun[i] EXCEPT !.loose = @ \cup lost]]
  /\ lastWrite' = NoWrite
  /\ UNCHANGED <<phase, alloc, ledger, held, written, skips, required, result,
                 calls, undo>>

\* m_successfulEntityWrites goes back with the frames.
CountAfter == Innermost.written

RollbackScope ==
  /\ scopes # <<>>
  /\ ledger' = RolledBack(ledger, Innermost.checkpoint)
  /\ alloc' = AllocatorAfter(alloc)
  /\ held' = IF Innermost.track THEN Restored(Innermost.captured) ELSE held
  /\ scopes' = Outer
  /\ begun' = [i \in DOMAIN Outer |->
                 IF Innermost.track THEN begun[i]
                 ELSE [begun[i] EXCEPT !.loose = @ \cup begun[Len(begun)].loose]]
  /\ skips' = IF Innermost.suppress THEN Innermost.skips ELSE skips
  /\ required' = Innermost.required
  /\ written' = CountAfter
  /\ lastWrite' = NoWrite
  /\ UNCHANGED <<phase, result, calls, undo>>

\* markDwgWriteFailure()
MarkFailure ==
  /\ phase # "done" /\ ~required
  /\ required' = TRUE
  /\ UNCHANGED <<phase, alloc, ledger, held, scopes, lastWrite, written, skips,
                 result, calls, begun, undo>>

\* emitDeferredBlockControl(): every child a BLOCK_RECORD lists has a frame, and
\* no list names one twice.
Distinct(s) == \A i, j \in DOMAIN s : s[i] = s[j] => i = j
ListsEmit(l) == /\ l.active = 0
                /\ Listed(l) \subseteq Framed(l)
                /\ Distinct(l.model)
                /\ \A b \in DOMAIN l.blocks : Distinct(l.blocks[b].entities)

\* The callbacks are over: write() completes the file, or gives it up.
Finish ==
  /\ phase = "content" /\ scopes = <<>>
  /\ result' = IF ~required /\ ~ledger.eed /\ ListsEmit(ledger)
               THEN "published" ELSE "refused"
  /\ phase' = "done"
  /\ UNCHANGED <<alloc, ledger, held, scopes, lastWrite, written, skips, required,
                 calls, begun, undo>>

Next ==
  \/ \E x \in Layers : AddLayer(x)
  \/ StartContent
  \/ \E b \in Blocks : DefineBlock(b) \/ \E framed \in BOOLEAN : DefineBlockFails(b, framed)
  \/ \E i \in DOMAIN ledger.blocks : BeginBlockContent(i)
  \/ EndBlockContent
  \/ \E e \in Entities : \/ WriteEntity(e)
                        \/ \E n \in 0..(Len(Parts[e]) - 1), eed \in BOOLEAN :
                             RejectEntity(e, n, eed)
  \/ \E o \in Objects : WriteObject(o) \/ RejectObject(o)
  \/ \E h \in Raws : WriteRawDwgObject(h)
  \/ \E restore \in BOOLEAN : UndoLast(restore)
  \/ \E track, suppress, admission \in BOOLEAN : BeginScope(track, suppress, admission)
  \/ CommitScope
  \/ RollbackScope
  \/ MarkFailure
  \/ Finish

Spec == Init /\ [][Next]_vars

---------------------------------------------------------------------------
(* Properties.                                                               *)

\* Whatever was rolled back, an owner lists no entity whose frame is gone and no
\* entity twice: what emitDeferredBlockControl() checks never fails the save.
OwnersListFrames ==
  /\ Listed(ledger) \subseteq Framed(ledger)
  /\ \A b \in DOMAIN ledger.blocks : Distinct(ledger.blocks[b].entities)
  /\ Distinct(ledger.model)

\* The frames of an entity and its children are listed together, by one owner:
\* the open block, or model space.
CompoundsListedTogether ==
  \A e \in Entities :
    LET mine == {ledger.frames[i].handle :
                   i \in {j \in DOMAIN ledger.frames : ledger.frames[j].of \in PartsOf(e)}}
        lists == {ledger.model} \cup {ledger.blocks[b].entities : b \in DOMAIN ledger.blocks}
    IN \E list \in lists : mine \subseteq {list[i] : i \in DOMAIN list}

\* No two records of the caller carry one handle, and no record carries the
\* handle of somebody else's frame: a handle that was rolled back is never
\* minted again.
HandlesDistinct ==
  /\ \A r, q \in Records : held[r].handle = held[q].handle /\ r # q => held[r].handle = 0
  /\ \A i \in DOMAIN ledger.frames, r \in Records :
       ledger.frames[i].handle = held[r].handle => ledger.frames[i].of = r

\* A call that reports a skip leaves the frames, lists, blocks and the callers'
\* records as they were.
RefusedWriteChangesNothing ==
  [][skips' > skips => /\ [ledger' EXCEPT !.eed = ledger.eed] = ledger
                       /\ held' = held]_vars

\* Rolling back a scope takes the writer back to where the scope began, however
\* its inner scopes ended: "all serialized and completion ledgers are
\* transactional" (libdwgr.h).
RollbackRestores ==
  [][RollbackScope =>
       LET was == begun[Len(begun)]
       IN /\ ledger' = [was.ledger EXCEPT
                          !.eed = ledger.eed,
                          !.layers = IF Innermost.checkpoint.admission THEN @
                                     ELSE ledger.layers]
          /\ written' = was.written]_vars

\* t is s without its elements at the places in gone, all of them at its end.
CutOff(s, t, gone) ==
  \E n \in 0..Len(s) : t = SubSeq(s, 1, n) /\ gone = (n + 1)..Len(s)
OfLastWrite(list) == {i \in DOMAIN list : list[i] \in undo.frames}

\* rollbackLastDwgObjectWrite() takes back "the most recent top-level entity or
\* compound-entity write" and nothing else.
LastUndone ==
  [][(\E restore \in BOOLEAN : UndoLast(restore)) =>
       /\ CutOff(ledger.frames, ledger'.frames,
                 {i \in DOMAIN ledger.frames : ledger.frames[i].handle \in undo.frames})
       /\ CutOff(ledger.model, ledger'.model, OfLastWrite(ledger.model))
       /\ Len(ledger'.blocks) = Len(ledger.blocks)
       /\ \A b \in DOMAIN ledger.blocks :
            /\ ledger'.blocks[b].name = ledger.blocks[b].name
            /\ ledger'.blocks[b].record = ledger.blocks[b].record
            /\ CutOff(ledger.blocks[b].entities, ledger'.blocks[b].entities,
                      OfLastWrite(ledger.blocks[b].entities))
       /\ ledger'.active = ledger.active]_vars

\* Rolling back a scope that tracks its callers' records gives each of them the
\* handle and owner it had, those of committed inner scopes included, except
\* the records of scopes and calls that opted out.
TrackedCallersRestored ==
  [][RollbackScope /\ Innermost.track =>
       \A r \in Records \ begun[Len(begun)].loose :
         held'[r] = begun[Len(begun)].held[r]]_vars
=============================================================================
