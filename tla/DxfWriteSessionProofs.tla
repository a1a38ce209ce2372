------------------------ MODULE DxfWriteSessionProofs ------------------------
(* What a DXF write publishes, for any sources, blocks, preserved objects and *)
(* records: distinct handles below $HANDSEED and no dangling owner or         *)
(* reference, whatever was refused, aborted and rolled back, and exactly the  *)
(* records of the accepted calls; and that a rollback restores the maps its   *)
(* scope found.                                                               *)
EXTENDS DxfWriteSession, FiniteSetTheorems, SequenceTheorems, TLAPS

\* The theorems about the allocator.
HP == INSTANCE HandleAllocatorProofs WITH got <- 0

---------------------------------------------------------------------------
(* Values.                                                                   *)

Handles == 0..MaxHandle
Recs == [handle : Handles, owner : Handles \cup SourceOwners, refs : SUBSET Handles,
         call : Nat, source : Entities \cup {"fixed", "block", "group", "kept"}]
Maps == [minted : [Sources -> Handles], ambiguous : SUBSET Sources,
         written : SUBSET Sources, modelers : SUBSET Sources,
         blocks : [Blocks -> Handles]]
BlockStates == [open : BOOLEAN, record : Handles]

ScopeSet == [kind : RecordKinds \cup SectionKinds, call : Nat, handle : Handles,
             size : Nat, stage : {"open", "ended", "failed"}, records : Seq(Recs),
             previousError : BOOLEAN, checkpoint : Nat, block : BlockStates,
             pending : Nat, before : Maps]
Entries == [kind : {"source", "ambiguous", "written", "modeler", "block"},
            key : Sources \cup Blocks]

\* Handles of preserved objects that can be written.
Keeps == (Preserved \cup Layouts \cup {replacement}) \ {0, MaxHandle}

Has(st, h) == \E i \in 1..Len(st) : st[i].handle = h

---------------------------------------------------------------------------
(* What is true of the maps and the stream at every point a rollback can     *)
(* return to.  A handle is claimed by the source it was planned for or given *)
(* to, by a block, by an object to keep or by the codec.                     *)

Claimers == Sources \cup {"block", "kept", "fixed"}
Three(record) == IF record = 0 THEN {} ELSE {record, record + 1, record + 2}
Claim(mp, K, x) == CASE x \in Sources -> {mp.minted[x]} \ {0}
                     [] x = "block"   -> UNION {Three(mp.blocks[b]) : b \in Blocks}
                     [] x = "kept"    -> K
                     [] x = "fixed"   -> FixedHandles

ClaimsApart(mp, K) ==
  /\ \A x, y \in Claimers : x # y => Claim(mp, K, x) \cap Claim(mp, K, y) = {}
  /\ \A b, c \in Blocks : b # c => Three(mp.blocks[b]) \cap Three(mp.blocks[c]) = {}
\* What has a claimed handle is what claimed it.
Obeyed(mp, K, st) ==
  \A i \in 1..Len(st), x \in Claimers :
    st[i].handle \in Claim(mp, K, x) => st[i].source = x
Below(mp, K, st, n) ==
  /\ \A i \in 1..Len(st) : st[i].handle < n
  /\ \A x \in Claimers : \A h \in Claim(mp, K, x) : h < n
Unique(mp, st) ==
  \A i, j \in 1..Len(st) :
    st[i].handle = st[j].handle
    => \/ i = j
       \/ /\ "share" \in Habits /\ st[i].source = st[j].source
          /\ st[i].source \in Sources \ mp.ambiguous
Marked(mp, st) == \A i \in 1..Len(st) : st[i].source \in Sources => st[i].source \in mp.written
OneModeler(mp, st) ==
  \A s \in mp.modelers :
    /\ s \in mp.written
    /\ \E i \in 1..Len(st) :
         st[i].source = s /\ \A j \in 1..Len(st) : st[j].source = s => j = i
\* A record's owner is in the stream, or the filter named it.
Owned(st) ==
  \A i \in 1..Len(st) : Has(st, st[i].owner) \/ st[i].owner \in SourceOwners
Based(mp, st) == /\ \A h \in FixedHandles : Has(st, h)
                 /\ \A b \in Blocks : mp.blocks[b] # 0 => Has(st, mp.blocks[b])
Referred(mp, st) ==
  "preallocate" \notin Habits =>
    /\ \A s \in Sources : mp.minted[s] # 0 => Has(st, mp.minted[s])
    /\ \A i \in 1..Len(st) : \A h \in st[i].refs : Has(st, h)

Coherent(mp, st, K, n) ==
  /\ mp \in Maps /\ st \in Seq(Recs)
  /\ ClaimsApart(mp, K) /\ Obeyed(mp, K, st) /\ Below(mp, K, st, n)
  /\ Unique(mp, st) /\ Marked(mp, st) /\ OneModeler(mp, st)
  /\ Owned(st) /\ Based(mp, st) /\ Referred(mp, st)

---------------------------------------------------------------------------
(* The points a rollback can return to: below each record scope.             *)

Lo == IF phase = "entities" THEN 0 ELSE 1    \* the scopes around no record
BaseStream == CASE phase = "blockRecords" -> FixedRecords \o pending
                [] phase = "entities"     -> file
                [] OTHER                  -> file \o scopes[1].records
\* The stream as the innermost scope sees it: at most a record and an attribute
\* of it are open.
StreamIn(lo, base, sc) ==
  CASE Len(sc) = lo     -> base
    [] Len(sc) = lo + 1 -> base \o sc[lo + 1].records
    [] OTHER            -> (base \o sc[lo + 1].records) \o sc[lo + 2].records
WorldsIn(lo, base, sc, mp, K, n) ==
  /\ Coherent(mp, StreamIn(lo, base, sc), K, n)
  /\ Len(sc) > lo => Coherent(sc[lo + 1].before, base, K, n)
  /\ Len(sc) > lo + 1 =>
       Coherent(sc[lo + 2].before, base \o sc[lo + 1].records, K, n)

\* hist leads from the maps a to the maps b, one log entry after the other.
Path(a, b, lg, from, to) ==
  /\ from \in Nat /\ to \in Nat /\ from <= to
  /\ \E hist : /\ hist[from] = a /\ hist[to] = b
               /\ \A i \in (from + 1)..to : hist[i - 1] = UndoEntry(hist[i], lg[i])
PathsIn(lo, sc, mp, lg) ==
  /\ Len(sc) = lo + 1 =>
       Path(sc[lo + 1].before, mp, lg, sc[lo + 1].checkpoint, Len(lg))
  /\ Len(sc) > lo + 1 =>
       /\ Path(sc[lo + 1].before, sc[lo + 2].before, lg, sc[lo + 1].checkpoint,
               sc[lo + 2].checkpoint)
       /\ Path(sc[lo + 2].before, mp, lg, sc[lo + 2].checkpoint, Len(lg))

Phases == {"idle", "blockRecords", "blocks", "entities", "objects"}
ScopesIn(lo, ph, sc) ==
  /\ sc \in Seq(ScopeSet) /\ Len(sc) \in lo..(lo + 2)
  /\ \A k \in 1..Len(sc) : sc[k].kind \in RecordKinds <=> k > lo
  /\ Len(sc) > lo => ph \in {"blocks", "entities"} /\ sc[lo + 1].kind # "attrib"
  /\ Len(sc) > lo + 1 => sc[lo + 1].kind = "insert" /\ sc[lo + 2].kind = "attrib"
\* What a record scope holds and remembers.
RecordScope(sc, bl, n, bks) ==
  /\ sc.stage # "failed" => Has(sc.records, sc.handle)
  /\ \A i \in 1..Len(sc.records) : sc.records[i].source \in Entities
  /\ sc.block = bl /\ sc.pending = n /\ sc.before.blocks = bks
HoldsIn(lo, sc, bl, n, bks) ==
  \A k \in (lo + 1)..Len(sc) : RecordScope(sc[k], bl, n, bks)

\* What the sections built so far hold.
TablesOnly(st, bks) ==
  \A i \in 1..Len(st) : \/ st[i].handle \in FixedHandles
                        \/ \E b \in Blocks : st[i].handle = bks[b] /\ bks[b] # 0
BlocksBegun(st, bl, bks) ==
  /\ \A b \in Blocks :
       bks[b] # 0 /\ Has(st, bks[b] + 2)
       => Has(st, bks[b] + 1) /\ ~(bl.open /\ bl.record = bks[b])
  /\ bl.open => /\ Has(st, bl.record + 1)
                /\ \E b \in Blocks : bl.record = bks[b] /\ bks[b] # 0
NoneKept(st) == \A i \in 1..Len(st) : st[i].source # "kept"
ValuesOK == /\ block \in BlockStates /\ log \in Seq(Entries) /\ pending \in Seq(Recs)
            /\ file \in Seq(Recs) /\ writerError \in BOOLEAN /\ calls \in Nat
SectionsOK ==
  /\ phase = "blockRecords" => TablesOnly(BaseStream, maps.blocks) /\ scopes[1].records = <<>>
  /\ phase = "blocks" => TablesOnly(file, maps.blocks) /\ BlocksBegun(BaseStream, block, maps.blocks)
  /\ phase = "entities" => ~block.open
  /\ phase # "objects" => NoneKept(BaseStream)
  /\ phase = "objects" => NoneKept(file)

\* What the allocator holds, and what it holds for the application.
AllocOK ==
  /\ HP!Sound(alloc)
  /\ replacement \in Handles
  /\ replacement # 0 => /\ replacement \in alloc.explicitReserved
                        /\ replacement >= FirstHandle /\ replacement < MaxHandle
KeepsHeld == Keeps \subseteq alloc.explicitReserved /\ FixedHandles \subseteq alloc.explicitReserved

Session == /\ KeepsHeld /\ ValuesOK /\ SectionsOK
           /\ ScopesIn(Lo, phase, scopes)
           /\ HoldsIn(Lo, scopes, block, Len(pending), maps.blocks)
           /\ WorldsIn(Lo, BaseStream, scopes, maps, Keeps, alloc.next)
           /\ PathsIn(Lo, scopes, maps, log)
IInv == /\ phase \in Phases /\ AllocOK
        /\ phase = "idle" => scopes = <<>>
        /\ phase # "idle" => Session

---------------------------------------------------------------------------
(* The allocator.                                                            *)

LEMMA HandleSpace == HP!HandleAssumption
BY SessionAssumption DEF HP!HandleAssumption

LEMMA SameAllocator ==
  ASSUME NEW a, NEW h
  PROVE  /\ Handle!CanMint(a) = HP!CanMint(a) /\ Handle!MintedHandle(a) = HP!MintedHandle(a)
         /\ Handle!Minted(a) = HP!Minted(a) /\ Handle!Exhausted(a) = HP!Exhausted(a)
         /\ Handle!CanReserve(a, h) = HP!CanReserve(a, h)
         /\ Handle!Reserved(a, h) = HP!Reserved(a, h)
         /\ Handle!Seeded(a) = HP!Seeded(a)
         /\ Handle!ResetGenerated(a) = HP!ResetGenerated(a)
         /\ Handle!NewAllocator = HP!NewAllocator
<1>1. Handle!Unused(a) = HP!Unused(a)
  BY DEF HP!Unused, Handle!Unused, HP!IsReserved, Handle!IsReserved
<1>2. Handle!MintedHandle(a) = HP!MintedHandle(a)
  BY <1>1 DEF HP!MintedHandle, Handle!MintedHandle
<1>3. Handle!CanMint(a) = HP!CanMint(a)
  BY <1>1 DEF HP!CanMint, Handle!CanMint
<1>4. \A H : Handle!Highest(H) = HP!Highest(H)
  BY DEF Handle!Highest, HP!Highest
<1>5. Handle!ResetGenerated(a) = HP!ResetGenerated(a)
  BY <1>4 DEF Handle!ResetGenerated, HP!ResetGenerated
<1> QED BY <1>2, <1>3, <1>5
        DEF HP!Minted, Handle!Minted, HP!Exhausted, Handle!Exhausted, HP!CanReserve,
            Handle!CanReserve, HP!Reserved, Handle!Reserved, HP!Seeded, Handle!Seeded,
            HP!NewAllocator, Handle!NewAllocator

LEMMA SoundIs ==
  ASSUME NEW a, HP!Sound(a)
  PROVE  /\ a.next \in Handles /\ a.next >= FirstHandle /\ a.next # 0 /\ a.next \in Nat
         /\ MaxHandle \in Nat /\ FirstHandle \in Nat /\ a.next <= MaxHandle
         /\ \A h \in a.explicitReserved : h < a.next /\ h \in Handles
BY SessionAssumption DEF HP!Sound, HP!Allocator, HP!Handles, Handles

LEMMA MintIs ==
  ASSUME NEW a, HP!Sound(a), Handle!CanMint(a)
  PROVE  /\ HP!Sound(Handle!Minted(a)) /\ Handle!MintedHandle(a) = a.next
         /\ a.next < MaxHandle /\ Handle!Minted(a).next = a.next + 1
         /\ Handle!Minted(a).explicitReserved = a.explicitReserved
<1>1. HP!CanMint(a)
  BY SameAllocator
<1>2. HP!MintedHandle(a) = a.next /\ a.next \in FirstHandle..(MaxHandle - 1)
  BY <1>1, HandleSpace, HP!MintTakesNext
<1>3. HP!Sound(HP!Minted(a))
  BY <1>1, HandleSpace, HP!MintSound
<1>4. HP!Minted(a).next = a.next + 1 /\ HP!Minted(a).explicitReserved = a.explicitReserved
  BY <1>2 DEF HP!Minted
<1>5. a.next < MaxHandle
  BY <1>2, SessionAssumption
<1> QED BY <1>2, <1>3, <1>4, <1>5, SameAllocator

LEMMA ExhaustIs ==
  ASSUME NEW a, HP!Sound(a), ~Handle!CanMint(a)
  PROVE  /\ HP!Sound(Handle!Exhausted(a)) /\ Handle!Exhausted(a).next = MaxHandle
         /\ Handle!Exhausted(a).explicitReserved = a.explicitReserved
         /\ a.next <= MaxHandle
<1>1. HP!Sound(HP!Exhausted(a))
  BY HandleSpace, HP!ExhaustSound, SameAllocator
<1>2. HP!Exhausted(a).next = MaxHandle
      /\ HP!Exhausted(a).explicitReserved = a.explicitReserved
  BY DEF HP!Exhausted
<1> QED BY <1>1, <1>2, SameAllocator, SoundIs

\* reserve() takes every handle but the largest one.
LEMMA ReserveIs ==
  ASSUME NEW a, HP!Sound(a), NEW h \in Handles, Handle!CanReserve(a, h)
  PROVE  /\ HP!Sound(Handle!Reserved(a, h)) /\ h < MaxHandle
         /\ a.next <= Handle!Reserved(a, h).next
         /\ Handle!Reserved(a, h).next = (IF h >= a.next THEN h + 1 ELSE a.next)
         /\ Handle!Reserved(a, h).explicitReserved = a.explicitReserved \cup {h}
<1>1. h \in HP!Handles /\ HP!CanReserve(a, h)
  BY SameAllocator DEF Handles, HP!Handles
<1>2. HP!Sound(HP!Reserved(a, h))
  BY <1>1, HandleSpace, HP!ReserveSound
<1>3. /\ HP!Reserved(a, h).next = (IF h >= a.next THEN h + 1 ELSE a.next)
      /\ HP!Reserved(a, h).explicitReserved = a.explicitReserved \cup {h}
  BY DEF HP!Reserved
<1>4. /\ a.next \in Nat /\ a.next <= MaxHandle /\ MaxHandle \in Nat
      /\ h \in Nat /\ h <= MaxHandle
  BY SoundIs, SessionAssumption DEF Handles
<1>5. h < MaxHandle /\ a.next <= HP!Reserved(a, h).next
  BY <1>1, <1>3, <1>4 DEF HP!CanReserve
<1> QED BY <1>2, <1>3, <1>5, SameAllocator

LEMMA ReservableIs ==
  ASSUME NEW a, HP!Sound(a), NEW h \in Handles, h < MaxHandle
  PROVE  Handle!CanReserve(a, h)
BY SessionAssumption DEF Handle!CanReserve, Handles

LEMMA ResetIs ==
  ASSUME NEW a, HP!Sound(a)
  PROVE  LET b == Handle!Seeded(Handle!ResetGenerated(a))
         IN /\ HP!Sound(b)
            /\ b.explicitReserved = a.explicitReserved \cup FixedHandles
<1>1. HP!Sound(HP!ResetGenerated(a))
  BY HandleSpace, HP!ResetSound
<1>2. HP!Sound(HP!Seeded(HP!ResetGenerated(a)))
  BY <1>1, HandleSpace, HP!SeedSound
<1>3. HP!Seeded(HP!ResetGenerated(a)).explicitReserved = a.explicitReserved \cup FixedHandles
  BY DEF HP!Seeded, HP!ResetGenerated
<1> QED BY <1>2, <1>3, SameAllocator

---------------------------------------------------------------------------
(* Claims and streams.                                                       *)

LEMMA Tags ==
  /\ NoSource \notin Sources /\ "fixed" \notin Sources /\ "block" \notin Sources
  /\ "group" \notin Sources /\ "kept" \notin Sources /\ NoSource = "none"
  /\ NoSource \notin Claimers /\ "group" \notin Claimers
  /\ MaxHandle \in Nat /\ FirstHandle \in Nat
  /\ FixedHandles \subseteq Handles /\ \A h \in FixedHandles : h < FirstHandle /\ h # 0
BY SessionAssumption DEF NoSource, Claimers, Handles

LEMMA ClaimIs ==
  ASSUME NEW mp, NEW K
  PROVE  /\ \A s \in Sources : Claim(mp, K, s) = {mp.minted[s]} \ {0}
         /\ Claim(mp, K, "block") = UNION {Three(mp.blocks[b]) : b \in Blocks}
         /\ Claim(mp, K, "kept") = K /\ Claim(mp, K, "fixed") = FixedHandles
<1>1. \A s \in Sources : s # "block" /\ s # "kept" /\ s # "fixed"
  BY Tags
<1>2. \A s \in Sources : Claim(mp, K, s) = {mp.minted[s]} \ {0}
  BY <1>1 DEF Claim
<1>3. Claim(mp, K, "block") = UNION {Three(mp.blocks[b]) : b \in Blocks}
  BY Tags DEF Claim
<1>4. Claim(mp, K, "kept") = K
  BY Tags DEF Claim
<1>5. Claim(mp, K, "fixed") = FixedHandles
  BY Tags DEF Claim
<1> QED BY <1>2, <1>3, <1>4, <1>5

LEMMA SourceClaim ==
  ASSUME NEW mp, NEW K, NEW s \in Sources
  PROVE  Claim(mp, K, s) = {mp.minted[s]} \ {0}
<1>1. s # "block" /\ s # "kept" /\ s # "fixed"
  BY Tags
<1> QED BY <1>1 DEF Claim

LEMMA SameClaim ==
  ASSUME NEW mp, NEW m, NEW K, NEW x \in Claimers,
         x \in Sources => m.minted[x] = mp.minted[x], x = "block" => m.blocks = mp.blocks
  PROVE  Claim(m, K, x) = Claim(mp, K, x)
<1>1. CASE x \in Sources
  <2>1. Claim(m, K, x) = {m.minted[x]} \ {0}
    BY <1>1, SourceClaim
  <2>2. Claim(mp, K, x) = {mp.minted[x]} \ {0}
    BY <1>1, SourceClaim
  <2> QED BY <1>1, <2>1, <2>2
<1>2. CASE x = "block"
  <2>1. Claim(m, K, "block") = UNION {Three(m.blocks[b]) : b \in Blocks}
    BY ClaimIs
  <2>2. Claim(mp, K, "block") = UNION {Three(mp.blocks[b]) : b \in Blocks}
    BY ClaimIs
  <2> QED BY <1>2, <2>1, <2>2
<1>3. CASE x = "kept" \/ x = "fixed"
  <2>1. Claim(m, K, "kept") = K /\ Claim(m, K, "fixed") = FixedHandles
    BY ClaimIs
  <2>2. Claim(mp, K, "kept") = K /\ Claim(mp, K, "fixed") = FixedHandles
    BY ClaimIs
  <2> QED BY <1>3, <2>1, <2>2
<1> QED BY <1>1, <1>2, <1>3 DEF Claimers

LEMMA BlockClaim ==
  ASSUME NEW mp, NEW K, NEW h
  PROVE  h \in Claim(mp, K, "block") <=>
           \E b \in Blocks : /\ mp.blocks[b] # 0
                             /\ h \in {mp.blocks[b], mp.blocks[b] + 1, mp.blocks[b] + 2}
BY ClaimIs DEF Three

LEMMA ClaimersAre ==
  ASSUME NEW x \in Claimers
  PROVE  x \in Sources \/ x = "block" \/ x = "kept" \/ x = "fixed"
BY DEF Claimers

LEMMA MapParts ==
  ASSUME NEW mp \in Maps
  PROVE  /\ mp = [minted |-> mp.minted, ambiguous |-> mp.ambiguous, written |-> mp.written,
                  modelers |-> mp.modelers, blocks |-> mp.blocks]
         /\ mp.minted \in [Sources -> Handles] /\ mp.ambiguous \in SUBSET Sources
         /\ mp.written \in SUBSET Sources /\ mp.modelers \in SUBSET Sources
         /\ mp.blocks \in [Blocks -> Handles]
         /\ \A s \in Sources : mp.minted[s] \in Nat /\ mp.minted[s] <= MaxHandle
         /\ \A b \in Blocks : mp.blocks[b] \in Nat /\ mp.blocks[b] <= MaxHandle
BY Tags DEF Maps, Handles

LEMMA ClaimNat ==
  ASSUME NEW mp \in Maps, NEW K \in SUBSET Handles, NEW x \in Claimers
  PROVE  Claim(mp, K, x) \subseteq Nat
<1>0. /\ \A s \in Sources : Claim(mp, K, s) = {mp.minted[s]} \ {0}
      /\ Claim(mp, K, "kept") = K /\ Claim(mp, K, "fixed") = FixedHandles
  BY ClaimIs
<1>1. CASE x \in Sources
  <2>1. mp.minted[x] \in Nat
    BY <1>1, MapParts
  <2> QED BY <1>0, <1>1, <2>1
<1>2. CASE x = "block"
  <2>1. ASSUME NEW h \in Claim(mp, K, "block") PROVE h \in Nat
    BY BlockClaim, MapParts
  <2> QED BY <1>2, <2>1
<1>3. CASE x = "kept" \/ x = "fixed"
  <2>1. K \subseteq Nat /\ FixedHandles \subseteq Nat
    BY Tags DEF Handles
  <2> QED BY <1>0, <1>3, <2>1
<1> QED BY <1>1, <1>2, <1>3, ClaimersAre

LEMMA RecParts ==
  ASSUME NEW r \in Recs
  PROVE  /\ r = [handle |-> r.handle, owner |-> r.owner, refs |-> r.refs,
                 call |-> r.call, source |-> r.source]
         /\ r.handle \in Handles /\ r.handle \in Nat
         /\ r.refs \in SUBSET Handles /\ r.call \in Nat
         /\ r.source \in Entities \cup {"fixed", "block", "group", "kept"}
BY Tags DEF Recs, Handles

LEMMA RecordIs ==
  ASSUME NEW h \in Handles, NEW owner, owner \in Handles \/ owner \in SourceOwners,
         NEW refs \in SUBSET Handles, NEW call \in Nat,
         NEW source \in Entities \cup {"fixed", "block", "group", "kept"}
  PROVE  /\ Record(h, owner, refs, call, source) \in Recs
         /\ Record(h, owner, refs, call, source).handle = h
         /\ Record(h, owner, refs, call, source).owner = owner
         /\ Record(h, owner, refs, call, source).refs = refs
         /\ Record(h, owner, refs, call, source).call = call
         /\ Record(h, owner, refs, call, source).source = source
BY DEF Record, Recs

LEMMA StreamIs ==
  ASSUME NEW st \in Seq(Recs)
  PROVE  /\ Len(st) \in Nat /\ DOMAIN st = 1..Len(st)
         /\ \A i \in 1..Len(st) : st[i] \in Recs
BY LenProperties, ElementOfSeq

LEMMA OneMore ==
  ASSUME NEW S, NEW st \in Seq(S), NEW r \in S
  PROVE  /\ st \o <<r>> \in Seq(S) /\ Len(st \o <<r>>) = Len(st) + 1
         /\ \A i \in 1..Len(st) : (st \o <<r>>)[i] = st[i]
         /\ (st \o <<r>>)[Len(st) + 1] = r /\ Len(st) \in Nat
<1>1. <<r>> \in Seq(S) /\ Len(<<r>>) = 1 /\ <<r>>[1] = r
  OBVIOUS
<1>2. Len(st) \in Nat
  BY LenProperties
<1> QED BY <1>1, <1>2, ConcatProperties

LEMMA HasMore ==
  ASSUME NEW st \in Seq(Recs), NEW r \in Recs, NEW h
  PROVE  Has(st \o <<r>>, h) <=> Has(st, h) \/ h = r.handle
<1> DEFINE w == st \o <<r>>
<1>1. /\ Len(w) = Len(st) + 1 /\ \A i \in 1..Len(st) : w[i] = st[i]
      /\ w[Len(st) + 1] = r /\ Len(st) \in Nat
  BY OneMore
<1> HIDE DEF w
<1>2. \A i \in 1..Len(w) : i \in 1..Len(st) \/ i = Len(st) + 1
  BY <1>1
<1>3. \A i \in 1..Len(st) : i \in 1..Len(w)
  BY <1>1
<1>4. Len(st) + 1 \in 1..Len(w)
  BY <1>1
<1> QED BY <1>1, <1>2, <1>3, <1>4 DEF Has, w

---------------------------------------------------------------------------
(* How what is coherent stays so.                                            *)

LEMMA CoherentGrows ==
  ASSUME NEW mp, NEW st, NEW K \in SUBSET Handles, NEW n \in Nat, NEW m \in Nat, n <= m,
         Coherent(mp, st, K, n)
  PROVE  Coherent(mp, st, K, m)
<1>1. \A i \in 1..Len(st) : st[i].handle \in Nat /\ st[i].handle < n
  BY StreamIs, RecParts DEF Coherent, Below
<1>2. \A x \in Claimers : \A h \in Claim(mp, K, x) : h \in Nat /\ h < n
  BY ClaimNat DEF Coherent, Below
<1>3. Below(mp, K, st, m)
  BY <1>1, <1>2 DEF Below
<1> QED BY <1>3 DEF Coherent

\* From the next handle on nothing is claimed or in the stream.
LEMMA AllBelow ==
  ASSUME NEW mp, NEW st, NEW K \in SUBSET Handles, NEW n \in Nat,
         Coherent(mp, st, K, n), NEW h \in Nat, h >= n
  PROVE  /\ \A i \in 1..Len(st) : st[i].handle # h
         /\ \A x \in Claimers : h \notin Claim(mp, K, x)
<1>1. \A i \in 1..Len(st) : st[i].handle \in Nat /\ st[i].handle < n
  BY StreamIs, RecParts DEF Coherent, Below
<1>2. \A x \in Claimers : \A g \in Claim(mp, K, x) : g \in Nat /\ g < n
  BY ClaimNat DEF Coherent, Below
<1> QED BY <1>1, <1>2

LEMMA RecordCoherent ==
  ASSUME NEW mp, NEW st, NEW K \in SUBSET Handles, NEW n \in Nat, Coherent(mp, st, K, n),
         NEW r \in Recs, r.handle < n,
         \A x \in Claimers : r.handle \in Claim(mp, K, x) => r.source = x,
         \A i \in 1..Len(st) :
           st[i].handle = r.handle => /\ "share" \in Habits /\ st[i].source = r.source
                                      /\ r.source \in Sources \ mp.ambiguous,
         r.source \in Sources => r.source \in mp.written /\ r.source \notin mp.modelers,
         Has(st, r.owner) \/ r.owner \in SourceOwners,
         "preallocate" \notin Habits => \A h \in r.refs : Has(st, h)
  PROVE  Coherent(mp, st \o <<r>>, K, n)
<1> DEFINE w == st \o <<r>>
           L == Len(st) + 1
<1>1. /\ st \in Seq(Recs) /\ w \in Seq(Recs) /\ Len(w) = L
      /\ \A i \in 1..Len(st) : w[i] = st[i]
      /\ w[L] = r /\ Len(st) \in Nat
  BY OneMore DEF Coherent
<1> HIDE DEF w
<1>2. \A i \in 1..Len(w) : i \in 1..Len(st) \/ i = L
  BY <1>1
<1>3. \A i \in 1..Len(st) : i \in 1..Len(w) /\ i # L
  BY <1>1
<1>4. \A h : Has(w, h) <=> Has(st, h) \/ h = r.handle
  BY <1>1, HasMore DEF w
<1>5. L \in 1..Len(w)
  BY <1>1
<1> HIDE DEF L
<1>6. Obeyed(mp, K, w)
  BY <1>1, <1>2 DEF Coherent, Obeyed
<1>7. Below(mp, K, w, n)
  BY <1>1, <1>2 DEF Coherent, Below
<1>8. Unique(mp, w)
  <2>1. SUFFICES ASSUME NEW i \in 1..Len(w), NEW j \in 1..Len(w), w[i].handle = w[j].handle,
                        i # j
                 PROVE  /\ "share" \in Habits /\ w[i].source = w[j].source
                        /\ w[i].source \in Sources \ mp.ambiguous
    BY DEF Unique
  <2>2. CASE i \in 1..Len(st) /\ j \in 1..Len(st)
    BY <1>1, <2>1, <2>2 DEF Coherent, Unique
  <2>3. CASE i = L /\ j \in 1..Len(st)
    BY <1>1, <2>1, <2>3
  <2>4. CASE j = L /\ i \in 1..Len(st)
    BY <1>1, <2>1, <2>4
  <2> QED BY <1>2, <2>1, <2>2, <2>3, <2>4
<1>9. Marked(mp, w)
  BY <1>1, <1>2 DEF Coherent, Marked
<1>10. OneModeler(mp, w)
  <2>1. SUFFICES ASSUME NEW s \in mp.modelers
                 PROVE  /\ s \in mp.written
                        /\ \E i \in 1..Len(w) :
                             /\ w[i].source = s
                             /\ \A j \in 1..Len(w) : w[j].source = s => j = i
    BY DEF OneModeler
  <2>2. PICK i \in 1..Len(st) : /\ st[i].source = s
                                /\ \A j \in 1..Len(st) : st[j].source = s => j = i
    BY DEF Coherent, OneModeler
  <2>3. s \in mp.written /\ s \in Sources
    BY MapParts DEF Coherent, OneModeler
  <2>4. r.source # s
    BY <2>3
  <2>5. i \in 1..Len(w) /\ w[i].source = s
    BY <1>1, <1>3, <2>2
  <2>6. \A j \in 1..Len(w) : w[j].source = s => j = i
    BY <1>1, <1>2, <2>2, <2>4
  <2> QED BY <2>3, <2>5, <2>6
<1>11. Owned(w)
  BY <1>1, <1>2, <1>4 DEF Coherent, Owned
<1>12. Based(mp, w)
  BY <1>4 DEF Coherent, Based
<1>13. Referred(mp, w)
  BY <1>1, <1>2, <1>4 DEF Coherent, Referred
<1> QED BY <1>1, <1>6, <1>7, <1>8, <1>9, <1>10, <1>11, <1>12, <1>13 DEF Coherent, w

\* Entering a claim in the maps.
LEMMA EnterMinted ==
  ASSUME NEW mp, NEW st, NEW K \in SUBSET Handles, NEW n \in Nat, Coherent(mp, st, K, n),
         NEW s \in Sources, mp.minted[s] = 0, NEW h \in Handles, h # 0, h < n,
         \A x \in Claimers : h \notin Claim(mp, K, x),
         \A i \in 1..Len(st) : st[i].handle = h => st[i].source = s,
         "preallocate" \notin Habits => Has(st, h)
  PROVE  Coherent([mp EXCEPT !.minted[s] = h], st, K, n)
<1> DEFINE m == [mp EXCEPT !.minted[s] = h]
<1>1. mp \in Maps
  BY DEF Coherent
<1>2. /\ m.minted = [mp.minted EXCEPT ![s] = h] /\ m.ambiguous = mp.ambiguous
      /\ m.written = mp.written /\ m.modelers = mp.modelers /\ m.blocks = mp.blocks
      /\ m \in Maps
  BY <1>1 DEF Maps
<1>3. m.minted[s] = h /\ \A q \in Sources \ {s} : m.minted[q] = mp.minted[q]
  BY <1>1, <1>2, MapParts
<1> HIDE DEF m
<1>4. \A x \in Claimers : x # s => Claim(m, K, x) = Claim(mp, K, x)
  <2>1. ASSUME NEW x \in Claimers, x # s PROVE Claim(m, K, x) = Claim(mp, K, x)
    <3>1. x \in Sources => m.minted[x] = mp.minted[x]
      BY <1>3, <2>1
    <3>2. x = "block" => m.blocks = mp.blocks
      BY <1>2
    <3> QED BY <3>1, <3>2, SameClaim
  <2> QED BY <2>1
<1>5. Claim(m, K, s) = {h} /\ s \in Claimers
  <2>1. Claim(m, K, s) = {m.minted[s]} \ {0}
    BY SourceClaim
  <2> QED BY <1>3, <2>1 DEF Claimers
<1>6. ClaimsApart(m, K)
  <2>1. ASSUME NEW x \in Claimers, NEW y \in Claimers, x # y
        PROVE  Claim(m, K, x) \cap Claim(m, K, y) = {}
    <3>1. CASE x # s /\ y # s
      BY <1>4, <2>1, <3>1 DEF Coherent, ClaimsApart
    <3>2. CASE x = s
      BY <1>4, <1>5, <2>1, <3>2
    <3>3. CASE y = s
      BY <1>4, <1>5, <2>1, <3>3
    <3> QED BY <3>1, <3>2, <3>3
  <2> QED BY <1>2, <2>1 DEF Coherent, ClaimsApart
<1>7. Obeyed(m, K, st)
  <2>1. ASSUME NEW i \in 1..Len(st), NEW x \in Claimers, st[i].handle \in Claim(m, K, x)
        PROVE  st[i].source = x
    <3>1. CASE x = s
      BY <1>5, <2>1, <3>1
    <3>2. CASE x # s
      BY <1>4, <2>1, <3>2 DEF Coherent, Obeyed
    <3> QED BY <3>1, <3>2
  <2> QED BY <2>1 DEF Obeyed
<1>8. Below(m, K, st, n)
  <2>1. ASSUME NEW x \in Claimers, NEW g \in Claim(m, K, x) PROVE g < n
    <3>1. CASE x = s
      BY <1>5, <3>1
    <3>2. CASE x # s
      BY <1>4, <3>2 DEF Coherent, Below
    <3> QED BY <3>1, <3>2
  <2> QED BY <2>1 DEF Coherent, Below
<1>9. Unique(m, st) /\ Marked(m, st) /\ OneModeler(m, st) /\ Based(m, st)
  <2>1. Unique(m, st)
    BY <1>2 DEF Coherent, Unique
  <2>2. Marked(m, st)
    BY <1>2 DEF Coherent, Marked
  <2>3. OneModeler(m, st)
    BY <1>2 DEF Coherent, OneModeler
  <2>4. Based(m, st)
    BY <1>2 DEF Coherent, Based
  <2> QED BY <2>1, <2>2, <2>3, <2>4
<1>10. Referred(m, st)
  BY <1>3 DEF Coherent, Referred
<1> QED BY <1>2, <1>6, <1>7, <1>8, <1>9, <1>10 DEF Coherent, m

LEMMA SameClaims ==
  ASSUME NEW mp, NEW m, NEW K, m.minted = mp.minted, m.blocks = mp.blocks
  PROVE  /\ \A x \in Claimers : Claim(m, K, x) = Claim(mp, K, x)
         /\ ClaimsApart(mp, K) => ClaimsApart(m, K)
         /\ \A st : Obeyed(mp, K, st) => Obeyed(m, K, st)
         /\ \A st, n : Below(mp, K, st, n) => Below(m, K, st, n)
         /\ \A st : Based(mp, st) => Based(m, st)
         /\ \A st : Referred(mp, st) => Referred(m, st)
<1>1. \A x \in Claimers : Claim(m, K, x) = Claim(mp, K, x)
  <2>1. ASSUME NEW x \in Claimers PROVE Claim(m, K, x) = Claim(mp, K, x)
    BY SameClaim
  <2> QED BY <2>1
<1>2. ClaimsApart(mp, K) => ClaimsApart(m, K)
  BY <1>1 DEF ClaimsApart
<1>3. \A st : Obeyed(mp, K, st) => Obeyed(m, K, st)
  BY <1>1 DEF Obeyed
<1>4. \A st, n : Below(mp, K, st, n) => Below(m, K, st, n)
  BY <1>1 DEF Below
<1>5. \A st : Based(mp, st) => Based(m, st)
  BY DEF Based
<1>6. \A st : Referred(mp, st) => Referred(m, st)
  BY DEF Referred
<1> QED BY <1>1, <1>2, <1>3, <1>4, <1>5, <1>6

LEMMA EnterWritten ==
  ASSUME NEW mp, NEW st, NEW K, NEW n, Coherent(mp, st, K, n), NEW W, W \subseteq Sources
  PROVE  Coherent([mp EXCEPT !.written = @ \cup W], st, K, n)
<1> DEFINE m == [mp EXCEPT !.written = @ \cup W]
<1>1. /\ m.minted = mp.minted /\ m.ambiguous = mp.ambiguous
      /\ m.written = mp.written \cup W /\ m.modelers = mp.modelers /\ m.blocks = mp.blocks
      /\ m \in Maps
  BY DEF Coherent, Maps
<1> HIDE DEF m
<1>2. Unique(m, st)
  BY <1>1 DEF Coherent, Unique
<1>3. Marked(m, st)
  BY <1>1 DEF Coherent, Marked
<1>4. OneModeler(m, st)
  BY <1>1 DEF Coherent, OneModeler
<1> QED BY <1>1, <1>2, <1>3, <1>4, SameClaims DEF Coherent, m

LEMMA EnterModeler ==
  ASSUME NEW mp, NEW st, NEW K, NEW n, Coherent(mp, st, K, n), NEW s \in mp.written,
         \E i \in 1..Len(st) :
           st[i].source = s /\ \A j \in 1..Len(st) : st[j].source = s => j = i
  PROVE  Coherent([mp EXCEPT !.modelers = @ \cup {s}], st, K, n)
<1> DEFINE m == [mp EXCEPT !.modelers = @ \cup {s}]
<1>1. mp \in Maps /\ s \in Sources
  BY MapParts DEF Coherent
<1>2. /\ m.minted = mp.minted /\ m.ambiguous = mp.ambiguous
      /\ m.written = mp.written /\ m.modelers = mp.modelers \cup {s} /\ m.blocks = mp.blocks
      /\ m \in Maps
  BY <1>1 DEF Maps
<1> HIDE DEF m
<1>3. Unique(m, st)
  BY <1>2 DEF Coherent, Unique
<1>4. Marked(m, st)
  BY <1>2 DEF Coherent, Marked
<1>5. OneModeler(m, st)
  BY <1>2 DEF Coherent, OneModeler
<1> QED BY <1>2, <1>3, <1>4, <1>5, SameClaims DEF Coherent, m

LEMMA EnterAmbiguous ==
  ASSUME NEW mp, NEW st, NEW K, NEW n, Coherent(mp, st, K, n), NEW s \in Sources,
         \A i \in 1..Len(st) : st[i].source \notin Sources
  PROVE  Coherent([mp EXCEPT !.ambiguous = @ \cup {s}], st, K, n)
<1> DEFINE m == [mp EXCEPT !.ambiguous = @ \cup {s}]
<1>1. /\ m.minted = mp.minted /\ m.ambiguous = mp.ambiguous \cup {s}
      /\ m.written = mp.written /\ m.modelers = mp.modelers /\ m.blocks = mp.blocks
      /\ m \in Maps
  BY DEF Coherent, Maps
<1> HIDE DEF m
<1>2. Unique(m, st)
  BY <1>1 DEF Coherent, Unique
<1>3. Marked(m, st)
  BY <1>1 DEF Coherent, Marked
<1>4. OneModeler(m, st)
  BY <1>1 DEF Coherent, OneModeler
<1> QED BY <1>1, <1>2, <1>3, <1>4, SameClaims DEF Coherent, m

LEMMA EnterBlock ==
  ASSUME NEW mp, NEW st, NEW K \in SUBSET Handles, NEW n \in Nat, Coherent(mp, st, K, n),
         NEW b \in Blocks, mp.blocks[b] = 0, NEW h \in Handles, h # 0, h + 2 < n,
         \A g \in Three(h) : /\ \A x \in Claimers : g \notin Claim(mp, K, x)
                             /\ \A i \in 1..Len(st) : st[i].handle = g => st[i].source = "block",
         Has(st, h)
  PROVE  Coherent([mp EXCEPT !.blocks[b] = h], st, K, n)
<1> DEFINE m == [mp EXCEPT !.blocks[b] = h]
<1>1. mp \in Maps
  BY DEF Coherent
<1>2. /\ m.minted = mp.minted /\ m.ambiguous = mp.ambiguous
      /\ m.written = mp.written /\ m.modelers = mp.modelers
      /\ m.blocks = [mp.blocks EXCEPT ![b] = h] /\ m \in Maps
  BY <1>1 DEF Maps
<1>3. m.blocks[b] = h /\ \A c \in Blocks \ {b} : m.blocks[c] = mp.blocks[c]
  BY <1>1, <1>2, MapParts
<1> HIDE DEF m
<1>4. \A x \in Claimers : x # "block" => Claim(m, K, x) = Claim(mp, K, x)
  <2>1. ASSUME NEW x \in Claimers, x # "block" PROVE Claim(m, K, x) = Claim(mp, K, x)
    BY <1>2, <2>1, SameClaim
  <2> QED BY <2>1
<1>5. /\ Claim(m, K, "block") = UNION {Three(m.blocks[c]) : c \in Blocks}
      /\ Claim(mp, K, "block") = UNION {Three(mp.blocks[c]) : c \in Blocks}
      /\ "block" \in Claimers
  BY ClaimIs DEF Claimers
<1>6. \A g : g \in Claim(m, K, "block") <=> g \in Claim(mp, K, "block") \/ g \in Three(h)
  <2>1. \A c \in Blocks : Three(m.blocks[c]) = IF c = b THEN Three(h) ELSE Three(mp.blocks[c])
    BY <1>3
  <2>2. Three(mp.blocks[b]) = {}
    BY DEF Three
  <2> QED BY <1>5, <2>1, <2>2
<1>7. ClaimsApart(m, K)
  <2>1. ASSUME NEW x \in Claimers, NEW y \in Claimers, x # y
        PROVE  Claim(m, K, x) \cap Claim(m, K, y) = {}
    <3>1. CASE x # "block" /\ y # "block"
      BY <1>4, <2>1, <3>1 DEF Coherent, ClaimsApart
    <3>2. CASE x = "block"
      BY <1>4, <1>6, <2>1, <3>2 DEF Coherent, ClaimsApart
    <3>3. CASE y = "block"
      BY <1>4, <1>6, <2>1, <3>3 DEF Coherent, ClaimsApart
    <3> QED BY <3>1, <3>2, <3>3
  <2>2. ASSUME NEW c \in Blocks, NEW d \in Blocks, c # d
        PROVE  Three(m.blocks[c]) \cap Three(m.blocks[d]) = {}
    <3>1. \A e \in Blocks : \A g \in Three(mp.blocks[e]) : g \in Claim(mp, K, "block")
      BY <1>5
    <3>2. CASE c # b /\ d # b
      BY <1>3, <2>2, <3>2 DEF Coherent, ClaimsApart
    <3>3. CASE c = b
      BY <1>3, <1>5, <2>2, <3>1, <3>3
    <3>4. CASE d = b
      BY <1>3, <1>5, <2>2, <3>1, <3>4
    <3> QED BY <3>2, <3>3, <3>4
  <2> QED BY <2>1, <2>2 DEF ClaimsApart
<1>8. Obeyed(m, K, st)
  <2>1. ASSUME NEW i \in 1..Len(st), NEW x \in Claimers, st[i].handle \in Claim(m, K, x)
        PROVE  st[i].source = x
    <3>1. CASE x = "block"
      BY <1>6, <2>1, <3>1 DEF Coherent, Obeyed
    <3>2. CASE x # "block"
      BY <1>4, <2>1, <3>2 DEF Coherent, Obeyed
    <3> QED BY <3>1, <3>2
  <2> QED BY <2>1 DEF Obeyed
<1>9. Below(m, K, st, n)
  <2>1. \A g \in Three(h) : g < n
    <3>1. h \in Nat
      BY Tags DEF Handles
    <3> QED BY <3>1 DEF Three
  <2>2. ASSUME NEW x \in Claimers, NEW g \in Claim(m, K, x) PROVE g < n
    <3>1. CASE x = "block"
      BY <1>6, <2>1, <3>1 DEF Coherent, Below
    <3>2. CASE x # "block"
      BY <1>4, <3>2 DEF Coherent, Below
    <3> QED BY <3>1, <3>2
  <2> QED BY <2>2 DEF Coherent, Below
<1>10. Unique(m, st) /\ Marked(m, st) /\ OneModeler(m, st)
  <2>1. Unique(m, st)
    BY <1>2 DEF Coherent, Unique
  <2>2. Marked(m, st)
    BY <1>2 DEF Coherent, Marked
  <2>3. OneModeler(m, st)
    BY <1>2 DEF Coherent, OneModeler
  <2> QED BY <2>1, <2>2, <2>3
<1>11. Based(m, st)
  BY <1>3 DEF Coherent, Based
<1>12. Referred(m, st)
  BY <1>2 DEF Coherent, Referred
<1> QED BY <1>2, <1>7, <1>8, <1>9, <1>10, <1>11, <1>12 DEF Coherent, m

---------------------------------------------------------------------------
(* The undo log.                                                             *)

LEMMA PathStays == ASSUME NEW a, NEW lg, NEW n \in Nat PROVE Path(a, a, lg, n, n)
<1> DEFINE hist == [i \in {n} |-> a]
<1>1. hist[n] = a
  OBVIOUS
<1>2. \A i \in (n + 1)..n : FALSE
  OBVIOUS
<1> HIDE DEF hist
<1>3. \E g : g[n] = a /\ g[n] = a /\ \A i \in (n + 1)..n : g[i - 1] = UndoEntry(g[i], lg[i])
  BY <1>1, <1>2
<1>4. n <= n
  OBVIOUS
<1> QED BY <1>3, <1>4 DEF Path

LEMMA PathOne ==
  ASSUME NEW a, NEW b, NEW lg, NEW n \in Nat, UndoEntry(b, lg[n + 1]) = a
  PROVE  Path(a, b, lg, n, n + 1)
<1> DEFINE hist == [i \in n..(n + 1) |-> IF i = n THEN a ELSE b]
<1>1. hist[n] = a /\ hist[n + 1] = b
  OBVIOUS
<1> HIDE DEF hist
<1>2. \A i \in (n + 1)..(n + 1) : i = n + 1 /\ i - 1 = n
  OBVIOUS
<1>3. \A i \in (n + 1)..(n + 1) : hist[i - 1] = UndoEntry(hist[i], lg[i])
  BY <1>1, <1>2
<1> QED BY <1>1, <1>3 DEF Path

LEMMA PathJoins ==
  ASSUME NEW a, NEW b, NEW c, NEW lg, NEW f, NEW m, NEW t,
         Path(a, b, lg, f, m), Path(b, c, lg, m, t)
  PROVE  Path(a, c, lg, f, t)
<1>1. f \in Nat /\ m \in Nat /\ t \in Nat /\ f <= m /\ m <= t
  BY DEF Path
<1>2. PICK g : /\ g[f] = a /\ g[m] = b
               /\ \A i \in (f + 1)..m : g[i - 1] = UndoEntry(g[i], lg[i])
  BY DEF Path
<1>3. PICK h : /\ h[m] = b /\ h[t] = c
               /\ \A i \in (m + 1)..t : h[i - 1] = UndoEntry(h[i], lg[i])
  BY DEF Path
<1> DEFINE hist == [i \in f..t |-> IF i <= m THEN g[i] ELSE h[i]]
<1>4. \A i \in f..m : hist[i] = g[i]
  BY <1>1
<1>5. \A i \in m..t : hist[i] = h[i]
  <2>1. ASSUME NEW i \in m..t PROVE hist[i] = h[i]
    <3>1. i \in f..t /\ (i <= m => i = m)
      BY <1>1
    <3> QED BY <1>2, <1>3, <3>1
  <2> QED BY <2>1
<1>6. f \in f..m /\ t \in m..t
  BY <1>1
<1> HIDE DEF hist
<1>7. ASSUME NEW i \in (f + 1)..t PROVE hist[i - 1] = UndoEntry(hist[i], lg[i])
  <2>1. CASE i \in (f + 1)..m
    <3>1. i \in f..m /\ i - 1 \in f..m
      BY <1>1, <2>1
    <3> QED BY <1>2, <1>4, <2>1, <3>1
  <2>2. CASE ~(i \in (f + 1)..m)
    <3>1. i \in (m + 1)..t /\ i \in m..t /\ i - 1 \in m..t
      BY <1>1, <2>2
    <3> QED BY <1>3, <1>5, <3>1
  <2> QED BY <2>1, <2>2
<1>8. hist[f] = a /\ hist[t] = c /\ f <= t
  BY <1>1, <1>2, <1>3, <1>4, <1>5, <1>6
<1> QED BY <1>1, <1>7, <1>8 DEF Path

LEMMA PathSameLog ==
  ASSUME NEW a, NEW b, NEW lg, NEW m, NEW f, NEW t, Path(a, b, lg, f, t),
         \A i \in (f + 1)..t : m[i] = lg[i]
  PROVE  Path(a, b, m, f, t)
BY DEF Path

\* What the log undoes to is what the maps were.
LEMMA UndoneIs ==
  ASSUME NEW a, NEW from, Path(a, maps, log, from, Len(log))
  PROVE  Undone(from) = a
<1> DEFINE L == Len(log)
           Is(f) == f = [i \in from..L |-> IF i = L THEN maps
                                           ELSE UndoEntry(f[i + 1], log[i + 1])]
<1>1. from \in Nat /\ L \in Nat /\ from <= L
  BY DEF Path
<1>2. PICK hist : /\ hist[from] = a /\ hist[L] = maps
                  /\ \A i \in (from + 1)..L : hist[i - 1] = UndoEntry(hist[i], log[i])
  BY DEF Path
<1> HIDE DEF L
<1>3. \A i \in from..L : i # L => /\ i + 1 \in (from + 1)..L /\ i + 1 \in from..L
                                   /\ (i + 1) - 1 = i
  BY <1>1
<1>4. \E f : Is(f)
  <2> DEFINE f == [i \in from..L |-> hist[i]]
  <2>1. \A i \in from..L : f[i] = hist[i]
    OBVIOUS
  <2>2. \A i \in from..L : f[i] = IF i = L THEN maps ELSE UndoEntry(f[i + 1], log[i + 1])
    <3> HIDE DEF f
    <3>1. ASSUME NEW i \in from..L, i # L PROVE f[i] = UndoEntry(f[i + 1], log[i + 1])
      <4>1. i + 1 \in (from + 1)..L /\ i + 1 \in from..L /\ (i + 1) - 1 = i
        BY <1>3, <3>1
      <4>2. hist[(i + 1) - 1] = UndoEntry(hist[i + 1], log[i + 1])
        BY <1>2, <4>1
      <4> QED BY <2>1, <4>1, <4>2
    <3> QED BY <1>2, <2>1, <3>1
  <2>3. f = [i \in from..L |-> f[i]]
    OBVIOUS
  <2> HIDE DEF f
  <2>4. [i \in from..L |-> f[i]]
          = [i \in from..L |-> IF i = L THEN maps ELSE UndoEntry(f[i + 1], log[i + 1])]
    BY <2>2
  <2>5. Is(f)
    BY <2>3, <2>4
  <2> QED BY <2>5
<1> DEFINE u == CHOOSE f : Is(f)
<1>5. Undone(from) = u[from]
  BY DEF Undone, L
<1>6. Is(u)
  <2> HIDE DEF Is
  <2> QED BY <1>4
<1>7. \A i \in from..L : u[i] = IF i = L THEN maps ELSE UndoEntry(u[i + 1], log[i + 1])
  <2> HIDE DEF u
  <2> QED BY <1>6
<1> HIDE DEF u
<1> DEFINE T == {n \in 0..(L - from) : u[L - n] = hist[L - n]}
<1>8. 0 \in T
  BY <1>1, <1>2, <1>7
<1>9. ASSUME NEW n \in 1..(L - from), n - 1 \in T PROVE n \in T
  <2>1. /\ L - n \in from..L /\ L - n # L /\ (L - n) + 1 = L - (n - 1)
        /\ (L - n) + 1 \in (from + 1)..L /\ ((L - n) + 1) - 1 = L - n
    BY <1>1
  <2>2. u[(L - n) + 1] = hist[(L - n) + 1]
    BY <1>9, <2>1
  <2>3. u[L - n] = UndoEntry(u[(L - n) + 1], log[(L - n) + 1])
    BY <1>7, <2>1
  <2>4. hist[L - n] = UndoEntry(hist[(L - n) + 1], log[(L - n) + 1])
    BY <1>2, <2>1
  <2> QED BY <2>2, <2>3, <2>4
<1>10. 0..(L - from) \subseteq T
  <2>1. L - from \in Nat
    BY <1>1
  <2> HIDE DEF T
  <2> QED BY <1>8, <1>9, <2>1, HandleSpace, HP!IntervalInduction
<1>11. L - from \in T
  BY <1>1, <1>10
<1>12. L - (L - from) = from
  BY <1>1
<1> QED BY <1>2, <1>5, <1>11, <1>12

\* The entries and what undoes to the maps before them.
LEMMA UndoesIs ==
  ASSUME NEW mp \in Maps
  PROVE  /\ \A s \in Sources : \A h : mp.minted[s] = 0
              => UndoEntry([mp EXCEPT !.minted[s] = h], [kind |-> "source", key |-> s]) = mp
         /\ \A s : s \notin mp.written
              => UndoEntry([mp EXCEPT !.written = @ \cup {s}], [kind |-> "written", key |-> s]) = mp
         /\ \A s : s \notin mp.modelers
              => UndoEntry([mp EXCEPT !.modelers = @ \cup {s}], [kind |-> "modeler", key |-> s]) = mp
<1>1. ASSUME NEW s \in Sources, NEW h, mp.minted[s] = 0
      PROVE  UndoEntry([mp EXCEPT !.minted[s] = h], [kind |-> "source", key |-> s]) = mp
  <2> DEFINE f == mp.minted
             g == [f EXCEPT ![s] = h]
             m == [mp EXCEPT !.minted = g]
  <2>1. [mp EXCEPT !.minted[s] = h] = m
    BY DEF Maps
  <2>2. UndoEntry(m, [kind |-> "source", key |-> s]) = [m EXCEPT !.minted[s] = 0]
    BY DEF UndoEntry
  <2>3. f \in [Sources -> Handles]
    BY MapParts
  <2>4. [g EXCEPT ![s] = 0] = f
    <3>1. f = [q \in Sources |-> f[q]] /\ f[s] = 0
      BY <1>1, <2>3
    <3> HIDE DEF f
    <3> QED BY <3>1
  <2>5. m.minted = g /\ [m EXCEPT !.minted[s] = 0] = [mp EXCEPT !.minted = [g EXCEPT ![s] = 0]]
    <3> HIDE DEF g
    <3> QED BY DEF Maps
  <2>6. [mp EXCEPT !.minted = f] = mp
    BY MapParts
  <2> HIDE DEF f, g, m
  <2> QED BY <2>1, <2>2, <2>4, <2>5, <2>6
<1>2. ASSUME NEW s, s \notin mp.written
      PROVE  UndoEntry([mp EXCEPT !.written = @ \cup {s}], [kind |-> "written", key |-> s]) = mp
  <2>1. (mp.written \cup {s}) \ {s} = mp.written
    BY <1>2
  <2>2. mp = [mp EXCEPT !.written = mp.written]
    BY MapParts
  <2> QED BY <2>1, <2>2 DEF Maps, UndoEntry
<1>3. ASSUME NEW s, s \notin mp.modelers
      PROVE  UndoEntry([mp EXCEPT !.modelers = @ \cup {s}], [kind |-> "modeler", key |-> s]) = mp
  <2>1. (mp.modelers \cup {s}) \ {s} = mp.modelers
    BY <1>3
  <2>2. mp = [mp EXCEPT !.modelers = mp.modelers]
    BY MapParts
  <2> QED BY <2>1, <2>2 DEF Maps, UndoEntry
<1> QED BY <1>1, <1>2, <1>3

\* The log m goes on where lg ends, from the maps a to the maps b.
Extends(lg, a, m, b) ==
  /\ lg \in Seq(Entries) /\ m \in Seq(Entries) /\ Len(lg) <= Len(m)
  /\ \A i \in 1..Len(lg) : m[i] = lg[i]
  /\ Path(a, b, m, Len(lg), Len(m))

LEMMA ExtendsNot ==
  ASSUME NEW lg \in Seq(Entries), NEW a PROVE Extends(lg, a, lg, a)
<1>1. Len(lg) \in Nat
  BY LenProperties
<1> QED BY <1>1, PathStays DEF Extends

LEMMA ExtendsOne ==
  ASSUME NEW lg \in Seq(Entries), NEW e \in Entries, NEW a, NEW b, UndoEntry(b, e) = a
  PROVE  Extends(lg, a, lg \o <<e>>, b)
<1> DEFINE m == lg \o <<e>>
<1>1. /\ m \in Seq(Entries) /\ Len(m) = Len(lg) + 1 /\ Len(lg) \in Nat
      /\ \A i \in 1..Len(lg) : m[i] = lg[i]
      /\ m[Len(lg) + 1] = e
  BY OneMore
<1> HIDE DEF m
<1>2. Path(a, b, m, Len(lg), Len(lg) + 1)
  BY <1>1, PathOne
<1>3. Len(lg) <= Len(m)
  BY <1>1
<1> QED BY <1>1, <1>2, <1>3 DEF Extends, m

LEMMA ExtendsMore ==
  ASSUME NEW lg, NEW m, NEW k, NEW a, NEW b, NEW c,
         Extends(lg, a, m, b), Extends(m, b, k, c)
  PROVE  Extends(lg, a, k, c)
<1>1. Len(lg) \in Nat /\ Len(m) \in Nat /\ Len(k) \in Nat /\ Len(lg) <= Len(m) /\ Len(m) <= Len(k)
  BY LenProperties DEF Extends
<1>2. Path(a, b, k, Len(lg), Len(m))
  <2>1. \A i \in (Len(lg) + 1)..Len(m) : k[i] = m[i]
    BY <1>1 DEF Extends
  <2> QED BY <2>1, PathSameLog DEF Extends
<1>3. Path(a, c, k, Len(lg), Len(k))
  BY <1>2, PathJoins DEF Extends
<1>4. \A i \in 1..Len(lg) : k[i] = lg[i]
  BY <1>1 DEF Extends
<1> QED BY <1>1, <1>3, <1>4 DEF Extends

---------------------------------------------------------------------------
(* writeEntity(): what an entity does to the maps, the log and the stream.   *)

Marking(mp, s) == [mp EXCEPT !.written = @ \cup ({s} \cap Sources)]
Minting(mp, s) == IF SourceEntry(s) = <<>> THEN mp
                  ELSE [mp EXCEPT !.minted[s] = EmittedHandle(s)]
Modelling(mp, kind, s) == IF ModelerEntry(kind, s) = <<>> THEN mp
                          ELSE [mp EXCEPT !.modelers = @ \cup {s}]
EntityMaps(kind, s) == Modelling(Minting(Marking(maps, s), s), kind, s)

LEMMA EntityMapsAre ==
  ASSUME maps \in Maps, NEW kind, NEW s
  PROVE  [maps EXCEPT
           !.written = @ \cup ({s} \cap Sources),
           !.minted = IF SourceEntry(s) = <<>> THEN @
                      ELSE [@ EXCEPT ![s] = EmittedHandle(s)],
           !.modelers = IF ModelerEntry(kind, s) = <<>> THEN @ ELSE @ \cup {s}]
           = EntityMaps(kind, s)
<1> DEFINE w == maps.written \cup ({s} \cap Sources)
           mint == IF SourceEntry(s) = <<>> THEN maps.minted
                   ELSE [maps.minted EXCEPT ![s] = EmittedHandle(s)]
           mod == IF ModelerEntry(kind, s) = <<>> THEN maps.modelers ELSE maps.modelers \cup {s}
           a == [maps EXCEPT !.written = w]
           b == [a EXCEPT !.minted = mint]
           c == [b EXCEPT !.modelers = mod]
<1>1. [maps EXCEPT
           !.written = @ \cup ({s} \cap Sources),
           !.minted = IF SourceEntry(s) = <<>> THEN @
                      ELSE [@ EXCEPT ![s] = EmittedHandle(s)],
           !.modelers = IF ModelerEntry(kind, s) = <<>> THEN @ ELSE @ \cup {s}] = c
  BY DEF Maps
<1>2. Marking(maps, s) = a
  BY DEF Marking
<1>3. Minting(a, s) = b
  <2>1. CASE SourceEntry(s) = <<>>
    <3>1. a.minted = maps.minted
      BY DEF Maps
    <3>2. a = [a EXCEPT !.minted = a.minted]
      BY DEF Maps
    <3> QED BY <2>1, <3>1, <3>2 DEF Minting
  <2>2. CASE SourceEntry(s) # <<>>
    <3>1. a.minted = maps.minted
      BY DEF Maps
    <3>2. [a EXCEPT !.minted[s] = EmittedHandle(s)]
            = [a EXCEPT !.minted = [a.minted EXCEPT ![s] = EmittedHandle(s)]]
      BY DEF Maps
    <3> QED BY <2>2, <3>1, <3>2 DEF Minting
  <2> QED BY <2>1, <2>2
<1>4. Modelling(b, kind, s) = c
  <2>1. b.modelers = maps.modelers /\ b = [b EXCEPT !.modelers = b.modelers]
    BY DEF Maps
  <2> HIDE DEF b
  <2> QED BY <2>1 DEF Modelling
<1> QED BY <1>1, <1>2, <1>3, <1>4 DEF EntityMaps

LEMMA KeepsAre ==
  ASSUME AllocOK
  PROVE  /\ Keeps \in SUBSET Handles /\ \A h \in Keeps : h >= FirstHandle /\ h < MaxHandle
         /\ \A h \in Keeps : h \notin FixedHandles
<1>1. Preserved \subseteq FirstHandle..(MaxHandle - 1) /\ Layouts \subseteq FirstHandle..MaxHandle
      /\ FirstHandle \in Nat \ {0} /\ MaxHandle \in Nat /\ FixedHandles \subseteq 1..(FirstHandle - 1)
  BY SessionAssumption
<1>2. ASSUME NEW h \in Keeps
      PROVE  h \in Handles /\ h >= FirstHandle /\ h < MaxHandle /\ h \notin FixedHandles
  <2>1. h # 0 /\ h # MaxHandle /\ (h \in Preserved \/ h \in Layouts \/ h = replacement)
    BY DEF Keeps
  <2>2. h >= FirstHandle /\ h < MaxHandle /\ h \in Nat
    <3>1. CASE h \in Preserved
      BY <1>1, <3>1
    <3>2. CASE h \in Layouts
      BY <1>1, <2>1, <3>2
    <3>3. CASE h = replacement
      BY <1>1, <2>1, <3>3 DEF AllocOK, Handles
    <3> QED BY <2>1, <3>1, <3>2, <3>3
  <2> QED BY <1>1, <2>2 DEF Handles
<1> QED BY <1>2

LEMMA MarkingIs ==
  ASSUME maps \in Maps, log \in Seq(Entries), NEW s \in Entities
  PROVE  /\ Extends(log, maps, log \o WrittenEntry(s), Marking(maps, s))
         /\ Marking(maps, s) \in Maps /\ Marking(maps, s).minted = maps.minted
         /\ Marking(maps, s).ambiguous = maps.ambiguous
         /\ Marking(maps, s).written = maps.written \cup ({s} \cap Sources)
         /\ Marking(maps, s).modelers = maps.modelers
         /\ Marking(maps, s).blocks = maps.blocks
<1>1. /\ Marking(maps, s) \in Maps /\ Marking(maps, s).minted = maps.minted
      /\ Marking(maps, s).ambiguous = maps.ambiguous
      /\ Marking(maps, s).written = maps.written \cup ({s} \cap Sources)
      /\ Marking(maps, s).modelers = maps.modelers
      /\ Marking(maps, s).blocks = maps.blocks
  BY DEF Marking, Maps
<1>2. CASE s \in Sources \ maps.written
  <2>1. {s} \cap Sources = {s}
    BY <1>2
  <2>2. UndoEntry(Marking(maps, s), [kind |-> "written", key |-> s]) = maps
    BY <1>2, <2>1, UndoesIs DEF Marking
  <2>3. WrittenEntry(s) = <<[kind |-> "written", key |-> s]>>
        /\ [kind |-> "written", key |-> s] \in Entries
    BY <1>2 DEF WrittenEntry, Entries
  <2> QED BY <1>1, <2>2, <2>3, ExtendsOne
<1>3. CASE s \notin Sources \ maps.written
  <2>1. maps.written \cup ({s} \cap Sources) = maps.written
    BY <1>3
  <2>2. Marking(maps, s) = maps
    BY <2>1 DEF Marking, Maps
  <2>3. WrittenEntry(s) = <<>> /\ log \o <<>> = log
    BY <1>3 DEF WrittenEntry
  <2> QED BY <1>1, <2>2, <2>3, ExtendsNot
<1> QED BY <1>2, <1>3

AllocAfter(s) == IF Planned(s) # 0 THEN alloc ELSE Handle!Minted(alloc)

LEMMA EmittedIs ==
  ASSUME AllocOK, maps \in Maps, NEW s \in Entities, CanEmit(s)
  PROVE  /\ EmittedHandle(s) \in Handles /\ EmittedHandle(s) # 0
         /\ HP!Sound(AllocAfter(s)) /\ alloc.next <= AllocAfter(s).next
         /\ AllocAfter(s).explicitReserved = alloc.explicitReserved
         /\ Planned(s) = 0 => /\ EmittedHandle(s) = alloc.next
                              /\ AllocAfter(s).next = alloc.next + 1
         /\ Planned(s) # 0 => /\ s \in Sources \ maps.ambiguous
                              /\ EmittedHandle(s) = maps.minted[s]
<1>1. HP!Sound(alloc) /\ alloc.next \in Handles /\ alloc.next # 0 /\ alloc.next \in Nat
  BY SoundIs DEF AllocOK
<1>2. CASE Planned(s) # 0
  <2>1. s \in Sources \ maps.ambiguous /\ Planned(s) = maps.minted[s]
    BY <1>2 DEF Planned
  <2>2. maps.minted[s] \in Handles
    BY <2>1, MapParts
  <2> QED BY <1>1, <1>2, <2>1, <2>2 DEF EmittedHandle, AllocAfter
<1>3. CASE Planned(s) = 0
  <2>1. Handle!CanMint(alloc)
    BY <1>3 DEF CanEmit
  <2>2. EmittedHandle(s) = alloc.next /\ AllocAfter(s) = Handle!Minted(alloc)
    BY <1>1, <1>3, <2>1, MintIs DEF EmittedHandle, AllocAfter
  <2>3. /\ HP!Sound(Handle!Minted(alloc)) /\ Handle!Minted(alloc).next = alloc.next + 1
        /\ Handle!Minted(alloc).explicitReserved = alloc.explicitReserved
    BY <1>1, <2>1, MintIs
  <2>4. alloc.next <= alloc.next + 1
    BY <1>1
  <2> QED BY <1>1, <1>3, <2>2, <2>3, <2>4
<1> QED BY <1>2, <1>3

LEMMA MintingIs ==
  ASSUME AllocOK, maps \in Maps, NEW s \in Entities, CanEmit(s),
         NEW mp \in Maps, mp.minted = maps.minted
  PROVE  /\ Minting(mp, s) \in Maps /\ Minting(mp, s).ambiguous = mp.ambiguous
         /\ Minting(mp, s).written = mp.written /\ Minting(mp, s).modelers = mp.modelers
         /\ Minting(mp, s).blocks = mp.blocks
         /\ \A lg \in Seq(Entries) : Extends(lg, mp, lg \o SourceEntry(s), Minting(mp, s))
<1>1. EmittedHandle(s) \in Handles
  BY EmittedIs
<1>2. CASE s \in Sources \ maps.ambiguous /\ maps.minted[s] = 0
  <2>1. SourceEntry(s) = <<[kind |-> "source", key |-> s]>>
        /\ [kind |-> "source", key |-> s] \in Entries
    BY <1>2 DEF SourceEntry, Entries
  <2>2. Minting(mp, s) = [mp EXCEPT !.minted[s] = EmittedHandle(s)]
    BY <2>1 DEF Minting
  <2>3. UndoEntry(Minting(mp, s), [kind |-> "source", key |-> s]) = mp
    BY <1>2, <2>2, UndoesIs
  <2>4. /\ Minting(mp, s) \in Maps /\ Minting(mp, s).ambiguous = mp.ambiguous
        /\ Minting(mp, s).written = mp.written /\ Minting(mp, s).modelers = mp.modelers
        /\ Minting(mp, s).blocks = mp.blocks
    BY <1>1, <1>2, <2>2 DEF Maps
  <2> QED BY <2>1, <2>3, <2>4, ExtendsOne
<1>3. CASE ~(s \in Sources \ maps.ambiguous /\ maps.minted[s] = 0)
  <2>1. SourceEntry(s) = <<>>
    BY <1>3 DEF SourceEntry
  <2>2. Minting(mp, s) = mp
    BY <2>1 DEF Minting
  <2>3. ASSUME NEW lg \in Seq(Entries) PROVE Extends(lg, mp, lg \o SourceEntry(s), mp)
    <3>1. lg \o SourceEntry(s) = lg
      BY <2>1
    <3> QED BY <3>1, ExtendsNot
  <2> QED BY <2>2, <2>3
<1> QED BY <1>2, <1>3

LEMMA ModellingIs ==
  ASSUME NEW mp \in Maps, NEW kind, NEW s, ModelerEntry(kind, s) # <<>> => s \notin mp.modelers
  PROVE  /\ Modelling(mp, kind, s) \in Maps /\ Modelling(mp, kind, s).blocks = mp.blocks
         /\ \A lg \in Seq(Entries) :
              Extends(lg, mp, lg \o ModelerEntry(kind, s), Modelling(mp, kind, s))
<1>1. CASE s \in Sources \ maps.ambiguous /\ kind = "modeler"
  <2>1. ModelerEntry(kind, s) = <<[kind |-> "modeler", key |-> s]>>
        /\ [kind |-> "modeler", key |-> s] \in Entries
    BY <1>1 DEF ModelerEntry, Entries
  <2>2. Modelling(mp, kind, s) = [mp EXCEPT !.modelers = @ \cup {s}]
    BY <2>1 DEF Modelling
  <2>3. UndoEntry(Modelling(mp, kind, s), [kind |-> "modeler", key |-> s]) = mp
    BY <2>1, <2>2, UndoesIs
  <2>4. Modelling(mp, kind, s) \in Maps /\ Modelling(mp, kind, s).blocks = mp.blocks
    BY <1>1, <2>2 DEF Maps
  <2> QED BY <2>1, <2>3, <2>4, ExtendsOne
<1>2. CASE ~(s \in Sources \ maps.ambiguous /\ kind = "modeler")
  <2>1. ModelerEntry(kind, s) = <<>>
    BY <1>2 DEF ModelerEntry
  <2>2. Modelling(mp, kind, s) = mp
    BY <2>1 DEF Modelling
  <2>3. ASSUME NEW lg \in Seq(Entries) PROVE Extends(lg, mp, lg \o ModelerEntry(kind, s), mp)
    <3>1. lg \o ModelerEntry(kind, s) = lg
      BY <2>1
    <3> QED BY <3>1, ExtendsNot
  <2> QED BY <2>2, <2>3
<1> QED BY <1>1, <1>2

\* A modeler entity is not refused only if nothing of its source was written.
LEMMA ModelerFirst ==
  ASSUME maps \in Maps, maps.modelers \subseteq maps.written, NEW kind, NEW s, ~Refused(kind, s)
  PROVE  /\ ModelerEntry(kind, s) # <<>> => s \in Sources /\ s \notin maps.written
         /\ s \notin maps.modelers
BY DEF Refused, ModelerEntry

LEMMA EntityLogs ==
  ASSUME AllocOK, maps \in Maps, maps.modelers \subseteq maps.written, log \in Seq(Entries),
         NEW kind \in RecordKinds, NEW s \in Entities, ~Refused(kind, s), CanEmit(s)
  PROVE  /\ Extends(log, maps, ((log \o WrittenEntry(s)) \o SourceEntry(s)) \o ModelerEntry(kind, s),
                    EntityMaps(kind, s))
         /\ EntityMaps(kind, s) \in Maps /\ EntityMaps(kind, s).blocks = maps.blocks
<1> DEFINE a == Marking(maps, s)
           b == Minting(a, s)
           c == Modelling(b, kind, s)
           la == log \o WrittenEntry(s)
           lb == la \o SourceEntry(s)
           lc == lb \o ModelerEntry(kind, s)
<1>1. /\ Extends(log, maps, la, a) /\ a \in Maps /\ a.minted = maps.minted
      /\ a.modelers = maps.modelers /\ a.blocks = maps.blocks
  BY MarkingIs
<1>2. la \in Seq(Entries)
  BY <1>1 DEF Extends
<1> HIDE DEF a, la
<1>3. Extends(la, a, lb, b) /\ b \in Maps /\ b.modelers = maps.modelers /\ b.blocks = maps.blocks
  BY <1>1, <1>2, MintingIs
<1>4. lb \in Seq(Entries)
  BY <1>3 DEF Extends
<1> HIDE DEF b, lb
<1>5. ModelerEntry(kind, s) # <<>> => s \notin b.modelers
  BY <1>3, ModelerFirst
<1>6. Extends(lb, b, lc, c) /\ c \in Maps /\ c.blocks = maps.blocks
  BY <1>3, <1>4, <1>5, ModellingIs
<1> HIDE DEF c, lc
<1>7. Extends(log, maps, lc, c)
  BY <1>1, <1>3, <1>6, ExtendsMore
<1> QED BY <1>6, <1>7 DEF EntityMaps, a, b, c, la, lb, lc

\* What an entity may name as its owner.
Owning(st, owner) == owner \in SourceOwners \/ (owner \in Handles /\ Has(st, owner))

LEMMA EntityCoherent ==
  ASSUME AllocOK, NEW st, Coherent(maps, st, Keeps, alloc.next),
         NEW kind \in RecordKinds, NEW s \in Entities, NEW owner, Owning(st, owner),
         NEW call \in Nat, MayWrite(s), ~Refused(kind, s), CanEmit(s)
  PROVE  LET r == Record(EmittedHandle(s), owner, {}, call, s)
         IN r \in Recs /\ Coherent(EntityMaps(kind, s), st \o <<r>>, Keeps, AllocAfter(s).next)
<1> DEFINE r == Record(EmittedHandle(s), owner, {}, call, s)
           h == EmittedHandle(s)
           n == AllocAfter(s).next
           a == Marking(maps, s)
           b == Minting(a, s)
           w == st \o <<r>>
           K == Keeps
<1>1. /\ maps \in Maps /\ st \in Seq(Recs) /\ maps.modelers \subseteq maps.written
      /\ K \in SUBSET Handles
  BY KeepsAre DEF Coherent, OneModeler
<1>2. /\ h \in Handles /\ h # 0 /\ h \in Nat /\ n \in Nat /\ alloc.next \in Nat
      /\ alloc.next <= n
      /\ Planned(s) = 0 => h = alloc.next /\ n = alloc.next + 1
      /\ Planned(s) # 0 => s \in Sources \ maps.ambiguous /\ h = maps.minted[s]
  <2>1. HP!Sound(AllocAfter(s)) /\ HP!Sound(alloc)
    BY <1>1, EmittedIs DEF AllocOK
  <2>2. n \in Nat /\ alloc.next \in Nat /\ h \in Handles
    BY <1>1, <2>1, EmittedIs, SoundIs
  <2>3. h \in Nat
    BY <2>2, Tags DEF Handles
  <2> QED BY <1>1, <2>2, <2>3, EmittedIs
<1>3. /\ r \in Recs /\ r.handle = h /\ r.owner = owner /\ r.refs = {} /\ r.source = s
      /\ Has(st, r.owner) \/ r.owner \in SourceOwners
  <2>1. owner \in Handles \/ owner \in SourceOwners
    BY DEF Owning
  <2>2. Has(st, owner) \/ owner \in SourceOwners
    BY DEF Owning
  <2> QED BY <1>2, <2>1, <2>2, RecordIs
<1> HIDE DEF r, h, n, w, K
<1>4. /\ a \in Maps /\ a.minted = maps.minted /\ a.ambiguous = maps.ambiguous
      /\ a.written = maps.written \cup ({s} \cap Sources) /\ a.modelers = maps.modelers
      /\ Coherent(a, st, K, alloc.next)
  <2>1. Coherent(Marking(maps, s), st, K, alloc.next)
    <3>1. {s} \cap Sources \subseteq Sources
      OBVIOUS
    <3> QED BY <3>1, EnterWritten DEF Marking, K
  <2> QED BY <1>1, <2>1 DEF Marking, Maps
<1> HIDE DEF a
<1>5. Coherent(a, st, K, n)
  BY <1>1, <1>2, <1>4, CoherentGrows
\* Who claims the handle, and who has it.
<1>6. /\ \A x \in Claimers : h \in Claim(a, K, x) => s = x
      /\ \A i \in 1..Len(st) : st[i].handle = h => st[i].source = s
      /\ h < n
  <2>1. CASE Planned(s) = 0
    <3>1. h \in Nat /\ h >= alloc.next /\ h < n
      BY <1>2, <2>1
    <3> QED BY <1>1, <1>2, <1>4, <3>1, AllBelow
  <2>2. CASE Planned(s) # 0
    <3>1. s \in Claimers /\ s \in Sources /\ h \in Claim(a, K, s)
      <4>1. s \in Sources /\ h = maps.minted[s]
        BY <1>2, <2>2
      <4> QED BY <1>2, <1>4, <4>1, SourceClaim DEF Claimers
    <3>2. \A x \in Claimers : h \in Claim(a, K, x) => s = x
      BY <1>5, <3>1 DEF Coherent, ClaimsApart
    <3>3. \A i \in 1..Len(st) : st[i].handle = h => st[i].source = s
      BY <1>5, <3>1 DEF Coherent, Obeyed
    <3>4. h < n
      BY <1>5, <3>1 DEF Coherent, Below
    <3> QED BY <3>2, <3>3, <3>4
  <2> QED BY <2>1, <2>2
<1>7. ASSUME NEW i \in 1..Len(st), st[i].handle = h
      PROVE  "share" \in Habits /\ s \in Sources \ a.ambiguous
  <2>1. st[i].source = s
    BY <1>6, <1>7
  <2>2. Planned(s) # 0
    <3>1. SUFFICES ASSUME Planned(s) = 0 PROVE FALSE
      OBVIOUS
    <3>2. h \in Nat /\ h >= alloc.next
      BY <1>2, <3>1
    <3>3. \A j \in 1..Len(st) : st[j].handle # h
      <4>1. Coherent(a, st, K, alloc.next) /\ K \in SUBSET Handles /\ alloc.next \in Nat
        BY <1>1, <1>2, <1>4
      <4> QED BY <3>2, <4>1, AllBelow
    <3> QED BY <1>7, <3>3
  <2>3. s \in Sources \ maps.ambiguous
    BY <1>2, <2>2
  <2>4. s \in maps.written
    BY <2>1, <2>3 DEF Coherent, Marked
  <2>5. s # NoSource
    BY <2>3, Tags
  <2> QED BY <1>4, <2>3, <2>4, <2>5 DEF MayWrite
<1>8. s \in Sources => s \in a.written /\ s \notin a.modelers
  BY <1>1, <1>4, ModelerFirst
<1>9. Coherent(a, w, K, n)
  BY <1>1, <1>2, <1>3, <1>5, <1>6, <1>7, <1>8, RecordCoherent DEF w
<1>10. /\ w \in Seq(Recs) /\ Len(w) = Len(st) + 1 /\ w[Len(st) + 1] = r /\ Len(st) \in Nat
       /\ \A i \in 1..Len(st) : w[i] = st[i]
  BY <1>1, <1>3, OneMore DEF w
<1>11. Coherent(b, w, K, n) /\ b.written = a.written
  <2>1. CASE SourceEntry(s) = <<>>
    BY <1>9, <2>1 DEF Minting
  <2>2. CASE SourceEntry(s) # <<>>
    <3>1. s \in Sources /\ s \notin maps.ambiguous /\ maps.minted[s] = 0
      BY <2>2 DEF SourceEntry
    <3>2. b = [a EXCEPT !.minted[s] = h]
      BY <2>2 DEF Minting, h
    <3>3. Planned(s) = 0
      BY <3>1 DEF Planned
    <3>4. \A x \in Claimers : h \notin Claim(a, K, x)
      <4>1. h \in Nat /\ h >= alloc.next
        BY <1>2, <3>3
      <4> QED BY <1>1, <1>2, <1>4, <4>1, AllBelow
    <3>5. \A i \in 1..Len(w) : w[i].handle = h => w[i].source = s
      <4>1. \A i \in 1..Len(w) : i \in 1..Len(st) \/ i = Len(st) + 1
        BY <1>10
      <4> QED BY <1>3, <1>6, <1>10, <4>1
    <3>6. Has(w, h)
      <4>1. Len(st) + 1 \in 1..Len(w)
        BY <1>10
      <4> QED BY <1>3, <1>10, <4>1 DEF Has
    <3>7. Coherent([a EXCEPT !.minted[s] = h], w, K, n)
      BY <1>1, <1>2, <1>4, <1>6, <1>9, <3>1, <3>4, <3>5, <3>6, EnterMinted
    <3>8. b.written = a.written
      BY <1>4, <3>2 DEF Maps
    <3> QED BY <3>2, <3>7, <3>8
  <2> QED BY <2>1, <2>2
<1>12. Coherent(Modelling(b, kind, s), w, K, n)
  <2>1. CASE ModelerEntry(kind, s) = <<>>
    BY <1>11, <2>1 DEF Modelling
  <2>2. CASE ModelerEntry(kind, s) # <<>>
    <3>1. s \in Sources /\ s \notin maps.written
      BY <1>1, <2>2, ModelerFirst
    <3>2. \A i \in 1..Len(st) : st[i].source # s
      BY <3>1 DEF Coherent, Marked
    <3>3. Len(st) + 1 \in 1..Len(w) /\ w[Len(st) + 1].source = s
      BY <1>3, <1>10
    <3>4. \A j \in 1..Len(w) : w[j].source = s => j = Len(st) + 1
      <4>1. \A j \in 1..Len(w) : j \in 1..Len(st) \/ j = Len(st) + 1
        BY <1>10
      <4> QED BY <1>10, <3>2, <4>1
    <3>5. s \in b.written
      BY <1>8, <1>11, <3>1
    <3> HIDE DEF b
    <3>6. Coherent([b EXCEPT !.modelers = @ \cup {s}], w, K, n)
      BY <1>11, <3>3, <3>4, <3>5, EnterModeler
    <3> QED BY <2>2, <3>6 DEF Modelling
  <2> QED BY <2>1, <2>2
<1> QED BY <1>3, <1>12 DEF EntityMaps, w, r, n, h, K, a

---------------------------------------------------------------------------
(* Opening, filling and closing the scope of a record.                       *)

\* The same scopes but for the innermost one's handle, size, stage and records.
Alike(a, b) ==
  /\ a.kind = b.kind /\ a.call = b.call /\ a.previousError = b.previousError
  /\ a.checkpoint = b.checkpoint /\ a.block = b.block /\ a.pending = b.pending
  /\ a.before = b.before
SameBelow(sc, st) ==
  /\ sc \in Seq(ScopeSet) /\ st \in Seq(ScopeSet) /\ Len(sc) = Len(st)
  /\ \A k \in 1..Len(st) : Alike(sc[k], st[k])
  /\ \A k \in 1..(Len(st) - 1) : sc[k].records = st[k].records /\ sc[k].stage = st[k].stage
                                 /\ sc[k].handle = st[k].handle

LEMMA ScopeParts ==
  ASSUME NEW sc \in ScopeSet
  PROVE  /\ sc.records \in Seq(Recs) /\ sc.kind \in RecordKinds \cup SectionKinds
         /\ sc.call \in Nat /\ sc.handle \in Handles /\ sc.size \in Nat
         /\ sc.stage \in {"open", "ended", "failed"} /\ sc.previousError \in BOOLEAN
         /\ sc.checkpoint \in Nat /\ sc.block \in BlockStates /\ sc.pending \in Nat
         /\ sc.before \in Maps
BY DEF ScopeSet

Stream(st) == st \in Seq(Recs)
Joined(a, b) == a \o b
Appends(sc, st, rs) == sc[Len(st)].records = st[Len(st)].records \o rs
\* The scope of a record is the innermost one of st.
RecordOpen(lo, st) == lo \in {0, 1} /\ st \in Seq(ScopeSet) /\ Len(st) \in {lo + 1, lo + 2}

LEMMA StreamsJoin ==
  \A s, t, u \in Seq(Recs) : s \o t \in Seq(Recs) /\ (s \o t) \o u = s \o (t \o u)
<1>1. ASSUME NEW s \in Seq(Recs), NEW t \in Seq(Recs), NEW u \in Seq(Recs)
      PROVE  s \o t \in Seq(Recs) /\ (s \o t) \o u = s \o (t \o u)
  BY ConcatAssociative
<1> QED BY <1>1

LEMMA StreamCases ==
  ASSUME NEW lo \in {0, 1}, NEW base, NEW sc
  PROVE  /\ Len(sc) = lo => StreamIn(lo, base, sc) = base
         /\ Len(sc) = lo + 1 => StreamIn(lo, base, sc) = base \o sc[lo + 1].records
         /\ Len(sc) = lo + 2 =>
              StreamIn(lo, base, sc) = (base \o sc[lo + 1].records) \o sc[lo + 2].records
<1> DEFINE one == base \o sc[lo + 1].records
           two == (base \o sc[lo + 1].records) \o sc[lo + 2].records
<1>1. StreamIn(lo, base, sc) = CASE Len(sc) = lo -> base [] Len(sc) = lo + 1 -> one
                                 [] OTHER -> two
  BY DEF StreamIn
<1>2. lo + 1 # lo /\ lo + 2 # lo /\ lo + 2 # lo + 1
  OBVIOUS
<1> HIDE DEF one, two
<1>3. /\ Len(sc) = lo => StreamIn(lo, base, sc) = base
      /\ Len(sc) = lo + 1 => StreamIn(lo, base, sc) = one
      /\ Len(sc) = lo + 2 => StreamIn(lo, base, sc) = two
  BY <1>1, <1>2
<1> QED BY <1>3 DEF one, two

LEMMA StreamNone ==
  ASSUME NEW lo, lo \in {0, 1}, NEW base, NEW sc, Len(sc) = lo
  PROVE  StreamIn(lo, base, sc) = base
<1> DEFINE one == base \o sc[lo + 1].records
           two == (base \o sc[lo + 1].records) \o sc[lo + 2].records
<1>1. StreamIn(lo, base, sc) = CASE Len(sc) = lo -> base [] Len(sc) = lo + 1 -> one
                                 [] OTHER -> two
  BY DEF StreamIn
<1>2. lo + 1 # lo
  OBVIOUS
<1> HIDE DEF one, two
<1> QED BY <1>1, <1>2

LEMMA StreamOne ==
  ASSUME NEW lo, lo \in {0, 1}, NEW base, NEW sc, Len(sc) = lo + 1
  PROVE  StreamIn(lo, base, sc) = base \o sc[lo + 1].records
BY StreamCases

LEMMA StreamTwo ==
  ASSUME NEW lo, lo \in {0, 1}, NEW base, NEW sc, Len(sc) = lo + 2
  PROVE  StreamIn(lo, base, sc) = (base \o sc[lo + 1].records) \o sc[lo + 2].records
BY StreamCases

LEMMA WorldsGrow ==
  ASSUME NEW lo, NEW base, NEW sc, NEW mp, NEW K \in SUBSET Handles, NEW n \in Nat,
         NEW m \in Nat, n <= m, WorldsIn(lo, base, sc, mp, K, n)
  PROVE  WorldsIn(lo, base, sc, mp, K, m)
BY CoherentGrows DEF WorldsIn

\* A scope that finds the maps mp and the log lg opens inside sc.
Opens(lo, sc, sd, mp, lg) ==
  /\ lo \in {0, 1} /\ sc \in Seq(ScopeSet) /\ Len(sc) \in {lo, lo + 1}
  /\ sd \in ScopeSet /\ sd.before = mp /\ sd.checkpoint = Len(lg) /\ sd.records = <<>>
  /\ lg \in Seq(Entries)

LEMMA LevelsPush ==
  ASSUME NEW lo, NEW base, NEW sc, NEW mp, NEW K, NEW n, NEW lg, NEW sd,
         Opens(lo, sc, sd, mp, lg), WorldsIn(lo, base, sc, mp, K, n), PathsIn(lo, sc, mp, lg)
  PROVE  /\ Append(sc, sd) \in Seq(ScopeSet) /\ Len(Append(sc, sd)) = Len(sc) + 1
         /\ \A k \in 1..Len(sc) : Append(sc, sd)[k] = sc[k]
         /\ Append(sc, sd)[Len(sc) + 1] = sd
         /\ StreamIn(lo, base, Append(sc, sd)) = StreamIn(lo, base, sc)
         /\ WorldsIn(lo, base, Append(sc, sd), mp, K, n)
         /\ PathsIn(lo, Append(sc, sd), mp, lg)
<1> DEFINE ss == Append(sc, sd)
<1>0. /\ lo \in {0, 1} /\ sc \in Seq(ScopeSet) /\ Len(sc) \in {lo, lo + 1}
      /\ sd \in ScopeSet /\ sd.before = mp /\ sd.checkpoint = Len(lg) /\ sd.records = <<>>
      /\ lg \in Seq(Entries)
  BY DEF Opens
<1>1. /\ ss \in Seq(ScopeSet) /\ Len(ss) = Len(sc) + 1 /\ Len(sc) \in Nat
      /\ \A k \in 1..Len(sc) : ss[k] = sc[k]
      /\ ss[Len(sc) + 1] = sd
  BY <1>0
<1>2. Path(mp, mp, lg, Len(lg), Len(lg))
  <2>1. Len(lg) \in Nat
    BY <1>0
  <2> QED BY <2>1, PathStays
<1> HIDE DEF ss
<1>3. StreamIn(lo, base, sc) \in Seq(Recs)
  BY DEF WorldsIn, Coherent
<1>4. StreamIn(lo, base, sc) \o <<>> = StreamIn(lo, base, sc)
  BY <1>3
<1>5. CASE Len(sc) = lo
  <2>1. Len(ss) = lo + 1 /\ ss[lo + 1] = sd
    BY <1>0, <1>1, <1>5
  <2>2. StreamIn(lo, base, sc) = base /\ StreamIn(lo, base, ss) = base \o <<>>
    <3>1. StreamIn(lo, base, sc) = base
      BY <1>0, <1>5, StreamNone
    <3>2. StreamIn(lo, base, ss) = base \o ss[lo + 1].records
      BY <1>0, <2>1, StreamOne
    <3> QED BY <1>0, <2>1, <3>1, <3>2
  <2>3. StreamIn(lo, base, ss) = StreamIn(lo, base, sc)
    BY <1>4, <2>2
  <2>4. WorldsIn(lo, base, ss, mp, K, n)
    BY <1>0, <2>1, <2>2, <2>3 DEF WorldsIn
  <2>5. PathsIn(lo, ss, mp, lg)
    BY <1>0, <1>2, <2>1 DEF PathsIn
  <2> QED BY <1>1, <2>3, <2>4, <2>5 DEF ss
<1>6. CASE Len(sc) = lo + 1
  <2>1. Len(ss) = lo + 2 /\ ss[lo + 2] = sd /\ ss[lo + 1] = sc[lo + 1]
    BY <1>0, <1>1, <1>6
  <2>2. StreamIn(lo, base, sc) = base \o sc[lo + 1].records
        /\ StreamIn(lo, base, ss) = (base \o ss[lo + 1].records) \o <<>>
    <3>1. StreamIn(lo, base, sc) = base \o sc[lo + 1].records
      BY <1>0, <1>6, StreamOne
    <3>2. StreamIn(lo, base, ss) = (base \o ss[lo + 1].records) \o ss[lo + 2].records
      BY <1>0, <2>1, StreamTwo
    <3> QED BY <1>0, <2>1, <3>1, <3>2
  <2>3. StreamIn(lo, base, ss) = StreamIn(lo, base, sc)
    BY <1>4, <2>1, <2>2
  <2>4. WorldsIn(lo, base, ss, mp, K, n)
    BY <1>0, <1>6, <2>1, <2>2, <2>3 DEF WorldsIn
  <2>5. PathsIn(lo, ss, mp, lg)
    BY <1>0, <1>2, <1>6, <2>1 DEF PathsIn
  <2> QED BY <1>1, <2>3, <2>4, <2>5 DEF ss
<1> QED BY <1>0, <1>5, <1>6

LEMMA SameLevels ==
  ASSUME NEW sc, NEW st, SameBelow(sc, st)
  PROVE  /\ sc \in Seq(ScopeSet) /\ st \in Seq(ScopeSet) /\ Len(sc) = Len(st) /\ Len(st) \in Nat
         /\ \A k \in 1..Len(st) : sc[k].before = st[k].before /\ sc[k].checkpoint = st[k].checkpoint
         /\ \A k \in 1..(Len(st) - 1) : sc[k].records = st[k].records
BY LenProperties DEF SameBelow, Alike

LEMMA SameRecords ==
  ASSUME NEW sc, NEW st, SameBelow(sc, st), sc[Len(st)].records = st[Len(st)].records
  PROVE  /\ Len(sc) = Len(st)
         /\ \A k \in 1..Len(st) : sc[k].records = st[k].records /\ sc[k].before = st[k].before
                                  /\ sc[k].checkpoint = st[k].checkpoint
<1>1. Len(sc) = Len(st) /\ Len(st) \in Nat
  BY SameLevels
<1>2. ASSUME NEW k \in 1..Len(st)
      PROVE  sc[k].records = st[k].records /\ sc[k].before = st[k].before
             /\ sc[k].checkpoint = st[k].checkpoint
  <2>1. k \in 1..(Len(st) - 1) \/ k = Len(st)
    BY <1>1
  <2> QED BY <2>1, SameLevels
<1> QED BY <1>1, <1>2

\* Another size, stage or handle of a scope changes none of this.
LEMMA StreamSame ==
  ASSUME NEW lo, NEW base, NEW sc, NEW st, SameBelow(sc, st),
         RecordOpen(lo, st), sc[Len(st)].records = st[Len(st)].records
  PROVE  StreamIn(lo, base, sc) = StreamIn(lo, base, st)
<1>0. lo \in {0, 1} /\ st \in Seq(ScopeSet) /\ Len(st) \in {lo + 1, lo + 2}
  BY DEF RecordOpen
<1>1. CASE Len(st) = lo + 1
  <2>1. Len(sc) = lo + 1 /\ sc[lo + 1].records = st[lo + 1].records
    BY <1>0, <1>1, SameRecords
  <2>2. StreamIn(lo, base, st) = base \o st[lo + 1].records
    BY <1>0, <1>1, StreamOne
  <2>3. StreamIn(lo, base, sc) = base \o sc[lo + 1].records
    BY <1>0, <2>1, StreamOne
  <2> QED BY <2>1, <2>2, <2>3
<1>2. CASE Len(st) = lo + 2
  <2>1. lo + 1 \in 1..Len(st) /\ lo + 2 \in 1..Len(st)
    BY <1>0, <1>2
  <2>2. /\ Len(sc) = lo + 2 /\ sc[lo + 1].records = st[lo + 1].records
        /\ sc[lo + 2].records = st[lo + 2].records
    BY <1>2, <2>1, SameRecords
  <2>3. StreamIn(lo, base, st) = (base \o st[lo + 1].records) \o st[lo + 2].records
    BY <1>0, <1>2, StreamTwo
  <2>4. StreamIn(lo, base, sc) = (base \o sc[lo + 1].records) \o sc[lo + 2].records
    BY <1>0, <2>2, StreamTwo
  <2> QED BY <2>2, <2>3, <2>4
<1> QED BY <1>0, <1>1, <1>2

LEMMA WorldsSame ==
  ASSUME NEW lo, NEW base, NEW sc, NEW st, SameBelow(sc, st),
         RecordOpen(lo, st), sc[Len(st)].records = st[Len(st)].records,
         NEW mp, NEW K, NEW n, WorldsIn(lo, base, st, mp, K, n)
  PROVE  WorldsIn(lo, base, sc, mp, K, n)
<1>0. lo \in {0, 1} /\ st \in Seq(ScopeSet) /\ Len(st) \in {lo + 1, lo + 2}
  BY DEF RecordOpen
<1>1. StreamIn(lo, base, sc) = StreamIn(lo, base, st)
  BY StreamSame
<1>2. Len(sc) = Len(st) /\ lo + 1 \in 1..Len(st) /\ (Len(st) > lo + 1 => lo + 2 \in 1..Len(st))
  BY <1>0, SameRecords
<1>3. /\ sc[lo + 1].records = st[lo + 1].records /\ sc[lo + 1].before = st[lo + 1].before
      /\ Len(st) > lo + 1 => sc[lo + 2].before = st[lo + 2].before
  BY <1>2, SameRecords
<1> QED BY <1>0, <1>1, <1>2, <1>3 DEF WorldsIn

LEMMA PathsSame ==
  ASSUME NEW lo, NEW sc, NEW st, SameBelow(sc, st),
         RecordOpen(lo, st), NEW mp, NEW lg, PathsIn(lo, st, mp, lg)
  PROVE  PathsIn(lo, sc, mp, lg)
<1>0. lo \in {0, 1} /\ st \in Seq(ScopeSet) /\ Len(st) \in {lo + 1, lo + 2}
  BY DEF RecordOpen
<1>1. Len(sc) = Len(st) /\ lo + 1 \in 1..Len(st) /\ (Len(st) > lo + 1 => lo + 2 \in 1..Len(st))
  BY <1>0, SameLevels
<1>2. /\ sc[lo + 1].before = st[lo + 1].before /\ sc[lo + 1].checkpoint = st[lo + 1].checkpoint
      /\ Len(st) > lo + 1 => /\ sc[lo + 2].before = st[lo + 2].before
                             /\ sc[lo + 2].checkpoint = st[lo + 2].checkpoint
  BY <1>1, SameLevels
<1> QED BY <1>0, <1>1, <1>2 DEF PathsIn

\* The innermost scope of a record takes more of it.
LEMMA StreamAppend ==
  ASSUME NEW lo, NEW base, Stream(base), NEW st, RecordOpen(lo, st), NEW sc,
         SameBelow(sc, st), NEW rs, Stream(rs), Appends(sc, st, rs)
  PROVE  StreamIn(lo, base, sc) = Joined(StreamIn(lo, base, st), rs)
<1>0. /\ lo \in {0, 1} /\ st \in Seq(ScopeSet) /\ Len(st) \in {lo + 1, lo + 2}
      /\ base \in Seq(Recs) /\ rs \in Seq(Recs)
      /\ sc[Len(st)].records = st[Len(st)].records \o rs
  BY DEF RecordOpen, Stream, Appends
<1>1. /\ Len(sc) = Len(st) /\ \A k \in 1..(Len(st) - 1) : sc[k].records = st[k].records
      /\ \A k \in 1..Len(st) : st[k].records \in Seq(Recs)
  BY <1>0, ScopeParts, SameLevels
<1>2. CASE Len(st) = lo + 1
  <2>1. StreamIn(lo, base, sc) = base \o (st[lo + 1].records \o rs)
        /\ StreamIn(lo, base, st) = base \o st[lo + 1].records
    <3>1. StreamIn(lo, base, st) = base \o st[lo + 1].records
      BY <1>0, <1>1, <1>2, StreamOne
    <3>2. StreamIn(lo, base, sc) = base \o sc[lo + 1].records
      BY <1>0, <1>1, <1>2, StreamOne
    <3>3. sc[lo + 1].records = st[lo + 1].records \o rs
      BY <1>0, <1>2
    <3> QED BY <3>1, <3>2, <3>3
  <2>2. st[lo + 1].records \in Seq(Recs)
    BY <1>0, <1>1, <1>2
  <2>3. (base \o st[lo + 1].records) \o rs = base \o (st[lo + 1].records \o rs)
    BY <1>0, <2>2, StreamsJoin
  <2> QED BY <2>1, <2>3 DEF Joined
<1>3. CASE Len(st) = lo + 2
  <2>1. lo + 1 \in 1..(Len(st) - 1)
    BY <1>0, <1>3
  <2>2. StreamIn(lo, base, sc) = (base \o st[lo + 1].records) \o (st[lo + 2].records \o rs)
        /\ StreamIn(lo, base, st) = (base \o st[lo + 1].records) \o st[lo + 2].records
    <3>1. StreamIn(lo, base, st) = (base \o st[lo + 1].records) \o st[lo + 2].records
      BY <1>0, <1>1, <1>3, StreamTwo
    <3>2. StreamIn(lo, base, sc) = (base \o sc[lo + 1].records) \o sc[lo + 2].records
      BY <1>0, <1>1, <1>3, StreamTwo
    <3>3. sc[lo + 2].records = st[lo + 2].records \o rs
      BY <1>0, <1>3
    <3>4. sc[lo + 1].records = st[lo + 1].records
      BY <1>1, <2>1
    <3> QED BY <3>1, <3>2, <3>3, <3>4
  <2>3. st[lo + 1].records \in Seq(Recs) /\ st[lo + 2].records \in Seq(Recs)
    BY <1>0, <1>1, <1>3
  <2>4. base \o st[lo + 1].records \in Seq(Recs)
    BY <1>0, <2>3
  <2>5. ((base \o st[lo + 1].records) \o st[lo + 2].records) \o rs
          = (base \o st[lo + 1].records) \o (st[lo + 2].records \o rs)
    BY <1>0, <2>3, <2>4, StreamsJoin
  <2> QED BY <2>2, <2>5 DEF Joined
<1> QED BY <1>0, <1>2, <1>3

LEMMA WorldsTop ==
  ASSUME NEW lo, NEW base, NEW st, RecordOpen(lo, st),
         NEW sc, SameBelow(sc, st), NEW mp, NEW m, NEW K \in SUBSET Handles,
         NEW n \in Nat, NEW p \in Nat, n <= p,
         WorldsIn(lo, base, st, mp, K, n), Coherent(m, StreamIn(lo, base, sc), K, p)
  PROVE  WorldsIn(lo, base, sc, m, K, p)
<1>0. lo \in {0, 1} /\ st \in Seq(ScopeSet) /\ Len(st) \in {lo + 1, lo + 2}
  BY DEF RecordOpen
<1>1. Len(sc) = Len(st) /\ lo + 1 \in 1..Len(st) /\ (Len(st) > lo + 1 => lo + 2 \in 1..Len(st))
      /\ (Len(st) > lo + 1 => lo + 1 \in 1..(Len(st) - 1))
  BY <1>0, SameLevels
<1>2. /\ sc[lo + 1].before = st[lo + 1].before
      /\ Len(st) > lo + 1 => /\ sc[lo + 2].before = st[lo + 2].before
                             /\ sc[lo + 1].records = st[lo + 1].records
  BY <1>1, SameLevels
<1>3. WorldsIn(lo, base, st, mp, K, p)
  BY WorldsGrow
<1> QED BY <1>0, <1>1, <1>2, <1>3 DEF WorldsIn

LEMMA PathsTop ==
  ASSUME NEW lo, NEW st, RecordOpen(lo, st), NEW sc, SameBelow(sc, st),
         NEW mp, NEW m, NEW lg, NEW lh, Extends(lg, mp, lh, m), PathsIn(lo, st, mp, lg)
  PROVE  PathsIn(lo, sc, m, lh)
<1>0. lo \in {0, 1} /\ st \in Seq(ScopeSet) /\ Len(st) \in {lo + 1, lo + 2}
  BY DEF RecordOpen
<1>1. /\ lg \in Seq(Entries) /\ lh \in Seq(Entries) /\ Len(lg) <= Len(lh)
      /\ \A i \in 1..Len(lg) : lh[i] = lg[i]
      /\ Path(mp, m, lh, Len(lg), Len(lh)) /\ Len(lg) \in Nat /\ Len(lh) \in Nat
  BY DEF Extends
<1>2. ASSUME NEW a, NEW b, NEW f, NEW t, Path(a, b, lg, f, t), t <= Len(lg)
      PROVE  Path(a, b, lh, f, t)
  <2>1. \A i \in (f + 1)..t : lh[i] = lg[i]
    BY <1>1, <1>2 DEF Path
  <2> QED BY <1>2, <2>1, PathSameLog
<1>3. ASSUME NEW a, NEW f, Path(a, mp, lg, f, Len(lg)) PROVE Path(a, m, lh, f, Len(lh))
  <2>1. Path(a, mp, lh, f, Len(lg))
    BY <1>1, <1>2, <1>3
  <2> QED BY <1>1, <2>1, PathJoins
<1>4. PathsIn(lo, sc, mp, lg)
  BY PathsSame
<1>5. Len(sc) = Len(st)
  BY <1>0, SameLevels
<1>6. CASE Len(st) = lo + 1
  <2>1. Path(sc[lo + 1].before, mp, lg, sc[lo + 1].checkpoint, Len(lg))
    BY <1>0, <1>4, <1>5, <1>6 DEF PathsIn
  <2>2. Path(sc[lo + 1].before, m, lh, sc[lo + 1].checkpoint, Len(lh))
    BY <1>3, <2>1
  <2> QED BY <1>5, <1>6, <2>2 DEF PathsIn
<1>7. CASE Len(st) = lo + 2
  <2>1. /\ Path(sc[lo + 1].before, sc[lo + 2].before, lg, sc[lo + 1].checkpoint, sc[lo + 2].checkpoint)
        /\ Path(sc[lo + 2].before, mp, lg, sc[lo + 2].checkpoint, Len(lg))
    BY <1>0, <1>4, <1>5, <1>7 DEF PathsIn
  <2>2. sc[lo + 2].checkpoint <= Len(lg)
    BY <2>1 DEF Path
  <2>3. Path(sc[lo + 1].before, sc[lo + 2].before, lh, sc[lo + 1].checkpoint, sc[lo + 2].checkpoint)
    BY <1>2, <2>1, <2>2
  <2>4. Path(sc[lo + 2].before, m, lh, sc[lo + 2].checkpoint, Len(lh))
    BY <1>3, <2>1
  <2> QED BY <1>5, <1>7, <2>3, <2>4 DEF PathsIn
<1> QED BY <1>0, <1>6, <1>7

LEMMA TopChanged ==
  ASSUME NEW st \in Seq(ScopeSet), Len(st) > 0, NEW t \in ScopeSet, Alike(t, st[Len(st)])
  PROVE  /\ SameBelow([st EXCEPT ![Len(st)] = t], st)
         /\ [st EXCEPT ![Len(st)] = t][Len(st)] = t
<1> DEFINE sc == [st EXCEPT ![Len(st)] = t]
<1>1. Len(st) \in Nat /\ Len(st) \in 1..Len(st)
  <2>1. Len(st) \in Nat
    BY LenProperties
  <2> QED BY <2>1
<1>2. /\ sc \in Seq(ScopeSet) /\ Len(sc) = Len(st) /\ sc[Len(st)] = t
      /\ \A k \in 1..Len(st) : k # Len(st) => sc[k] = st[k]
  <2>1. /\ sc \in Seq(ScopeSet) /\ Len(sc) = Len(st)
        /\ \A k \in 1..Len(st) : sc[k] = IF k = Len(st) THEN t ELSE st[k]
    BY <1>1, ExceptSeq
  <2> HIDE DEF sc
  <2> QED BY <1>1, <2>1
<1> HIDE DEF sc
<1>3. \A k \in 1..Len(st) : Alike(sc[k], st[k])
  BY <1>2 DEF Alike
<1>4. \A k \in 1..(Len(st) - 1) : k \in 1..Len(st) /\ k # Len(st)
  BY <1>1
<1>5. SameBelow(sc, st)
  BY <1>2, <1>3, <1>4 DEF SameBelow
<1> QED BY <1>2, <1>5 DEF sc

LEMMA FailedIs ==
  ASSUME NEW st \in Seq(ScopeSet), Len(st) > 0
  PROVE  /\ SameBelow(Failed(st), st)
         /\ LET t == Failed(st)[Len(st)]  u == st[Len(st)]
            IN t.stage = "failed" /\ t.records = u.records /\ t.handle = u.handle /\ t.size = u.size
<1> DEFINE t == [st[Len(st)] EXCEPT !.stage = "failed"]
<1>1. st[Len(st)] \in ScopeSet /\ Len(st) \in DOMAIN st
  OBVIOUS
<1>2. /\ t \in ScopeSet /\ Alike(t, st[Len(st)])
      /\ t.stage = "failed" /\ t.records = st[Len(st)].records
      /\ t.handle = st[Len(st)].handle /\ t.size = st[Len(st)].size
  BY <1>1 DEF ScopeSet, Alike
<1>3. Failed(st) = [st EXCEPT ![Len(st)] = t]
  BY <1>1 DEF Failed
<1> HIDE DEF t
<1> QED BY <1>2, <1>3, TopChanged

LEMMA AskedIs ==
  ASSUME NEW st \in Seq(ScopeSet), Len(st) > 0
  PROVE  /\ SameBelow(Asked(st), st)
         /\ LET t == Asked(st)[Len(st)]  u == st[Len(st)]
            IN t.size = u.size + 1 /\ t.records = u.records /\ t.handle = u.handle /\ t.stage = u.stage
<1> DEFINE t == [st[Len(st)] EXCEPT !.size = @ + 1]
<1>1. st[Len(st)] \in ScopeSet /\ Len(st) \in DOMAIN st
  OBVIOUS
<1>2. /\ t \in ScopeSet /\ Alike(t, st[Len(st)])
      /\ t.size = st[Len(st)].size + 1 /\ t.records = st[Len(st)].records
      /\ t.handle = st[Len(st)].handle /\ t.stage = st[Len(st)].stage
  <2>1. st[Len(st)].size \in Nat /\ st[Len(st)].size + 1 \in Nat
    BY <1>1, ScopeParts
  <2> QED BY <1>1, <2>1 DEF ScopeSet, Alike
<1>3. Asked(st) = [st EXCEPT ![Len(st)] = t]
  BY <1>1 DEF Asked
<1> HIDE DEF t
<1> QED BY <1>2, <1>3, TopChanged

LEMMA EmissionIs ==
  ASSUME NEW st \in Seq(ScopeSet), Len(st) > 0, NEW rs \in Seq(Recs)
  PROVE  /\ SameBelow(Emitted(st, rs), st)
         /\ LET t == Emitted(st, rs)[Len(st)]  u == st[Len(st)]
            IN t.records = u.records \o rs /\ t.handle = u.handle /\ t.size = u.size
               /\ t.stage = u.stage
<1> DEFINE t == [st[Len(st)] EXCEPT !.records = @ \o rs]
<1>1. st[Len(st)] \in ScopeSet /\ Len(st) \in DOMAIN st
  OBVIOUS
<1>2. st[Len(st)].records \o rs \in Seq(Recs)
  BY <1>1, ScopeParts
<1>3. /\ t \in ScopeSet /\ Alike(t, st[Len(st)])
      /\ t.records = st[Len(st)].records \o rs /\ t.stage = st[Len(st)].stage
      /\ t.handle = st[Len(st)].handle /\ t.size = st[Len(st)].size
  BY <1>1, <1>2 DEF ScopeSet, Alike
<1>4. Emitted(st, rs) = [st EXCEPT ![Len(st)] = t]
  BY <1>1 DEF Emitted
<1> HIDE DEF t
<1> QED BY <1>3, <1>4, TopChanged

LEMMA HandleGiven ==
  ASSUME NEW st \in Seq(ScopeSet), Len(st) > 0, NEW h \in Handles
  PROVE  /\ SameBelow([st EXCEPT ![Len(st)].handle = h], st)
         /\ LET t == [st EXCEPT ![Len(st)].handle = h][Len(st)]  u == st[Len(st)]
            IN t.records = u.records /\ t.handle = h /\ t.size = u.size /\ t.stage = u.stage
<1> DEFINE t == [st[Len(st)] EXCEPT !.handle = h]
<1>1. st[Len(st)] \in ScopeSet /\ Len(st) \in DOMAIN st
  OBVIOUS
<1>2. /\ t \in ScopeSet /\ Alike(t, st[Len(st)])
      /\ t.records = st[Len(st)].records /\ t.stage = st[Len(st)].stage
      /\ t.handle = h /\ t.size = st[Len(st)].size
  BY <1>1 DEF ScopeSet, Alike
<1>3. [st EXCEPT ![Len(st)].handle = h] = [st EXCEPT ![Len(st)] = t]
  BY <1>1
<1> HIDE DEF t
<1> QED BY <1>2, <1>3, TopChanged

LEMMA StageEnded ==
  ASSUME NEW st \in Seq(ScopeSet), Len(st) > 0
  PROVE  /\ SameBelow([st EXCEPT ![Len(st)].stage = "ended"], st)
         /\ LET t == [st EXCEPT ![Len(st)].stage = "ended"][Len(st)]  u == st[Len(st)]
            IN t.records = u.records /\ t.handle = u.handle /\ t.size = u.size /\ t.stage = "ended"
<1> DEFINE t == [st[Len(st)] EXCEPT !.stage = "ended"]
<1>1. st[Len(st)] \in ScopeSet /\ Len(st) \in DOMAIN st
  OBVIOUS
<1>2. /\ t \in ScopeSet /\ Alike(t, st[Len(st)])
      /\ t.records = st[Len(st)].records /\ t.stage = "ended"
      /\ t.handle = st[Len(st)].handle /\ t.size = st[Len(st)].size
  BY <1>1 DEF ScopeSet, Alike
<1>3. [st EXCEPT ![Len(st)].stage = "ended"] = [st EXCEPT ![Len(st)] = t]
  BY <1>1
<1> HIDE DEF t
<1> QED BY <1>2, <1>3, TopChanged

LEMMA SameBelowJoins ==
  ASSUME NEW a, NEW b, NEW c, SameBelow(a, b), SameBelow(b, c)
  PROVE  SameBelow(a, c)
<1>1. Len(a) = Len(c) /\ a \in Seq(ScopeSet) /\ c \in Seq(ScopeSet) /\ Len(b) = Len(c)
  BY DEF SameBelow
<1>2. \A k \in 1..Len(c) : Alike(a[k], c[k])
  BY DEF SameBelow, Alike
<1>3. \A k \in 1..(Len(c) - 1) : a[k].records = c[k].records /\ a[k].stage = c[k].stage
                                 /\ a[k].handle = c[k].handle
  BY DEF SameBelow
<1> QED BY <1>1, <1>2, <1>3 DEF SameBelow

\* The innermost scope of st with one more record.
Given(st, r) ==
  [Emitted(st, <<r>>) EXCEPT ![Len(st)].handle = IF @ = 0 THEN r.handle ELSE @]

LEMMA GivenIs ==
  ASSUME NEW st \in Seq(ScopeSet), Len(st) > 0, NEW r \in Recs
  PROVE  /\ SameBelow(Given(st, r), st)
         /\ LET t == Given(st, r)[Len(st)]  u == st[Len(st)]
            IN /\ t.records = u.records \o <<r>> /\ t.size = u.size /\ t.stage = u.stage
               /\ t.handle = IF u.handle = 0 THEN r.handle ELSE u.handle
<1> DEFINE e == Emitted(st, <<r>>)
           h == IF e[Len(st)].handle = 0 THEN r.handle ELSE e[Len(st)].handle
<1>1. <<r>> \in Seq(Recs)
  OBVIOUS
<1>2. /\ SameBelow(e, st) /\ e[Len(st)].records = st[Len(st)].records \o <<r>>
      /\ e[Len(st)].handle = st[Len(st)].handle /\ e[Len(st)].size = st[Len(st)].size
      /\ e[Len(st)].stage = st[Len(st)].stage
  BY <1>1, EmissionIs
<1>3. e \in Seq(ScopeSet) /\ Len(e) = Len(st)
  BY <1>2 DEF SameBelow
<1>4. Given(st, r) = [e EXCEPT ![Len(st)].handle = h]
  BY DEF Given
<1> HIDE DEF e
<1>5. e[Len(st)].handle \in Handles /\ r.handle \in Handles
  <2>1. e[Len(st)] \in ScopeSet
    BY <1>3
  <2> QED BY <2>1, ScopeParts, RecParts
<1>6. h \in Handles /\ h = IF st[Len(st)].handle = 0 THEN r.handle ELSE st[Len(st)].handle
  BY <1>2, <1>5
<1> HIDE DEF h
<1>7. /\ SameBelow([e EXCEPT ![Len(st)].handle = h], e)
      /\ LET t == [e EXCEPT ![Len(st)].handle = h][Len(st)]  u == e[Len(st)]
         IN t.records = u.records /\ t.handle = h /\ t.size = u.size /\ t.stage = u.stage
  <2>1. e \in Seq(ScopeSet) /\ Len(e) = Len(st) /\ Len(e) > 0 /\ h \in Handles
    BY <1>3, <1>6
  <2>2. /\ SameBelow([e EXCEPT ![Len(e)].handle = h], e)
        /\ LET t == [e EXCEPT ![Len(e)].handle = h][Len(e)]  u == e[Len(e)]
           IN t.records = u.records /\ t.handle = h /\ t.size = u.size /\ t.stage = u.stage
    BY <2>1, HandleGiven
  <2> QED BY <2>1, <2>2
<1>8. SameBelow(Given(st, r), st)
  BY <1>2, <1>4, <1>7, SameBelowJoins
<1> QED BY <1>2, <1>4, <1>6, <1>7, <1>8

\* writeEntity() in the innermost scope of st: a refusal or one more record.
LEMMA EntityWritten ==
  ASSUME AllocOK, log \in Seq(Entries),
         NEW lo, NEW base \in Seq(Recs), NEW st, RecordOpen(lo, st),
         WorldsIn(lo, base, st, maps, Keeps, alloc.next), PathsIn(lo, st, maps, log),
         NEW kind \in RecordKinds, NEW s \in Entities, NEW owner,
         Owning(StreamIn(lo, base, st), owner), MayWrite(s),
         WriteEntity(kind, s, owner, st)
  PROVE  /\ \/ scopes' = Failed(st) /\ writeError' = TRUE
            \/ \E r \in Recs : /\ scopes' = Given(st, r) /\ r.source \in Entities
                               /\ r.call = st[Len(st)].call /\ r.handle # 0
                               /\ UNCHANGED writeError
         /\ WorldsIn(lo, base, scopes', maps', Keeps, alloc'.next)
         /\ PathsIn(lo, scopes', maps', log')
         /\ HP!Sound(alloc') /\ alloc'.explicitReserved = alloc.explicitReserved
         /\ log' \in Seq(Entries) /\ maps'.blocks = maps.blocks
<1> DEFINE top == StreamIn(lo, base, st)
<1>1. Coherent(maps, top, Keeps, alloc.next)
  BY DEF WorldsIn
<1> HIDE DEF top
<1>2. /\ maps \in Maps /\ maps.modelers \subseteq maps.written /\ top \in Seq(Recs)
      /\ HP!Sound(alloc) /\ alloc.next \in Nat /\ Keeps \in SUBSET Handles
      /\ st \in Seq(ScopeSet) /\ Len(st) > 0 /\ Len(st) \in 1..Len(st) /\ alloc.next <= MaxHandle /\ MaxHandle \in Nat
  <2>1. HP!Sound(alloc) /\ Keeps \in SUBSET Handles
    BY KeepsAre DEF AllocOK
  <2>2. alloc.next \in Nat /\ alloc.next <= MaxHandle /\ MaxHandle \in Nat
    BY <2>1, SoundIs
  <2>3. Len(st) > 0 /\ Len(st) \in 1..Len(st) /\ st \in Seq(ScopeSet)
    BY DEF RecordOpen
  <2> QED BY <1>1, <2>1, <2>2, <2>3 DEF Coherent, OneModeler
<1>3. SameBelow(Failed(st), st) /\ Failed(st)[Len(st)].records = st[Len(st)].records
  BY <1>2, FailedIs
<1>4. CASE Refused(kind, s)
  <2>1. scopes' = Failed(st) /\ writeError' = TRUE /\ UNCHANGED <<alloc, maps, log>>
    BY <1>4 DEF WriteEntity
  <2>2. WorldsIn(lo, base, Failed(st), maps, Keeps, alloc.next)
        /\ PathsIn(lo, Failed(st), maps, log)
    BY <1>3, WorldsSame, PathsSame
  <2> QED BY <1>2, <2>1, <2>2
<1>5. CASE ~Refused(kind, s) /\ ~CanEmit(s)
  <2>1. /\ scopes' = Failed(st) /\ writeError' = TRUE /\ alloc' = Handle!Exhausted(alloc)
        /\ log' = log \o WrittenEntry(s) /\ maps' = Marking(maps, s)
    BY <1>5 DEF WriteEntity, Marking
  <2>2. ~Handle!CanMint(alloc)
    BY <1>5 DEF CanEmit
  <2>3. /\ HP!Sound(alloc') /\ alloc'.next = MaxHandle
        /\ alloc'.explicitReserved = alloc.explicitReserved
    BY <1>2, <2>1, <2>2, ExhaustIs
  <2>4. Extends(log, maps, log', maps') /\ maps'.blocks = maps.blocks
    BY <1>2, <2>1, MarkingIs
  <2>5. log' \in Seq(Entries)
    BY <2>4 DEF Extends
  <2>6. Coherent(maps', top, Keeps, MaxHandle)
    <3>1. Coherent(maps, top, Keeps, MaxHandle)
      BY <1>1, <1>2, CoherentGrows
    <3>2. {s} \cap Sources \subseteq Sources
      OBVIOUS
    <3> QED BY <2>1, <3>1, <3>2, EnterWritten DEF Marking
  <2>7. StreamIn(lo, base, scopes') = top
    <3>1. StreamIn(lo, base, Failed(st)) = StreamIn(lo, base, st)
      BY <1>3, StreamSame
    <3> QED BY <2>1, <3>1 DEF top
  <2>8. SameBelow(scopes', st)
    BY <1>3, <2>1
  <2>9. WorldsIn(lo, base, scopes', maps', Keeps, MaxHandle) /\ PathsIn(lo, scopes', maps', log')
    <3>1. WorldsIn(lo, base, scopes', maps', Keeps, MaxHandle)
      BY <1>2, <2>6, <2>7, <2>8, WorldsTop
    <3>2. PathsIn(lo, scopes', maps', log')
      BY <2>4, <2>8, PathsTop
    <3> QED BY <3>1, <3>2
  <2> QED BY <2>1, <2>3, <2>4, <2>5, <2>9
<1>6. CASE ~Refused(kind, s) /\ CanEmit(s)
  <2> DEFINE call == st[Len(st)].call
             r == Record(EmittedHandle(s), owner, {}, call, s)
  <2>1. st[Len(st)] \in ScopeSet /\ call \in Nat
    BY <1>2, ScopeParts
  <2> HIDE DEF call
  <2>2. /\ scopes' = Given(st, r) /\ UNCHANGED writeError /\ alloc' = AllocAfter(s)
        /\ log' = ((log \o WrittenEntry(s)) \o SourceEntry(s)) \o ModelerEntry(kind, s)
        /\ maps' = EntityMaps(kind, s)
    <3>1. EmittedHandle(s) \in Handles
      BY <1>2, <1>6, EmittedIs
    <3>2. r.handle = EmittedHandle(s)
      BY DEF Record
    <3>3. maps' = EntityMaps(kind, s)
      BY <1>2, <1>6, EntityMapsAre DEF WriteEntity
    <3>4. scopes' = Given(st, r)
      BY <1>6, <3>2 DEF WriteEntity, Given, call
    <3> QED BY <1>6, <3>3, <3>4 DEF WriteEntity, AllocAfter
  <2>3. r \in Recs /\ Coherent(maps', top \o <<r>>, Keeps, alloc'.next)
    BY <1>1, <1>6, <2>1, <2>2, EntityCoherent DEF top
  <2>4. r.source = s /\ r.call = call /\ r.handle = EmittedHandle(s)
    BY DEF Record
  <2>5. r.handle # 0
    BY <1>2, <1>6, <2>4, EmittedIs
  <2> HIDE DEF r
  <2>6. /\ SameBelow(scopes', st)
        /\ scopes'[Len(st)].records = st[Len(st)].records \o <<r>>
    BY <1>2, <2>2, <2>3, GivenIs
  <2>8. StreamIn(lo, base, scopes') = top \o <<r>>
    <3> DEFINE rs == <<r>>
    <3>1. Stream(base) /\ Stream(rs) /\ Appends(scopes', st, rs)
      BY <2>3, <2>6 DEF Stream, Appends
    <3> HIDE DEF rs
    <3>2. StreamIn(lo, base, scopes') = Joined(StreamIn(lo, base, st), rs)
      BY <2>6, <3>1, StreamAppend
    <3> QED BY <3>2 DEF top, rs, Joined
  <2>9. /\ HP!Sound(alloc') /\ alloc.next <= alloc'.next /\ alloc'.next \in Nat
        /\ alloc'.explicitReserved = alloc.explicitReserved
    <3>1. HP!Sound(alloc') /\ alloc.next <= alloc'.next
          /\ alloc'.explicitReserved = alloc.explicitReserved
      BY <1>2, <1>6, <2>2, EmittedIs
    <3> QED BY <3>1, SoundIs
  <2>10. Extends(log, maps, log', maps') /\ maps'.blocks = maps.blocks
    BY <1>2, <1>6, <2>2, EntityLogs
  <2>11. log' \in Seq(Entries)
    BY <2>10 DEF Extends
  <2>12. WorldsIn(lo, base, scopes', maps', Keeps, alloc'.next) /\ PathsIn(lo, scopes', maps', log')
    <3>1. Coherent(maps', StreamIn(lo, base, scopes'), Keeps, alloc'.next)
      BY <2>3, <2>8
    <3>2. WorldsIn(lo, base, scopes', maps', Keeps, alloc'.next)
      BY <1>2, <2>6, <2>9, <3>1, WorldsTop
    <3>3. PathsIn(lo, scopes', maps', log')
      BY <2>6, <2>10, PathsTop
    <3> QED BY <3>2, <3>3
  <2> QED BY <2>2, <2>3, <2>4, <2>5, <2>9, <2>10, <2>11, <2>12 DEF call
<1> QED BY <1>4, <1>5, <1>6

---------------------------------------------------------------------------
(* What each action keeps.                                                   *)

LEMMA SessionParts ==
  ASSUME IInv, phase # "idle"
  PROVE  /\ AllocOK /\ HP!Sound(alloc) /\ alloc.next \in Nat /\ Keeps \in SUBSET Handles
         /\ Lo \in {0, 1} /\ scopes \in Seq(ScopeSet)
         /\ Len(scopes) \in {Lo, Lo + 1, Lo + 2} /\ Len(scopes) \in Nat
         /\ BaseStream \in Seq(Recs) /\ maps \in Maps
         /\ Coherent(maps, StreamIn(Lo, BaseStream, scopes), Keeps, alloc.next)
         /\ Len(scopes) # Lo => RecordOpen(Lo, scopes) /\ Len(scopes) \in 1..Len(scopes)
         /\ Session
<1>1. AllocOK /\ HP!Sound(alloc) /\ Session
  BY DEF IInv, AllocOK
<1>2. alloc.next \in Nat /\ Keeps \in SUBSET Handles
  BY <1>1, SoundIs, KeepsAre
<1>3. Lo \in {0, 1}
  BY DEF Lo
<1>4. scopes \in Seq(ScopeSet) /\ Len(scopes) \in Lo..(Lo + 2)
  BY <1>1 DEF Session, ScopesIn
<1> HIDE DEF Lo
<1>5. Len(scopes) \in {Lo, Lo + 1, Lo + 2} /\ Len(scopes) \in Nat
  BY <1>3, <1>4
<1>6. Len(scopes) # Lo => RecordOpen(Lo, scopes) /\ Len(scopes) \in 1..Len(scopes)
  BY <1>3, <1>4, <1>5 DEF RecordOpen
<1>7. WorldsIn(Lo, BaseStream, scopes, maps, Keeps, alloc.next)
  BY <1>1 DEF Session
<1>8. Coherent(maps, StreamIn(Lo, BaseStream, scopes), Keeps, alloc.next) /\ maps \in Maps
  BY <1>7 DEF WorldsIn, Coherent
<1>9. BaseStream \in Seq(Recs)
  <2>1. CASE Len(scopes) = Lo
    <3>1. StreamIn(Lo, BaseStream, scopes) = BaseStream
      BY <1>3, <2>1, StreamNone
    <3> QED BY <1>8, <3>1 DEF Coherent
  <2>2. CASE Len(scopes) # Lo
    <3>1. Len(scopes) > Lo
      BY <1>3, <1>5, <2>2
    <3> QED BY <1>7, <3>1 DEF WorldsIn, Coherent
  <2> QED BY <2>1, <2>2
<1> QED BY <1>1, <1>2, <1>3, <1>4, <1>5, <1>6, <1>8, <1>9

LEMMA InRecordIs ==
  ASSUME IInv, phase # "idle"
  PROVE  /\ InRecord <=> Len(scopes) # Lo
         /\ InRecord => phase \in {"blocks", "entities"} /\ RecordOpen(Lo, scopes)
                        /\ Top = scopes[Len(scopes)] /\ Top \in ScopeSet
                        /\ RecordScope(Top, block, Len(pending), maps.blocks)
<1>1. /\ Lo \in {0, 1} /\ scopes \in Seq(ScopeSet) /\ Len(scopes) \in {Lo, Lo + 1, Lo + 2}
      /\ ScopesIn(Lo, phase, scopes) /\ HoldsIn(Lo, scopes, block, Len(pending), maps.blocks)
      /\ Len(scopes) \in Nat /\ Len(scopes) # Lo => RecordOpen(Lo, scopes)
  BY SessionParts DEF Session
<1> HIDE DEF Lo
<1>2. CASE Len(scopes) = 0
  <2>1. scopes = <<>> /\ Lo = 0
    BY <1>1, <1>2
  <2> QED BY <1>2, <2>1 DEF InRecord
<1>3. CASE Len(scopes) # 0
  <2>1. Len(scopes) \in 1..Len(scopes) /\ scopes # <<>>
    BY <1>1, <1>3
  <2>2. scopes[Len(scopes)].kind \in RecordKinds <=> Len(scopes) > Lo
    BY <1>1, <2>1 DEF ScopesIn
  <2>3. InRecord <=> Len(scopes) # Lo
    BY <1>1, <2>1, <2>2 DEF InRecord, Top
  <2>4. ASSUME InRecord
        PROVE  phase \in {"blocks", "entities"} /\ RecordScope(Top, block, Len(pending), maps.blocks)
    <3>1. Len(scopes) \in (Lo + 1)..Len(scopes) /\ Len(scopes) > Lo
      BY <1>1, <2>3, <2>4
    <3> QED BY <1>1, <3>1 DEF ScopesIn, HoldsIn, Top
  <2> QED BY <1>1, <2>1, <2>3, <2>4 DEF Top
<1> QED BY <1>2, <1>3

LEMMA ScopesStay ==
  ASSUME NEW lo, NEW ph, NEW st, ScopesIn(lo, ph, st), lo \in {0, 1}, NEW sc, SameBelow(sc, st)
  PROVE  ScopesIn(lo, ph, sc)
<1>1. /\ sc \in Seq(ScopeSet) /\ Len(sc) = Len(st)
      /\ \A k \in 1..Len(st) : sc[k].kind = st[k].kind
  BY DEF SameBelow, Alike
<1>2. Len(st) \in lo..(lo + 2)
  BY DEF ScopesIn
<1>3. (Len(st) > lo => lo + 1 \in 1..Len(st)) /\ (Len(st) > lo + 1 => lo + 2 \in 1..Len(st))
  BY <1>2
<1> QED BY <1>1, <1>2, <1>3 DEF ScopesIn

\* A step inside the records of a section.
LEMMA RecordStep ==
  ASSUME IInv, phase \in {"blocks", "entities"},
         UNCHANGED <<phase, file, block, pending, replacement>>, BaseStream' = BaseStream,
         HP!Sound(alloc'), alloc.explicitReserved \subseteq alloc'.explicitReserved,
         log' \in Seq(Entries), maps'.blocks = maps.blocks,
         calls' \in Nat, writerError' \in BOOLEAN,
         ScopesIn(Lo, phase, scopes'), HoldsIn(Lo, scopes', block, Len(pending), maps.blocks),
         WorldsIn(Lo, BaseStream, scopes', maps', Keeps, alloc'.next),
         PathsIn(Lo, scopes', maps', log')
  PROVE  IInv'
<1>1. phase # "idle" /\ phase # "objects" /\ phase # "blockRecords" /\ phase' = phase
  OBVIOUS
<1>2. Session /\ AllocOK
  BY <1>1 DEF IInv
<1>3. Lo' = Lo /\ Keeps' = Keeps
  BY DEF Lo, Keeps
<1>4. AllocOK'
  BY <1>2 DEF AllocOK
<1>5. KeepsHeld'
  BY <1>2, <1>3 DEF Session, KeepsHeld
<1>6. ValuesOK'
  BY <1>2 DEF Session, ValuesOK
<1>7. SectionsOK'
  <2>1. SectionsOK
    BY <1>2 DEF Session
  <2>2. /\ phase = "blocks" => TablesOnly(file, maps.blocks)
                               /\ BlocksBegun(BaseStream, block, maps.blocks)
        /\ phase = "entities" => ~block.open
        /\ NoneKept(BaseStream)
    BY <1>1, <2>1 DEF SectionsOK
  <2> QED BY <1>1, <2>2 DEF SectionsOK
<1>8. Session'
  BY <1>3, <1>5, <1>6, <1>7 DEF Session
<1> QED BY <1>1, <1>4, <1>8 DEF IInv

LEMMA Quiet ==
  ASSUME IInv, UNCHANGED <<phase, maps, log, scopes, file, block, pending, replacement>>,
         HP!Sound(alloc'), alloc.next <= alloc'.next,
         alloc.explicitReserved \subseteq alloc'.explicitReserved,
         calls' \in Nat, writerError' \in BOOLEAN
  PROVE  IInv'
<1>1. Lo' = Lo /\ Keeps' = Keeps /\ BaseStream' = BaseStream
  BY DEF Lo, Keeps, BaseStream
<1>2. AllocOK'
  BY DEF IInv, AllocOK
<1>3. ASSUME phase # "idle" PROVE Session'
  <2>1. /\ Session /\ Keeps \in SUBSET Handles /\ alloc.next \in Nat /\ alloc'.next \in Nat
    BY <1>3, SessionParts, SoundIs
  <2>2. KeepsHeld'
    BY <1>1, <2>1 DEF Session, KeepsHeld
  <2>3. ValuesOK'
    BY <2>1 DEF Session, ValuesOK
  <2>4. SectionsOK'
    BY <1>1, <2>1 DEF Session, SectionsOK
  <2>5. WorldsIn(Lo, BaseStream, scopes, maps, Keeps, alloc'.next)
    BY <2>1, WorldsGrow DEF Session
  <2> QED BY <1>1, <2>1, <2>2, <2>3, <2>4, <2>5 DEF Session
<1> QED BY <1>2, <1>3 DEF IInv

LEMMA ScopeIs ==
  ASSUME maps \in Maps, ValuesOK, NEW kind \in RecordKinds \cup SectionKinds, NEW call \in Nat
  PROVE  /\ Scope(kind, call) \in ScopeSet /\ Scope(kind, call).kind = kind
         /\ Scope(kind, call).call = call /\ Scope(kind, call).handle = 0
         /\ Scope(kind, call).size = 0 /\ Scope(kind, call).stage = "open"
         /\ Scope(kind, call).records = <<>> /\ Scope(kind, call).checkpoint = Len(log)
         /\ Scope(kind, call).block = block /\ Scope(kind, call).pending = Len(pending)
         /\ Scope(kind, call).before = maps /\ Scope(kind, call).previousError = writerError
<1>1. Len(log) \in Nat /\ Len(pending) \in Nat /\ 0 \in Handles /\ <<>> \in Seq(Recs)
  BY LenProperties, Tags DEF ValuesOK, Handles
<1>2. writerError \in BOOLEAN /\ block \in BlockStates
  BY DEF ValuesOK
<1> QED BY <1>1, <1>2 DEF Scope, NewScope, ScopeSet

\* A scope in which nothing need be written yet.
HalfScope(sc, bl, n, bks) ==
  /\ sc.stage # "failed" => sc.handle = 0 \/ Has(sc.records, sc.handle)
  /\ \A i \in 1..Len(sc.records) : sc.records[i].source \in Entities
  /\ sc.block = bl /\ sc.pending = n /\ sc.before.blocks = bks

LEMMA HoldsSame ==
  ASSUME NEW a, NEW b, Alike(a, b), a.records = b.records, a.stage \in {b.stage, "failed"},
         a.handle = b.handle, NEW bl, NEW n, NEW bks
  PROVE  /\ RecordScope(b, bl, n, bks) => RecordScope(a, bl, n, bks)
         /\ HalfScope(b, bl, n, bks) => HalfScope(a, bl, n, bks)
BY DEF RecordScope, HalfScope, Alike

LEMMA EntityHolds ==
  ASSUME NEW lo, NEW st, RecordOpen(lo, st), NEW bl, NEW n, NEW bks,
         \A k \in (lo + 1)..(Len(st) - 1) : RecordScope(st[k], bl, n, bks),
         HalfScope(st[Len(st)], bl, n, bks), NEW sc,
         \/ sc = Failed(st)
         \/ \E r \in Recs : sc = Given(st, r) /\ r.source \in Entities
  PROVE  HoldsIn(lo, sc, bl, n, bks) /\ SameBelow(sc, st)
<1> DEFINE m == Len(st)
           u == st[m]
           t == sc[m]
<1>1. /\ lo \in {0, 1} /\ st \in Seq(ScopeSet) /\ m > 0 /\ m \in Nat /\ m \in 1..m
      /\ u \in ScopeSet
  BY DEF RecordOpen
<1>2. SameBelow(sc, st) /\ RecordScope(t, bl, n, bks)
  <2>1. CASE sc = Failed(st)
    <3>1. SameBelow(sc, st) /\ t.stage = "failed" /\ t.records = u.records
      BY <1>1, <2>1, FailedIs
    <3>2. Alike(t, u)
      BY <1>1, <3>1 DEF SameBelow
    <3> HIDE DEF t, u
    <3>3. HalfScope(u, bl, n, bks)
      BY DEF u
    <3>4. RecordScope(t, bl, n, bks)
      BY <3>1, <3>2, <3>3 DEF RecordScope, HalfScope, Alike
    <3> QED BY <3>1, <3>4
  <2>2. ASSUME NEW r \in Recs, sc = Given(st, r), r.source \in Entities
        PROVE  SameBelow(sc, st) /\ RecordScope(t, bl, n, bks)
    <3>1. /\ SameBelow(sc, st) /\ t.records = u.records \o <<r>> /\ t.stage = u.stage
          /\ t.handle = IF u.handle = 0 THEN r.handle ELSE u.handle
      BY <1>1, <2>2, GivenIs
    <3>2. Alike(t, u)
      BY <1>1, <3>1 DEF SameBelow
    <3>3. u.records \in Seq(Recs)
      BY <1>1, ScopeParts
    <3> HIDE DEF t, u, m
    <3>4. HalfScope(u, bl, n, bks)
      BY DEF u, m
    <3>5. \A h : Has(t.records, h) <=> Has(u.records, h) \/ h = r.handle
      BY <3>1, <3>3, HasMore
    <3>6. \A i \in 1..Len(t.records) : t.records[i].source \in Entities
      <4>1. /\ Len(t.records) = Len(u.records) + 1 /\ Len(u.records) \in Nat
            /\ \A i \in 1..Len(u.records) : t.records[i] = u.records[i]
            /\ t.records[Len(u.records) + 1] = r
        BY <3>1, <3>3, OneMore
      <4>2. \A i \in 1..Len(t.records) : i \in 1..Len(u.records) \/ i = Len(u.records) + 1
        BY <4>1
      <4> QED BY <2>2, <3>4, <4>1, <4>2 DEF HalfScope
    <3>7. t.stage # "failed" => Has(t.records, t.handle)
      BY <3>1, <3>4, <3>5 DEF HalfScope
    <3>8. t.block = bl /\ t.pending = n /\ t.before.blocks = bks
      BY <3>2, <3>4 DEF HalfScope, Alike
    <3> QED BY <3>1, <3>6, <3>7, <3>8 DEF RecordScope
  <2> QED BY <2>1, <2>2
<1>3. ASSUME NEW k \in (lo + 1)..Len(sc) PROVE RecordScope(sc[k], bl, n, bks)
  <2>1. Len(sc) = m
    BY <1>2 DEF SameBelow
  <2>2. CASE k = m
    BY <1>2, <2>2
  <2>3. CASE k # m
    <3>1. k \in (lo + 1)..(m - 1) /\ k \in 1..(m - 1) /\ k \in 1..m
      BY <1>1, <2>1, <2>3
    <3>2. Alike(sc[k], st[k]) /\ sc[k].records = st[k].records /\ sc[k].stage = st[k].stage
          /\ sc[k].handle = st[k].handle
      BY <1>2, <3>1 DEF SameBelow
    <3>3. RecordScope(st[k], bl, n, bks)
      BY <3>1
    <3> QED BY <3>2, <3>3, HoldsSame
  <2> QED BY <2>2, <2>3
<1> QED BY <1>2, <1>3 DEF HoldsIn

LEMMA BaseSame ==
  ASSUME UNCHANGED <<phase, file, pending>>,
         phase \notin {"blockRecords", "entities"} => scopes'[1].records = scopes[1].records
  PROVE  BaseStream' = BaseStream
<1>1. FixedRecords' = FixedRecords
  OBVIOUS
<1>2. CASE phase = "blockRecords"
  BY <1>1, <1>2 DEF BaseStream
<1>3. CASE phase = "entities"
  BY <1>3 DEF BaseStream
<1>4. CASE phase \notin {"blockRecords", "entities"}
  BY <1>4 DEF BaseStream
<1> QED BY <1>2, <1>3, <1>4

LEMMA OpenLength ==
  ASSUME NEW lo, NEW st, RecordOpen(lo, st), lo = 1
  PROVE  1 \in 1..(Len(st) - 1)
<1>1. Len(st) = 2 \/ Len(st) = 3
  BY DEF RecordOpen
<1> QED BY <1>1

\* writeEntity() in a scope that is already open.
LEMMA EntityStep ==
  ASSUME IInv, phase \in {"blocks", "entities"},
         NEW st, RecordOpen(Lo, st), ScopesIn(Lo, phase, st),
         Lo = 1 => st[1].records = scopes[1].records,
         \A k \in (Lo + 1)..(Len(st) - 1) : RecordScope(st[k], block, Len(pending), maps.blocks),
         HalfScope(st[Len(st)], block, Len(pending), maps.blocks),
         WorldsIn(Lo, BaseStream, st, maps, Keeps, alloc.next), PathsIn(Lo, st, maps, log),
         NEW kind \in RecordKinds, NEW s \in Entities, NEW owner,
         Owning(StreamIn(Lo, BaseStream, st), owner), MayWrite(s),
         WriteEntity(kind, s, owner, st),
         UNCHANGED <<phase, file, block, pending, replacement>>,
         calls' \in Nat, writerError' \in BOOLEAN
  PROVE  IInv'
<1>1. AllocOK /\ log \in Seq(Entries) /\ Lo \in {0, 1} /\ BaseStream \in Seq(Recs)
  BY SessionParts DEF Session, ValuesOK
<1>2. /\ \/ scopes' = Failed(st)
         \/ \E r \in Recs : scopes' = Given(st, r) /\ r.source \in Entities
      /\ WorldsIn(Lo, BaseStream, scopes', maps', Keeps, alloc'.next)
      /\ PathsIn(Lo, scopes', maps', log')
      /\ HP!Sound(alloc') /\ alloc'.explicitReserved = alloc.explicitReserved
      /\ log' \in Seq(Entries) /\ maps'.blocks = maps.blocks
  BY <1>1, EntityWritten
<1>3. HoldsIn(Lo, scopes', block, Len(pending), maps.blocks) /\ SameBelow(scopes', st)
  BY <1>2, EntityHolds
<1>4. ScopesIn(Lo, phase, scopes')
  BY <1>1, <1>3, ScopesStay
<1>5. BaseStream' = BaseStream
  <2>1. ASSUME phase = "blocks" PROVE scopes'[1].records = scopes[1].records
    <3>1. Lo = 1
      BY <2>1 DEF Lo
    <3>2. 1 \in 1..(Len(st) - 1)
      BY <3>1, OpenLength
    <3>3. scopes'[1].records = st[1].records
      BY <1>3, <3>2, SameLevels
    <3> QED BY <3>1, <3>3
  <2> QED BY <2>1, BaseSame
<1> QED BY <1>2, <1>3, <1>4, <1>5, RecordStep

LEMMA ScopesPush ==
  ASSUME NEW lo, lo \in {0, 1}, NEW ph \in {"blocks", "entities"}, NEW sc, ScopesIn(lo, ph, sc),
         NEW sd \in ScopeSet,
         \/ Len(sc) = lo /\ sd.kind \in RecordKinds \ {"attrib"}
         \/ Len(sc) = lo + 1 /\ sc[lo + 1].kind = "insert" /\ sd.kind = "attrib"
  PROVE  ScopesIn(lo, ph, Append(sc, sd))
<1> DEFINE ss == Append(sc, sd)
<1>1. sc \in Seq(ScopeSet)
  BY DEF ScopesIn
<1>2. /\ ss \in Seq(ScopeSet) /\ Len(ss) = Len(sc) + 1 /\ Len(sc) \in Nat
      /\ \A k \in 1..Len(sc) : ss[k] = sc[k]
      /\ ss[Len(sc) + 1] = sd
  BY <1>1
<1> HIDE DEF ss
<1>3. sd.kind \in RecordKinds
  BY DEF RecordKinds
<1>4. \A k \in 1..Len(ss) : k \in 1..Len(sc) \/ k = Len(sc) + 1
  BY <1>2
<1>5. \A k \in 1..Len(ss) : ss[k].kind \in RecordKinds <=> k > lo
  BY <1>2, <1>3, <1>4 DEF ScopesIn
<1>6. CASE Len(sc) = lo /\ sd.kind \in RecordKinds \ {"attrib"}
  <2>1. Len(ss) = lo + 1 /\ ss[lo + 1] = sd
    BY <1>2, <1>6
  <2> QED BY <1>2, <1>5, <1>6, <2>1 DEF ScopesIn, ss
<1>7. CASE Len(sc) = lo + 1 /\ sc[lo + 1].kind = "insert" /\ sd.kind = "attrib"
  <2>1. lo + 1 \in 1..Len(sc)
    BY <1>2, <1>7
  <2>2. Len(ss) = lo + 2 /\ ss[lo + 2] = sd /\ ss[lo + 1] = sc[lo + 1]
    BY <1>2, <1>7, <2>1
  <2> QED BY <1>2, <1>5, <1>7, <2>2 DEF ScopesIn, ss
<1> QED BY <1>6, <1>7

LEMMA HasJoined ==
  ASSUME NEW a \in Seq(Recs), NEW b \in Seq(Recs), NEW h
  PROVE  Has(Joined(a, b), h) <=> Has(a, h) \/ Has(b, h)
<1> DEFINE c == a \o b
<1>1. /\ Len(c) = Len(a) + Len(b) /\ Len(a) \in Nat /\ Len(b) \in Nat
      /\ \A i \in 1..Len(a) : c[i] = a[i]
      /\ \A i \in 1..Len(b) : c[Len(a) + i] = b[i]
  OBVIOUS
<1> HIDE DEF c
<1>2. ASSUME NEW i \in 1..Len(c), c[i].handle = h PROVE Has(a, h) \/ Has(b, h)
  <2>1. CASE i \in 1..Len(a)
    BY <1>1, <1>2, <2>1 DEF Has
  <2>2. CASE i \notin 1..Len(a)
    <3>1. i - Len(a) \in 1..Len(b) /\ i = Len(a) + (i - Len(a))
      BY <1>1, <2>2
    <3>2. b[i - Len(a)].handle = h
      BY <1>1, <1>2, <3>1
    <3> QED BY <3>1, <3>2 DEF Has
  <2> QED BY <2>1, <2>2
<1>3. ASSUME NEW i \in 1..Len(a), a[i].handle = h PROVE Has(c, h)
  <2>1. i \in 1..Len(c) /\ c[i] = a[i]
    BY <1>1
  <2> QED BY <1>3, <2>1 DEF Has
<1>4. ASSUME NEW i \in 1..Len(b), b[i].handle = h PROVE Has(c, h)
  <2>1. Len(a) + i \in 1..Len(c) /\ c[Len(a) + i] = b[i]
    BY <1>1
  <2> QED BY <1>4, <2>1 DEF Has
<1>5. Has(c, h) <=> Has(a, h) \/ Has(b, h)
  BY <1>2, <1>3, <1>4 DEF Has
<1> QED BY <1>5 DEF Joined, c

LEMMA TopHas ==
  ASSUME NEW lo, NEW base, Stream(base), NEW sc, RecordOpen(lo, sc), NEW h,
         Has(sc[Len(sc)].records, h)
  PROVE  Has(StreamIn(lo, base, sc), h)
<1>1. /\ lo \in {0, 1} /\ sc \in Seq(ScopeSet) /\ Len(sc) \in {lo + 1, lo + 2}
      /\ base \in Seq(Recs) /\ \A k \in 1..Len(sc) : sc[k].records \in Seq(Recs)
  BY ScopeParts DEF RecordOpen, Stream
<1>2. CASE Len(sc) = lo + 1
  <2>1. StreamIn(lo, base, sc) = Joined(base, sc[lo + 1].records)
    BY <1>1, <1>2, StreamOne DEF Joined
  <2>2. sc[lo + 1].records \in Seq(Recs)
    BY <1>1, <1>2
  <2> QED BY <1>1, <1>2, <2>1, <2>2, HasJoined
<1>3. CASE Len(sc) = lo + 2
  <2>1. StreamIn(lo, base, sc) = Joined(Joined(base, sc[lo + 1].records), sc[lo + 2].records)
    BY <1>1, <1>3, StreamTwo DEF Joined
  <2>2. sc[lo + 1].records \in Seq(Recs) /\ sc[lo + 2].records \in Seq(Recs)
    BY <1>1, <1>3
  <2>3. Joined(base, sc[lo + 1].records) \in Seq(Recs)
    BY <1>1, <2>2 DEF Joined
  <2> QED BY <1>1, <1>3, <2>1, <2>2, <2>3, HasJoined
<1> QED BY <1>1, <1>2, <1>3

LEMMA OwnerThere ==
  ASSUME IInv, phase \in {"blocks", "entities"}, Len(scopes) = Lo,
         NEW parent \in ParentHandles, NEW space
  PROVE  /\ Owning(StreamIn(Lo, BaseStream, scopes), OwnerHandle(parent, space))
         /\ StreamIn(Lo, BaseStream, scopes) = BaseStream
<1>1. phase # "idle"
  OBVIOUS
<1>2. /\ Coherent(maps, StreamIn(Lo, BaseStream, scopes), Keeps, alloc.next) /\ Session
      /\ Lo \in {0, 1} /\ maps \in Maps
  BY <1>1, SessionParts
<1>3. StreamIn(Lo, BaseStream, scopes) = BaseStream
  BY <1>2, StreamNone
<1>4. Based(maps, BaseStream)
  BY <1>2, <1>3 DEF Coherent
<1>5. CASE parent = NoOwner /\ block.open
  <2>1. phase = "blocks" /\ BlocksBegun(BaseStream, block, maps.blocks)
    BY <1>2, <1>5 DEF Session, SectionsOK
  <2>2. PICK b \in Blocks : block.record = maps.blocks[b] /\ maps.blocks[b] # 0
    BY <1>5, <2>1 DEF BlocksBegun
  <2>3. maps.blocks[b] \in Handles
    BY <1>2, MapParts
  <2>4. Has(BaseStream, maps.blocks[b])
    BY <1>4, <2>2 DEF Based
  <2> QED BY <1>3, <1>5, <2>2, <2>3, <2>4 DEF OwnerHandle, Owning
<1>6. CASE parent = NoOwner /\ ~block.open
  <2>1. OwnerHandle(parent, space) \in FixedHandles
    BY <1>6, SessionAssumption DEF OwnerHandle
  <2> QED BY <1>3, <1>4, <2>1, Tags DEF Owning, Based
<1>7. CASE parent # NoOwner
  <2>1. parent \in SourceOwners
    BY <1>7 DEF ParentHandles
  <2> QED BY <1>3, <1>7, <2>1 DEF OwnerHandle, Owning
<1> QED BY <1>5, <1>6, <1>7

LEMMA BeginRecordKeeps ==
  ASSUME IInv, NEW kind \in RecordKinds \ {"attrib"}, NEW s \in Entities,
         NEW parent \in ParentHandles, NEW space, NEW valid,
         BeginRecord(kind, s, parent, space, valid)
  PROVE  IInv'
<1>1. /\ phase \in {"blocks", "entities"} /\ phase # "idle" /\ ~InRecord /\ MayWrite(s)
      /\ calls' = calls + 1
      /\ UNCHANGED <<phase, file, writerError, block, pending, replacement>>
  BY DEF BeginRecord
<1>2. /\ Session /\ HP!Sound(alloc) /\ alloc.next \in Nat /\ Lo \in {0, 1}
      /\ scopes \in Seq(ScopeSet) /\ maps \in Maps /\ BaseStream \in Seq(Recs)
      /\ Len(scopes) = Lo /\ ValuesOK /\ ScopesIn(Lo, phase, scopes)
      /\ WorldsIn(Lo, BaseStream, scopes, maps, Keeps, alloc.next)
      /\ PathsIn(Lo, scopes, maps, log)
  BY <1>1, SessionParts, InRecordIs DEF Session
<1>3. calls' \in Nat /\ writerError' \in BOOLEAN /\ log \in Seq(Entries)
  BY <1>1, <1>2 DEF ValuesOK
<1>4. CASE writerError \/ ~valid
  <2>1. UNCHANGED <<alloc, maps, log, scopes>>
    BY <1>4 DEF BeginRecord
  <2>2. HP!Sound(alloc') /\ alloc.next <= alloc'.next
        /\ alloc.explicitReserved \subseteq alloc'.explicitReserved
    BY <1>2, <2>1
  <2> QED BY <1>1, <1>3, <2>1, <2>2, Quiet
<1>5. CASE ~(writerError \/ ~valid)
  <2> DEFINE sd == Scope(kind, calls + 1)
             app == Append(scopes, sd)
             st == Asked(app)
  <2>1. WriteEntity(kind, s, OwnerHandle(parent, space), st)
    BY <1>5 DEF BeginRecord
  <2>2. /\ sd \in ScopeSet /\ sd.kind = kind /\ sd.handle = 0 /\ sd.records = <<>>
        /\ sd.checkpoint = Len(log) /\ sd.block = block /\ sd.pending = Len(pending)
        /\ sd.before = maps
    <3>1. calls + 1 \in Nat /\ kind \in RecordKinds \cup SectionKinds
      BY <1>1, <1>3
    <3> QED BY <1>2, <3>1, ScopeIs
  <2> HIDE DEF sd
  <2>3. /\ app \in Seq(ScopeSet) /\ Len(app) = Len(scopes) + 1
        /\ \A k \in 1..Len(scopes) : app[k] = scopes[k]
        /\ app[Len(scopes) + 1] = sd
        /\ StreamIn(Lo, BaseStream, app) = StreamIn(Lo, BaseStream, scopes)
        /\ WorldsIn(Lo, BaseStream, app, maps, Keeps, alloc.next)
        /\ PathsIn(Lo, app, maps, log)
    <3>1. Opens(Lo, scopes, sd, maps, log)
      BY <1>2, <1>3, <2>2 DEF Opens
    <3>2. /\ WorldsIn(Lo, BaseStream, scopes, maps, Keeps, alloc.next)
          /\ PathsIn(Lo, scopes, maps, log)
      BY <1>2
    <3> QED BY <3>1, <3>2, LevelsPush
  <2>4. ScopesIn(Lo, phase, app)
    BY <1>1, <1>2, <2>2, ScopesPush
  <2> HIDE DEF app
  <2>5. Len(app) = Lo + 1 /\ Len(app) > 0 /\ RecordOpen(Lo, app) /\ app[Len(app)] = sd
    BY <1>2, <2>3 DEF RecordOpen
  <2>6. /\ SameBelow(st, app) /\ st[Len(app)].records = sd.records
        /\ st[Len(app)].handle = sd.handle
    BY <2>3, <2>5, AskedIs
  <2> HIDE DEF st
  <2>7. st \in Seq(ScopeSet) /\ Len(st) = Len(app) /\ Alike(st[Len(app)], sd)
    <3>1. Len(app) \in 1..Len(app)
      BY <1>2, <2>5
    <3> QED BY <2>5, <2>6, <3>1 DEF SameBelow
  <2>8. RecordOpen(Lo, st) /\ ScopesIn(Lo, phase, st)
    BY <1>2, <2>4, <2>5, <2>6, <2>7, ScopesStay DEF RecordOpen
  <2>9. Lo = 1 => st[1].records = scopes[1].records
    <3>1. SUFFICES ASSUME Lo = 1 PROVE st[1].records = scopes[1].records
      OBVIOUS
    <3>2. 1 \in 1..(Len(app) - 1)
      BY <2>5, <3>1, OpenLength
    <3>3. 1 \in 1..Len(scopes)
      BY <1>2, <3>1
    <3>4. st[1].records = app[1].records
      BY <2>6, <3>2, SameLevels
    <3>5. app[1] = scopes[1]
      BY <2>3, <3>3
    <3> QED BY <3>4, <3>5
  <2>10. \A k \in (Lo + 1)..(Len(st) - 1) : RecordScope(st[k], block, Len(pending), maps.blocks)
    <3>1. Len(st) = Lo + 1
      BY <2>5, <2>7
    <3> QED BY <1>2, <3>1
  <2>11. HalfScope(st[Len(st)], block, Len(pending), maps.blocks)
    <3>1. st[Len(st)].records = <<>> /\ st[Len(st)].handle = 0 /\ Alike(st[Len(st)], sd)
      BY <2>2, <2>6, <2>7
    <3>2. Len(<<>>) = 0
      OBVIOUS
    <3> QED BY <2>2, <3>1, <3>2 DEF HalfScope, Alike
  <2>12. WorldsIn(Lo, BaseStream, st, maps, Keeps, alloc.next)
    BY <2>3, <2>5, <2>6, WorldsSame
  <2>13. PathsIn(Lo, st, maps, log)
    BY <2>3, <2>5, <2>6, PathsSame
  <2>14. Owning(StreamIn(Lo, BaseStream, st), OwnerHandle(parent, space))
    <3>1. StreamIn(Lo, BaseStream, st) = StreamIn(Lo, BaseStream, app)
      BY <2>5, <2>6, StreamSame
    <3>2. Owning(StreamIn(Lo, BaseStream, scopes), OwnerHandle(parent, space))
      BY <1>1, <1>2, OwnerThere
    <3> QED BY <2>3, <3>1, <3>2
  <2> QED BY <1>1, <1>3, <2>1, <2>8, <2>9, <2>10, <2>11, <2>12, <2>13, <2>14, EntityStep
<1> QED BY <1>4, <1>5

LEMMA AskedStack ==
  ASSUME IInv, phase # "idle", InRecord
  PROVE  LET st == Asked(scopes)  t == Asked(scopes)[Len(scopes)]
         IN /\ SameBelow(st, scopes) /\ RecordOpen(Lo, st) /\ Len(st) = Len(scopes)
            /\ ScopesIn(Lo, phase, st) /\ HoldsIn(Lo, st, block, Len(pending), maps.blocks)
            /\ WorldsIn(Lo, BaseStream, st, maps, Keeps, alloc.next)
            /\ PathsIn(Lo, st, maps, log)
            /\ StreamIn(Lo, BaseStream, st) = StreamIn(Lo, BaseStream, scopes)
            /\ Lo = 1 => st[1].records = scopes[1].records
            /\ t.stage = Top.stage /\ t.handle = Top.handle /\ t.records = Top.records
            /\ t.size = Top.size + 1 /\ Alike(t, Top)
<1> DEFINE st == Asked(scopes)
           m == Len(scopes)
           t == st[m]
<1>1. /\ RecordOpen(Lo, scopes) /\ Session /\ Top = scopes[m] /\ Lo \in {0, 1}
      /\ scopes \in Seq(ScopeSet) /\ m \in 1..m /\ m \in Nat /\ m > 0
  <2>1. RecordOpen(Lo, scopes) /\ Session /\ Top = scopes[m] /\ Lo \in {0, 1}
        /\ scopes \in Seq(ScopeSet) /\ m \in 1..m /\ m \in Nat
    BY SessionParts, InRecordIs
  <2> QED BY <2>1
<1>2. /\ SameBelow(st, scopes) /\ t.size = scopes[m].size + 1 /\ t.records = scopes[m].records
      /\ t.handle = scopes[m].handle /\ t.stage = scopes[m].stage
  BY <1>1, AskedIs
<1> HIDE DEF st
<1>3. st \in Seq(ScopeSet) /\ Len(st) = m /\ Alike(t, scopes[m])
  BY <1>1, <1>2 DEF SameBelow
<1>4. RecordOpen(Lo, st)
  BY <1>1, <1>3 DEF RecordOpen
<1>5. ScopesIn(Lo, phase, st)
  BY <1>1, <1>2, ScopesStay DEF Session
<1>6. WorldsIn(Lo, BaseStream, st, maps, Keeps, alloc.next)
  BY <1>1, <1>2, WorldsSame DEF Session
<1>7. PathsIn(Lo, st, maps, log)
  BY <1>1, <1>2, PathsSame DEF Session
<1>8. StreamIn(Lo, BaseStream, st) = StreamIn(Lo, BaseStream, scopes)
  BY <1>1, <1>2, StreamSame
<1>9. Lo = 1 => st[1].records = scopes[1].records
  <2>1. SUFFICES ASSUME Lo = 1 PROVE st[1].records = scopes[1].records
    OBVIOUS
  <2>2. 1 \in 1..(m - 1)
    BY <1>1, <2>1, OpenLength
  <2> QED BY <1>2, <2>2, SameLevels
<1>10. ASSUME NEW k \in (Lo + 1)..Len(st)
       PROVE  RecordScope(st[k], block, Len(pending), maps.blocks)
  <2>1. k \in (Lo + 1)..m /\ k \in 1..m
    BY <1>1, <1>3
  <2>2. RecordScope(scopes[k], block, Len(pending), maps.blocks)
    BY <1>1, <2>1 DEF Session, HoldsIn
  <2>3. Alike(st[k], scopes[k])
    BY <1>2, <2>1 DEF SameBelow
  <2>4. /\ st[k].records = scopes[k].records /\ st[k].stage = scopes[k].stage
        /\ st[k].handle = scopes[k].handle
    <3>1. CASE k = m
      BY <1>2, <3>1
    <3>2. CASE k # m
      <4>1. k \in 1..(m - 1)
        BY <1>1, <2>1, <3>2
      <4> QED BY <1>2, <4>1 DEF SameBelow
    <3> QED BY <3>1, <3>2
  <2> QED BY <2>2, <2>3, <2>4, HoldsSame
<1>11. HoldsIn(Lo, st, block, Len(pending), maps.blocks)
  BY <1>10 DEF HoldsIn
<1> QED BY <1>1, <1>2, <1>3, <1>4, <1>5, <1>6, <1>7, <1>8, <1>9, <1>11 DEF st

LEMMA HalfHeld ==
  ASSUME NEW sc, NEW bl, NEW n, NEW bks, RecordScope(sc, bl, n, bks)
  PROVE  HalfScope(sc, bl, n, bks)
BY DEF RecordScope, HalfScope

\* The record of an open scope is in the stream.
LEMMA ParentThere ==
  ASSUME IInv, phase # "idle", InRecord, Top.stage = "open"
  PROVE  /\ Top.handle \in Handles /\ Has(Top.records, Top.handle)
         /\ Has(StreamIn(Lo, BaseStream, scopes), Top.handle)
<1>1. /\ RecordOpen(Lo, scopes) /\ Top = scopes[Len(scopes)] /\ Top \in ScopeSet
      /\ RecordScope(Top, block, Len(pending), maps.blocks) /\ Stream(BaseStream)
  BY SessionParts, InRecordIs DEF Stream
<1>2. Has(Top.records, Top.handle) /\ Top.handle \in Handles
  BY <1>1, ScopeParts DEF RecordScope
<1> QED BY <1>1, <1>2, TopHas

LEMMA WriteVertexKeeps ==
  ASSUME IInv, phase # "idle", NEW s \in Entities, WriteVertex(s)
  PROVE  IInv'
<1> DEFINE st == Asked(scopes)
<1>1. /\ InRecord /\ Top.stage = "open" /\ MayWrite(s)
      /\ WriteEntity("plain", s, Top.handle, st)
      /\ UNCHANGED <<phase, file, writerError, block, pending, calls, replacement>>
  BY DEF WriteVertex
<1>2. /\ phase \in {"blocks", "entities"} /\ ValuesOK /\ Lo \in {0, 1}
  BY <1>1, SessionParts, InRecordIs DEF Session
<1>3. /\ RecordOpen(Lo, st) /\ Len(st) = Len(scopes)
      /\ ScopesIn(Lo, phase, st) /\ HoldsIn(Lo, st, block, Len(pending), maps.blocks)
      /\ WorldsIn(Lo, BaseStream, st, maps, Keeps, alloc.next) /\ PathsIn(Lo, st, maps, log)
      /\ StreamIn(Lo, BaseStream, st) = StreamIn(Lo, BaseStream, scopes)
      /\ Lo = 1 => st[1].records = scopes[1].records
  BY <1>1, AskedStack
<1> HIDE DEF st
<1>4. Owning(StreamIn(Lo, BaseStream, st), Top.handle)
  BY <1>1, <1>3, ParentThere DEF Owning
<1>5. calls' \in Nat /\ writerError' \in BOOLEAN /\ "plain" \in RecordKinds
  BY <1>1, <1>2 DEF ValuesOK, RecordKinds
<1>6. Len(st) = Lo + 1 \/ Len(st) = Lo + 2
  BY <1>3 DEF RecordOpen
<1>7. /\ \A k \in (Lo + 1)..(Len(st) - 1) : k \in (Lo + 1)..Len(st)
      /\ Len(st) \in (Lo + 1)..Len(st)
  BY <1>2, <1>6
<1>8. /\ \A k \in (Lo + 1)..(Len(st) - 1) : RecordScope(st[k], block, Len(pending), maps.blocks)
      /\ RecordScope(st[Len(st)], block, Len(pending), maps.blocks)
  BY <1>3, <1>7 DEF HoldsIn
<1>9. HalfScope(st[Len(st)], block, Len(pending), maps.blocks)
  BY <1>8, HalfHeld
<1> QED BY <1>1, <1>2, <1>3, <1>4, <1>5, <1>8, <1>9, EntityStep

LEMMA BeginAttribKeeps ==
  ASSUME IInv, phase # "idle", NEW s \in Entities, BeginAttrib(s)
  PROVE  IInv'
<1> DEFINE a == Asked(scopes)
           sd == Scope("attrib", Top.call)
           st == Append(a, sd)
<1>1. /\ InRecord /\ Top.stage = "open" /\ Top.kind = "insert" /\ MayWrite(s)
      /\ WriteEntity("plain", s, Top.handle, st)
      /\ UNCHANGED <<phase, file, writerError, block, pending, calls, replacement>>
  BY DEF BeginAttrib
<1>2. /\ phase \in {"blocks", "entities"} /\ ValuesOK /\ Lo \in {0, 1} /\ maps \in Maps
      /\ Top = scopes[Len(scopes)] /\ Top \in ScopeSet /\ RecordOpen(Lo, scopes)
      /\ ScopesIn(Lo, phase, scopes) /\ alloc.next \in Nat
  BY <1>1, SessionParts, InRecordIs DEF Session
<1>3. /\ SameBelow(a, scopes) /\ RecordOpen(Lo, a) /\ Len(a) = Len(scopes)
      /\ ScopesIn(Lo, phase, a) /\ HoldsIn(Lo, a, block, Len(pending), maps.blocks)
      /\ WorldsIn(Lo, BaseStream, a, maps, Keeps, alloc.next) /\ PathsIn(Lo, a, maps, log)
      /\ StreamIn(Lo, BaseStream, a) = StreamIn(Lo, BaseStream, scopes)
      /\ Lo = 1 => a[1].records = scopes[1].records
      /\ Alike(a[Len(scopes)], Top)
  BY <1>1, AskedStack
<1> HIDE DEF a
<1>4. Len(a) = Lo + 1 /\ a[Lo + 1].kind = "insert"
  <2>1. Len(a) = Lo + 1 \/ Len(a) = Lo + 2
    BY <1>3 DEF RecordOpen
  <2>2. CASE Len(a) = Lo + 2
    <3>1. scopes[Lo + 2].kind = "attrib" /\ Top = scopes[Lo + 2]
      BY <1>2, <1>3, <2>2 DEF ScopesIn
    <3> QED BY <1>1, <3>1
  <2>3. CASE Len(a) = Lo + 1
    <3>1. a[Lo + 1].kind = Top.kind
      BY <1>3, <2>3 DEF Alike
    <3> QED BY <1>1, <2>3, <3>1
  <2> QED BY <2>1, <2>2, <2>3
<1>5. /\ sd \in ScopeSet /\ sd.kind = "attrib" /\ sd.handle = 0 /\ sd.records = <<>>
      /\ sd.checkpoint = Len(log) /\ sd.block = block /\ sd.pending = Len(pending)
      /\ sd.before = maps
  <2>1. Top.call \in Nat /\ "attrib" \in RecordKinds \cup SectionKinds
    BY <1>2, ScopeParts DEF RecordKinds
  <2> QED BY <1>2, <2>1, ScopeIs
<1> HIDE DEF sd
<1>6. /\ st \in Seq(ScopeSet) /\ Len(st) = Len(a) + 1
      /\ \A k \in 1..Len(a) : st[k] = a[k]
      /\ st[Len(a) + 1] = sd
      /\ StreamIn(Lo, BaseStream, st) = StreamIn(Lo, BaseStream, a)
      /\ WorldsIn(Lo, BaseStream, st, maps, Keeps, alloc.next)
      /\ PathsIn(Lo, st, maps, log)
  <2>1. Opens(Lo, a, sd, maps, log)
    <3>1. a \in Seq(ScopeSet) /\ log \in Seq(Entries)
      BY <1>2, <1>3 DEF RecordOpen, ValuesOK
    <3> QED BY <1>2, <1>4, <1>5, <3>1 DEF Opens
  <2> QED BY <1>3, <2>1, LevelsPush
<1>7. ScopesIn(Lo, phase, st)
  BY <1>2, <1>3, <1>4, <1>5, ScopesPush
<1> HIDE DEF st
<1>8. Len(st) = Lo + 2 /\ st[Len(st)] = sd /\ RecordOpen(Lo, st)
  <2>1. Len(st) = Lo + 2 /\ st[Len(st)] = sd
    BY <1>2, <1>4, <1>6
  <2> QED BY <1>2, <1>6, <2>1 DEF RecordOpen
<1>9. Lo = 1 => st[1].records = scopes[1].records
  <2>1. 1 \in 1..Len(a)
    BY <1>2, <1>4
  <2> QED BY <1>3, <1>6, <2>1
<1>10. \A k \in (Lo + 1)..(Len(st) - 1) : RecordScope(st[k], block, Len(pending), maps.blocks)
  <2>1. \A k \in (Lo + 1)..(Len(st) - 1) : k \in (Lo + 1)..Len(a) /\ k \in 1..Len(a)
    BY <1>2, <1>4, <1>8
  <2> QED BY <1>3, <1>6, <2>1 DEF HoldsIn
<1>11. HalfScope(st[Len(st)], block, Len(pending), maps.blocks)
  <2>1. Len(<<>>) = 0
    OBVIOUS
  <2> QED BY <1>5, <1>8, <2>1 DEF HalfScope
<1>12. Owning(StreamIn(Lo, BaseStream, st), Top.handle)
  BY <1>1, <1>3, <1>6, ParentThere DEF Owning
<1>13. calls' \in Nat /\ writerError' \in BOOLEAN /\ "plain" \in RecordKinds
  BY <1>1, <1>2 DEF ValuesOK, RecordKinds
<1> QED BY <1>1, <1>2, <1>6, <1>7, <1>8, <1>9, <1>10, <1>11, <1>12, <1>13, EntityStep

LEMMA TopHolds ==
  ASSUME NEW lo, NEW st, RecordOpen(lo, st), NEW bl, NEW n, NEW bks, HoldsIn(lo, st, bl, n, bks),
         NEW sc, SameBelow(sc, st), RecordScope(sc[Len(st)], bl, n, bks)
  PROVE  HoldsIn(lo, sc, bl, n, bks)
<1> DEFINE m == Len(st)
<1>1. lo \in {0, 1} /\ m \in Nat /\ Len(sc) = m
  BY SameLevels DEF RecordOpen
<1>2. ASSUME NEW k \in (lo + 1)..Len(sc) PROVE RecordScope(sc[k], bl, n, bks)
  <2>1. CASE k = m
    BY <2>1
  <2>2. CASE k # m
    <3>1. k \in (lo + 1)..m /\ k \in 1..(m - 1) /\ k \in 1..m
      BY <1>1, <2>2
    <3>2. Alike(sc[k], st[k]) /\ sc[k].records = st[k].records /\ sc[k].stage = st[k].stage
          /\ sc[k].handle = st[k].handle
      BY <3>1 DEF SameBelow
    <3>3. RecordScope(st[k], bl, n, bks)
      BY <3>1 DEF HoldsIn
    <3> QED BY <3>2, <3>3, HoldsSame
  <2> QED BY <2>1, <2>2
<1> QED BY <1>2 DEF HoldsIn

LEMMA WriteSequenceEndKeeps ==
  ASSUME IInv, phase # "idle", WriteSequenceEnd
  PROVE  IInv'
<1> DEFINE st == Asked(scopes)
           m == Len(scopes)
<1>1. /\ InRecord /\ Top.stage = "open" /\ ~writerError
      /\ UNCHANGED <<phase, maps, log, file, writerError, block, pending, calls, replacement>>
  BY DEF WriteSequenceEnd
<1>2. /\ phase \in {"blocks", "entities"} /\ ValuesOK /\ Lo \in {0, 1} /\ maps \in Maps
      /\ Top = scopes[m] /\ Top \in ScopeSet /\ RecordOpen(Lo, scopes)
      /\ HP!Sound(alloc) /\ alloc.next \in Nat /\ Keeps \in SUBSET Handles
      /\ Coherent(maps, StreamIn(Lo, BaseStream, scopes), Keeps, alloc.next)
      /\ m \in 1..m /\ m > 0 /\ Stream(BaseStream)
      /\ RecordScope(Top, block, Len(pending), maps.blocks)
  <2>1. /\ phase \in {"blocks", "entities"} /\ ValuesOK /\ Lo \in {0, 1} /\ maps \in Maps
        /\ Top = scopes[m] /\ Top \in ScopeSet /\ RecordOpen(Lo, scopes)
        /\ HP!Sound(alloc) /\ alloc.next \in Nat /\ Keeps \in SUBSET Handles
        /\ Coherent(maps, StreamIn(Lo, BaseStream, scopes), Keeps, alloc.next)
        /\ Stream(BaseStream) /\ RecordScope(Top, block, Len(pending), maps.blocks)
    BY <1>1, SessionParts, InRecordIs DEF Session, Stream
  <2>2. m \in 1..m /\ m > 0
    BY <2>1 DEF RecordOpen
  <2> QED BY <2>1, <2>2
<1>3. /\ SameBelow(st, scopes) /\ RecordOpen(Lo, st) /\ Len(st) = m
      /\ ScopesIn(Lo, phase, st) /\ HoldsIn(Lo, st, block, Len(pending), maps.blocks)
      /\ WorldsIn(Lo, BaseStream, st, maps, Keeps, alloc.next) /\ PathsIn(Lo, st, maps, log)
      /\ StreamIn(Lo, BaseStream, st) = StreamIn(Lo, BaseStream, scopes)
      /\ Lo = 1 => st[1].records = scopes[1].records
      /\ st[m].stage = "open" /\ st[m].handle = Top.handle /\ st[m].records = Top.records
      /\ Alike(st[m], Top)
  BY <1>1, AskedStack
<1> HIDE DEF st, m
<1>4. calls' \in Nat /\ writerError' \in BOOLEAN /\ log' \in Seq(Entries)
  BY <1>1, <1>2 DEF ValuesOK
<1>5. ASSUME SameBelow(scopes', st)
      PROVE  ScopesIn(Lo, phase, scopes') /\ BaseStream' = BaseStream
             /\ PathsIn(Lo, scopes', maps', log')
  <2>1. ScopesIn(Lo, phase, scopes')
    BY <1>2, <1>3, <1>5, ScopesStay
  <2>2. ASSUME phase = "blocks" PROVE scopes'[1].records = scopes[1].records
    <3>1. Lo = 1
      BY <2>2 DEF Lo
    <3>2. 1 \in 1..(Len(st) - 1)
      BY <1>3, <3>1, OpenLength
    <3>3. scopes'[1].records = st[1].records
      BY <1>5, <3>2, SameLevels
    <3> QED BY <1>3, <3>1, <3>3
  <2>3. BaseStream' = BaseStream
    BY <1>1, <1>2, <2>2, BaseSame
  <2>4. PathsIn(Lo, scopes', maps, log)
    BY <1>3, <1>5, PathsSame
  <2> QED BY <1>1, <2>1, <2>3, <2>4
<1>6. CASE ~Handle!CanMint(alloc)
  <2>1. alloc' = Handle!Exhausted(alloc) /\ scopes' = Failed(scopes)
    BY <1>6 DEF WriteSequenceEnd
  <2>2. /\ HP!Sound(alloc') /\ alloc.next <= alloc'.next /\ alloc'.next \in Nat
        /\ alloc'.explicitReserved = alloc.explicitReserved
    <3>1. HP!Sound(alloc') /\ alloc'.next = MaxHandle /\ alloc.next <= MaxHandle
          /\ alloc'.explicitReserved = alloc.explicitReserved
      BY <1>2, <1>6, <2>1, ExhaustIs
    <3> QED BY <3>1, SoundIs
  <2>3. /\ SameBelow(scopes', scopes) /\ scopes'[m].stage = "failed"
        /\ scopes'[m].records = scopes[m].records /\ scopes'[m].handle = scopes[m].handle
    BY <1>2, <2>1, FailedIs DEF m, RecordOpen
  <2>4. SameBelow(scopes', st)
    <3>1. \A k \in 1..m : Alike(scopes'[k], st[k])
      BY <1>3, <2>3 DEF SameBelow, Alike, m
    <3> QED BY <1>3, <2>3, <3>1 DEF SameBelow, m
  <2>5. WorldsIn(Lo, BaseStream, scopes', maps, Keeps, alloc'.next)
    <3>1. scopes'[Len(st)].records = st[Len(st)].records
      BY <1>2, <1>3, <2>3
    <3>2. WorldsIn(Lo, BaseStream, scopes', maps, Keeps, alloc.next)
      BY <1>3, <2>4, <3>1, WorldsSame
    <3> QED BY <1>2, <2>2, <3>2, WorldsGrow
  <2>6. HoldsIn(Lo, scopes', block, Len(pending), maps.blocks)
    <3>1. Alike(scopes'[m], scopes[m])
      BY <1>2, <2>3 DEF SameBelow, m
    <3>2. RecordScope(scopes'[m], block, Len(pending), maps.blocks)
      BY <1>2, <2>3, <3>1, HoldsSame
    <3> QED BY <1>3, <2>4, <3>2, TopHolds
  <2> QED BY <1>1, <1>2, <1>4, <1>5, <2>2, <2>4, <2>5, <2>6, RecordStep
<1>7. CASE Handle!CanMint(alloc)
  <2> DEFINE r == Record(Handle!MintedHandle(alloc), Top.handle, {}, Top.call, NoSource)
             rs == <<r>>
             e == Emitted(st, rs)
  <2>1. alloc' = Handle!Minted(alloc) /\ scopes' = [e EXCEPT ![m].stage = "ended"]
    BY <1>7 DEF WriteSequenceEnd, st, m
  <2>2. /\ HP!Sound(alloc') /\ Handle!MintedHandle(alloc) = alloc.next
        /\ alloc'.next = alloc.next + 1 /\ alloc'.next \in Nat /\ alloc.next <= alloc'.next
        /\ alloc'.explicitReserved = alloc.explicitReserved /\ alloc.next \in Handles
    BY <1>2, <1>7, <2>1, MintIs, SoundIs
  <2>3. Top.handle \in Handles /\ Has(StreamIn(Lo, BaseStream, scopes), Top.handle)
        /\ Has(Top.records, Top.handle) /\ Top.records \in Seq(Recs) /\ Top.call \in Nat
    BY <1>1, <1>2, ParentThere, ScopeParts
  <2>4. /\ r \in Recs /\ r.handle = alloc.next /\ r.owner = Top.handle /\ r.refs = {}
        /\ r.source = NoSource
    <3>1. NoSource \in Entities \cup {"fixed", "block", "group", "kept"}
      BY DEF Entities
    <3> QED BY <2>2, <2>3, <3>1, RecordIs
  <2> HIDE DEF r
  <2>5. rs \in Seq(Recs)
    BY <2>4
  <2>6. /\ SameBelow(scopes', st) /\ scopes'[m].records = Top.records \o rs
        /\ scopes'[m].handle = Top.handle /\ Alike(scopes'[m], Top)
    <3>1. st \in Seq(ScopeSet) /\ Len(st) > 0
      BY <1>2, <1>3 DEF RecordOpen
    <3> HIDE DEF rs
    <3>2. /\ SameBelow(e, st) /\ e[m].records = st[m].records \o rs /\ e[m].handle = st[m].handle
      BY <1>3, <2>5, <3>1, EmissionIs
    <3> HIDE DEF e
    <3>3. e \in Seq(ScopeSet) /\ Len(e) = m /\ Len(e) > 0
      BY <1>3, <3>1, <3>2 DEF SameBelow
    <3>4. /\ SameBelow(scopes', e) /\ scopes'[m].records = e[m].records
          /\ scopes'[m].handle = e[m].handle
      BY <2>1, <3>3, StageEnded
    <3>5. SameBelow(scopes', st)
      BY <3>2, <3>4, SameBelowJoins
    <3>6. Alike(scopes'[m], st[m])
      BY <1>2, <1>3, <3>5 DEF SameBelow
    <3>7. Alike(scopes'[m], Top)
      BY <1>3, <3>6 DEF Alike
    <3> QED BY <1>3, <3>2, <3>4, <3>5, <3>7
  <2>7. StreamIn(Lo, BaseStream, scopes') = StreamIn(Lo, BaseStream, scopes) \o rs
    <3> HIDE DEF rs
    <3>1. Appends(scopes', st, rs) /\ Stream(rs)
      BY <1>3, <2>5, <2>6 DEF Appends, Stream
    <3>2. StreamIn(Lo, BaseStream, scopes') = Joined(StreamIn(Lo, BaseStream, st), rs)
      BY <1>2, <1>3, <2>6, <3>1, StreamAppend
    <3> QED BY <1>3, <3>2 DEF Joined
  <2>8. Coherent(maps, StreamIn(Lo, BaseStream, scopes'), Keeps, alloc'.next)
    <3> DEFINE top == StreamIn(Lo, BaseStream, scopes)
    <3>1. Coherent(maps, top, Keeps, alloc'.next)
      BY <1>2, <2>2, CoherentGrows
    <3>0. alloc.next >= alloc.next /\ alloc.next < alloc.next + 1
      BY <1>2
    <3> HIDE DEF top
    <3>2. \A i \in 1..Len(top) : top[i].handle # alloc.next
      BY <1>2, <3>0, AllBelow DEF top
    <3>3. \A x \in Claimers : alloc.next \notin Claim(maps, Keeps, x)
      BY <1>2, <3>0, AllBelow
    <3>4. r.source \notin Sources /\ r.handle < alloc'.next
      <4>1. r.source \notin Sources
        BY <2>4, Tags
      <4> QED BY <2>2, <2>4, <3>0, <4>1
    <3>5. Has(top, r.owner)
      BY <2>3, <2>4 DEF top
    <3>6. Coherent(maps, top \o <<r>>, Keeps, alloc'.next)
      BY <1>2, <2>2, <2>4, <3>1, <3>2, <3>3, <3>4, <3>5, RecordCoherent
    <3> QED BY <2>7, <3>6 DEF top
  <2>9. WorldsIn(Lo, BaseStream, scopes', maps, Keeps, alloc'.next)
    BY <1>2, <1>3, <2>2, <2>6, <2>8, WorldsTop
  <2>10. HoldsIn(Lo, scopes', block, Len(pending), maps.blocks)
    <3> DEFINE t == scopes'[m]
    <3>1. Has(t.records, t.handle)
      BY <2>3, <2>4, <2>6, HasMore
    <3>2. \A i \in 1..Len(t.records) : t.records[i].source \in Entities
      <4>1. /\ Len(t.records) = Len(Top.records) + 1 /\ Len(Top.records) \in Nat
            /\ \A i \in 1..Len(Top.records) : t.records[i] = Top.records[i]
            /\ t.records[Len(Top.records) + 1] = r
        BY <2>3, <2>4, <2>6, OneMore
      <4>2. \A i \in 1..Len(t.records) : i \in 1..Len(Top.records) \/ i = Len(Top.records) + 1
        BY <4>1
      <4>3. r.source \in Entities
        BY <2>4 DEF Entities
      <4> QED BY <1>2, <4>1, <4>2, <4>3 DEF RecordScope
    <3>3. t.block = block /\ t.pending = Len(pending) /\ t.before.blocks = maps.blocks
      BY <1>2, <2>6 DEF RecordScope, Alike
    <3>4. RecordScope(t, block, Len(pending), maps.blocks)
      BY <3>1, <3>2, <3>3 DEF RecordScope
    <3> QED BY <1>3, <2>6, <3>4, TopHolds
  <2> QED BY <1>1, <1>2, <1>4, <1>5, <2>2, <2>6, <2>9, <2>10, RecordStep
<1> QED BY <1>6, <1>7

LEMMA WriterFailsKeeps ==
  ASSUME IInv, phase # "idle", WriterFails
  PROVE  IInv'
<1>1. UNCHANGED <<alloc, phase, maps, log, scopes, file, block, pending, replacement, calls>>
      /\ writerError' = TRUE
  BY DEF WriterFails
<1>2. ValuesOK /\ HP!Sound(alloc) /\ alloc.next \in Nat
  BY SessionParts DEF Session
<1>3. calls' \in Nat /\ HP!Sound(alloc') /\ alloc.next <= alloc'.next
      /\ alloc.explicitReserved \subseteq alloc'.explicitReserved
  BY <1>1, <1>2 DEF ValuesOK
<1> QED BY <1>1, <1>3, Quiet

---------------------------------------------------------------------------
(* Closing the scope of a record.                                            *)

LEMMA OuterIs ==
  ASSUME NEW lo, RecordOpen(lo, scopes)
  PROVE  /\ Outer \in Seq(ScopeSet) /\ Len(Outer) = Len(scopes) - 1
         /\ \A k \in 1..(Len(scopes) - 1) : Outer[k] = scopes[k]
         /\ Outer = <<>> <=> Len(scopes) = 1
<1>1. scopes \in Seq(ScopeSet) /\ Len(scopes) \in Nat /\ Len(scopes) >= 1
  BY DEF RecordOpen
<1>2. /\ Outer \in Seq(ScopeSet) /\ Len(Outer) = Len(scopes) - 1
      /\ \A k \in 1..(Len(scopes) - 1) : Outer[k] = scopes[k]
  <2>1. Len(scopes) - 1 \in Nat /\ Len(scopes) - 1 \in Int /\ 1 \in Int
    BY <1>1
  <2>2. \A k \in 1..(Len(scopes) - 1) : k \in 1..Len(scopes) /\ 1 + k - 1 = k
    BY <1>1
  <2>3. \A k \in 1..(Len(scopes) - 1) : scopes[k] \in ScopeSet
    BY <1>1, <2>2, ElementOfSeq
  <2> DEFINE m == Len(scopes) - 1
  <2>4. m = 0 \/ 1 <= m
    BY <2>1
  <2> HIDE DEF m
  <2>5. /\ SubSeq(scopes, 1, m) \in Seq(ScopeSet)
        /\ Len(SubSeq(scopes, 1, m)) = IF 1 <= m THEN m - 1 + 1 ELSE 0
        /\ \A i \in 1..(m - 1 + 1) : SubSeq(scopes, 1, m)[i] = scopes[1 + i - 1]
    BY <2>1, <2>3, SubSeqProperties DEF m
  <2>6. m - 1 + 1 = m /\ m \in Nat
    BY <2>1 DEF m
  <2>7. Outer = SubSeq(scopes, 1, m)
    BY DEF Outer, m
  <2>8. Len(Outer) = m
    BY <2>4, <2>5, <2>6, <2>7
  <2>9. \A i \in 1..m : Outer[i] = scopes[i]
    BY <2>2, <2>5, <2>6, <2>7 DEF m
  <2> QED BY <2>5, <2>7, <2>8, <2>9 DEF m
<1>3. Outer = <<>> <=> Len(Outer) = 0
  BY <1>2
<1> QED BY <1>1, <1>2, <1>3

LEMMA ScopesOuter ==
  ASSUME NEW lo, NEW ph, ScopesIn(lo, ph, scopes), RecordOpen(lo, scopes)
  PROVE  ScopesIn(lo, ph, Outer)
<1>1. lo \in {0, 1} /\ (Len(scopes) = lo + 1 \/ Len(scopes) = lo + 2)
  BY DEF RecordOpen
<1>2. /\ Outer \in Seq(ScopeSet) /\ Len(Outer) = Len(scopes) - 1
      /\ \A k \in 1..(Len(scopes) - 1) : Outer[k] = scopes[k]
  BY OuterIs
<1> HIDE DEF Outer
<1>3. /\ \A k \in 1..Len(Outer) : k \in 1..Len(scopes) /\ Outer[k] = scopes[k]
      /\ Len(Outer) = lo \/ Len(Outer) = lo + 1
  BY <1>1, <1>2
<1>4. \A k \in 1..Len(Outer) : Outer[k].kind \in RecordKinds <=> k > lo
  BY <1>3 DEF ScopesIn
<1>5. Len(Outer) > lo => Outer[lo + 1].kind = scopes[lo + 1].kind
  <2>1. Len(Outer) > lo => lo + 1 \in 1..Len(Outer)
    BY <1>1, <1>3
  <2> QED BY <1>3, <2>1
<1>6. Len(scopes) > lo
  BY <1>1
<1> QED BY <1>1, <1>2, <1>3, <1>4, <1>5, <1>6 DEF ScopesIn

\* The log leads from the innermost scope's maps to the present ones.
LEMMA TopPath ==
  ASSUME NEW lo, RecordOpen(lo, scopes), PathsIn(lo, scopes, maps, log)
  PROVE  Path(Top.before, maps, log, Top.checkpoint, Len(log))
<1>1. lo \in {0, 1} /\ (Len(scopes) = lo + 1 \/ Len(scopes) = lo + 2)
  BY DEF RecordOpen
<1>2. CASE Len(scopes) = lo + 1
  BY <1>1, <1>2 DEF PathsIn, Top
<1>3. CASE Len(scopes) = lo + 2
  BY <1>1, <1>3 DEF PathsIn, Top
<1> QED BY <1>1, <1>2, <1>3

\* The records of an open scope are no block's: its BLOCK and ENDBLK stay as
\* they were when the scope's records join the section's.
LEMMA BlocksStill ==
  ASSUME NEW mp, NEW st \in Seq(Recs), NEW rs \in Seq(Recs), NEW K, NEW n,
         Coherent(mp, Joined(st, rs), K, n),
         \A i \in 1..Len(rs) : rs[i].source \in Entities, NEW bl,
         BlocksBegun(st, bl, mp.blocks)
  PROVE  BlocksBegun(Joined(st, rs), bl, mp.blocks)
<1> DEFINE w == Joined(st, rs)
<1>1. \A h : Has(w, h) <=> Has(st, h) \/ Has(rs, h)
  BY HasJoined
<1>2. ASSUME NEW b \in Blocks, mp.blocks[b] # 0, NEW h,
             h \in {mp.blocks[b], mp.blocks[b] + 1, mp.blocks[b] + 2}
      PROVE  ~Has(rs, h)
  <2>1. SUFFICES ASSUME NEW i \in 1..Len(rs), rs[i].handle = h PROVE FALSE
    BY DEF Has
  <2>2. /\ Len(w) = Len(st) + Len(rs) /\ Len(st) \in Nat /\ Len(rs) \in Nat
        /\ w[Len(st) + i] = rs[i]
    BY <2>1 DEF Joined
  <2>3. Len(st) + i \in 1..Len(w)
    BY <2>1, <2>2
  <2>4. h \in Claim(mp, K, "block") /\ "block" \in Claimers
    BY <1>2, BlockClaim DEF Claimers
  <2>5. w[Len(st) + i].source = "block"
    <3>1. Obeyed(mp, K, w)
      BY DEF Coherent
    <3> HIDE DEF w
    <3> QED BY <2>1, <2>2, <2>3, <2>4, <3>1 DEF Obeyed
  <2>6. "block" \notin Entities
    BY Tags DEF Entities, NoSource
  <2> QED BY <2>1, <2>2, <2>5, <2>6
<1> HIDE DEF w
<1>3. ASSUME NEW b \in Blocks, mp.blocks[b] # 0, Has(w, mp.blocks[b] + 2)
      PROVE  Has(w, mp.blocks[b] + 1) /\ ~(bl.open /\ bl.record = mp.blocks[b])
  <2>1. Has(st, mp.blocks[b] + 2)
    BY <1>1, <1>2, <1>3
  <2> QED BY <1>1, <1>3, <2>1 DEF BlocksBegun
<1>4. bl.open => /\ Has(w, bl.record + 1)
                /\ \E b \in Blocks : bl.record = mp.blocks[b] /\ mp.blocks[b] # 0
  BY <1>1 DEF BlocksBegun
<1> QED BY <1>3, <1>4 DEF BlocksBegun, w

LEMMA AbortRecordKeeps ==
  ASSUME IInv, phase # "idle", AbortRecord
  PROVE  IInv' /\ maps' = Top.before
<1> DEFINE m == Len(scopes)
<1>1. /\ InRecord /\ RollbackScope /\ UNCHANGED <<alloc, phase, calls, replacement>>
      /\ scopes' = Outer \/ scopes' = AfterRejected
  BY DEF AbortRecord
<1>2. /\ phase \in {"blocks", "entities"} /\ ValuesOK /\ Lo \in {0, 1} /\ maps \in Maps
      /\ Top = scopes[m] /\ Top \in ScopeSet /\ RecordOpen(Lo, scopes)
      /\ HP!Sound(alloc) /\ alloc.next \in Nat /\ Keeps \in SUBSET Handles
      /\ RecordScope(Top, block, Len(pending), maps.blocks)
      /\ ScopesIn(Lo, phase, scopes) /\ PathsIn(Lo, scopes, maps, log)
      /\ HoldsIn(Lo, scopes, block, Len(pending), maps.blocks)
      /\ WorldsIn(Lo, BaseStream, scopes, maps, Keeps, alloc.next)
      /\ (m = Lo + 1 \/ m = Lo + 2)
  BY <1>1, SessionParts, InRecordIs DEF Session, RecordOpen
<1>3. Path(Top.before, maps, log, Top.checkpoint, Len(log))
  BY <1>2, TopPath
<1>4. maps' = Top.before
  BY <1>1, <1>3, UndoneIs DEF RollbackScope
<1>5. Top.checkpoint \in Nat /\ Top.checkpoint <= Len(log) /\ Len(log) \in Nat
  BY <1>3 DEF Path
<1>6. /\ log' \in Seq(Entries) /\ Len(log') = Top.checkpoint
      /\ \A i \in 1..Top.checkpoint : log'[i] = log[i]
  <2>1. log' = SubSeq(log, 1, Top.checkpoint) /\ log \in Seq(Entries)
    BY <1>1, <1>2 DEF RollbackScope, ValuesOK
  <2> QED BY <1>5, <2>1
<1>7. /\ UNCHANGED <<file, block, pending>> /\ maps'.blocks = maps.blocks
      /\ writerError' \in BOOLEAN /\ calls' \in Nat
  <2>1. Top.block = block /\ Top.pending = Len(pending) /\ Top.before.blocks = maps.blocks
    BY <1>2 DEF RecordScope
  <2>2. SubSeq(pending, 1, Len(pending)) = pending
    BY <1>2 DEF ValuesOK
  <2>3. Top.previousError \in BOOLEAN
    BY <1>2, ScopeParts
  <2> QED BY <1>1, <1>2, <1>4, <2>1, <2>2, <2>3 DEF RollbackScope, ValuesOK
<1>8. /\ Outer \in Seq(ScopeSet) /\ Len(Outer) = m - 1
      /\ \A k \in 1..(m - 1) : Outer[k] = scopes[k]
  BY <1>2, OuterIs
<1>9. ScopesIn(Lo, phase, Outer)
  BY <1>2, ScopesOuter
<1>10. CASE m = Lo + 1
  <2>1. scopes' = Outer
    <3>1. Top.kind # "attrib"
      BY <1>2, <1>10 DEF ScopesIn
    <3> QED BY <1>1, <3>1 DEF AfterRejected
  <2>2. Len(Outer) = Lo
    BY <1>2, <1>8, <1>10
  <2>3. BaseStream' = BaseStream
    <3>1. ASSUME phase = "blocks" PROVE scopes'[1].records = scopes[1].records
      <4>1. Lo = 1
        BY <3>1 DEF Lo
      <4>2. 1 \in 1..(m - 1)
        BY <1>10, <4>1
      <4> QED BY <1>8, <2>1, <4>2
    <3> QED BY <1>1, <1>2, <1>7, <3>1, BaseSame
  <2>4. Coherent(Top.before, BaseStream, Keeps, alloc.next)
    BY <1>2, <1>10 DEF WorldsIn
  <2>5. StreamIn(Lo, BaseStream, Outer) = BaseStream
    BY <1>2, <2>2, StreamNone
  <2>6. WorldsIn(Lo, BaseStream, scopes', maps', Keeps, alloc'.next)
    <3>1. ~(Lo > Lo) /\ ~(Lo > Lo + 1)
      BY <1>2
    <3> QED BY <1>1, <1>4, <2>1, <2>2, <2>4, <2>5, <3>1 DEF WorldsIn
  <2>7. PathsIn(Lo, scopes', maps', log')
    <3>1. Lo # Lo + 1 /\ ~(Lo > Lo + 1)
      BY <1>2
    <3> QED BY <2>1, <2>2, <3>1 DEF PathsIn
  <2>8. HoldsIn(Lo, scopes', block, Len(pending), maps.blocks)
    BY <1>2, <2>1, <2>2 DEF HoldsIn
  <2> QED BY <1>1, <1>2, <1>4, <1>6, <1>7, <1>9, <2>1, <2>3, <2>6, <2>7, <2>8, RecordStep
<1>11. CASE m = Lo + 2
  <2>1. Len(Outer) = Lo + 1 /\ Len(Outer) > 0 /\ RecordOpen(Lo, Outer)
    <3>1. Len(Outer) = Lo + 1 /\ Len(Outer) > 0
      BY <1>2, <1>8, <1>11
    <3> QED BY <1>2, <1>8, <3>1 DEF RecordOpen
  <2>2. \A k \in 1..(Lo + 1) : Outer[k] = scopes[k]
    BY <1>2, <1>8, <1>11
  <2> HIDE DEF Outer
  <2>3. /\ SameBelow(scopes', Outer) /\ scopes'[Lo + 1].records = Outer[Lo + 1].records
        /\ scopes'[Lo + 1].stage \in {Outer[Lo + 1].stage, "failed"}
        /\ scopes'[Lo + 1].handle = Outer[Lo + 1].handle
    <3>1. CASE scopes' = Outer
      BY <1>8, <3>1 DEF SameBelow, Alike
    <3>2. CASE scopes' = Failed(Outer)
      BY <1>8, <2>1, <3>2, FailedIs
    <3> QED BY <1>1, <3>1, <3>2 DEF AfterRejected
  <2>4. ScopesIn(Lo, phase, scopes')
    BY <1>2, <1>9, <2>3, ScopesStay
  <2>5. BaseStream' = BaseStream
    <3>1. ASSUME phase = "blocks" PROVE scopes'[1].records = scopes[1].records
      <4>1. Lo = 1
        BY <3>1 DEF Lo
      <4>2. 1 \in 1..(Len(Outer) - 1)
        BY <2>1, <4>1, OpenLength
      <4>3. 1 \in 1..(Lo + 1)
        BY <4>1
      <4>4. scopes'[1].records = Outer[1].records
        BY <2>3, <4>2, SameLevels
      <4> QED BY <2>2, <4>3, <4>4
    <3> QED BY <1>1, <1>2, <1>7, <3>1, BaseSame
  <2>6. Lo + 1 \in 1..(Lo + 1) /\ Lo + 1 \in 1..Len(Outer) /\ Top = scopes[Lo + 2]
        /\ Outer[Lo + 1] = scopes[Lo + 1]
    <3>1. Lo + 1 \in 1..(Lo + 1)
      BY <1>2
    <3> QED BY <1>2, <1>11, <2>1, <2>2, <3>1
  <2>7. WorldsIn(Lo, BaseStream, scopes', maps', Keeps, alloc'.next)
    <3>1. /\ Coherent(scopes[Lo + 1].before, BaseStream, Keeps, alloc.next)
          /\ Coherent(Top.before, BaseStream \o scopes[Lo + 1].records, Keeps, alloc.next)
      BY <1>2, <1>11, <2>6 DEF WorldsIn
    <3>2. StreamIn(Lo, BaseStream, Outer) = BaseStream \o Outer[Lo + 1].records
      BY <1>2, <2>1, StreamOne
    <3>3. StreamIn(Lo, BaseStream, scopes') = StreamIn(Lo, BaseStream, Outer)
      BY <2>1, <2>3, StreamSame
    <3>4. scopes'[Lo + 1].before = Outer[Lo + 1].before /\ Len(scopes') = Lo + 1
      BY <2>1, <2>3, <2>6, SameLevels
    <3>5. Coherent(maps', StreamIn(Lo, BaseStream, scopes'), Keeps, alloc'.next)
      BY <1>1, <1>4, <2>6, <3>1, <3>2, <3>3
    <3>6. Coherent(scopes'[Lo + 1].before, BaseStream, Keeps, alloc'.next)
      BY <1>1, <2>6, <3>1, <3>4
    <3>7. ~(Lo + 1 > Lo + 1)
      BY <1>2
    <3> QED BY <3>4, <3>5, <3>6, <3>7 DEF WorldsIn
  <2>8. PathsIn(Lo, scopes', maps', log')
    <3>1. Path(scopes[Lo + 1].before, Top.before, log, scopes[Lo + 1].checkpoint, Top.checkpoint)
      BY <1>2, <1>11, <2>6 DEF PathsIn
    <3>2. \A i \in (scopes[Lo + 1].checkpoint + 1)..Top.checkpoint : log'[i] = log[i]
      BY <1>5, <1>6, <3>1 DEF Path
    <3>3. Path(scopes[Lo + 1].before, Top.before, log', scopes[Lo + 1].checkpoint, Top.checkpoint)
      BY <3>1, <3>2, PathSameLog
    <3>4. /\ scopes'[Lo + 1].before = Outer[Lo + 1].before /\ Len(scopes') = Lo + 1
          /\ scopes'[Lo + 1].checkpoint = Outer[Lo + 1].checkpoint
      BY <2>1, <2>3, <2>6, SameLevels
    <3>5. Path(scopes'[Lo + 1].before, maps', log', scopes'[Lo + 1].checkpoint, Len(log'))
      BY <1>4, <1>6, <2>6, <3>3, <3>4
    <3>6. ~(Lo + 1 > Lo + 1)
      BY <1>2
    <3> QED BY <3>4, <3>5, <3>6 DEF PathsIn
  <2>9. HoldsIn(Lo, scopes', block, Len(pending), maps.blocks)
    <3>1. RecordScope(Outer[Lo + 1], block, Len(pending), maps.blocks)
      <4>1. Lo + 1 \in (Lo + 1)..m
        BY <1>2, <1>11
      <4> QED BY <1>2, <2>6, <4>1 DEF HoldsIn
    <3>2. HoldsIn(Lo, Outer, block, Len(pending), maps.blocks)
      <4>1. \A k \in (Lo + 1)..Len(Outer) : k = Lo + 1
        BY <1>2, <2>1
      <4> QED BY <3>1, <4>1 DEF HoldsIn
    <3>3. Alike(scopes'[Lo + 1], Outer[Lo + 1])
      BY <2>3, <2>6 DEF SameBelow
    <3>4. RecordScope(scopes'[Lo + 1], block, Len(pending), maps.blocks)
      BY <2>3, <3>1, <3>3, HoldsSame
    <3> QED BY <2>1, <2>3, <3>2, <3>4, TopHolds
  <2> QED BY <1>1, <1>2, <1>4, <1>6, <1>7, <2>4, <2>5, <2>7, <2>8, <2>9, RecordStep
<1> QED BY <1>2, <1>4, <1>10, <1>11

\* A record's scope commits into the section: the section's stream is what the
\* record saw.
LEMMA CommitIntoSection ==
  ASSUME IInv, phase # "idle", InRecord, CommitScope, Len(scopes) = Lo + 1
  PROVE  /\ ScopesIn(Lo, phase, scopes') /\ Len(scopes') = Lo /\ file' \in Seq(Recs)
         /\ phase = "blocks" => file' = file /\ file' \o scopes'[1].records = Joined(BaseStream, Top.records)
         /\ phase = "entities" => file' = Joined(BaseStream, Top.records)
<1> DEFINE m == Len(scopes)
<1>1. /\ phase \in {"blocks", "entities"} /\ ValuesOK /\ scopes \in Seq(ScopeSet)
      /\ Top = scopes[m] /\ Top \in ScopeSet /\ RecordOpen(Lo, scopes)
      /\ ScopesIn(Lo, phase, scopes) /\ file \in Seq(Recs) /\ BaseStream \in Seq(Recs)
  BY SessionParts, InRecordIs DEF Session, ValuesOK
<1>2. Top.records \in Seq(Recs)
  BY <1>1, ScopeParts
<1>3. /\ Outer \in Seq(ScopeSet) /\ Len(Outer) = m - 1
      /\ \A k \in 1..(m - 1) : Outer[k] = scopes[k]
      /\ Outer = <<>> <=> m = 1
  BY <1>1, OuterIs
<1>4. ScopesIn(Lo, phase, Outer)
  BY <1>1, ScopesOuter
<1> HIDE DEF Outer
<1>5. CASE phase = "entities"
  <2>1. Lo = 0 /\ BaseStream = file
    BY <1>5 DEF Lo, BaseStream
  <2>2. Outer = <<>> /\ Len(Outer) = Lo
    BY <1>3, <2>1
  <2>3. file' = file \o Top.records /\ scopes' = Outer
    BY <2>2 DEF CommitScope
  <2>4. file' \in Seq(Recs)
    BY <1>1, <1>2, <2>3, StreamsJoin
  <2> QED BY <1>4, <1>5, <2>1, <2>2, <2>3, <2>4 DEF Joined
<1>6. CASE phase = "blocks"
  <2>1. Lo = 1 /\ BaseStream = file \o scopes[1].records
    BY <1>6 DEF Lo, BaseStream
  <2>2. m = 2 /\ Len(Outer) = Lo /\ Len(Outer) > 0 /\ Outer # <<>>
    BY <1>3, <2>1
  <2>3. Outer[1] = scopes[1] /\ 1 \in 1..Len(Outer)
    BY <1>3, <2>1, <2>2
  <2>4. file' = file /\ scopes' = Emitted(Outer, Top.records)
    BY <2>2 DEF CommitScope
  <2>5. SameBelow(scopes', Outer)
        /\ scopes'[1].records = scopes[1].records \o Top.records
    <3>1. /\ SameBelow(Emitted(Outer, Top.records), Outer)
          /\ Emitted(Outer, Top.records)[Len(Outer)].records
               = Outer[Len(Outer)].records \o Top.records
      BY <1>2, <1>3, <2>2, EmissionIs
    <3>2. Len(Outer) = 1
      BY <2>1, <2>2
    <3> QED BY <2>3, <2>4, <3>1, <3>2
  <2>6. ScopesIn(Lo, phase, scopes')
    BY <1>4, <2>1, <2>5, ScopesStay
  <2>7. Len(scopes') = Lo
    BY <2>2, <2>5, SameLevels
  <2>8. scopes[1].records \in Seq(Recs)
    <3>1. scopes[1] \in ScopeSet
      BY <1>3, <2>3, ElementOfSeq
    <3> QED BY <3>1, ScopeParts
  <2>9. file \o (scopes[1].records \o Top.records) = (file \o scopes[1].records) \o Top.records
    <3>1. file \in Seq(Recs)
      BY <1>1
    <3> QED BY <1>2, <2>8, <3>1, StreamsJoin
  <2> QED BY <1>1, <1>6, <2>1, <2>4, <2>5, <2>6, <2>7, <2>9 DEF Joined
<1> QED BY <1>1, <1>5, <1>6

LEMMA CommitSectionKeeps ==
  ASSUME IInv, phase # "idle", CommitRecord, Len(scopes) = Lo + 1
  PROVE  IInv'
<1>1. /\ InRecord /\ CommitScope
      /\ UNCHANGED <<alloc, phase, maps, log, block, pending, calls, replacement>>
      /\ writerError' = Top.previousError
  BY DEF CommitRecord, CommitScope
<1>2. /\ phase \in {"blocks", "entities"} /\ ValuesOK /\ Lo \in {0, 1} /\ maps \in Maps
      /\ Top \in ScopeSet /\ RecordOpen(Lo, scopes) /\ Top = scopes[Len(scopes)]
      /\ RecordScope(Top, block, Len(pending), maps.blocks)
      /\ BaseStream \in Seq(Recs) /\ AllocOK /\ KeepsHeld /\ SectionsOK
      /\ Coherent(maps, StreamIn(Lo, BaseStream, scopes), Keeps, alloc.next)
  BY <1>1, SessionParts, InRecordIs DEF Session
<1>3. Top.records \in Seq(Recs) /\ Top.previousError \in BOOLEAN
  BY <1>2, ScopeParts
<1>4. /\ ScopesIn(Lo, phase, scopes') /\ Len(scopes') = Lo /\ file' \in Seq(Recs)
      /\ phase = "blocks" => file' = file /\ file' \o scopes'[1].records = Joined(BaseStream, Top.records)
      /\ phase = "entities" => file' = Joined(BaseStream, Top.records)
  BY <1>1, CommitIntoSection
<1>5. Lo' = Lo /\ Keeps' = Keeps
  BY <1>1 DEF Lo, Keeps
<1>6. BaseStream' = Joined(BaseStream, Top.records)
  <2>1. CASE phase = "entities"
    <3>1. BaseStream' = file'
      BY <1>1, <2>1 DEF BaseStream
    <3> QED BY <1>4, <2>1, <3>1
  <2>2. CASE phase = "blocks"
    <3>1. BaseStream' = file' \o scopes'[1].records
      BY <1>1, <2>2 DEF BaseStream
    <3> QED BY <1>4, <2>2, <3>1
  <2> QED BY <1>2, <2>1, <2>2
<1>7. Coherent(maps', BaseStream', Keeps', alloc'.next)
  <2>1. StreamIn(Lo, BaseStream, scopes) = BaseStream \o scopes[Lo + 1].records
    BY <1>2, StreamOne
  <2> QED BY <1>1, <1>2, <1>5, <1>6, <2>1 DEF Joined
<1>8. \A i \in 1..Len(Top.records) : Top.records[i].source \in Entities
  BY <1>2 DEF RecordScope
<1>9. /\ NoneKept(BaseStream)
      /\ phase = "entities" => ~block.open
      /\ phase = "blocks" => TablesOnly(file, maps.blocks) /\ BlocksBegun(BaseStream, block, maps.blocks)
  BY <1>2 DEF SectionsOK
<1>10. NoneKept(BaseStream')
  <2> DEFINE rs == Top.records
             w == Joined(BaseStream, rs)
  <2>1. /\ Len(w) = Len(BaseStream) + Len(rs) /\ Len(BaseStream) \in Nat /\ Len(rs) \in Nat
        /\ \A i \in 1..Len(BaseStream) : w[i] = BaseStream[i]
        /\ \A i \in 1..Len(rs) : w[Len(BaseStream) + i] = rs[i]
    BY <1>2, <1>3, ConcatProperties DEF Joined
  <2>2. \A i \in 1..Len(rs) : rs[i].source # "kept"
    <3>1. "kept" \notin Entities
      BY Tags DEF Entities, NoSource
    <3> QED BY <1>8, <3>1
  <2> HIDE DEF rs, w
  <2>3. ASSUME NEW i \in 1..Len(w) PROVE w[i].source # "kept"
    <3>1. i \in 1..Len(BaseStream) \/ i - Len(BaseStream) \in 1..Len(rs)
      BY <2>1
    <3>2. CASE i \in 1..Len(BaseStream)
      <4>1. BaseStream[i].source # "kept"
        BY <1>9, <3>2 DEF NoneKept
      <4> QED BY <2>1, <3>2, <4>1
    <3>3. CASE i - Len(BaseStream) \in 1..Len(rs)
      <4>1. Len(BaseStream) + (i - Len(BaseStream)) = i
        BY <2>1, <2>3
      <4>2. w[Len(BaseStream) + (i - Len(BaseStream))] = rs[i - Len(BaseStream)]
        BY <2>1, <3>3
      <4> QED BY <2>2, <3>3, <4>1, <4>2
    <3> QED BY <3>1, <3>2, <3>3
  <2>4. NoneKept(w)
    BY <2>3 DEF NoneKept
  <2> QED BY <1>6, <2>4 DEF w, rs
<1>11. phase = "blocks" => BlocksBegun(BaseStream', block', maps'.blocks)
  <2>1. ASSUME phase = "blocks" PROVE BlocksBegun(Joined(BaseStream, Top.records), block, maps.blocks)
    <3>1. Coherent(maps, Joined(BaseStream, Top.records), Keeps, alloc.next)
      BY <1>1, <1>5, <1>6, <1>7
    <3> QED BY <1>2, <1>3, <1>8, <1>9, <2>1, <3>1, BlocksStill
  <2> QED BY <1>1, <1>6, <2>1
<1>12. SectionsOK'
  BY <1>1, <1>2, <1>4, <1>9, <1>10, <1>11 DEF SectionsOK
<1>13. AllocOK' /\ KeepsHeld' /\ ValuesOK'
  BY <1>1, <1>2, <1>3, <1>4, <1>5 DEF AllocOK, KeepsHeld, ValuesOK
<1>14. HoldsIn(Lo', scopes', block', Len(pending'), maps'.blocks)
  <2>1. \A k \in (Lo + 1)..Lo : FALSE
    BY <1>2
  <2> QED BY <1>4, <1>5, <2>1 DEF HoldsIn
<1>15. WorldsIn(Lo', BaseStream', scopes', maps', Keeps', alloc'.next)
  <2>1. ~(Lo > Lo) /\ ~(Lo > Lo + 1)
    BY <1>2
  <2>2. StreamIn(Lo, BaseStream', scopes') = BaseStream'
    BY <1>2, <1>4, StreamNone
  <2> QED BY <1>4, <1>5, <1>7, <2>1, <2>2 DEF WorldsIn
<1>16. PathsIn(Lo', scopes', maps', log')
  <2>1. Lo # Lo + 1 /\ ~(Lo > Lo + 1)
    BY <1>2
  <2> QED BY <1>4, <1>5, <2>1 DEF PathsIn
<1>17. Session'
  BY <1>1, <1>4, <1>5, <1>12, <1>13, <1>14, <1>15, <1>16 DEF Session
<1> QED BY <1>1, <1>2, <1>13, <1>17 DEF IInv

LEMMA CommitInsideKeeps ==
  ASSUME IInv, phase # "idle", CommitRecord, Len(scopes) = Lo + 2
  PROVE  IInv'
<1> DEFINE m == Len(scopes)
<1>1. /\ InRecord /\ CommitScope
      /\ UNCHANGED <<alloc, phase, maps, log, block, pending, calls, replacement>>
      /\ writerError' = Top.previousError
  BY DEF CommitRecord, CommitScope
<1>2. /\ phase \in {"blocks", "entities"} /\ ValuesOK /\ Lo \in {0, 1} /\ maps \in Maps
      /\ Top = scopes[m] /\ Top \in ScopeSet /\ RecordOpen(Lo, scopes)
      /\ HP!Sound(alloc) /\ alloc.next \in Nat /\ Keeps \in SUBSET Handles
      /\ RecordScope(Top, block, Len(pending), maps.blocks) /\ BaseStream \in Seq(Recs)
      /\ ScopesIn(Lo, phase, scopes) /\ PathsIn(Lo, scopes, maps, log)
      /\ HoldsIn(Lo, scopes, block, Len(pending), maps.blocks)
      /\ WorldsIn(Lo, BaseStream, scopes, maps, Keeps, alloc.next)
  BY <1>1, SessionParts, InRecordIs DEF Session, RecordOpen
<1>3. Top.records \in Seq(Recs) /\ Top.previousError \in BOOLEAN
  BY <1>2, ScopeParts
<1>4. /\ Outer \in Seq(ScopeSet) /\ Len(Outer) = m - 1
      /\ \A k \in 1..(m - 1) : Outer[k] = scopes[k]
      /\ Outer = <<>> <=> m = 1
  BY <1>2, OuterIs
<1>5. ScopesIn(Lo, phase, Outer)
  BY <1>2, ScopesOuter
<1>6. m = Lo + 2
  OBVIOUS
<1> HIDE DEF Outer
<1>7. Len(Outer) = Lo + 1 /\ Len(Outer) > 0 /\ RecordOpen(Lo, Outer) /\ Outer # <<>>
  <2>1. Len(Outer) = Lo + 1 /\ Len(Outer) > 0 /\ m # 1
    BY <1>2, <1>4, <1>6
  <2> QED BY <1>2, <1>4, <2>1 DEF RecordOpen
<1>8. \A k \in 1..(Lo + 1) : Outer[k] = scopes[k]
  BY <1>2, <1>4, <1>6
<1>9. scopes' = Emitted(Outer, Top.records) /\ file' = file
  BY <1>1, <1>7 DEF CommitScope
<1>10. Lo + 1 \in 1..(Lo + 1) /\ Lo + 1 \in 1..Len(Outer) /\ Top = scopes[Lo + 2]
       /\ Outer[Lo + 1] = scopes[Lo + 1] /\ Lo + 1 \in (Lo + 1)..m /\ Lo + 2 \in (Lo + 1)..m
  <2>1. Lo + 1 \in 1..(Lo + 1) /\ Lo + 1 \in (Lo + 1)..m /\ Lo + 2 \in (Lo + 1)..m
    BY <1>2, <1>6
  <2> QED BY <1>2, <1>6, <1>7, <1>8, <2>1
<1>11. /\ SameBelow(scopes', Outer)
       /\ scopes'[Lo + 1].records = Outer[Lo + 1].records \o Top.records
       /\ scopes'[Lo + 1].stage = Outer[Lo + 1].stage
       /\ scopes'[Lo + 1].handle = Outer[Lo + 1].handle
  BY <1>3, <1>4, <1>7, <1>9, EmissionIs
<1>12. ScopesIn(Lo, phase, scopes')
  BY <1>2, <1>5, <1>11, ScopesStay
<1>13. BaseStream' = BaseStream
  <2>1. ASSUME phase = "blocks" PROVE scopes'[1].records = scopes[1].records
    <3>1. Lo = 1
      BY <2>1 DEF Lo
    <3>2. 1 \in 1..(Len(Outer) - 1)
      BY <1>7, <3>1, OpenLength
    <3>3. 1 \in 1..(Lo + 1)
      BY <3>1
    <3>4. scopes'[1].records = Outer[1].records
      BY <1>11, <3>2, SameLevels
    <3> QED BY <1>8, <3>3, <3>4
  <2> QED BY <1>1, <1>2, <1>9, <2>1, BaseSame
<1>14. /\ scopes'[Lo + 1].before = scopes[Lo + 1].before /\ Len(scopes') = Lo + 1
       /\ scopes'[Lo + 1].checkpoint = scopes[Lo + 1].checkpoint
  BY <1>7, <1>10, <1>11, SameLevels
<1>15. scopes[Lo + 1].records \in Seq(Recs)
  <2>1. Lo + 1 \in 1..m
    BY <1>2, <1>6
  <2>2. scopes[Lo + 1] \in ScopeSet
    BY <1>2, <2>1, ElementOfSeq DEF RecordOpen
  <2> QED BY <2>2, ScopeParts
<1>16. WorldsIn(Lo, BaseStream, scopes', maps', Keeps, alloc'.next)
  <2>1. /\ Coherent(scopes[Lo + 1].before, BaseStream, Keeps, alloc.next)
        /\ Coherent(maps, StreamIn(Lo, BaseStream, scopes), Keeps, alloc.next)
    BY <1>2, <1>6 DEF WorldsIn
  <2>2. StreamIn(Lo, BaseStream, scopes') = BaseStream \o scopes'[Lo + 1].records
    BY <1>2, <1>14, StreamOne
  <2>3. StreamIn(Lo, BaseStream, scopes) = (BaseStream \o scopes[Lo + 1].records) \o Top.records
    <3>1. StreamIn(Lo, BaseStream, scopes)
            = (BaseStream \o scopes[Lo + 1].records) \o scopes[Lo + 2].records
      BY <1>2, StreamTwo
    <3> QED BY <1>10, <3>1
  <2>4. BaseStream \o (scopes[Lo + 1].records \o Top.records)
          = (BaseStream \o scopes[Lo + 1].records) \o Top.records
    BY <1>2, <1>3, <1>15, StreamsJoin
  <2>5. StreamIn(Lo, BaseStream, scopes') = StreamIn(Lo, BaseStream, scopes)
    BY <1>10, <1>11, <2>2, <2>3, <2>4
  <2>6. ~(Lo + 1 > Lo + 1)
    BY <1>2
  <2> QED BY <1>1, <1>14, <2>1, <2>5, <2>6 DEF WorldsIn
<1>17. PathsIn(Lo, scopes', maps', log')
  <2>1. /\ Path(scopes[Lo + 1].before, Top.before, log, scopes[Lo + 1].checkpoint, Top.checkpoint)
        /\ Path(Top.before, maps, log, Top.checkpoint, Len(log))
    BY <1>2, <1>6, <1>10 DEF PathsIn
  <2>2. Path(scopes[Lo + 1].before, maps, log, scopes[Lo + 1].checkpoint, Len(log))
    BY <2>1, PathJoins
  <2>3. ~(Lo + 1 > Lo + 1)
    BY <1>2
  <2> QED BY <1>1, <1>14, <2>2, <2>3 DEF PathsIn
<1>18. HoldsIn(Lo, scopes', block, Len(pending), maps.blocks)
  <2>1. /\ RecordScope(scopes[Lo + 1], block, Len(pending), maps.blocks)
        /\ RecordScope(Top, block, Len(pending), maps.blocks)
    BY <1>2, <1>10 DEF HoldsIn
  <2>2. Alike(scopes'[Lo + 1], Outer[Lo + 1])
    BY <1>10, <1>11 DEF SameBelow
  <2> DEFINE a == scopes[Lo + 1].records
             b == Top.records
             w == Joined(a, b)
  <2>3. scopes'[Lo + 1].records = w
    BY <1>10, <1>11 DEF Joined
  <2>4. \A h : Has(a, h) => Has(w, h)
    BY <1>3, <1>15, HasJoined
  <2>5. \A i \in 1..Len(w) : w[i].source \in Entities
    <3>1. /\ \A i \in 1..Len(a) : a[i].source \in Entities
          /\ \A i \in 1..Len(b) : b[i].source \in Entities
      BY <2>1 DEF RecordScope
    <3>2. /\ Len(w) = Len(a) + Len(b) /\ Len(a) \in Nat /\ Len(b) \in Nat
          /\ \A i \in 1..Len(a) : w[i] = a[i]
          /\ \A j \in 1..Len(b) : w[Len(a) + j] = b[j]
      <4>1. a \in Seq(Recs) /\ b \in Seq(Recs)
        BY <1>3, <1>15
      <4>2. w = a \o b
        BY DEF Joined
      <4> HIDE DEF a, b, w
      <4> QED BY <4>1, <4>2, ConcatProperties, StreamIs
    <3> HIDE DEF a, b, w
    <3>3. ASSUME NEW i \in 1..Len(w) PROVE w[i].source \in Entities
      <4>1. i \in 1..Len(a) \/ i - Len(a) \in 1..Len(b)
        BY <3>2
      <4>2. CASE i \in 1..Len(a)
        BY <3>1, <3>2, <4>2
      <4>3. CASE i - Len(a) \in 1..Len(b)
        <5>1. Len(a) + (i - Len(a)) = i /\ Len(a) >= 0
          BY <3>2
        <5>2. w[Len(a) + (i - Len(a))] = b[i - Len(a)]
          BY <3>2, <4>3
        <5> QED BY <3>1, <4>3, <5>1, <5>2
      <4> QED BY <4>1, <4>2, <4>3
    <3> QED BY <3>3
  <2> HIDE DEF w, a, b
  <2>6. RecordScope(scopes'[Lo + 1], block, Len(pending), maps.blocks)
    <3>1. /\ scopes'[Lo + 1].stage = scopes[Lo + 1].stage
          /\ scopes'[Lo + 1].handle = scopes[Lo + 1].handle
          /\ scopes'[Lo + 1].block = scopes[Lo + 1].block
          /\ scopes'[Lo + 1].pending = scopes[Lo + 1].pending
          /\ scopes'[Lo + 1].before = scopes[Lo + 1].before
      BY <1>10, <1>11, <2>2 DEF Alike
    <3>2. /\ scopes[Lo + 1].stage # "failed" => Has(a, scopes[Lo + 1].handle)
          /\ scopes[Lo + 1].block = block /\ scopes[Lo + 1].pending = Len(pending)
          /\ scopes[Lo + 1].before.blocks = maps.blocks
      BY <2>1 DEF RecordScope, a
    <3> QED BY <2>3, <2>4, <2>5, <3>1, <3>2 DEF RecordScope
  <2>7. \A k \in (Lo + 1)..(Lo + 1) : k = Lo + 1
    BY <1>2
  <2> QED BY <1>14, <2>6, <2>7 DEF HoldsIn
<1> QED BY <1>1, <1>2, <1>3, <1>9, <1>12, <1>13, <1>16, <1>17, <1>18, SessionParts, RecordStep DEF ValuesOK

LEMMA CommitRecordKeeps ==
  ASSUME IInv, phase # "idle", CommitRecord
  PROVE  IInv'
<1>1. InRecord
  BY DEF CommitRecord
<1>2. Len(scopes) = Lo + 1 \/ Len(scopes) = Lo + 2
  BY <1>1, InRecordIs DEF RecordOpen
<1> QED BY <1>2, CommitSectionKeeps, CommitInsideKeeps

---------------------------------------------------------------------------
(* Outside the write and between its sections.                               *)

LEMMA IdleStep ==
  ASSUME phase' = "idle", scopes' = <<>>, AllocOK'
  PROVE  IInv'
BY DEF IInv, Phases

LEMMA ReserveHandleIs ==
  ASSUME HP!Sound(alloc), NEW h \in Handles, ReserveHandle(h)
  PROVE  /\ HP!Sound(alloc') /\ alloc.next <= alloc'.next
         /\ alloc.explicitReserved \subseteq alloc'.explicitReserved
         /\ Handle!CanReserve(alloc, h) => h < MaxHandle /\ h < alloc'.next
<1>1. CASE Handle!CanReserve(alloc, h)
  <2>1. alloc' = Handle!Reserved(alloc, h)
    BY <1>1 DEF ReserveHandle
  <2>2. /\ HP!Sound(alloc') /\ alloc.next <= alloc'.next /\ h < MaxHandle
        /\ alloc'.explicitReserved = alloc.explicitReserved \cup {h}
    BY <1>1, <2>1, ReserveIs
  <2>3. h < alloc'.next
    BY <2>2, SoundIs
  <2> QED BY <2>2, <2>3
<1>2. CASE ~Handle!CanReserve(alloc, h)
  <2>1. alloc' = alloc
    BY <1>2 DEF ReserveHandle
  <2> QED BY <1>2, <2>1, SoundIs
<1> QED BY <1>1, <1>2

LEMMA KeepHandleKeeps ==
  ASSUME IInv, NEW h \in Preserved \cup Layouts, KeepHandle(h)
  PROVE  IInv'
<1>1. /\ phase = "idle" /\ phase' = "idle" /\ scopes' = scopes /\ ReserveHandle(h)
      /\ replacement' = replacement
  BY DEF KeepHandle
<1>2. AllocOK /\ scopes = <<>> /\ h \in Handles
  BY <1>1, SessionAssumption DEF IInv, Handles
<1>3. HP!Sound(alloc') /\ alloc.explicitReserved \subseteq alloc'.explicitReserved
  BY <1>1, <1>2, ReserveHandleIs DEF AllocOK
<1>4. AllocOK'
  BY <1>1, <1>2, <1>3 DEF AllocOK
<1> QED BY <1>1, <1>2, <1>4, IdleStep

LEMMA RemapHandleKeeps ==
  ASSUME IInv, RemapHandle
  PROVE  IInv'
<1> DEFINE a == Handle!Minted(alloc)
<1>1. /\ phase = "idle" /\ phase' = "idle" /\ scopes' = scopes /\ Handle!CanMint(alloc)
      /\ replacement' = Handle!MintedHandle(alloc) /\ alloc' = Handle!Reserved(a, replacement')
  BY DEF RemapHandle
<1>2. AllocOK /\ scopes = <<>> /\ HP!Sound(alloc)
  BY <1>1 DEF IInv, AllocOK
<1>3. /\ HP!Sound(a) /\ replacement' = alloc.next /\ alloc.next < MaxHandle
      /\ alloc.next \in Handles /\ alloc.next >= FirstHandle
  BY <1>1, <1>2, MintIs, SoundIs
<1> HIDE DEF a
<1>4. Handle!CanReserve(a, alloc.next)
  BY <1>3, ReservableIs
<1>5. HP!Sound(alloc') /\ alloc'.explicitReserved = a.explicitReserved \cup {alloc.next}
  BY <1>1, <1>3, <1>4, ReserveIs
<1>6. AllocOK'
  BY <1>3, <1>5 DEF AllocOK
<1> QED BY <1>1, <1>2, <1>6, IdleStep

LEMMA RefuseWriteKeeps ==
  ASSUME IInv, RefuseWrite
  PROVE  IInv'
<1>1. UNCHANGED <<phase, alloc, scopes, replacement>> /\ phase = "idle"
  BY DEF RefuseWrite
<1>2. AllocOK' /\ scopes = <<>>
  BY <1>1 DEF IInv, AllocOK
<1> QED BY <1>1, <1>2, IdleStep

LEMMA EndKeeps ==
  ASSUME IInv, Publish \/ FailWrite
  PROVE  IInv'
<1>1. UNCHANGED <<alloc, replacement>> /\ phase' = "idle" /\ scopes' = <<>>
  BY DEF Publish, FailWrite
<1>2. AllocOK'
  BY <1>1 DEF IInv, AllocOK
<1> QED BY <1>1, <1>2, IdleStep

---------------------------------------------------------------------------
(* The sections.                                                             *)

\* With no record open there is nothing to roll back to.
LEMMA Closed ==
  ASSUME NEW lo, lo \in {0, 1}, NEW sc, Len(sc) = lo, NEW base, NEW mp, NEW K, NEW n,
         Coherent(mp, base, K, n), NEW bl, NEW p, NEW bks, NEW lg
  PROVE  HoldsIn(lo, sc, bl, p, bks) /\ WorldsIn(lo, base, sc, mp, K, n) /\ PathsIn(lo, sc, mp, lg)
<1>1. /\ ~(lo > lo) /\ ~(lo > lo + 1) /\ lo # lo + 1
      /\ \A k \in (lo + 1)..lo : FALSE
  OBVIOUS
<1>2. StreamIn(lo, base, sc) = base
  BY StreamNone
<1> QED BY <1>1, <1>2 DEF HoldsIn, WorldsIn, PathsIn

LEMMA CallbackIs ==
  ASSUME IInv, phase # "idle", ~InRecord
  PROVE  /\ Len(scopes) = Lo /\ Lo \in {0, 1} /\ Session /\ AllocOK /\ HP!Sound(alloc)
         /\ scopes \in Seq(ScopeSet) /\ ScopesIn(Lo, phase, scopes)
         /\ alloc.next \in Nat /\ Keeps \in SUBSET Handles /\ maps \in Maps
         /\ BaseStream \in Seq(Recs) /\ Coherent(maps, BaseStream, Keeps, alloc.next)
         /\ ValuesOK /\ SectionsOK
<1>1. /\ Len(scopes) = Lo /\ Lo \in {0, 1} /\ Session /\ AllocOK /\ HP!Sound(alloc)
      /\ scopes \in Seq(ScopeSet) /\ maps \in Maps /\ BaseStream \in Seq(Recs)
      /\ alloc.next \in Nat /\ Keeps \in SUBSET Handles
      /\ Coherent(maps, StreamIn(Lo, BaseStream, scopes), Keeps, alloc.next)
  BY InRecordIs, SessionParts
<1>2. StreamIn(Lo, BaseStream, scopes) = BaseStream
  BY <1>1, StreamNone
<1> QED BY <1>1, <1>2 DEF Session

\* A step of the sections, with no record open.
LEMMA SectionStep ==
  ASSUME IInv, phase # "idle", phase' \in Phases \ {"idle"}, UNCHANGED replacement,
         HP!Sound(alloc'), alloc.explicitReserved \subseteq alloc'.explicitReserved,
         ValuesOK', SectionsOK', Len(scopes') = Lo', ScopesIn(Lo', phase', scopes'),
         Coherent(maps', BaseStream', Keeps, alloc'.next)
  PROVE  IInv'
<1>1. Session /\ AllocOK
  BY DEF IInv
<1>2. Keeps' = Keeps /\ Lo' \in {0, 1}
  BY DEF Keeps, Lo
<1>3. AllocOK' /\ KeepsHeld'
  BY <1>1, <1>2 DEF AllocOK, Session, KeepsHeld
<1>4. /\ HoldsIn(Lo', scopes', block', Len(pending'), maps'.blocks)
      /\ WorldsIn(Lo', BaseStream', scopes', maps', Keeps', alloc'.next)
      /\ PathsIn(Lo', scopes', maps', log')
  BY <1>2, Closed
<1>5. Session'
  BY <1>2, <1>3, <1>4 DEF Session
<1> QED BY <1>3, <1>5 DEF IInv

LEMMA SectionScope ==
  ASSUME NEW s \in ScopeSet, s.kind \in SectionKinds, NEW ph
  PROVE  /\ ScopesIn(1, ph, <<s>>) /\ <<s>> \in Seq(ScopeSet) /\ Len(<<s>>) = 1 /\ <<s>>[1] = s
<1>1. s.kind \notin RecordKinds
  BY DEF SectionKinds, RecordKinds
<1>2. <<s>> \in Seq(ScopeSet) /\ Len(<<s>>) = 1 /\ <<s>>[1] = s
  OBVIOUS
<1> DEFINE sc == <<s>>
<1>3. sc \in Seq(ScopeSet) /\ Len(sc) = 1 /\ sc[1] = s
  BY <1>2
<1> HIDE DEF sc
<1>4. /\ Len(sc) \in 1..(1 + 2) /\ ~(Len(sc) > 1) /\ ~(Len(sc) > 1 + 1)
      /\ \A k \in 1..Len(sc) : k = 1 /\ ~(k > 1)
  BY <1>3
<1>5. ScopesIn(1, ph, sc)
  BY <1>1, <1>3, <1>4 DEF ScopesIn
<1> QED BY <1>2, <1>5 DEF sc

---------------------------------------------------------------------------
(* The start of a write.                                                     *)

LEMMA OrderIs ==
  LET n == Cardinality(FixedHandles)
  IN /\ n \in Nat /\ FixedOrder \in [1..n -> FixedHandles]
     /\ \A i, j \in 1..n : FixedOrder[i] = FixedOrder[j] => i = j
     /\ \A h \in FixedHandles : \E i \in 1..n : FixedOrder[i] = h
<1> DEFINE n == Cardinality(FixedHandles)
<1>1. IsFiniteSet(FixedHandles)
  <2>1. FirstHandle - 1 \in Int /\ 1 \in Int /\ FixedHandles \in SUBSET (1..(FirstHandle - 1))
    BY SessionAssumption
  <2>2. IsFiniteSet(1..(FirstHandle - 1))
    BY <2>1, FS_Interval
  <2> QED BY <2>1, <2>2, FS_Subset
<1>2. n \in Nat /\ ExistsBijection(1..n, FixedHandles)
  BY <1>1, FS_CardinalityType
<1>3. FixedOrder \in Bijection(1..n, FixedHandles)
  <2>1. \E f : f \in Bijection(1..n, FixedHandles)
    BY <1>2 DEF ExistsBijection
  <2>2. FixedOrder = CHOOSE f \in Bijection(1..n, FixedHandles) : TRUE
    BY DEF FixedOrder
  <2> HIDE DEF n
  <2> QED BY <2>1, <2>2
<1> HIDE DEF n
<1>4. /\ FixedOrder \in [1..n -> FixedHandles]
      /\ \A h \in FixedHandles : \E i \in 1..n : FixedOrder[i] = h
      /\ IsInjective(FixedOrder)
  BY <1>3 DEF Bijection, Injection, Surjection
<1>5. \A i, j \in 1..n : FixedOrder[i] = FixedOrder[j] => i = j
  BY <1>4 DEF IsInjective
<1> QED BY <1>2, <1>4, <1>5 DEF n

LEMMA FixedRecordsAre ==
  /\ FixedRecords \in Seq(Recs)
  /\ \A i \in 1..Len(FixedRecords) :
       /\ FixedRecords[i].handle \in FixedHandles /\ FixedRecords[i].source = "fixed"
       /\ FixedRecords[i].owner = RootDictionary /\ FixedRecords[i].refs = {}
       /\ FixedRecords[i].call = 0
  /\ \A i, j \in 1..Len(FixedRecords) :
       FixedRecords[i].handle = FixedRecords[j].handle => i = j
  /\ \A h \in FixedHandles : Has(FixedRecords, h)
<1> DEFINE n == Cardinality(FixedHandles)
<1>1. /\ n \in Nat /\ FixedOrder \in [1..n -> FixedHandles]
      /\ \A i, j \in 1..n : FixedOrder[i] = FixedOrder[j] => i = j
      /\ \A h \in FixedHandles : \E i \in 1..n : FixedOrder[i] = h
  BY OrderIs
<1>2. FixedRecords = [i \in 1..n |-> Record(FixedOrder[i], RootDictionary, {}, 0, "fixed")]
  BY DEF FixedRecords
<1> HIDE DEF n
<1>3. ASSUME NEW i \in 1..n
      PROVE  /\ FixedRecords[i] \in Recs /\ FixedRecords[i].handle = FixedOrder[i]
             /\ FixedRecords[i].source = "fixed" /\ FixedRecords[i].owner = RootDictionary
             /\ FixedRecords[i].refs = {} /\ FixedRecords[i].call = 0
  <2>1. /\ FixedRecords[i] = Record(FixedOrder[i], RootDictionary, {}, 0, "fixed")
        /\ FixedOrder[i] \in Handles /\ RootDictionary \in Handles
    BY <1>1, <1>2, Tags, SessionAssumption
  <2> QED BY <2>1, RecordIs
<1>4. FixedRecords \in Seq(Recs) /\ Len(FixedRecords) = n
  <2>1. FixedRecords \in [1..n -> Recs]
    BY <1>2, <1>3
  <2> QED BY <1>1, <2>1, IsASeq, LenProperties
<1>5. \A h \in FixedHandles : Has(FixedRecords, h)
  <2>1. ASSUME NEW h \in FixedHandles PROVE Has(FixedRecords, h)
    <3>1. PICK i \in 1..n : FixedOrder[i] = h
      BY <1>1
    <3> QED BY <1>3, <1>4, <3>1 DEF Has
  <2> QED BY <2>1
<1>6. \A i \in 1..n : FixedRecords[i].handle \in FixedHandles
  BY <1>1, <1>3
<1>7. \A i, j \in 1..n : FixedRecords[i].handle = FixedRecords[j].handle => i = j
  BY <1>1, <1>3
<1> QED BY <1>3, <1>4, <1>5, <1>6, <1>7

LEMMA FreshCoherent ==
  ASSUME NEW K \in SUBSET Handles, \A h \in K : h >= FirstHandle,
         NEW n \in Nat, n >= FirstHandle, \A h \in K : h < n
  PROVE  NoMaps \in Maps /\ Coherent(NoMaps, FixedRecords, K, n)
<1> DEFINE st == FixedRecords
<1>1. /\ st \in Seq(Recs) /\ \A h \in FixedHandles : Has(st, h)
      /\ \A i, j \in 1..Len(st) : st[i].handle = st[j].handle => i = j
      /\ \A i \in 1..Len(st) :
           /\ st[i].handle \in FixedHandles /\ st[i].source = "fixed"
           /\ st[i].owner = RootDictionary /\ st[i].refs = {}
  BY FixedRecordsAre
<1> HIDE DEF st
<1>2. /\ NoMaps \in Maps /\ \A s \in Sources : NoMaps.minted[s] = 0
      /\ \A b \in Blocks : NoMaps.blocks[b] = 0
      /\ NoMaps.written = {} /\ NoMaps.modelers = {} /\ NoMaps.ambiguous = {}
  BY Tags DEF NoMaps, Maps, Handles
<1>3. /\ \A s \in Sources : Claim(NoMaps, K, s) = {}
      /\ Claim(NoMaps, K, "block") = {} /\ Claim(NoMaps, K, "kept") = K
      /\ Claim(NoMaps, K, "fixed") = FixedHandles
  <2>1. /\ \A s \in Sources : Claim(NoMaps, K, s) = {NoMaps.minted[s]} \ {0}
        /\ Claim(NoMaps, K, "kept") = K /\ Claim(NoMaps, K, "fixed") = FixedHandles
    BY ClaimIs
  <2>2. \A h : h \notin Claim(NoMaps, K, "block")
    BY <1>2, BlockClaim
  <2> QED BY <1>2, <2>1, <2>2
<1>4. \A x \in Claimers : x # "kept" /\ x # "fixed" => Claim(NoMaps, K, x) = {}
  BY <1>3, ClaimersAre
<1>5. \A h \in FixedHandles : h < n /\ h \notin K
  <2>1. ASSUME NEW h \in FixedHandles PROVE h < n /\ h \notin K
    <3>1. h < FirstHandle /\ h \in Nat /\ FirstHandle \in Nat
      BY Tags DEF Handles
    <3>2. h \in K => h >= FirstHandle
      OBVIOUS
    <3> QED BY <3>1, <3>2
  <2> QED BY <2>1
<1>6. ClaimsApart(NoMaps, K)
  <2>1. ASSUME NEW x \in Claimers, NEW y \in Claimers, x # y
        PROVE  Claim(NoMaps, K, x) \cap Claim(NoMaps, K, y) = {}
    BY <1>3, <1>4, <1>5, <2>1
  <2>2. \A b, c \in Blocks : b # c => Three(NoMaps.blocks[b]) \cap Three(NoMaps.blocks[c]) = {}
    BY <1>2 DEF Three
  <2> QED BY <2>1, <2>2 DEF ClaimsApart
<1>7. Obeyed(NoMaps, K, st)
  BY <1>1, <1>3, <1>4, <1>5 DEF Obeyed
<1>8. Below(NoMaps, K, st, n)
  BY <1>1, <1>3, <1>4, <1>5 DEF Below
<1>9. Unique(NoMaps, st)
  BY <1>1 DEF Unique
<1>10. Marked(NoMaps, st) /\ OneModeler(NoMaps, st)
  BY <1>1, <1>2, Tags DEF Marked, OneModeler
<1>11. Owned(st) /\ Based(NoMaps, st) /\ Referred(NoMaps, st)
  BY <1>1, <1>2, SessionAssumption DEF Owned, Based, Referred
<1> QED BY <1>1, <1>2, <1>6, <1>7, <1>8, <1>9, <1>10, <1>11 DEF Coherent, st

LEMMA StartWriteKeeps ==
  ASSUME IInv, StartWrite
  PROVE  IInv'
<1> DEFINE s == NewScope("blockRecords", 0, FALSE, 0, NoBlock, 0, NoMaps)
<1>1. /\ phase = "idle" /\ FilterReady /\ phase' = "blockRecords" /\ replacement' = replacement
      /\ alloc' = Handle!Seeded(Handle!ResetGenerated(alloc))
      /\ log' = <<>> /\ pending' = <<>> /\ block' = NoBlock /\ maps' = NoMaps
      /\ calls' = 0 /\ file' = <<>> /\ writerError' = FALSE /\ scopes' = <<s>>
  BY DEF StartWrite, ResetSession
<1>2. AllocOK /\ HP!Sound(alloc)
  BY DEF IInv, AllocOK
<1>3. HP!Sound(alloc') /\ alloc'.explicitReserved = alloc.explicitReserved \cup FixedHandles
  BY <1>1, <1>2, ResetIs
<1>4. AllocOK' /\ Keeps' = Keeps
  BY <1>1, <1>2, <1>3 DEF AllocOK, Keeps
<1>5. Keeps \subseteq alloc.explicitReserved
  BY <1>1, <1>2 DEF FilterReady, Keeps, AllocOK
<1>6. KeepsHeld'
  BY <1>3, <1>4, <1>5 DEF KeepsHeld
<1>7. /\ Keeps \in SUBSET Handles /\ \A h \in Keeps : h >= FirstHandle
      /\ \A h \in Keeps : h < alloc'.next
      /\ alloc'.next \in Nat /\ alloc'.next >= FirstHandle
  BY <1>2, <1>3, <1>5, KeepsAre, SoundIs
<1>8. maps' \in Maps /\ Coherent(maps', FixedRecords, Keeps, alloc'.next)
  BY <1>1, <1>7, FreshCoherent
<1>9. /\ s.kind = "blockRecords" /\ s.call = 0 /\ s.handle = 0 /\ s.size = 0 /\ s.stage = "open"
      /\ s.records = <<>> /\ s.previousError = FALSE /\ s.checkpoint = 0
      /\ s.block = NoBlock /\ s.pending = 0 /\ s.before = NoMaps
      /\ s = [kind |-> s.kind, call |-> s.call, handle |-> s.handle, size |-> s.size,
              stage |-> s.stage, records |-> s.records, previousError |-> s.previousError,
              checkpoint |-> s.checkpoint, block |-> s.block, pending |-> s.pending,
              before |-> s.before]
  BY DEF NewScope
<1> HIDE DEF s
<1>10. s \in ScopeSet
  <2>1. NoBlock \in BlockStates /\ 0 \in Handles /\ NoMaps \in Maps
    BY <1>1, <1>8, Tags DEF NoBlock, BlockStates, Handles
  <2>2. /\ s.kind \in RecordKinds \cup SectionKinds /\ s.records \in Seq(Recs)
        /\ s.call \in Nat /\ s.handle \in Handles /\ s.size \in Nat
        /\ s.stage \in {"open", "ended", "failed"} /\ s.previousError \in BOOLEAN
        /\ s.checkpoint \in Nat /\ s.block \in BlockStates /\ s.pending \in Nat
        /\ s.before \in Maps
    <3>1. s.kind \in RecordKinds \cup SectionKinds /\ s.stage \in {"open", "ended", "failed"}
      BY <1>9 DEF SectionKinds
    <3>2. s.records \in Seq(Recs)
      BY <1>9
    <3>3. s.call \in Nat /\ s.size \in Nat /\ s.checkpoint \in Nat /\ s.pending \in Nat
      BY <1>9
    <3>4. s.handle \in Handles /\ s.block \in BlockStates /\ s.before \in Maps
      BY <1>9, <2>1
    <3>5. s.previousError \in BOOLEAN
      BY <1>9
    <3> QED BY <3>1, <3>2, <3>3, <3>4, <3>5
  <2> QED BY <1>9, <2>2 DEF ScopeSet
<1>11. /\ ScopesIn(1, phase', scopes') /\ Len(scopes') = 1 /\ scopes'[1].records = <<>>
  BY <1>1, <1>9, <1>10, SectionScope DEF SectionKinds
<1>12. Lo' = 1
  BY <1>1 DEF Lo
<1>13. BaseStream' = FixedRecords
  <2>1. BaseStream' = FixedRecords \o <<>>
    BY <1>1 DEF BaseStream
  <2> QED BY <2>1, FixedRecordsAre, ConcatEmptySeq
<1>14. ValuesOK'
  <2>1. block' \in BlockStates
    BY <1>1, Tags DEF NoBlock, BlockStates, Handles
  <2>2. log' \in Seq(Entries) /\ pending' \in Seq(Recs) /\ file' \in Seq(Recs)
    BY <1>1
  <2> QED BY <1>1, <2>1, <2>2 DEF ValuesOK
<1>15. SectionsOK'
  <2>1. TablesOnly(FixedRecords, maps'.blocks) /\ NoneKept(FixedRecords)
    BY FixedRecordsAre DEF TablesOnly, NoneKept
  <2> QED BY <1>1, <1>11, <1>13, <2>1 DEF SectionsOK
<1>16. /\ HoldsIn(1, scopes', block', Len(pending'), maps'.blocks)
       /\ WorldsIn(1, FixedRecords, scopes', maps', Keeps, alloc'.next)
       /\ PathsIn(1, scopes', maps', log')
  BY <1>8, <1>11, Closed
<1>17. Session'
  BY <1>4, <1>6, <1>11, <1>12, <1>13, <1>14, <1>15, <1>16 DEF Session
<1> QED BY <1>1, <1>4, <1>17 DEF IInv, Phases

---------------------------------------------------------------------------
(* BLOCK_RECORDS.                                                            *)

\* In the first callback the stream is that of the tables.
LEMMA FirstCallback ==
  ASSUME IInv, InCallback("blockRecords")
  PROVE  /\ phase = "blockRecords" /\ phase # "idle" /\ Lo = 1 /\ Len(scopes) = 1
         /\ AllocOK /\ HP!Sound(alloc) /\ alloc.next \in Nat /\ Keeps \in SUBSET Handles
         /\ maps \in Maps /\ ValuesOK /\ BaseStream = FixedRecords \o pending
         /\ BaseStream \in Seq(Recs) /\ Coherent(maps, BaseStream, Keeps, alloc.next)
         /\ ScopesIn(1, phase, scopes) /\ TablesOnly(BaseStream, maps.blocks)
         /\ NoneKept(BaseStream) /\ scopes[1].records = <<>>
<1>1. phase = "blockRecords" /\ phase # "idle" /\ ~InRecord
  BY DEF InCallback
<1>2. Lo = 1 /\ BaseStream = FixedRecords \o pending
  BY <1>1 DEF Lo, BaseStream
<1>3. TablesOnly(BaseStream, maps.blocks) /\ NoneKept(BaseStream) /\ scopes[1].records = <<>>
  BY <1>1, CallbackIs DEF SectionsOK
<1> QED BY <1>1, <1>2, <1>3, CallbackIs

\* A step of the first callback.
LEMMA FirstStep ==
  ASSUME IInv, InCallback("blockRecords"), UNCHANGED <<phase, scopes, file, block, replacement>>,
         calls' \in Nat, writerError' \in BOOLEAN,
         HP!Sound(alloc'), alloc.explicitReserved \subseteq alloc'.explicitReserved,
         log' \in Seq(Entries), pending' \in Seq(Recs),
         TablesOnly(BaseStream', maps'.blocks), NoneKept(BaseStream'),
         Coherent(maps', BaseStream', Keeps, alloc'.next)
  PROVE  IInv'
<1>1. /\ phase = "blockRecords" /\ phase # "idle" /\ Lo = 1 /\ Len(scopes) = 1 /\ ValuesOK
      /\ ScopesIn(1, phase, scopes) /\ scopes[1].records = <<>>
  BY FirstCallback
<1>2. Lo' = 1 /\ phase' \in Phases \ {"idle"}
  BY <1>1 DEF Lo, Phases
<1>3. ValuesOK'
  BY <1>1 DEF ValuesOK
<1>4. SectionsOK'
  BY <1>1 DEF SectionsOK
<1> QED BY <1>1, <1>2, <1>3, <1>4, SectionStep

LEMMA EntriesAre ==
  ASSUME NEW lg \in Seq(Entries), NEW k \in {"source", "ambiguous", "written", "modeler", "block"},
         NEW x \in Sources \cup Blocks
  PROVE  Append(lg, [kind |-> k, key |-> x]) \in Seq(Entries)
<1>1. [kind |-> k, key |-> x] \in Entries
  BY DEF Entries
<1> QED BY <1>1

LEMMA PreallocateKeeps ==
  ASSUME IInv, NEW s \in Sources, PreallocateEntityHandle(s)
  PROVE  IInv'
<1>1. /\ InCallback("blockRecords") /\ "preallocate" \in Habits /\ maps.minted[s] = 0
      /\ UNCHANGED <<phase, scopes, file, writerError, block, pending, calls, replacement>>
  BY DEF PreallocateEntityHandle
<1>2. /\ phase = "blockRecords" /\ HP!Sound(alloc) /\ alloc.next \in Nat /\ Keeps \in SUBSET Handles
      /\ maps \in Maps /\ ValuesOK /\ BaseStream = FixedRecords \o pending
      /\ BaseStream \in Seq(Recs) /\ Coherent(maps, BaseStream, Keeps, alloc.next)
      /\ TablesOnly(BaseStream, maps.blocks) /\ NoneKept(BaseStream)
  BY <1>1, FirstCallback
<1>3. BaseStream' = BaseStream /\ calls' \in Nat /\ writerError' \in BOOLEAN
  BY <1>1, <1>2 DEF BaseStream, ValuesOK
<1>4. CASE Handle!CanMint(alloc)
  <2> DEFINE h == alloc.next
  <2>1. /\ alloc' = Handle!Minted(alloc) /\ maps' = [maps EXCEPT !.minted[s] = Handle!MintedHandle(alloc)]
        /\ log' = Append(log, [kind |-> "source", key |-> s])
    BY <1>4 DEF PreallocateEntityHandle
  <2>2. /\ HP!Sound(alloc') /\ maps' = [maps EXCEPT !.minted[s] = h] /\ h \in Handles /\ h # 0
        /\ alloc'.next = h + 1 /\ alloc'.explicitReserved = alloc.explicitReserved
    BY <1>2, <1>4, <2>1, MintIs, SoundIs
  <2>3. Coherent(maps, BaseStream, Keeps, h + 1) /\ h + 1 \in Nat /\ h < h + 1
    BY <1>2, CoherentGrows
  <2>4. /\ \A i \in 1..Len(BaseStream) : BaseStream[i].handle # h
        /\ \A x \in Claimers : h \notin Claim(maps, Keeps, x)
    <3>1. h \in Nat /\ h >= alloc.next
      BY <1>2
    <3> QED BY <1>2, <3>1, AllBelow
  <2>5. Coherent(maps', BaseStream, Keeps, h + 1)
    BY <1>1, <1>2, <2>2, <2>3, <2>4, EnterMinted
  <2>6. maps'.blocks = maps.blocks
    BY <1>2, <2>2, MapParts
  <2>7. log' \in Seq(Entries) /\ pending' \in Seq(Recs)
    BY <1>1, <1>2, <2>1, EntriesAre DEF ValuesOK
  <2> QED BY <1>1, <1>2, <1>3, <2>2, <2>5, <2>6, <2>7, FirstStep
<1>5. CASE ~Handle!CanMint(alloc)
  <2>1. alloc' = Handle!Exhausted(alloc) /\ UNCHANGED <<maps, log>>
    BY <1>5 DEF PreallocateEntityHandle
  <2>2. /\ HP!Sound(alloc') /\ alloc.next <= alloc'.next
        /\ alloc'.explicitReserved = alloc.explicitReserved
    BY <1>2, <1>5, <2>1, ExhaustIs
  <2> QED BY <1>1, <1>3, <2>1, <2>2, Quiet
<1> QED BY <1>4, <1>5

\* The tables' records are the codec's and the blocks', and no entity's.
LEMMA TablesNoEntity ==
  ASSUME NEW mp, NEW st, NEW K, NEW n, Coherent(mp, st, K, n), TablesOnly(st, mp.blocks)
  PROVE  \A i \in 1..Len(st) : st[i].source \in {"fixed", "block"}
<1>1. SUFFICES ASSUME NEW i \in 1..Len(st) PROVE st[i].source \in {"fixed", "block"}
  OBVIOUS
<1>2. "fixed" \in Claimers /\ "block" \in Claimers /\ Obeyed(mp, K, st)
  BY DEF Claimers, Coherent
<1>3. CASE st[i].handle \in FixedHandles
  BY <1>1, <1>2, <1>3, ClaimIs DEF Obeyed
<1>4. CASE \E b \in Blocks : st[i].handle = mp.blocks[b] /\ mp.blocks[b] # 0
  <2>1. st[i].handle \in Claim(mp, K, "block")
    BY <1>4, BlockClaim
  <2> QED BY <1>1, <1>2, <2>1 DEF Obeyed
<1> QED BY <1>1, <1>3, <1>4 DEF TablesOnly

LEMMA AmbiguousKeeps ==
  ASSUME IInv, NEW s \in Sources, MarkSourceHandleAmbiguous(s)
  PROVE  IInv'
<1>1. /\ InCallback("blockRecords") /\ maps' = [maps EXCEPT !.ambiguous = @ \cup {s}]
      /\ log' = Append(log, [kind |-> "ambiguous", key |-> s])
      /\ UNCHANGED <<alloc, phase, scopes, file, writerError, block, pending, calls, replacement>>
  BY DEF MarkSourceHandleAmbiguous
<1>2. /\ phase = "blockRecords" /\ HP!Sound(alloc)
      /\ maps \in Maps /\ ValuesOK /\ BaseStream = FixedRecords \o pending
      /\ Coherent(maps, BaseStream, Keeps, alloc.next)
      /\ TablesOnly(BaseStream, maps.blocks) /\ NoneKept(BaseStream)
  BY <1>1, FirstCallback
<1>3. BaseStream' = BaseStream /\ calls' \in Nat /\ writerError' \in BOOLEAN
  BY <1>1, <1>2 DEF BaseStream, ValuesOK
<1>4. \A i \in 1..Len(BaseStream) : BaseStream[i].source \notin Sources
  BY <1>2, TablesNoEntity, Tags
<1>5. Coherent(maps', BaseStream, Keeps, alloc.next)
  BY <1>1, <1>2, <1>4, EnterAmbiguous
<1>6. maps'.blocks = maps.blocks
  BY <1>1, <1>2, MapParts
<1>7. log' \in Seq(Entries) /\ pending' \in Seq(Recs)
  BY <1>1, <1>2, EntriesAre DEF ValuesOK
<1> QED BY <1>1, <1>2, <1>3, <1>5, <1>6, <1>7, FirstStep

\* The allocator keeps a block's three handles together.
LEMMA ReservedThree ==
  ASSUME HP!Sound(alloc), BlockRecordFits(alloc)
  PROVE  /\ Handle!MintedHandle(alloc) = alloc.next /\ alloc.next + 2 < MaxHandle
         /\ HP!Sound(BlockRecordReserved(alloc))
         /\ BlockRecordReserved(alloc).next = alloc.next + 3
         /\ alloc.explicitReserved \subseteq BlockRecordReserved(alloc).explicitReserved
<1> DEFINE h == alloc.next
           a == Handle!Minted(alloc)
           b == Handle!Reserved(a, h + 1)
           c == Handle!Reserved(b, h + 2)
<1>1. /\ HP!Sound(a) /\ Handle!MintedHandle(alloc) = h /\ a.next = h + 1
      /\ a.explicitReserved = alloc.explicitReserved /\ h \in Nat /\ MaxHandle \in Nat
  BY MintIs, SoundIs DEF BlockRecordFits
<1>2. h + 2 < MaxHandle
  BY <1>1 DEF BlockRecordFits, EndBlockHandle
<1>3. BlockRecordReserved(alloc) = c
  BY <1>1 DEF BlockRecordReserved, BlockHandle, EndBlockHandle
<1> HIDE DEF a, h
<1>4. h + 1 \in Handles /\ h + 1 < MaxHandle /\ h + 2 \in Handles
  BY <1>1, <1>2 DEF Handles
<1>5. /\ HP!Sound(b) /\ b.next = h + 2
      /\ b.explicitReserved = a.explicitReserved \cup {h + 1}
  <2>1. Handle!CanReserve(a, h + 1)
    BY <1>1, <1>4, ReservableIs
  <2>2. /\ HP!Sound(b) /\ b.explicitReserved = a.explicitReserved \cup {h + 1}
        /\ b.next = (IF h + 1 >= a.next THEN (h + 1) + 1 ELSE a.next)
    BY <1>1, <1>4, <2>1, ReserveIs
  <2> QED BY <1>1, <2>2
<1> HIDE DEF b
<1>6. /\ HP!Sound(c) /\ c.next = h + 3
      /\ c.explicitReserved = b.explicitReserved \cup {h + 2}
  <2>1. Handle!CanReserve(b, h + 2)
    BY <1>2, <1>4, <1>5, ReservableIs
  <2>2. /\ HP!Sound(c) /\ c.explicitReserved = b.explicitReserved \cup {h + 2}
        /\ c.next = (IF h + 2 >= b.next THEN (h + 2) + 1 ELSE b.next)
    BY <1>4, <1>5, <2>1, ReserveIs
  <2> QED BY <1>1, <1>5, <2>2
<1> QED BY <1>1, <1>2, <1>3, <1>5, <1>6 DEF h

LEMMA DeniedIs ==
  ASSUME HP!Sound(alloc), ~BlockRecordFits(alloc)
  PROVE  /\ HP!Sound(BlockRecordDenied(alloc)) /\ alloc.next <= BlockRecordDenied(alloc).next
         /\ alloc.explicitReserved \subseteq BlockRecordDenied(alloc).explicitReserved
<1> DEFINE h == alloc.next
           a == Handle!Minted(alloc)
<1>1. CASE ~Handle!CanMint(alloc)
  BY <1>1, ExhaustIs DEF BlockRecordDenied
<1>2. CASE Handle!CanMint(alloc)
  <2>1. /\ HP!Sound(a) /\ Handle!MintedHandle(alloc) = h /\ a.next = h + 1
        /\ a.explicitReserved = alloc.explicitReserved /\ h \in Nat /\ MaxHandle \in Nat
    BY <1>2, MintIs, SoundIs
  <2>2. BlockRecordDenied(alloc) = IF h + 2 > MaxHandle THEN a ELSE Handle!Reserved(a, h + 1)
    BY <1>2, <2>1 DEF BlockRecordDenied, BlockHandle, EndBlockHandle
  <2> HIDE DEF a, h
  <2>3. CASE h + 2 > MaxHandle
    BY <2>1, <2>2, <2>3 DEF h
  <2>4. CASE ~(h + 2 > MaxHandle)
    <3>1. h + 1 \in Handles /\ h + 1 < MaxHandle
      BY <2>1, <2>4 DEF Handles
    <3>2. Handle!CanReserve(a, h + 1)
      BY <2>1, <3>1, ReservableIs
    <3>3. /\ HP!Sound(Handle!Reserved(a, h + 1)) /\ a.next <= Handle!Reserved(a, h + 1).next
          /\ Handle!Reserved(a, h + 1).explicitReserved = a.explicitReserved \cup {h + 1}
          /\ Handle!Reserved(a, h + 1).next = (IF h + 1 >= a.next THEN (h + 1) + 1 ELSE a.next)
      BY <2>1, <3>1, <3>2, ReserveIs
    <3>4. h <= Handle!Reserved(a, h + 1).next
      BY <2>1, <3>3
    <3> QED BY <2>1, <2>2, <2>4, <3>3, <3>4 DEF h
  <2> QED BY <2>3, <2>4
<1> QED BY <1>1, <1>2

LEMMA BlockRecordKeeps ==
  ASSUME IInv, NEW b \in Blocks, NEW inserts \in SUBSET PlannedHandles,
         WriteBlockRecord(b, inserts)
  PROVE  IInv'
<1>1. /\ InCallback("blockRecords") /\ maps.blocks[b] = 0
      /\ UNCHANGED <<phase, scopes, file, writerError, block, calls, replacement>>
  BY DEF WriteBlockRecord
<1>2. /\ phase = "blockRecords" /\ HP!Sound(alloc) /\ alloc.next \in Nat /\ Keeps \in SUBSET Handles
      /\ maps \in Maps /\ ValuesOK /\ BaseStream = FixedRecords \o pending
      /\ BaseStream \in Seq(Recs) /\ Coherent(maps, BaseStream, Keeps, alloc.next)
      /\ TablesOnly(BaseStream, maps.blocks) /\ NoneKept(BaseStream)
  BY <1>1, FirstCallback
<1>3. calls' \in Nat /\ writerError' \in BOOLEAN /\ pending \in Seq(Recs) /\ log \in Seq(Entries)
  BY <1>1, <1>2 DEF ValuesOK
<1>4. CASE BlockRecordFits(alloc)
  <2> DEFINE h == alloc.next
             r == Record(h, RootDictionary, inserts, 0, "block")
             st == BaseStream
             w == BaseStream \o <<r>>
             m == [maps EXCEPT !.blocks[b] = h]
  <2>1. /\ alloc' = BlockRecordReserved(alloc)
        /\ maps' = [maps EXCEPT !.blocks[b] = Handle!MintedHandle(alloc)]
        /\ log' = Append(log, [kind |-> "block", key |-> b])
        /\ pending' = Append(pending,
                        Record(Handle!MintedHandle(alloc), RootDictionary, inserts, 0, "block"))
    BY <1>4 DEF WriteBlockRecord
  <2>2. /\ HP!Sound(alloc') /\ maps' = m /\ pending' = Append(pending, r)
        /\ h \in Handles /\ h # 0 /\ h \in Nat /\ h >= h /\ h + 1 >= h /\ h + 2 >= h
        /\ alloc'.next = h + 3 /\ alloc.explicitReserved \subseteq alloc'.explicitReserved
    <3>1. Handle!MintedHandle(alloc) = h /\ HP!Sound(alloc') /\ alloc'.next = h + 3
          /\ alloc.explicitReserved \subseteq alloc'.explicitReserved
      BY <1>2, <1>4, <2>1, ReservedThree
    <3>2. h \in Handles /\ h # 0 /\ h \in Nat
      BY <1>2, SoundIs
    <3> HIDE DEF h
    <3>3. h >= h /\ h + 1 >= h /\ h + 2 >= h
      BY <3>2
    <3> QED BY <2>1, <3>1, <3>2, <3>3
  <2>3. \A g \in {h, h + 1, h + 2} :
          /\ \A i \in 1..Len(st) : st[i].handle # g
          /\ \A x \in Claimers : g \notin Claim(maps, Keeps, x)
    <3>1. ASSUME NEW g \in {h, h + 1, h + 2}
          PROVE  /\ \A i \in 1..Len(st) : st[i].handle # g
                 /\ \A x \in Claimers : g \notin Claim(maps, Keeps, x)
      <4>1. g \in Nat /\ g >= alloc.next
        BY <2>2
      <4> QED BY <1>2, <4>1, AllBelow
    <3> QED BY <3>1
  <2>4. Coherent(maps, st, Keeps, h + 3) /\ h + 3 \in Nat /\ h < h + 3 /\ h + 2 < h + 3
    <3>1. h + 3 \in Nat /\ h < h + 3 /\ h + 2 < h + 3 /\ h <= h + 3
      BY <2>2
    <3> QED BY <1>2, <3>1, CoherentGrows
  <2>5. \A g \in inserts : \E s \in Sources : g = maps.minted[s] /\ g # 0
    BY DEF PlannedHandles
  <2>6. /\ r \in Recs /\ r.handle = h /\ r.owner = RootDictionary /\ r.refs = inserts
        /\ r.source = "block"
    <3>1. inserts \in SUBSET Handles
      BY <1>2, <2>5, MapParts
    <3>2. RootDictionary \in Handles
      BY Tags, SessionAssumption
    <3> QED BY <2>2, <3>1, <3>2, RecordIs
  <2>7. Has(st, RootDictionary)
    BY <1>2, SessionAssumption DEF Coherent, Based
  <2>8. "preallocate" \notin Habits => \A g \in r.refs : Has(st, g)
    <3>1. "preallocate" \notin Habits => \A s \in Sources : maps.minted[s] # 0 => Has(st, maps.minted[s])
      BY <1>2 DEF Coherent, Referred
    <3> QED BY <2>5, <2>6, <3>1
  <2> HIDE DEF r, h
  <2>9. Coherent(maps, w, Keeps, h + 3)
    <3>1. r.source \notin Sources
      BY <2>6, Tags
    <3>2. /\ \A x \in Claimers : r.handle \in Claim(maps, Keeps, x) => r.source = x
          /\ \A i \in 1..Len(st) :
               st[i].handle = r.handle => /\ "share" \in Habits /\ st[i].source = r.source
                                          /\ r.source \in Sources \ maps.ambiguous
      BY <2>3, <2>6
    <3>3. r.handle < h + 3 /\ Has(st, r.owner)
      BY <2>4, <2>6, <2>7
    <3> QED BY <1>2, <2>4, <2>6, <2>8, <3>1, <3>2, <3>3, RecordCoherent
  <2>10. w \in Seq(Recs) /\ \A g : Has(w, g) <=> Has(st, g) \/ g = h
    BY <1>2, <2>6, OneMore, HasMore
  <2>11. \A i \in 1..Len(w) : (i \in 1..Len(st) /\ w[i] = st[i]) \/ w[i] = r
    <3>1. /\ Len(w) = Len(st) + 1 /\ \A i \in 1..Len(st) : w[i] = st[i]
          /\ w[Len(st) + 1] = r /\ Len(st) \in Nat
      BY <1>2, <2>6, OneMore
    <3> HIDE DEF w
    <3>2. \A i \in 1..Len(w) : i \in 1..Len(st) \/ i = Len(st) + 1
      BY <3>1
    <3> QED BY <3>1, <3>2
  <2> HIDE DEF w
  <2>12. \A g \in Three(h) :
            /\ \A x \in Claimers : g \notin Claim(maps, Keeps, x)
            /\ \A i \in 1..Len(w) : w[i].handle = g => w[i].source = "block"
    <3>1. ASSUME NEW g \in Three(h)
          PROVE  /\ \A x \in Claimers : g \notin Claim(maps, Keeps, x)
                 /\ \A i \in 1..Len(w) : w[i].handle = g => w[i].source = "block"
      <4>1. g \in {h, h + 1, h + 2}
        BY <2>2 DEF Three
      <4> QED BY <2>3, <2>6, <2>11, <4>1
    <3> QED BY <3>1
  <2>13. Coherent(m, w, Keeps, h + 3)
    BY <1>1, <1>2, <2>2, <2>4, <2>9, <2>10, <2>12, EnterBlock
  <2>14. BaseStream' = w
    <3>1. BaseStream' = FixedRecords \o Append(pending, r)
      BY <1>1, <1>2, <2>2 DEF BaseStream
    <3>2. Append(pending, r) = pending \o <<r>> /\ <<r>> \in Seq(Recs)
      BY <1>3, <2>6, AppendIsConcat
    <3>3. FixedRecords \o (pending \o <<r>>) = (FixedRecords \o pending) \o <<r>>
      BY <1>3, <3>2, FixedRecordsAre, StreamsJoin
    <3> QED BY <1>2, <3>1, <3>2, <3>3 DEF w
  <2>15. TablesOnly(w, m.blocks)
    <3>1. m.blocks[b] = h /\ \A c \in Blocks : c # b => m.blocks[c] = maps.blocks[c]
      BY <1>2, MapParts DEF m
    <3>2. ASSUME NEW i \in 1..Len(w)
          PROVE  \/ w[i].handle \in FixedHandles
                 \/ \E c \in Blocks : w[i].handle = m.blocks[c] /\ m.blocks[c] # 0
      <4>1. CASE w[i] = r
        BY <2>2, <2>6, <3>1, <4>1
      <4>2. CASE i \in 1..Len(st) /\ w[i] = st[i]
        <5>1. \/ st[i].handle \in FixedHandles
              \/ \E c \in Blocks : st[i].handle = maps.blocks[c] /\ maps.blocks[c] # 0
          BY <1>2, <4>2 DEF TablesOnly
        <5> QED BY <1>1, <3>1, <4>2, <5>1
      <4> QED BY <2>11, <4>1, <4>2
    <3> QED BY <3>2 DEF TablesOnly
  <2>16. NoneKept(w)
    BY <1>2, <2>6, <2>11 DEF NoneKept
  <2>17. log' \in Seq(Entries) /\ pending' \in Seq(Recs)
    BY <1>3, <2>1, <2>2, <2>6, EntriesAre
  <2> HIDE DEF m
  <2> QED BY <1>1, <1>3, <2>2, <2>13, <2>14, <2>15, <2>16, <2>17, FirstStep
<1>5. CASE ~BlockRecordFits(alloc)
  <2>1. alloc' = BlockRecordDenied(alloc) /\ UNCHANGED <<maps, log, pending>>
    BY <1>5 DEF WriteBlockRecord
  <2>2. /\ HP!Sound(alloc') /\ alloc.next <= alloc'.next
        /\ alloc.explicitReserved \subseteq alloc'.explicitReserved
    BY <1>2, <1>5, <2>1, DeniedIs
  <2> QED BY <1>1, <1>3, <2>1, <2>2, Quiet
<1> QED BY <1>4, <1>5

---------------------------------------------------------------------------
(* TABLES and BLOCKS.                                                        *)

\* What the three handles of a block can be.
LEMMA ThreeApart ==
  ASSUME NEW mp, NEW K, NEW st, NEW n, Coherent(mp, st, K, n),
         NEW b \in Blocks, mp.blocks[b] # 0
  PROVE  /\ mp.blocks[b] \in Nat
         /\ \A c \in Blocks : mp.blocks[c] # 0 =>
              /\ mp.blocks[c] = mp.blocks[b] => c = b
              /\ mp.blocks[b] + 2 # mp.blocks[c] /\ mp.blocks[b] + 1 # mp.blocks[c]
              /\ mp.blocks[b] + 1 # mp.blocks[c] + 2
         /\ \A g \in {mp.blocks[b], mp.blocks[b] + 1, mp.blocks[b] + 2} :
              /\ g \notin FixedHandles /\ g \in Nat
              /\ \A x \in Claimers : g \in Claim(mp, K, x) <=> x = "block"
<1>1. /\ mp \in Maps /\ ClaimsApart(mp, K) /\ Below(mp, K, st, n)
  BY DEF Coherent
<1>2. \A c \in Blocks : mp.blocks[c] \in Nat
  BY <1>1, MapParts
<1>3. ASSUME NEW c \in Blocks, mp.blocks[c] # 0
      PROVE  /\ mp.blocks[c] = mp.blocks[b] => c = b
             /\ mp.blocks[b] + 2 # mp.blocks[c] /\ mp.blocks[b] + 1 # mp.blocks[c]
             /\ mp.blocks[b] + 1 # mp.blocks[c] + 2
  <2>1. CASE c = b
    BY <1>2, <2>1
  <2>2. CASE c # b
    <3>1. Three(mp.blocks[b]) \cap Three(mp.blocks[c]) = {}
      BY <1>1, <2>2 DEF ClaimsApart
    <3> QED BY <1>3, <3>1 DEF Three
  <2> QED BY <2>1, <2>2
<1>4. "block" \in Claimers /\ "fixed" \in Claimers
  BY DEF Claimers
<1>5. ASSUME NEW g \in {mp.blocks[b], mp.blocks[b] + 1, mp.blocks[b] + 2}
      PROVE  /\ g \notin FixedHandles /\ g \in Nat
             /\ \A x \in Claimers : g \in Claim(mp, K, x) <=> x = "block"
  <2>1. g \in Claim(mp, K, "block")
    BY BlockClaim
  <2>2. \A x \in Claimers : g \in Claim(mp, K, x) <=> x = "block"
    BY <1>1, <1>4, <2>1 DEF ClaimsApart
  <2>3. g \notin FixedHandles
    <3>1. Claim(mp, K, "fixed") = FixedHandles
      BY ClaimIs
    <3> QED BY <1>4, <2>2, <3>1
  <2>4. g \in Nat
    BY <1>2
  <2> QED BY <2>2, <2>3, <2>4
<1> QED BY <1>2, <1>3, <1>5

LEMMA WriteTablesKeeps ==
  ASSUME IInv, WriteTables
  PROVE  IInv'
<1> DEFINE s == Scope("blocks", 0)
<1>1. /\ InCallback("blockRecords") /\ phase' = "blocks" /\ file' = FixedRecords \o pending
      /\ scopes' = <<s>> /\ block' = NoBlock
      /\ UNCHANGED <<alloc, maps, log, writerError, pending, calls, replacement>>
  BY DEF WriteTables
<1>2. /\ phase # "idle" /\ HP!Sound(alloc)
      /\ maps \in Maps /\ ValuesOK /\ BaseStream = FixedRecords \o pending
      /\ BaseStream \in Seq(Recs) /\ Coherent(maps, BaseStream, Keeps, alloc.next)
      /\ TablesOnly(BaseStream, maps.blocks) /\ NoneKept(BaseStream)
  BY <1>1, FirstCallback
<1>3. s \in ScopeSet /\ s.kind = "blocks" /\ s.records = <<>>
  <2>1. "blocks" \in RecordKinds \cup SectionKinds
    BY DEF SectionKinds
  <2> QED BY <1>2, <2>1, ScopeIs
<1> HIDE DEF s
<1>4. ScopesIn(1, phase', scopes') /\ Len(scopes') = 1 /\ scopes'[1] = s
  BY <1>1, <1>3, SectionScope DEF SectionKinds
<1>5. Lo' = 1 /\ phase' \in Phases \ {"idle"}
  BY <1>1 DEF Lo, Phases
<1>6. BaseStream' = file' /\ file' = BaseStream
  <2>1. BaseStream' = file' \o <<>>
    BY <1>1, <1>3, <1>4 DEF BaseStream
  <2> QED BY <1>1, <1>2, <2>1, ConcatEmptySeq
<1>7. ValuesOK'
  <2>1. NoBlock \in BlockStates
    BY Tags DEF NoBlock, BlockStates, Handles
  <2> QED BY <1>1, <1>2, <1>6, <2>1 DEF ValuesOK
<1>8. BlocksBegun(BaseStream, NoBlock, maps.blocks)
  <2>1. ASSUME NEW b \in Blocks, maps.blocks[b] # 0 PROVE ~Has(BaseStream, maps.blocks[b] + 2)
    <3>1. SUFFICES ASSUME NEW i \in 1..Len(BaseStream),
                          BaseStream[i].handle = maps.blocks[b] + 2
                   PROVE  FALSE
      BY DEF Has
    <3>2. \/ BaseStream[i].handle \in FixedHandles
          \/ \E c \in Blocks : BaseStream[i].handle = maps.blocks[c] /\ maps.blocks[c] # 0
      BY <1>2 DEF TablesOnly
    <3>3. maps.blocks[b] + 2 \notin FixedHandles
      BY <1>2, <2>1, ThreeApart
    <3>4. \A c \in Blocks : maps.blocks[c] # 0 => maps.blocks[b] + 2 # maps.blocks[c]
      BY <1>2, <2>1, ThreeApart
    <3> QED BY <3>1, <3>2, <3>3, <3>4
  <2> QED BY <2>1 DEF BlocksBegun, NoBlock
<1>9. SectionsOK'
  BY <1>1, <1>2, <1>6, <1>8 DEF SectionsOK
<1> QED BY <1>1, <1>2, <1>4, <1>5, <1>6, <1>7, <1>9, SectionStep

\* The section's scope takes records: the stream grows by them.
LEMMA SectionEmits ==
  ASSUME IInv, phase \in {"blocks", "objects"}, ~InRecord, NEW rs, Stream(rs),
         scopes' = Emitted(scopes, rs), UNCHANGED <<phase, file>>
  PROVE  /\ Lo' = Lo /\ Lo = 1 /\ Len(scopes') = 1 /\ ScopesIn(1, phase, scopes')
         /\ Len(scopes) = 1 /\ Top = scopes[1] /\ Top.records \in Seq(Recs)
         /\ scopes'[1].records = Joined(Top.records, rs)
         /\ BaseStream = file \o Top.records /\ BaseStream' = Joined(BaseStream, rs)
<1>1. /\ Lo = 1 /\ Lo' = Lo /\ BaseStream = file \o scopes[1].records
      /\ BaseStream' = file \o scopes'[1].records
  BY DEF Lo, BaseStream
<1>2. /\ Len(scopes) = 1 /\ scopes \in Seq(ScopeSet) /\ ScopesIn(1, phase, scopes)
      /\ file \in Seq(Recs)
  BY <1>1, CallbackIs DEF ValuesOK
<1>3. Top = scopes[1] /\ scopes[1] \in ScopeSet /\ Len(scopes) > 0
  <2>1. 1 \in 1..Len(scopes) /\ Len(scopes) > 0
    BY <1>2
  <2>2. scopes[1] \in ScopeSet
    BY <1>2, <2>1, ElementOfSeq
  <2>3. Top = scopes[1]
    BY <1>2 DEF Top
  <2> QED BY <2>1, <2>2, <2>3
<1>4. scopes[1].records \in Seq(Recs) /\ rs \in Seq(Recs)
  BY <1>3, ScopeParts DEF Stream
<1>5. SameBelow(scopes', scopes) /\ scopes'[1].records = scopes[1].records \o rs
  <2>1. /\ SameBelow(Emitted(scopes, rs), scopes)
        /\ Emitted(scopes, rs)[Len(scopes)].records = scopes[Len(scopes)].records \o rs
    BY <1>2, <1>3, <1>4, EmissionIs
  <2> QED BY <1>2, <2>1
<1>6. ScopesIn(1, phase, scopes')
  BY <1>2, <1>5, ScopesStay
<1>7. Len(scopes') = 1
  BY <1>2, <1>5, SameLevels
<1>8. file \o (scopes[1].records \o rs) = (file \o scopes[1].records) \o rs
  BY <1>2, <1>4, StreamsJoin
<1> QED BY <1>1, <1>2, <1>3, <1>4, <1>5, <1>6, <1>7, <1>8 DEF Joined

\* The ENDBLK of the block being written is new in the stream.
LEMMA EndBlockCoherent ==
  ASSUME IInv, phase = "blocks", ~InRecord, block.open
  PROVE  /\ EndBlock \in Recs /\ EndBlock.handle = block.record + 2 /\ EndBlock.source = "block"
         /\ ~Has(BaseStream, EndBlock.handle)
         /\ Coherent(maps, BaseStream \o <<EndBlock>>, Keeps, alloc.next)
<1> DEFINE st == BaseStream
           e == EndBlock
<1>1. /\ maps \in Maps /\ Coherent(maps, st, Keeps, alloc.next) /\ alloc.next \in Nat
      /\ Keeps \in SUBSET Handles /\ BlocksBegun(st, block, maps.blocks) /\ st \in Seq(Recs)
  BY CallbackIs DEF SectionsOK
<1>2. PICK b \in Blocks : block.record = maps.blocks[b] /\ maps.blocks[b] # 0
  BY <1>1 DEF BlocksBegun
<1> DEFINE o == maps.blocks[b]
           g == o + 2
<1>3. /\ o \in Nat /\ g \in Nat /\ o \in Handles
      /\ \A x \in Claimers : g \in Claim(maps, Keeps, x) <=> x = "block"
  <2>1. /\ o \in Nat /\ o \in {o, o + 1, o + 2} /\ g \in {o, o + 1, o + 2}
    BY <1>1, <1>2, ThreeApart
  <2>2. \A f \in {o, o + 1, o + 2} :
          f \in Nat /\ \A x \in Claimers : f \in Claim(maps, Keeps, x) <=> x = "block"
    BY <1>1, <1>2, ThreeApart
  <2>3. o \in Handles
    BY <1>1, MapParts
  <2> QED BY <2>1, <2>2, <2>3
<1>4. ~Has(st, g)
  BY <1>1, <1>2 DEF BlocksBegun
<1>5. e = Record(g, o, {}, 0, "block")
  BY <1>2 DEF EndBlock, EndBlockHandle
<1>6. "block" \in Claimers /\ "block" \notin Sources
  BY Tags DEF Claimers
<1>7. g < alloc.next /\ Has(st, o)
  BY <1>1, <1>2, <1>3, <1>6 DEF Coherent, Below, Based
<1>8. g \in Handles
  <2>1. alloc.next <= MaxHandle /\ alloc.next \in Nat /\ MaxHandle \in Nat
    BY CallbackIs, SoundIs
  <2> HIDE DEF g
  <2> QED BY <1>3, <1>7, <2>1 DEF Handles
<1>9. e \in Recs /\ e.handle = g /\ e.owner = o /\ e.refs = {} /\ e.source = "block"
  <2> HIDE DEF g, o, e
  <2> QED BY <1>3, <1>5, <1>8, RecordIs
<1> HIDE DEF g, o, e, st
<1>10. \A i \in 1..Len(st) : st[i].handle # e.handle
  BY <1>4, <1>9 DEF Has
<1>11. Coherent(maps, st \o <<e>>, Keeps, alloc.next)
  BY <1>1, <1>3, <1>6, <1>7, <1>9, <1>10, RecordCoherent
<1> QED BY <1>2, <1>4, <1>9, <1>11 DEF g, o, e, st

\* What the stream is once the block being written has its ENDBLK.
Ends == IF block.open THEN <<EndBlock>> ELSE <<>>
LEMMA EndedIs ==
  ASSUME IInv, phase = "blocks", ~InRecord
  PROVE  /\ Ends \in Seq(Recs) /\ BaseStream \o Ends \in Seq(Recs)
         /\ Coherent(maps, BaseStream \o Ends, Keeps, alloc.next)
         /\ NoneKept(BaseStream \o Ends)
         /\ \A h : Has(BaseStream \o Ends, h)
                     <=> Has(BaseStream, h) \/ (block.open /\ h = block.record + 2)
<1> DEFINE st == BaseStream
<1>1. /\ Coherent(maps, st, Keeps, alloc.next) /\ st \in Seq(Recs) /\ NoneKept(st)
  BY CallbackIs DEF SectionsOK
<1>2. CASE ~block.open
  <2>1. Ends = <<>> /\ st \o <<>> = st
    BY <1>1, <1>2, ConcatEmptySeq DEF Ends
  <2> QED BY <1>1, <1>2, <2>1
<1>3. CASE block.open
  <2> DEFINE e == EndBlock
             w == st \o <<e>>
  <2>1. /\ e \in Recs /\ e.handle = block.record + 2 /\ e.source = "block"
        /\ Coherent(maps, w, Keeps, alloc.next)
    BY <1>3, EndBlockCoherent
  <2>2. Ends = <<e>>
    BY <1>3 DEF Ends
  <2> HIDE DEF st, e
  <2>3. <<e>> \in Seq(Recs)
    BY <2>1
  <2>4. /\ w \in Seq(Recs) /\ Len(w) = Len(st) + 1 /\ \A i \in 1..Len(st) : w[i] = st[i]
        /\ w[Len(st) + 1] = e /\ Len(st) \in Nat
    BY <1>1, <2>1, OneMore
  <2>5. \A h : Has(w, h) <=> Has(st, h) \/ h = e.handle
    BY <1>1, <2>1, HasMore
  <2> HIDE DEF w
  <2>6. NoneKept(w)
    <3>1. \A i \in 1..Len(w) : i \in 1..Len(st) \/ i = Len(st) + 1
      BY <2>4
    <3> QED BY <1>1, <2>1, <2>4, <3>1 DEF NoneKept
  <2> QED BY <1>3, <2>1, <2>2, <2>3, <2>4, <2>5, <2>6 DEF w, st
<1> QED BY <1>2, <1>3

LEMMA PartObeys ==
  ASSUME NEW mp, NEW K, NEW n, NEW a, Stream(a), NEW b, Stream(b),
         Coherent(mp, Joined(a, b), K, n), NEW x, x \in Claimers
  PROVE  \A i \in 1..Len(b) : b[i].handle \in Claim(mp, K, x) => b[i].source = x
<1> DEFINE w == Joined(a, b)
<1>1. /\ Len(w) = Len(a) + Len(b) /\ Len(a) \in Nat /\ Len(b) \in Nat
      /\ \A j \in 1..Len(b) : w[Len(a) + j] = b[j]
  BY ConcatProperties, StreamIs DEF Joined, Stream
<1>2. Obeyed(mp, K, w)
  BY DEF Coherent
<1> HIDE DEF w
<1>3. ASSUME NEW i \in 1..Len(b), b[i].handle \in Claim(mp, K, x) PROVE b[i].source = x
  <2>1. Len(a) + i \in 1..Len(w)
    BY <1>1
  <2> QED BY <1>1, <1>2, <1>3, <2>1 DEF Obeyed
<1> QED BY <1>3

LEMMA WriteBlockKeeps ==
  ASSUME IInv, NEW b \in Blocks, WriteBlock(b)
  PROVE  IInv'
<1>1. /\ InCallback("blocks") /\ phase = "blocks" /\ ~InRecord
      /\ UNCHANGED <<alloc, phase, maps, log, file, writerError, pending, calls, replacement>>
  BY DEF WriteBlock, InCallback
<1>2. /\ phase # "idle" /\ HP!Sound(alloc) /\ alloc.next \in Nat /\ Keeps \in SUBSET Handles
      /\ maps \in Maps /\ ValuesOK /\ BaseStream \in Seq(Recs)
      /\ Coherent(maps, BaseStream, Keeps, alloc.next)
      /\ TablesOnly(file, maps.blocks) /\ BlocksBegun(BaseStream, block, maps.blocks)
  BY <1>1, CallbackIs DEF SectionsOK
<1>3. CASE writerError \/ maps.blocks[b] = 0
  <2>1. UNCHANGED <<scopes, block>>
    BY <1>3 DEF WriteBlock
  <2> QED BY <1>1, <1>2, <2>1, SoundIs, Quiet DEF ValuesOK
<1>4. CASE ~(writerError \/ maps.blocks[b] = 0)
  <2> DEFINE o == maps.blocks[b]
             r == Record(o + 1, o, {}, 0, "block")
             st == BaseStream
             w == BaseStream \o Ends
             v == w \o <<r>>
  <2>1. /\ o # 0 /\ scopes' = Emitted(scopes, Ends \o <<r>>) /\ block' = [open |-> TRUE, record |-> o]
        /\ \A i \in DOMAIN Top.records :
             Top.records[i].source # "block" \/ Top.records[i].handle # o + 1
    BY <1>4 DEF WriteBlock, Ends, BlockHandle
  <2>2. /\ w \in Seq(Recs) /\ Ends \in Seq(Recs) /\ Coherent(maps, w, Keeps, alloc.next) /\ NoneKept(w)
        /\ \A h : Has(w, h) <=> Has(st, h) \/ (block.open /\ h = block.record + 2)
    BY <1>1, EndedIs
  <2>3. /\ o \in Nat
        /\ \A c \in Blocks : maps.blocks[c] # 0 =>
              /\ maps.blocks[c] = o => c = b
              /\ o + 1 # maps.blocks[c] /\ o + 1 # maps.blocks[c] + 2
    BY <1>2, <2>1, ThreeApart
  <2>4. /\ o + 1 \notin FixedHandles /\ o + 1 \in Nat
        /\ \A x \in Claimers : o + 1 \in Claim(maps, Keeps, x) <=> x = "block"
    <3>1. o + 1 \in {o, o + 1, o + 2}
      OBVIOUS
    <3>2. \A g \in {o, o + 1, o + 2} :
            /\ g \notin FixedHandles /\ g \in Nat
            /\ \A x \in Claimers : g \in Claim(maps, Keeps, x) <=> x = "block"
      BY <1>2, <2>1, ThreeApart
    <3> QED BY <3>1, <3>2
  <2>5. "block" \in Claimers /\ "block" \notin Sources
    BY Tags DEF Claimers
  <2>6. o + 1 < alloc.next /\ o + 1 \in Handles /\ o \in Handles /\ Has(w, o)
    <3>1. o + 1 < alloc.next
      BY <2>2, <2>4, <2>5 DEF Coherent, Below
    <3>2. alloc.next <= MaxHandle /\ MaxHandle \in Nat
      BY <1>2, SoundIs
    <3>3. Has(w, o)
      BY <2>1, <2>2 DEF Coherent, Based
    <3>4. o \in Handles
      BY <1>2, MapParts
    <3> HIDE DEF o
    <3> QED BY <1>2, <2>3, <3>1, <3>2, <3>3, <3>4 DEF Handles
  <2>7. /\ r \in Recs /\ r.handle = o + 1 /\ r.owner = o /\ r.refs = {} /\ r.source = "block"
    <3> HIDE DEF o
    <3> QED BY <2>6, RecordIs
  <2> HIDE DEF r
  <2>8. <<r>> \in Seq(Recs) /\ Ends \o <<r>> \in Seq(Recs) /\ st \o (Ends \o <<r>>) = v
    <3>1. <<r>> \in Seq(Recs)
      BY <2>7
    <3> QED BY <1>2, <2>2, <3>1, StreamsJoin
  <2>9. /\ Lo' = Lo /\ Lo = 1 /\ Len(scopes') = 1 /\ ScopesIn(1, phase, scopes')
        /\ Top.records \in Seq(Recs) /\ st = file \o Top.records /\ BaseStream' = v
    <3>1. Stream(Ends \o <<r>>)
      BY <2>8 DEF Stream
    <3>2. /\ Lo' = Lo /\ Lo = 1 /\ Len(scopes') = 1 /\ ScopesIn(1, phase, scopes')
          /\ Top.records \in Seq(Recs) /\ st = file \o Top.records
          /\ BaseStream' = Joined(st, Ends \o <<r>>)
      BY <1>1, <2>1, <3>1, SectionEmits
    <3> QED BY <2>8, <3>2 DEF Joined
  <2>10. ~Has(st, o + 1)
    <3>1. file \in Seq(Recs)
      BY <1>2 DEF ValuesOK
    <3>2. ~Has(file, o + 1)
      <4>1. SUFFICES ASSUME NEW i \in 1..Len(file), file[i].handle = o + 1 PROVE FALSE
        BY DEF Has
      <4>2. \/ file[i].handle \in FixedHandles
            \/ \E c \in Blocks : file[i].handle = maps.blocks[c] /\ maps.blocks[c] # 0
        BY <1>2 DEF TablesOnly
      <4> QED BY <2>3, <2>4, <4>1, <4>2
    <3>3. ~Has(Top.records, o + 1)
      <4>1. SUFFICES ASSUME NEW i \in 1..Len(Top.records), Top.records[i].handle = o + 1
                     PROVE  FALSE
        BY DEF Has
      <4>2. Coherent(maps, Joined(file, Top.records), Keeps, alloc.next)
        BY <1>2, <2>9 DEF Joined
      <4>3. Top.records[i].source = "block"
        <5>1. Top.records[i].handle \in Claim(maps, Keeps, "block")
          BY <2>4, <2>5, <4>1
        <5>2. Stream(file) /\ Stream(Top.records)
          BY <2>9, <3>1 DEF Stream
        <5> DEFINE t == Top.records
        <5> HIDE DEF t
        <5>3. Stream(t) /\ Coherent(maps, Joined(file, t), Keeps, alloc.next)
          BY <4>2, <5>2 DEF t
        <5>4. \A j \in 1..Len(t) : t[j].handle \in Claim(maps, Keeps, "block") => t[j].source = "block"
          BY <2>5, <5>2, <5>3, PartObeys
        <5> QED BY <4>1, <5>1, <5>4 DEF t
      <4>4. i \in DOMAIN Top.records
        BY <2>9, <4>1, StreamIs
      <4> QED BY <2>1, <4>1, <4>3, <4>4
    <3>4. Has(Joined(file, Top.records), o + 1) <=> Has(file, o + 1) \/ Has(Top.records, o + 1)
      BY <2>9, <3>1, HasJoined
    <3> QED BY <2>9, <3>2, <3>3, <3>4 DEF Joined
  <2>11. block.open => /\ Has(st, block.record + 1)
                       /\ \E c \in Blocks : block.record = maps.blocks[c] /\ maps.blocks[c] # 0
    BY <1>2 DEF BlocksBegun
  <2>12. ~Has(w, o + 1)
    BY <2>2, <2>3, <2>10, <2>11
  <2> HIDE DEF w, st
  <2>13. Coherent(maps, v, Keeps, alloc.next)
    <3>1. \A i \in 1..Len(w) : w[i].handle # r.handle
      BY <2>7, <2>12 DEF Has
    <3> HIDE DEF o
    <3> QED BY <1>2, <2>2, <2>4, <2>5, <2>6, <2>7, <3>1, RecordCoherent
  <2>14. \A h : Has(v, h) <=> Has(w, h) \/ h = o + 1
    BY <2>2, <2>7, HasMore
  <2>15. NoneKept(v)
    <3>1. /\ Len(v) = Len(w) + 1 /\ \A i \in 1..Len(w) : v[i] = w[i]
          /\ v[Len(w) + 1] = r /\ Len(w) \in Nat
      BY <2>2, <2>7, OneMore
    <3> HIDE DEF v
    <3>2. \A i \in 1..Len(v) : i \in 1..Len(w) \/ i = Len(w) + 1
      BY <3>1
    <3> QED BY <2>2, <2>7, <3>1, <3>2 DEF NoneKept
  <2> HIDE DEF v
  <2>16. BlocksBegun(v, block', maps.blocks)
    <3>1. ASSUME NEW c \in Blocks, maps.blocks[c] # 0, Has(v, maps.blocks[c] + 2)
          PROVE  Has(v, maps.blocks[c] + 1) /\ maps.blocks[c] # o
      <4>1. Has(st, maps.blocks[c] + 2) \/ (block.open /\ maps.blocks[c] + 2 = block.record + 2)
        BY <2>2, <2>3, <2>14, <3>1
      <4>2. Has(st, maps.blocks[c] + 1)
        <5>1. CASE Has(st, maps.blocks[c] + 2)
          BY <1>2, <3>1, <5>1 DEF BlocksBegun, st
        <5>2. CASE block.open /\ maps.blocks[c] + 2 = block.record + 2
          <6>1. block.record \in Nat /\ maps.blocks[c] \in Nat
            BY <1>2, <2>11, <5>2, MapParts
          <6>2. block.record = maps.blocks[c]
            BY <5>2, <6>1
          <6> QED BY <2>11, <5>2, <6>2
        <5> QED BY <4>1, <5>1, <5>2
      <4> QED BY <2>2, <2>10, <2>14, <4>2
    <3>2. Has(v, o + 1)
      BY <2>14
    <3> QED BY <2>1, <3>1, <3>2 DEF BlocksBegun
  <2>17. ValuesOK'
    <3>1. block' \in BlockStates
      BY <2>1, <2>6 DEF BlockStates
    <3> QED BY <1>1, <1>2, <3>1 DEF ValuesOK
  <2>18. SectionsOK'
    BY <1>1, <1>2, <2>9, <2>15, <2>16 DEF SectionsOK
  <2>19. phase' \in Phases \ {"idle"}
    BY <1>1 DEF Phases
  <2> QED BY <1>1, <1>2, <2>9, <2>13, <2>17, <2>18, <2>19, SectionStep
<1> QED BY <1>3, <1>4

LEMMA WriteBlocksKeeps ==
  ASSUME IInv, WriteBlocks
  PROVE  IInv'
<1>1. /\ phase = "blocks" /\ ~InRecord /\ phase # "idle" /\ phase' = "entities"
      /\ file' = (file \o Top.records) \o Ends /\ scopes' = <<>>
      /\ block' = [open |-> FALSE, record |-> block.record]
      /\ UNCHANGED <<alloc, maps, log, writerError, pending, calls, replacement>>
  BY DEF WriteBlocks, InCallback, Ends
<1>2. HP!Sound(alloc) /\ ValuesOK /\ Lo = 1 /\ Len(scopes) = 1
  <2>1. Lo = 1
    BY <1>1 DEF Lo
  <2> QED BY <1>1, <2>1, CallbackIs
<1>3. file' = BaseStream \o Ends
  <2>1. Top = scopes[1] /\ BaseStream = file \o scopes[1].records
    BY <1>1, <1>2 DEF Top, BaseStream
  <2> QED BY <1>1, <2>1
<1>4. /\ file' \in Seq(Recs) /\ Coherent(maps, file', Keeps, alloc.next) /\ NoneKept(file')
  BY <1>1, <1>3, EndedIs
<1>5. Lo' = 0 /\ BaseStream' = file' /\ phase' \in Phases \ {"idle"}
  BY <1>1 DEF Lo, BaseStream, Phases
<1>6. ValuesOK'
  <2>1. block' \in BlockStates
    BY <1>1, <1>2 DEF ValuesOK, BlockStates
  <2> QED BY <1>1, <1>2, <1>4, <2>1 DEF ValuesOK
<1>7. SectionsOK'
  BY <1>1, <1>4, <1>5 DEF SectionsOK
<1>8. ScopesIn(0, phase', scopes') /\ Len(scopes') = 0
  BY <1>1 DEF ScopesIn
<1> QED BY <1>1, <1>2, <1>4, <1>5, <1>6, <1>7, <1>8, SectionStep

---------------------------------------------------------------------------
(* ENTITIES and OBJECTS.                                                     *)

LEMMA WriteEntitiesKeeps ==
  ASSUME IInv, WriteEntities
  PROVE  IInv'
<1>1. /\ phase = "entities" /\ ~InRecord /\ phase # "idle"
      /\ UNCHANGED <<maps, log, writerError, block, pending, calls, replacement>>
  BY DEF WriteEntities, InCallback
<1>2. Lo = 0 /\ BaseStream = file
  BY <1>1 DEF Lo, BaseStream
<1>3. /\ HP!Sound(alloc) /\ AllocOK /\ ValuesOK /\ Len(scopes) = 0 /\ scopes \in Seq(ScopeSet)
      /\ alloc.next \in Nat /\ Keeps \in SUBSET Handles /\ maps \in Maps /\ file \in Seq(Recs)
      /\ Coherent(maps, file, Keeps, alloc.next) /\ NoneKept(file)
  BY <1>1, <1>2, CallbackIs DEF SectionsOK
<1>4. CASE Handle!CanMint(alloc)
  <2> DEFINE h == alloc.next
             r == Record(h, RootDictionary, EmittedMembers, 0, "group")
             s == Scope("objects", 0)
             rs == <<r>>
  <2>1. /\ alloc' = Handle!Minted(alloc) /\ phase' = "objects" /\ file' = file
        /\ scopes' = Emitted(<<s>>, <<Record(Handle!MintedHandle(alloc), RootDictionary, EmittedMembers,
                                             0, "group")>>)
    BY <1>4 DEF WriteEntities
  <2>2. /\ HP!Sound(alloc') /\ Handle!MintedHandle(alloc) = h /\ h \in Handles /\ h \in Nat
        /\ alloc'.next = h + 1 /\ alloc'.explicitReserved = alloc.explicitReserved
    BY <1>3, <1>4, <2>1, MintIs, SoundIs
  <2>3. scopes' = Emitted(<<s>>, rs)
    BY <2>1, <2>2
  <2>4. \A g \in EmittedMembers : \E x \in Sources : g = maps.minted[x] /\ g # 0
    BY SessionAssumption DEF EmittedMembers
  <2>5. /\ r \in Recs /\ r.handle = h /\ r.owner = RootDictionary /\ r.refs = EmittedMembers
        /\ r.source = "group"
    <3>1. EmittedMembers \in SUBSET Handles
      BY <1>3, <2>4, MapParts
    <3>2. RootDictionary \in Handles
      BY Tags, SessionAssumption
    <3> HIDE DEF h
    <3> QED BY <2>2, <3>1, <3>2, RecordIs
  <2> HIDE DEF r, h
  <2>6. Coherent(maps, file \o <<r>>, Keeps, h + 1)
    <3>1. h + 1 \in Nat /\ h < h + 1 /\ h <= h + 1 /\ h >= alloc.next
      BY <2>2 DEF h
    <3>2. Coherent(maps, file, Keeps, h + 1)
      BY <1>3, <3>1, CoherentGrows DEF h
    <3>3. \A i \in 1..Len(file) : file[i].handle # h
      BY <1>3, <2>2, <3>1, AllBelow
    <3>4. \A x \in Claimers : h \notin Claim(maps, Keeps, x)
      BY <1>3, <2>2, <3>1, AllBelow
    <3>5. Has(file, RootDictionary)
      BY <1>3, SessionAssumption DEF Coherent, Based
    <3>6. "preallocate" \notin Habits => \A g \in r.refs : Has(file, g)
      <4>1. "preallocate" \notin Habits => \A x \in Sources : maps.minted[x] # 0 => Has(file, maps.minted[x])
        BY <1>3 DEF Coherent, Referred
      <4> QED BY <2>4, <2>5, <4>1
    <3>7. r.source \notin Sources
      BY <2>5, Tags
    <3> QED BY <1>3, <2>5, <3>1, <3>2, <3>3, <3>4, <3>5, <3>6, <3>7, RecordCoherent
  <2>7. s \in ScopeSet /\ s.kind = "objects" /\ s.records = <<>>
    <3>1. "objects" \in RecordKinds \cup SectionKinds
      BY DEF SectionKinds
    <3> QED BY <1>3, <3>1, ScopeIs
  <2> HIDE DEF s
  <2>8. rs \in Seq(Recs) /\ Len(rs) = 1 /\ rs[1] = r
    BY <2>5
  <2>9. ScopesIn(1, phase', <<s>>) /\ <<s>> \in Seq(ScopeSet) /\ Len(<<s>>) = 1 /\ <<s>>[1] = s
    BY <2>7, SectionScope DEF SectionKinds
  <2> DEFINE st == <<s>>
  <2>10. ScopesIn(1, phase', st) /\ st \in Seq(ScopeSet) /\ Len(st) = 1 /\ st[1] = s
    BY <2>9
  <2> HIDE DEF st, rs
  <2>11. /\ SameBelow(scopes', st) /\ scopes'[1].records = <<>> \o rs
    <3>1. /\ SameBelow(Emitted(st, rs), st)
          /\ Emitted(st, rs)[Len(st)].records = st[Len(st)].records \o rs
      <4>1. st \in Seq(ScopeSet) /\ Len(st) > 0 /\ rs \in Seq(Recs)
        BY <2>8, <2>10
      <4> QED BY <4>1, EmissionIs
    <3> QED BY <2>3, <2>7, <2>10, <3>1 DEF st
  <2>12. scopes'[1].records = rs
    BY <2>8, <2>11, ConcatEmptySeq
  <2>13. ScopesIn(1, phase', scopes') /\ Len(scopes') = 1
    BY <2>10, <2>11, ScopesStay, SameLevels
  <2>14. Lo' = 1 /\ BaseStream' = file \o rs /\ phase' \in Phases \ {"idle"}
    BY <2>1, <2>12 DEF Lo, BaseStream, Phases
  <2>16. SectionsOK'
    BY <1>3, <2>1 DEF SectionsOK
  <2>17. ValuesOK'
    BY <1>1, <1>3, <2>1 DEF ValuesOK
  <2>18. Coherent(maps', BaseStream', Keeps, alloc'.next)
    BY <1>1, <2>2, <2>6, <2>14 DEF rs, h
  <2> QED BY <1>1, <2>2, <2>13, <2>14, <2>16, <2>17, <2>18, SectionStep
<1>5. CASE ~Handle!CanMint(alloc)
  <2>1. alloc' = Handle!Exhausted(alloc) /\ phase' = "idle" /\ scopes' = scopes
    BY <1>5 DEF WriteEntities
  <2>2. HP!Sound(alloc') /\ alloc'.explicitReserved = alloc.explicitReserved
    BY <1>3, <1>5, <2>1, ExhaustIs
  <2>3. AllocOK'
    BY <1>1, <1>3, <2>2 DEF AllocOK
  <2>4. scopes = <<>>
    BY <1>3
  <2> QED BY <2>1, <2>3, <2>4, IdleStep
<1> QED BY <1>4, <1>5

LEMMA SectionObeys ==
  ASSUME NEW x, Coherent(maps, Joined(file, Top.records), Keeps, alloc.next), x \in Claimers,
         Stream(file), Stream(Top.records)
  PROVE  \A j \in 1..Len(Top.records) :
           Top.records[j].handle \in Claim(maps, Keeps, x) => Top.records[j].source = x
<1> DEFINE t == Top.records
<1> HIDE DEF t
<1>1. Coherent(maps, Joined(file, t), Keeps, alloc.next) /\ Stream(t)
  BY DEF t
<1>2. \A j \in 1..Len(t) : t[j].handle \in Claim(maps, Keeps, x) => t[j].source = x
  BY <1>1, PartObeys
<1> QED BY <1>2 DEF t

LEMMA KeptIs ==
  ASSUME NEW h \in Handles, NEW parent \in ParentHandles
  PROVE  LET r == Kept(h, parent)
         IN /\ r \in Recs /\ r.handle = h /\ r.refs = {} /\ r.call = 0 /\ r.source = "kept"
            /\ r.owner = RootDictionary \/ r.owner \in SourceOwners
<1> DEFINE o == IF parent # NoOwner THEN parent ELSE RootDictionary
<1>1. /\ o = RootDictionary \/ o \in SourceOwners
      /\ o \in Handles \/ o \in SourceOwners
  BY Tags, SessionAssumption DEF ParentHandles
<1>2. Kept(h, parent) = Record(h, o, {}, 0, "kept")
  BY DEF Kept
<1> HIDE DEF o
<1> QED BY <1>1, <1>2, RecordIs

\* An object kept verbatim enters the file once, with its own handle.
LEMMA KeptEmits ==
  ASSUME IInv, InCallback("objects"), NEW h, h \in Preserved \cup Layouts \cup {replacement}, h # 0,
         NEW parent \in ParentHandles,
         NotYetWritten(h), Handle!CanReserve(alloc, h), ReserveHandle(h),
         scopes' = Emitted(scopes, <<Kept(h, parent)>>),
         UNCHANGED <<phase, maps, log, file, writerError, block, pending, calls, replacement>>
  PROVE  IInv'
<1> DEFINE r == Kept(h, parent)
           rs == <<r>>
           st == BaseStream
           nn == alloc'.next
<1>1. phase = "objects" /\ phase # "idle" /\ ~InRecord
  BY DEF InCallback
<1>2. /\ HP!Sound(alloc) /\ AllocOK /\ ValuesOK /\ KeepsHeld
      /\ alloc.next \in Nat /\ Keeps \in SUBSET Handles /\ maps \in Maps /\ st \in Seq(Recs)
      /\ Coherent(maps, st, Keeps, alloc.next)
      /\ NoneKept(file) /\ file \in Seq(Recs)
  BY <1>1, CallbackIs DEF Session, SectionsOK, ValuesOK
<1>3. h \in Handles
  BY <1>2, SessionAssumption DEF Handles, AllocOK
<1>4. /\ HP!Sound(alloc') /\ alloc.next <= nn /\ h < MaxHandle /\ h < nn /\ nn \in Nat
      /\ alloc.explicitReserved \subseteq alloc'.explicitReserved
  BY <1>2, <1>3, ReserveHandleIs, SoundIs
<1>5. h \in Keeps
  <2>1. h # MaxHandle
    BY <1>3, <1>4, Tags DEF Handles
  <2> QED BY <2>1 DEF Keeps
<1>6. /\ r \in Recs /\ r.handle = h /\ r.refs = {} /\ r.source = "kept"
      /\ r.owner = RootDictionary \/ r.owner \in SourceOwners
  BY <1>3, KeptIs
<1>7. rs \in Seq(Recs) /\ Stream(rs)
  <2> HIDE DEF r
  <2> QED BY <1>6 DEF Stream
<1>8. /\ Lo' = Lo /\ Lo = 1 /\ Len(scopes') = 1 /\ ScopesIn(1, phase, scopes')
      /\ Len(scopes) = 1 /\ Top = scopes[1] /\ Top.records \in Seq(Recs)
      /\ scopes'[1].records = Joined(Top.records, rs)
      /\ st = file \o Top.records /\ BaseStream' = Joined(st, rs)
  BY <1>1, <1>7, SectionEmits
<1>9. "kept" \in Claimers /\ "kept" \notin Sources /\ Claim(maps, Keeps, "kept") = Keeps
  BY Tags, ClaimIs DEF Claimers
<1>10. \A x \in Claimers : h \in Claim(maps, Keeps, x) => x = "kept"
  BY <1>2, <1>5, <1>9 DEF Coherent, ClaimsApart
<1>11. ~Has(st, h)
  <2> DEFINE t == Top.records
  <2>1. ~Has(file, h)
    <3>1. SUFFICES ASSUME NEW i \in 1..Len(file), file[i].handle = h PROVE FALSE
      BY DEF Has
    <3>2. file[i].source = "kept"
      <4> DEFINE w == Joined(file, t)
      <4>1. Obeyed(maps, Keeps, w)
        BY <1>2, <1>8 DEF Coherent, Joined
      <4>2. /\ Len(w) = Len(file) + Len(t) /\ Len(file) \in Nat /\ Len(t) \in Nat
            /\ \A j \in 1..Len(file) : w[j] = file[j]
        BY <1>2, <1>8, ConcatProperties, StreamIs DEF Joined
      <4> HIDE DEF w, t
      <4>3. i \in 1..Len(w) /\ w[i] = file[i]
        BY <3>1, <4>2
      <4> QED BY <1>5, <1>9, <3>1, <4>1, <4>3 DEF Obeyed
    <3> QED BY <1>2, <3>1, <3>2 DEF NoneKept
  <2>2. Coherent(maps, Joined(file, t), Keeps, alloc.next) /\ Stream(file) /\ Stream(t)
    BY <1>2, <1>8 DEF Joined, Stream
  <2>3. \A j \in 1..Len(t) : t[j].handle \in Claim(maps, Keeps, "kept") => t[j].source = "kept"
    <3>1. "kept" \in Claimers
      BY <1>9
    <3> QED BY <2>2, <3>1, SectionObeys
  <2>4. ~Has(t, h)
    <3>1. SUFFICES ASSUME NEW i \in 1..Len(t), t[i].handle = h PROVE FALSE
      BY DEF Has
    <3> HIDE DEF t
    <3>4. t[i].source = "kept"
      BY <1>5, <1>9, <2>3, <3>1
    <3>6. i \in DOMAIN t
      BY <2>2, <3>1, StreamIs DEF Stream
    <3> QED BY <3>1, <3>4, <3>6 DEF NotYetWritten, t
  <2>5. Has(Joined(file, t), h) <=> Has(file, h) \/ Has(t, h)
    BY <1>2, <1>8, HasJoined
  <2> QED BY <1>8, <2>1, <2>4, <2>5 DEF Joined
<1>12. Coherent(maps, st \o <<r>>, Keeps, nn)
  <2> HIDE DEF r, nn
  <2>1. Coherent(maps, st, Keeps, nn)
    BY <1>2, <1>4, CoherentGrows
  <2>2. \A i \in 1..Len(st) : st[i].handle # r.handle
    BY <1>6, <1>11 DEF Has
  <2>3. Has(st, r.owner) \/ r.owner \in SourceOwners
    BY <1>2, <1>6, SessionAssumption DEF Coherent, Based
  <2> HIDE DEF st
  <2> QED BY <1>2, <1>4, <1>6, <1>9, <1>10, <2>1, <2>2, <2>3, RecordCoherent
<1>14. SectionsOK' /\ ValuesOK'
  BY <1>1, <1>2 DEF SectionsOK, ValuesOK
<1>15. phase' \in Phases \ {"idle"} /\ BaseStream' = st \o <<r>>
  BY <1>1, <1>8 DEF Phases, Joined
<1> QED BY <1>1, <1>4, <1>8, <1>12, <1>14, <1>15, SectionStep

\* Reserving without writing.
LEMMA KeptQuiet ==
  ASSUME IInv, phase # "idle", NEW h, h \in Preserved \cup Layouts \cup {replacement},
         ReserveHandle(h),
         UNCHANGED <<phase, maps, log, scopes, file, writerError, block, pending, calls, replacement>>
  PROVE  IInv'
<1>1. HP!Sound(alloc) /\ AllocOK /\ ValuesOK
  BY SessionParts DEF Session
<1>2. h \in Handles
  <2>1. replacement \in Handles
    BY <1>1 DEF AllocOK
  <2>2. Preserved \cup Layouts \subseteq Handles
    BY SessionAssumption DEF Handles
  <2> QED BY <2>1, <2>2
<1>3. /\ HP!Sound(alloc') /\ alloc.next <= alloc'.next
      /\ alloc.explicitReserved \subseteq alloc'.explicitReserved
  BY <1>1, <1>2, ReserveHandleIs
<1> QED BY <1>1, <1>3, Quiet DEF ValuesOK

\* Nothing but the writer's error.
LEMMA KeptFails ==
  ASSUME IInv, phase # "idle",
         UNCHANGED <<phase, maps, log, scopes, file, writerError, block, pending, calls,
                     replacement, alloc>>
  PROVE  IInv'
<1>1. HP!Sound(alloc) /\ ValuesOK
  BY SessionParts DEF Session
<1> QED BY <1>1, SoundIs, Quiet DEF ValuesOK

LEMMA DictionaryKeeps ==
  ASSUME IInv, NEW h, NEW parent \in ParentHandles, WriteDictionary(h, parent)
  PROVE  IInv'
<1>1. /\ InCallback("objects") /\ phase # "idle" /\ h \in Preserved \cup Layouts \cup {replacement}
      /\ h # 0 /\ NotYetWritten(h)
      /\ UNCHANGED <<phase, maps, log, file, writerError, block, pending, calls, replacement>>
  BY SessionAssumption DEF WriteDictionary, InCallback
<1>2. \/ UNCHANGED <<alloc, scopes>>
      \/ ReserveHandle(h) /\ UNCHANGED scopes
      \/ /\ ReserveHandle(h) /\ Handle!CanReserve(alloc, h)
         /\ scopes' = Emitted(scopes, <<Kept(h, parent)>>)
  BY DEF WriteDictionary
<1>3. CASE UNCHANGED <<alloc, scopes>>
  BY <1>1, <1>3, KeptFails
<1>4. CASE ReserveHandle(h) /\ UNCHANGED scopes
  BY <1>1, <1>4, KeptQuiet
<1>5. CASE /\ ReserveHandle(h) /\ Handle!CanReserve(alloc, h)
           /\ scopes' = Emitted(scopes, <<Kept(h, parent)>>)
  BY <1>1, <1>5, KeptEmits
<1> QED BY <1>2, <1>3, <1>4, <1>5

LEMMA LayoutKeeps ==
  ASSUME IInv, NEW h, NEW parent \in ParentHandles, WriteLayout(h, parent)
  PROVE  IInv'
<1>1. /\ InCallback("objects") /\ phase # "idle" /\ h \in Preserved \cup Layouts \cup {replacement}
      /\ h # 0 /\ NotYetWritten(h)
      /\ UNCHANGED <<phase, maps, log, file, writerError, block, pending, calls, replacement>>
  BY SessionAssumption DEF WriteLayout, InCallback
<1>2. \/ UNCHANGED <<alloc, scopes>>
      \/ ReserveHandle(h) /\ UNCHANGED scopes
      \/ /\ ReserveHandle(h) /\ Handle!CanReserve(alloc, h)
         /\ scopes' = Emitted(scopes, <<Kept(h, parent)>>)
  BY DEF WriteLayout
<1>3. CASE UNCHANGED <<alloc, scopes>>
  BY <1>1, <1>3, KeptFails
<1>4. CASE ReserveHandle(h) /\ UNCHANGED scopes
  BY <1>1, <1>4, KeptQuiet
<1>5. CASE /\ ReserveHandle(h) /\ Handle!CanReserve(alloc, h)
           /\ scopes' = Emitted(scopes, <<Kept(h, parent)>>)
  BY <1>1, <1>5, KeptEmits
<1> QED BY <1>2, <1>3, <1>4, <1>5

---------------------------------------------------------------------------
(* The invariant.                                                            *)

LEMMA InitKeeps == Init => IInv
<1> SUFFICES ASSUME Init PROVE IInv
  OBVIOUS
<1>1. alloc = Handle!NewAllocator /\ phase = "idle" /\ scopes = <<>> /\ replacement = 0
  BY DEF Init
<1>2. HP!Sound(alloc)
  <2>1. HP!Sound(HP!NewAllocator)
    BY HandleSpace, HP!NewAllocatorSound
  <2> QED BY <1>1, <2>1, SameAllocator
<1>3. AllocOK
  BY <1>1, <1>2, Tags DEF AllocOK, Handles
<1> QED BY <1>1, <1>3 DEF IInv, Phases

LEMMA StutterKeeps ==
  ASSUME IInv, UNCHANGED vars
  PROVE  IInv'
<1>1. UNCHANGED <<alloc, phase, maps, log, scopes, file, block, pending, replacement, calls,
                  writerError>>
  BY DEF vars
<1>2. CASE phase = "idle"
  BY <1>1, <1>2, IdleStep DEF IInv, AllocOK
<1>3. CASE phase # "idle"
  <2>1. HP!Sound(alloc) /\ ValuesOK
    BY <1>3, SessionParts DEF Session
  <2> QED BY <1>1, <2>1, SoundIs, Quiet DEF ValuesOK
<1> QED BY <1>2, <1>3

LEMMA RecordBusy ==
  ASSUME IInv, InRecord PROVE phase # "idle"
BY DEF IInv, InRecord

LEMMA StepKeeps ==
  ASSUME IInv, [Next]_vars
  PROVE  IInv'
<1>1. CASE UNCHANGED vars
  BY <1>1, StutterKeeps
<1>2. ASSUME NEW h \in Preserved \cup Layouts, KeepHandle(h) PROVE IInv'
  BY <1>2, KeepHandleKeeps
<1>3. CASE RemapHandle \/ StartWrite \/ RefuseWrite
  BY <1>3, RemapHandleKeeps, StartWriteKeeps, RefuseWriteKeeps
<1>4. ASSUME NEW s \in Sources, PreallocateEntityHandle(s) \/ MarkSourceHandleAmbiguous(s)
      PROVE  IInv'
  BY <1>4, PreallocateKeeps, AmbiguousKeeps
<1>5. ASSUME NEW b \in Blocks, NEW inserts \in SUBSET PlannedHandles, WriteBlockRecord(b, inserts)
      PROVE  IInv'
  BY <1>5, BlockRecordKeeps
<1>6. CASE WriteTables
  BY <1>6, WriteTablesKeeps
<1>7. ASSUME NEW b \in Blocks, WriteBlock(b) PROVE IInv'
  BY <1>7, WriteBlockKeeps
<1>8. ASSUME NEW kind \in RecordKinds \ {"attrib"}, NEW s \in Entities,
             NEW parent \in ParentHandles, NEW space \in Spaces, NEW valid \in BOOLEAN,
             BeginRecord(kind, s, parent, space, valid)
      PROVE  IInv'
  BY <1>8, BeginRecordKeeps
<1>9. ASSUME NEW s \in Entities, WriteVertex(s) \/ BeginAttrib(s) PROVE IInv'
  <2>1. phase # "idle"
    BY <1>9, RecordBusy DEF WriteVertex, BeginAttrib
  <2> QED BY <1>9, <2>1, WriteVertexKeeps, BeginAttribKeeps
<1>10. CASE WriteSequenceEnd \/ CommitRecord \/ AbortRecord
  <2>1. phase # "idle"
    BY <1>10, RecordBusy DEF WriteSequenceEnd, CommitRecord, AbortRecord
  <2> QED BY <1>10, <2>1, WriteSequenceEndKeeps, CommitRecordKeeps, AbortRecordKeeps
<1>11. CASE WriterFails
  <2>1. phase # "idle"
    BY <1>11, RecordBusy DEF WriterFails
  <2> QED BY <1>11, <2>1, WriterFailsKeeps
<1>12. CASE WriteBlocks \/ WriteEntities
  BY <1>12, WriteBlocksKeeps, WriteEntitiesKeeps
<1>13. ASSUME NEW h, NEW parent \in ParentHandles,
              WriteDictionary(h, parent) \/ WriteLayout(h, parent)
       PROVE  IInv'
  BY <1>13, DictionaryKeeps, LayoutKeeps
<1>14. CASE Publish \/ FailWrite
  BY <1>14, EndKeeps
<1> QED BY <1>1, <1>2, <1>3, <1>4, <1>5, <1>6, <1>7, <1>8, <1>9, <1>10, <1>11, <1>12, <1>13, <1>14
        DEF Next

---------------------------------------------------------------------------
(* The published file.                                                       *)

\* The file that replaced the destination is the stream of a coherent session.
FileOf(f, mp, K, n) ==
  /\ Coherent(mp, f.records, K, n) /\ f.handseed = n
  /\ f.modelers = mp.modelers /\ f.ambiguous = mp.ambiguous
PubInv == published = NoFile \/ \E mp, K, n : FileOf(published, mp, K, n)

LEMMA PublishIs ==
  ASSUME IInv, Publish
  PROVE  /\ FileOf(published', maps, Keeps, alloc.next)
         /\ published'.records = BaseStream /\ phase = "objects" /\ ~writeError
         /\ accepted' = accepted
<1>1. /\ phase = "objects" /\ phase # "idle" /\ ~InRecord /\ ~writeError /\ accepted' = accepted
      /\ published' = [records |-> file \o Top.records, handseed |-> alloc.next,
                       modelers |-> maps.modelers, ambiguous |-> maps.ambiguous]
  BY DEF Publish, InCallback
<1>2. Lo = 1 /\ BaseStream = file \o scopes[1].records
  BY <1>1 DEF Lo, BaseStream
<1>3. Len(scopes) = 1 /\ Coherent(maps, BaseStream, Keeps, alloc.next)
  BY <1>1, <1>2, CallbackIs
<1>4. published'.records = BaseStream
  BY <1>1, <1>2, <1>3 DEF Top
<1> QED BY <1>1, <1>3, <1>4 DEF FileOf

LEMMA PublishedOnce == ASSUME Next PROVE Publish \/ UNCHANGED published
BY DEF Next, KeepHandle, RemapHandle, StartWrite, RefuseWrite, PreallocateEntityHandle,
       MarkSourceHandleAmbiguous, WriteBlockRecord, WriteTables, WriteBlock, BeginRecord,
       WriteVertex, BeginAttrib, WriteSequenceEnd, WriterFails, CommitRecord, AbortRecord,
       WriteBlocks, WriteEntities, WriteDictionary, WriteLayout, FailWrite

LEMMA PubInvHolds == Spec => []PubInv
<1>1. Init => PubInv
  BY DEF Init, PubInv
<1>2. IInv /\ PubInv /\ [Next]_vars => PubInv'
  <2> SUFFICES ASSUME IInv, PubInv, [Next]_vars PROVE PubInv'
    OBVIOUS
  <2>1. CASE Publish
    BY <2>1, PublishIs DEF PubInv
  <2>2. CASE UNCHANGED published
    BY <2>2 DEF PubInv
  <2>3. UNCHANGED vars => UNCHANGED published
    BY DEF vars
  <2> QED BY <2>1, <2>2, <2>3, PublishedOnce
<1>3. IInv /\ [Next]_vars => IInv'
  BY StepKeeps
<1> QED BY <1>1, <1>2, <1>3, InitKeeps, PTL DEF Spec

LEMMA FileParts ==
  ASSUME PubInv, published # NoFile
  PROVE  \E mp, K, n : /\ FileOf(published, mp, K, n) /\ mp \in Maps
                       /\ published.records \in Seq(Recs)
                       /\ DOMAIN published.records = 1..Len(published.records)
<1>1. PICK mp, K, n : FileOf(published, mp, K, n)
  BY DEF PubInv
<1>2. mp \in Maps /\ published.records \in Seq(Recs)
  BY <1>1 DEF FileOf, Coherent
<1> QED BY <1>1, <1>2, StreamIs

LEMMA NoFileIs ==
  ASSUME published = NoFile
  PROVE  DOMAIN published.records = {} /\ published.modelers = {} /\ PublishedHandles = {}
<1>1. published.records = <<>> /\ published.modelers = {}
  BY DEF NoFile
<1>2. DOMAIN published.records = {}
  BY <1>1
<1> QED BY <1>1, <1>2 DEF PublishedHandles

\* No two records of a published file share a handle, through planned handles,
\* blocks, kept objects, retries and rolled back records, but for entities of
\* one source a sharing filter did not mark.
THEOREM HandlesStayUnique == Spec => []UniqueHandles
<1>1. PubInv => UniqueHandles
  <2> SUFFICES ASSUME PubInv PROVE UniqueHandles
    OBVIOUS
  <2>1. CASE published = NoFile
    BY <2>1, NoFileIs DEF UniqueHandles
  <2>2. CASE published # NoFile
    <3>1. PICK mp, K, n : /\ FileOf(published, mp, K, n)
                          /\ DOMAIN published.records = 1..Len(published.records)
      BY <2>2, FileParts
    <3>2. Unique(mp, published.records) /\ published.ambiguous = mp.ambiguous
      BY <3>1 DEF FileOf, Coherent
    <3> QED BY <3>1, <3>2 DEF Unique, UniqueHandles
  <2> QED BY <2>1, <2>2
<1> QED BY <1>1, PubInvHolds, PTL

\* $HANDSEED is above every handle of a published file.
THEOREM HandseedStaysAbove == Spec => []HandseedAboveAll
<1>1. PubInv => HandseedAboveAll
  <2> SUFFICES ASSUME PubInv PROVE HandseedAboveAll
    OBVIOUS
  <2>1. CASE published = NoFile
    BY <2>1, NoFileIs DEF HandseedAboveAll
  <2>2. CASE published # NoFile
    <3>1. PICK mp, K, n : /\ FileOf(published, mp, K, n)
                          /\ DOMAIN published.records = 1..Len(published.records)
      BY <2>2, FileParts
    <3>2. Below(mp, K, published.records, n) /\ published.handseed = n
      BY <3>1 DEF FileOf, Coherent
    <3> QED BY <3>1, <3>2 DEF Below, HandseedAboveAll, PublishedHandles
  <2> QED BY <2>1, <2>2
<1> QED BY <1>1, PubInvHolds, PTL

\* The owner the codec gives a record, an entity's block or space, a compound's
\* parent, the root dictionary, is published with it, whatever was rolled back;
\* an owner the filter names is emitted as it is.
THEOREM OwnersArePublished == Spec => []OwnersPublished
<1>1. PubInv => OwnersPublished
  <2> SUFFICES ASSUME PubInv PROVE OwnersPublished
    OBVIOUS
  <2>1. CASE published = NoFile
    BY <2>1, NoFileIs DEF OwnersPublished
  <2>2. CASE published # NoFile
    <3>1. PICK mp, K, n : /\ FileOf(published, mp, K, n)
                          /\ DOMAIN published.records = 1..Len(published.records)
      BY <2>2, FileParts
    <3>2. Owned(published.records)
      BY <3>1 DEF FileOf, Coherent
    <3> QED BY <3>1, <3>2 DEF Owned, Has, OwnersPublished, PublishedHandles
  <2> QED BY <2>1, <2>2
<1> QED BY <1>1, PubInvHolds, PTL

\* When no handle is planned before its entity is written, no GROUP member and
\* no INSERT of a BLOCK_RECORD dangles, whatever was rolled back.
THEOREM NothingDangles ==
  ASSUME "preallocate" \notin Habits PROVE Spec => []ReferencesPublished
<1>1. PubInv => ReferencesPublished
  <2> SUFFICES ASSUME PubInv PROVE ReferencesPublished
    OBVIOUS
  <2>1. CASE published = NoFile
    BY <2>1, NoFileIs DEF ReferencesPublished
  <2>2. CASE published # NoFile
    <3>1. PICK mp, K, n : /\ FileOf(published, mp, K, n)
                          /\ DOMAIN published.records = 1..Len(published.records)
      BY <2>2, FileParts
    <3>2. \A i \in 1..Len(published.records) :
            \A h \in published.records[i].refs : Has(published.records, h)
      BY <3>1 DEF FileOf, Coherent, Referred
    <3> QED BY <3>1, <3>2 DEF Has, ReferencesPublished, PublishedHandles
  <2> QED BY <2>1, <2>2
<1> QED BY <1>1, PubInvHolds, PTL

\* The key of a modeler entity in ACDSDATA names exactly one published entity.
THEOREM ModelerKeysName == Spec => []ModelerKeysUnique
<1>1. PubInv => ModelerKeysUnique
  <2> SUFFICES ASSUME PubInv PROVE ModelerKeysUnique
    OBVIOUS
  <2>1. CASE published = NoFile
    BY <2>1, NoFileIs DEF ModelerKeysUnique
  <2>2. CASE published # NoFile
    <3>1. PICK mp, K, n : /\ FileOf(published, mp, K, n)
                          /\ DOMAIN published.records = 1..Len(published.records)
      BY <2>2, FileParts
    <3>2. OneModeler(mp, published.records) /\ published.modelers = mp.modelers
      BY <3>1 DEF FileOf, Coherent
    <3>3. ASSUME NEW s \in published.modelers
          PROVE  Cardinality({i \in DOMAIN published.records :
                                published.records[i].source = s}) = 1
      <4>1. PICK i \in 1..Len(published.records) :
              /\ published.records[i].source = s
              /\ \A j \in 1..Len(published.records) : published.records[j].source = s => j = i
        BY <3>2, <3>3 DEF OneModeler
      <4>2. {j \in DOMAIN published.records : published.records[j].source = s} = {i}
        BY <3>1, <4>1
      <4> QED BY <4>2, FS_Singleton
    <3> QED BY <3>3 DEF ModelerKeysUnique
  <2> QED BY <2>1, <2>2
<1> QED BY <1>1, PubInvHolds, PTL

\* Taking a record back undoes exactly what it logged: the maps are again those
\* the record's scope found, however many entities it held.
THEOREM RollbackGivesBack == Spec => RollbackRestores
<1>1. IInv /\ [Next]_vars => [AbortRecord => maps' = Top.before]_vars
  BY AbortRecordKeeps, RecordBusy DEF AbortRecord
<1>2. IInv /\ [Next]_vars => IInv'
  BY StepKeeps
<1> QED BY <1>1, <1>2, InitKeeps, PTL DEF Spec, RollbackRestores

---------------------------------------------------------------------------
(* The records of each call.                                                 *)

Of(st, c) == {i \in 1..Len(st) : st[i].call = c}
\* What is written is what the accepted calls wrote, in full, and what the codec
\* writes by itself.
Counted(acc, st, n) ==
  /\ acc \subseteq [call : Nat, size : Nat]
  /\ \A a \in acc : a.call \in 1..n /\ Cardinality(Of(st, a.call)) = a.size
  /\ \A i \in 1..Len(st) : st[i].call = 0 \/ \E a \in acc : a.call = st[i].call
\* A record scope holds records of the last call, as many as it asked for; one
\* more is in the scope of an attribute.
OneCall(rs, n) == \A i \in 1..Len(rs) : rs[i].call = n
Counting(lo, sc, acc, n) ==
  /\ Len(sc) > lo =>
       /\ n > 0 /\ sc[lo + 1].call = n /\ OneCall(sc[lo + 1].records, n)
       /\ \A a \in acc : a.call # n
  /\ Len(sc) = lo + 1 /\ sc[lo + 1].stage # "failed" =>
       sc[lo + 1].size = Len(sc[lo + 1].records)
  /\ Len(sc) = lo + 2 =>
       /\ sc[lo + 1].size = Len(sc[lo + 1].records) + 1
       /\ Len(sc[lo + 2].records) = 1 /\ OneCall(sc[lo + 2].records, n)
Tally == phase # "idle" /\ ~writeError =>
           /\ Counted(accepted, BaseStream, calls)
           /\ Counting(Lo, scopes, accepted, calls)

LEMMA JoinedIs ==
  ASSUME NEW st \in Seq(Recs), NEW rs \in Seq(Recs)
  PROVE  /\ Joined(st, rs) \in Seq(Recs) /\ Len(Joined(st, rs)) = Len(st) + Len(rs)
         /\ \A i \in 1..Len(st) : Joined(st, rs)[i] = st[i]
         /\ \A i \in 1..Len(rs) : Joined(st, rs)[Len(st) + i] = rs[i]
         /\ \A i \in 1..Len(Joined(st, rs)) :
              i \in 1..Len(st) \/ \E j \in 1..Len(rs) : i = Len(st) + j
         /\ Len(st) \in Nat /\ Len(rs) \in Nat
<1>1. /\ Len(st) \in Nat /\ Len(rs) \in Nat /\ st \o rs \in Seq(Recs)
      /\ Len(st \o rs) = Len(st) + Len(rs)
      /\ \A i \in 1..Len(st) : (st \o rs)[i] = st[i]
      /\ \A i \in 1..Len(rs) : (st \o rs)[Len(st) + i] = rs[i]
  OBVIOUS
<1> DEFINE m == Len(st)
           n == Len(rs)
<1> HIDE DEF m, n
<1>2. \A i \in 1..(m + n) : i \in 1..m \/ \E j \in 1..n : i = m + j
  <2>1. m \in Nat /\ n \in Nat
    BY <1>1 DEF m, n
  <2>2. ASSUME NEW i \in 1..(m + n), i \notin 1..m PROVE \E j \in 1..n : i = m + j
    <3>1. i - m \in 1..n /\ i = m + (i - m)
      BY <2>1, <2>2
    <3> QED BY <3>1
  <2> QED BY <2>2
<1> QED BY <1>1, <1>2 DEF Joined, m, n

LEMMA OfJoined ==
  ASSUME NEW st \in Seq(Recs), NEW rs \in Seq(Recs), NEW n, NEW c, OneCall(rs, n), c # n
  PROVE  Of(Joined(st, rs), c) = Of(st, c)
<1> DEFINE w == Joined(st, rs)
<1>1. /\ Len(w) = Len(st) + Len(rs) /\ Len(st) \in Nat /\ Len(rs) \in Nat
      /\ \A i \in 1..Len(st) : w[i] = st[i]
      /\ \A i \in 1..Len(rs) : w[Len(st) + i] = rs[i]
      /\ \A i \in 1..Len(w) : i \in 1..Len(st) \/ \E j \in 1..Len(rs) : i = Len(st) + j
  BY JoinedIs
<1> HIDE DEF w
<1>2. ASSUME NEW i \in 1..Len(st) PROVE i \in 1..Len(w)
  BY <1>1
<1>3. ASSUME NEW i \in 1..Len(w), w[i].call = c PROVE i \in 1..Len(st)
  <2>1. SUFFICES ASSUME NEW j \in 1..Len(rs), i = Len(st) + j PROVE FALSE
    BY <1>1
  <2>2. rs[j].call = c
    BY <1>1, <1>3, <2>1
  <2> QED BY <2>2 DEF OneCall
<1>4. \A i : i \in Of(w, c) <=> i \in Of(st, c)
  BY <1>1, <1>2, <1>3 DEF Of
<1> QED BY <1>4 DEF w

LEMMA OfNew ==
  ASSUME NEW st \in Seq(Recs), NEW rs \in Seq(Recs), NEW n, OneCall(rs, n),
         \A i \in 1..Len(st) : st[i].call # n
  PROVE  Cardinality(Of(Joined(st, rs), n)) = Len(rs)
<1> DEFINE w == Joined(st, rs)
           a == Len(st)
           b == Len(rs)
<1>1. /\ Len(w) = a + b /\ a \in Nat /\ b \in Nat
      /\ \A i \in 1..a : w[i] = st[i]
      /\ \A i \in 1..b : w[a + i] = rs[i]
      /\ \A i \in 1..Len(w) : i \in 1..a \/ \E j \in 1..b : i = a + j
  BY JoinedIs
<1> HIDE DEF w, a, b
<1>2. ASSUME NEW i \in Of(w, n) PROVE i \in (a + 1)..(a + b)
  <2>1. i \in 1..Len(w) /\ w[i].call = n
    BY <1>2 DEF Of
  <2>2. i \notin 1..a
    BY <1>1, <2>1 DEF a
  <2> QED BY <1>1, <2>1, <2>2
<1>3. ASSUME NEW i \in (a + 1)..(a + b) PROVE i \in Of(w, n)
  <2>1. i \in 1..Len(w) /\ i \notin 1..a
    BY <1>1
  <2>2. PICK j \in 1..b : i = a + j
    BY <1>1, <2>1
  <2>3. w[i].call = n
    BY <1>1, <2>2 DEF OneCall, b
  <2> QED BY <2>1, <2>3 DEF Of
<1>4. Of(w, n) = (a + 1)..(a + b)
  BY <1>2, <1>3
<1>5. Cardinality((a + 1)..(a + b)) = b
  <2>1. a + 1 \in Int /\ a + b \in Int /\ (a + 1 > a + b => b = 0)
        /\ (a + b) - (a + 1) + 1 = b
    BY <1>1
  <2> QED BY <2>1, FS_Interval
<1> QED BY <1>4, <1>5 DEF w, b

\* What the codec writes by itself belongs to no call.
LEMMA CountedQuiet ==
  ASSUME NEW acc, NEW st \in Seq(Recs), NEW rs \in Seq(Recs), NEW n, n \in Nat,
         Counted(acc, st, n), OneCall(rs, 0)
  PROVE  Counted(acc, Joined(st, rs), n)
<1> DEFINE w == Joined(st, rs)
<1>1. ASSUME NEW a \in acc
      PROVE  a.call \in 1..n /\ Cardinality(Of(w, a.call)) = a.size
  <2>1. a.call \in 1..n /\ a.call # 0 /\ Cardinality(Of(st, a.call)) = a.size
    BY DEF Counted
  <2>2. Of(w, a.call) = Of(st, a.call)
    BY <2>1, OfJoined
  <2> QED BY <2>1, <2>2
<1>2. ASSUME NEW i \in 1..Len(w) PROVE w[i].call = 0 \/ \E a \in acc : a.call = w[i].call
  <2>1. CASE i \in 1..Len(st)
    <3>1. w[i] = st[i]
      BY <2>1, JoinedIs
    <3>2. st[i].call = 0 \/ \E a \in acc : a.call = st[i].call
      BY <2>1 DEF Counted
    <3> HIDE DEF w
    <3> QED BY <3>1, <3>2
  <2>2. CASE \E j \in 1..Len(rs) : i = Len(st) + j
    <3>1. PICK j \in 1..Len(rs) : i = Len(st) + j
      BY <2>2
    <3>2. w[Len(st) + j] = rs[j]
      BY JoinedIs
    <3>3. rs[j].call = 0
      BY DEF OneCall
    <3> QED BY <3>1, <3>2, <3>3
  <2> QED BY <2>1, <2>2, JoinedIs
<1> QED BY <1>1, <1>2 DEF Counted

LEMMA CountedGrows ==
  ASSUME NEW acc, NEW st, NEW n, n \in Nat, Counted(acc, st, n)
  PROVE  Counted(acc, st, n + 1)
BY DEF Counted

LEMMA CountedCommit ==
  ASSUME NEW acc, NEW st \in Seq(Recs), NEW rs \in Seq(Recs), NEW n, n \in Nat, n > 0,
         Counted(acc, st, n), OneCall(rs, n), \A a \in acc : a.call # n
  PROVE  Counted(acc \cup {[call |-> n, size |-> Len(rs)]}, Joined(st, rs), n)
<1> DEFINE w == Joined(st, rs)
           new == [call |-> n, size |-> Len(rs)]
<1>1. new \in [call : Nat, size : Nat] /\ new.call = n /\ new.size = Len(rs)
  BY JoinedIs
<1> HIDE DEF new
<1>2. \A i \in 1..Len(st) : st[i].call # n
  BY DEF Counted
<1>3. Cardinality(Of(w, n)) = Len(rs)
  BY <1>2, OfNew
<1>4. ASSUME NEW a \in acc
      PROVE  a.call \in 1..n /\ Cardinality(Of(w, a.call)) = a.size
  <2>1. a.call \in 1..n /\ a.call # n /\ Cardinality(Of(st, a.call)) = a.size
    BY DEF Counted
  <2>2. Of(w, a.call) = Of(st, a.call)
    BY <2>1, OfJoined
  <2> QED BY <2>1, <2>2
<1>5. ASSUME NEW i \in 1..Len(w)
      PROVE  w[i].call = 0 \/ \E a \in acc \cup {new} : a.call = w[i].call
  <2>1. CASE i \in 1..Len(st)
    <3>1. w[i] = st[i]
      BY <2>1, JoinedIs
    <3>2. st[i].call = 0 \/ \E a \in acc : a.call = st[i].call
      BY <2>1 DEF Counted
    <3> HIDE DEF w
    <3> QED BY <3>1, <3>2
  <2>2. CASE \E j \in 1..Len(rs) : i = Len(st) + j
    <3>1. PICK j \in 1..Len(rs) : i = Len(st) + j
      BY <2>2
    <3>2. w[Len(st) + j] = rs[j]
      BY JoinedIs
    <3>3. rs[j].call = n
      BY DEF OneCall
    <3> QED BY <1>1, <3>1, <3>2, <3>3
  <2> QED BY <2>1, <2>2, JoinedIs
<1>6. n \in 1..n
  OBVIOUS
<1>7. acc \subseteq [call : Nat, size : Nat]
  BY DEF Counted
<1>8. acc \cup {new} \subseteq [call : Nat, size : Nat]
  BY <1>1, <1>7
<1>9. \A a \in acc \cup {new} : a.call \in 1..n /\ Cardinality(Of(w, a.call)) = a.size
  BY <1>1, <1>3, <1>4, <1>6
<1> HIDE DEF w
<1> QED BY <1>5, <1>8, <1>9 DEF Counted, w, new

\* The levels of a session, one by one.
LEMMA NoneCounted ==
  ASSUME NEW lo, lo \in {0, 1}, NEW sc, Len(sc) = lo, NEW acc, NEW n
  PROVE  Counting(lo, sc, acc, n)
<1>1. ~(lo > lo) /\ lo # lo + 1 /\ lo # lo + 2
  OBVIOUS
<1> QED BY <1>1 DEF Counting

LEMMA OneCounted ==
  ASSUME NEW lo, lo \in {0, 1}, NEW sc, Len(sc) = lo + 1, NEW acc, NEW n, n > 0,
         sc[lo + 1].call = n, OneCall(sc[lo + 1].records, n), \A a \in acc : a.call # n,
         sc[lo + 1].stage # "failed" => sc[lo + 1].size = Len(sc[lo + 1].records)
  PROVE  Counting(lo, sc, acc, n)
<1>1. lo + 1 # lo + 2
  OBVIOUS
<1> QED BY <1>1 DEF Counting

LEMMA TwoCounted ==
  ASSUME NEW lo, lo \in {0, 1}, NEW sc, Len(sc) = lo + 2, NEW acc, NEW n, n > 0,
         sc[lo + 1].call = n, OneCall(sc[lo + 1].records, n), \A a \in acc : a.call # n,
         sc[lo + 1].size = Len(sc[lo + 1].records) + 1,
         Len(sc[lo + 2].records) = 1, OneCall(sc[lo + 2].records, n)
  PROVE  Counting(lo, sc, acc, n)
<1>1. lo + 1 # lo + 2
  OBVIOUS
<1> QED BY <1>1 DEF Counting

LEMMA OneCallMore ==
  ASSUME NEW st \in Seq(Recs), NEW r \in Recs, NEW n, OneCall(st, n), r.call = n
  PROVE  OneCall(st \o <<r>>, n) /\ Len(st \o <<r>>) = Len(st) + 1
<1> DEFINE w == st \o <<r>>
<1>1. /\ Len(w) = Len(st) + 1 /\ Len(st) \in Nat
      /\ \A i \in 1..Len(st) : w[i] = st[i]
      /\ w[Len(st) + 1] = r
  BY OneMore
<1> HIDE DEF w
<1>2. \A i \in 1..Len(w) : i \in 1..Len(st) \/ i = Len(st) + 1
  BY <1>1
<1> QED BY <1>1, <1>2 DEF OneCall, w

\* Nothing of a record reaches the stream below the record scopes.
LEMMA BaseKept ==
  ASSUME UNCHANGED <<phase, file, pending>>, phase \in {"blocks", "entities"},
         NEW st, RecordOpen(Lo, st), SameBelow(scopes', st),
         Lo = 1 => st[1].records = scopes[1].records
  PROVE  BaseStream' = BaseStream /\ Lo' = Lo
<1>1. ASSUME phase = "blocks" PROVE scopes'[1].records = scopes[1].records
  <2>1. Lo = 1
    BY <1>1 DEF Lo
  <2>2. 1 \in 1..(Len(st) - 1)
    BY <2>1, OpenLength
  <2>3. scopes'[1].records = st[1].records
    BY <2>2, SameLevels
  <2> QED BY <2>1, <2>3
<1>2. BaseStream' = BaseStream
  BY <1>1, BaseSame
<1> QED BY <1>2 DEF Lo

LEMMA EntityEmits ==
  ASSUME IInv, phase # "idle", NEW st, RecordOpen(Lo, st), NEW kind, NEW s \in Entities,
         NEW owner, owner \in Handles \/ owner \in SourceOwners,
         WriteEntity(kind, s, owner, st), ~writeError'
  PROVE  /\ ~writeError /\ SameBelow(scopes', st)
         /\ LET t == scopes'[Len(st)]  u == st[Len(st)]
            IN /\ t.size = u.size /\ t.stage = u.stage /\ t.call = u.call
               /\ Len(t.records) = Len(u.records) + 1
               /\ OneCall(u.records, u.call) => OneCall(t.records, u.call)
<1> DEFINE u == st[Len(st)]
           r == Record(EmittedHandle(s), owner, {}, u.call, s)
<1>1. /\ CanEmit(s) /\ UNCHANGED writeError
      /\ scopes' = [Emitted(st, <<r>>) EXCEPT ![Len(st)].handle =
                      IF @ = 0 THEN EmittedHandle(s) ELSE @]
  BY DEF WriteEntity
<1>2. /\ st \in Seq(ScopeSet) /\ Len(st) > 0 /\ Len(st) \in Nat /\ Len(st) \in 1..Len(st)
  BY DEF RecordOpen
<1>3. u \in ScopeSet
  BY <1>2
<1>4. u.call \in Nat /\ u.records \in Seq(Recs)
  BY <1>3, ScopeParts
<1>5. EmittedHandle(s) \in Handles
  BY <1>1, SessionParts, EmittedIs
<1>6. r \in Recs /\ r.handle = EmittedHandle(s) /\ r.call = u.call
  BY <1>4, <1>5, RecordIs
<1> HIDE DEF r
<1>7. scopes' = Given(st, r)
  BY <1>1, <1>6 DEF Given
<1> DEFINE g == Given(st, r)
<1>8. /\ SameBelow(g, st) /\ g[Len(st)].records = u.records \o <<r>>
      /\ g[Len(st)].size = u.size /\ g[Len(st)].stage = u.stage
  BY <1>2, <1>6, GivenIs
<1> HIDE DEF g
<1>9. g[Len(st)].call = u.call
  BY <1>2, <1>8 DEF SameBelow, Alike
<1>10. /\ Len(u.records \o <<r>>) = Len(u.records) + 1
       /\ OneCall(u.records, u.call) => OneCall(u.records \o <<r>>, u.call)
  <2>1. Len(u.records \o <<r>>) = Len(u.records) + 1
    BY <1>4, <1>6, OneMore
  <2>2. OneCall(u.records, u.call) => OneCall(u.records \o <<r>>, u.call)
    BY <1>4, <1>6, OneCallMore
  <2> QED BY <2>1, <2>2
<1> QED BY <1>1, <1>7, <1>8, <1>9, <1>10 DEF g

\* The scopes around the innermost one stay as they are.
LEMMA EntityBelow ==
  ASSUME IInv, phase # "idle", NEW st, RecordOpen(Lo, st), NEW kind, NEW s \in Entities,
         NEW owner, owner \in Handles \/ owner \in SourceOwners,
         WriteEntity(kind, s, owner, st), ~writeError',
         NEW k \in 1..(Len(st) - 1)
  PROVE  scopes'[k] = st[k]
<1> DEFINE r == Record(EmittedHandle(s), owner, {}, st[Len(st)].call, s)
<1>1. scopes' = [Emitted(st, <<r>>) EXCEPT ![Len(st)].handle =
                   IF @ = 0 THEN EmittedHandle(s) ELSE @]
  BY DEF WriteEntity
<1>2. st \in Seq(ScopeSet) /\ Len(st) \in Nat /\ k \in 1..Len(st) /\ k # Len(st)
  BY DEF RecordOpen
<1> HIDE DEF r
<1> QED BY <1>1, <1>2 DEF Emitted

LEMMA TallyIs ==
  ASSUME Tally, phase # "idle", ~writeError
  PROVE  Counted(accepted, BaseStream, calls) /\ Counting(Lo, scopes, accepted, calls)
BY DEF Tally

LEMMA TallySame ==
  ASSUME Tally, UNCHANGED <<phase, scopes, file, pending, calls, accepted>>,
         ~writeError' => ~writeError
  PROVE  Tally'
<1>1. BaseStream' = BaseStream /\ Lo' = Lo
  BY DEF BaseStream, Lo
<1> QED BY <1>1 DEF Tally

LEMMA TallyBegin ==
  ASSUME IInv, Tally, NEW kind \in RecordKinds \ {"attrib"}, NEW s \in Entities,
         NEW parent \in ParentHandles, NEW space, NEW valid,
         BeginRecord(kind, s, parent, space, valid)
  PROVE  Tally'
<1> SUFFICES ASSUME ~writeError' PROVE Tally'
  BY DEF Tally
<1>1. /\ phase \in {"blocks", "entities"} /\ phase # "idle" /\ ~InRecord
      /\ calls' = calls + 1
      /\ UNCHANGED <<phase, file, pending, accepted>>
  BY DEF BeginRecord
<1>2. /\ Lo \in {0, 1} /\ scopes \in Seq(ScopeSet) /\ maps \in Maps /\ Len(scopes) = Lo /\ ValuesOK
      /\ calls \in Nat
  BY <1>1, CallbackIs DEF ValuesOK
<1>3. ~(writerError \/ ~valid)
  BY DEF BeginRecord
<1> DEFINE sd == Scope(kind, calls + 1)
           app == Append(scopes, sd)
           st == Asked(app)
<1>4. WriteEntity(kind, s, OwnerHandle(parent, space), st)
  BY <1>3 DEF BeginRecord
<1>5. /\ sd \in ScopeSet /\ sd.call = calls + 1 /\ sd.size = 0 /\ sd.records = <<>>
  <2>1. calls + 1 \in Nat /\ kind \in RecordKinds \cup SectionKinds
    BY <1>2
  <2> QED BY <1>2, <2>1, ScopeIs
<1> HIDE DEF sd
<1>6. /\ app \in Seq(ScopeSet) /\ Len(app) = Lo + 1 /\ Len(app) > 0
      /\ \A k \in 1..Len(scopes) : app[k] = scopes[k]
      /\ app[Lo + 1] = sd
  BY <1>2, <1>5
<1> HIDE DEF app
<1>7. /\ SameBelow(st, app) /\ st[Lo + 1].size = 0 + 1 /\ st[Lo + 1].records = <<>>
  BY <1>5, <1>6, AskedIs
<1> HIDE DEF st
<1>8. Len(st) = Lo + 1 /\ RecordOpen(Lo, st) /\ st[Lo + 1].call = calls + 1
  <2>1. Lo + 1 \in 1..Len(app)
    BY <1>2, <1>6
  <2>2. st \in Seq(ScopeSet) /\ Len(st) = Lo + 1 /\ Alike(st[Lo + 1], sd)
    BY <1>6, <1>7, <2>1 DEF SameBelow
  <2> QED BY <1>2, <1>5, <2>2 DEF RecordOpen, Alike
<1>9. Lo = 1 => st[1].records = scopes[1].records
  <2>1. SUFFICES ASSUME Lo = 1 PROVE st[1].records = scopes[1].records
    OBVIOUS
  <2>2. 1 \in 1..(Len(app) - 1) /\ 1 \in 1..Len(scopes)
    BY <1>2, <1>6, <2>1
  <2>3. st[1].records = app[1].records
    BY <1>7, <2>2, SameLevels
  <2> QED BY <1>6, <2>2, <2>3
<1>10. OwnerHandle(parent, space) \in Handles \/ OwnerHandle(parent, space) \in SourceOwners
  BY <1>1, <1>2, OwnerThere DEF Owning
<1>11. /\ ~writeError /\ SameBelow(scopes', st)
       /\ LET t == scopes'[Lo + 1]  u == st[Lo + 1]
          IN /\ t.size = u.size /\ t.stage = u.stage /\ t.call = u.call
             /\ Len(t.records) = Len(u.records) + 1
             /\ OneCall(u.records, u.call) => OneCall(t.records, u.call)
  <2>1. /\ ~writeError /\ SameBelow(scopes', st)
        /\ LET t == scopes'[Len(st)]  u == st[Len(st)]
           IN /\ t.size = u.size /\ t.stage = u.stage /\ t.call = u.call
              /\ Len(t.records) = Len(u.records) + 1
              /\ OneCall(u.records, u.call) => OneCall(t.records, u.call)
    BY <1>1, <1>4, <1>8, <1>10, EntityEmits
  <2> QED BY <1>8, <2>1
<1>12. BaseStream' = BaseStream /\ Lo' = Lo
  BY <1>1, <1>8, <1>9, <1>11, BaseKept
<1>13. Counted(accepted, BaseStream, calls) /\ Counted(accepted, BaseStream, calls + 1)
  BY <1>1, <1>2, <1>11, TallyIs, CountedGrows
<1>14. \A a \in accepted : a.call # calls + 1
  BY <1>2, <1>13 DEF Counted
<1>15. /\ scopes'[Lo + 1].call = calls + 1 /\ OneCall(scopes'[Lo + 1].records, calls + 1)
       /\ scopes'[Lo + 1].size = Len(scopes'[Lo + 1].records)
  <2>1. OneCall(<<>>, calls + 1) /\ Len(<<>>) = 0
    BY DEF OneCall
  <2> QED BY <1>7, <1>8, <1>11, <2>1
<1>16. Len(scopes') = Lo + 1
  BY <1>8, <1>11, SameLevels
<1>17. calls + 1 > 0
  BY <1>2
<1>18. Counting(Lo, scopes', accepted, calls + 1)
  BY <1>2, <1>14, <1>15, <1>16, <1>17, OneCounted
<1> QED BY <1>1, <1>12, <1>13, <1>18 DEF Tally

\* A record without an attribute open.
LEMMA SingleOpen ==
  ASSUME IInv, Tally, phase # "idle", ~writeError, InRecord, Top.kind # "attrib", Top.stage = "open"
  PROVE  /\ Len(scopes) = Lo + 1 /\ Top = scopes[Lo + 1] /\ Lo \in {0, 1}
         /\ Top.call = calls /\ OneCall(Top.records, calls) /\ Top.size = Len(Top.records)
         /\ calls > 0 /\ \A a \in accepted : a.call # calls
         /\ Counted(accepted, BaseStream, calls) /\ Top.records \in Seq(Recs)
         /\ phase \in {"blocks", "entities"}
<1>1. /\ Top = scopes[Len(scopes)] /\ RecordOpen(Lo, scopes) /\ Lo \in {0, 1} /\ Top \in ScopeSet
      /\ ScopesIn(Lo, phase, scopes) /\ phase \in {"blocks", "entities"}
  BY InRecordIs, SessionParts DEF Session
<1>2. Len(scopes) = Lo + 1
  <2>1. Len(scopes) = Lo + 1 \/ Len(scopes) = Lo + 2
    BY <1>1 DEF RecordOpen
  <2>2. ASSUME Len(scopes) = Lo + 2 PROVE FALSE
    BY <1>1, <2>2 DEF ScopesIn
  <2> QED BY <2>1, <2>2
<1>3. Counted(accepted, BaseStream, calls) /\ Counting(Lo, scopes, accepted, calls)
  BY TallyIs
<1>4. /\ calls > 0 /\ scopes[Lo + 1].call = calls /\ OneCall(scopes[Lo + 1].records, calls)
      /\ \A a \in accepted : a.call # calls
      /\ scopes[Lo + 1].stage # "failed" => scopes[Lo + 1].size = Len(scopes[Lo + 1].records)
  <2>1. Lo \in {0, 1}
    BY <1>1
  <2>2. Counting(Lo, scopes, accepted, calls)
    BY <1>3
  <2>3. Len(scopes) > Lo
    BY <1>2, <2>1
  <2> QED BY <1>2, <2>2, <2>3 DEF Counting
<1>5. Top = scopes[Lo + 1] /\ Top.stage # "failed"
  BY <1>1, <1>2
<1> QED BY <1>1, <1>2, <1>3, <1>4, <1>5, ScopeParts

LEMMA TallyVertex ==
  ASSUME IInv, Tally, phase # "idle", NEW s \in Entities, WriteVertex(s)
  PROVE  Tally'
<1> SUFFICES ASSUME ~writeError' PROVE Tally'
  BY DEF Tally
<1> DEFINE st == Asked(scopes)
<1>1. /\ InRecord /\ Top.stage = "open" /\ Top.kind = "polyline"
      /\ WriteEntity("plain", s, Top.handle, st)
      /\ UNCHANGED <<phase, file, pending, calls, accepted>>
  BY DEF WriteVertex
<1>2. ~writeError
  BY <1>1 DEF WriteEntity
<1>3. /\ Len(scopes) = Lo + 1 /\ Top = scopes[Lo + 1] /\ Lo \in {0, 1}
      /\ Top.call = calls /\ OneCall(Top.records, calls) /\ Top.size = Len(Top.records)
      /\ calls > 0 /\ \A a \in accepted : a.call # calls
      /\ Counted(accepted, BaseStream, calls) /\ phase \in {"blocks", "entities"}
  BY <1>1, <1>2, SingleOpen
<1>4. /\ SameBelow(st, scopes) /\ RecordOpen(Lo, st) /\ Len(st) = Lo + 1
      /\ Lo = 1 => st[1].records = scopes[1].records
      /\ st[Lo + 1].records = Top.records /\ st[Lo + 1].size = Top.size + 1
      /\ st[Lo + 1].call = calls
  <2>1. /\ SameBelow(st, scopes) /\ RecordOpen(Lo, st) /\ Len(st) = Len(scopes)
        /\ Lo = 1 => st[1].records = scopes[1].records
        /\ st[Len(scopes)].records = Top.records /\ st[Len(scopes)].size = Top.size + 1
        /\ Alike(st[Len(scopes)], Top)
    BY <1>1, AskedStack
  <2> QED BY <1>3, <2>1 DEF Alike
<1> HIDE DEF st
<1>5. Top.handle \in Handles
  BY <1>1, ParentThere
<1>6. /\ SameBelow(scopes', st)
      /\ LET t == scopes'[Lo + 1]  u == st[Lo + 1]
         IN /\ t.size = u.size /\ t.stage = u.stage /\ t.call = u.call
            /\ Len(t.records) = Len(u.records) + 1
            /\ OneCall(u.records, u.call) => OneCall(t.records, u.call)
  <2>1. /\ ~writeError /\ SameBelow(scopes', st)
        /\ LET t == scopes'[Len(st)]  u == st[Len(st)]
           IN /\ t.size = u.size /\ t.stage = u.stage /\ t.call = u.call
              /\ Len(t.records) = Len(u.records) + 1
              /\ OneCall(u.records, u.call) => OneCall(t.records, u.call)
    BY <1>1, <1>4, <1>5, EntityEmits
  <2> QED BY <1>4, <2>1
<1>7. BaseStream' = BaseStream /\ Lo' = Lo
  BY <1>1, <1>3, <1>4, <1>6, BaseKept
<1>8. /\ scopes'[Lo + 1].call = calls /\ OneCall(scopes'[Lo + 1].records, calls)
      /\ scopes'[Lo + 1].size = Len(scopes'[Lo + 1].records)
  BY <1>3, <1>4, <1>6
<1>9. Len(scopes') = Lo + 1
  BY <1>4, <1>6, SameLevels
<1>10. Counting(Lo, scopes', accepted, calls)
  BY <1>3, <1>8, <1>9, OneCounted
<1> QED BY <1>1, <1>3, <1>7, <1>10 DEF Tally

LEMMA TallyAttrib ==
  ASSUME IInv, Tally, phase # "idle", NEW s \in Entities, BeginAttrib(s)
  PROVE  Tally'
<1> SUFFICES ASSUME ~writeError' PROVE Tally'
  BY DEF Tally
<1> DEFINE a == Asked(scopes)
           sd == Scope("attrib", Top.call)
           st == Append(a, sd)
<1>1. /\ InRecord /\ Top.stage = "open" /\ Top.kind = "insert"
      /\ WriteEntity("plain", s, Top.handle, st)
      /\ UNCHANGED <<phase, file, pending, calls, accepted>>
  BY DEF BeginAttrib
<1>2. ~writeError
  BY <1>1 DEF WriteEntity
<1>3. /\ Len(scopes) = Lo + 1 /\ Top = scopes[Lo + 1] /\ Lo \in {0, 1}
      /\ Top.call = calls /\ OneCall(Top.records, calls) /\ Top.size = Len(Top.records)
      /\ calls > 0 /\ \A c \in accepted : c.call # calls
      /\ Counted(accepted, BaseStream, calls) /\ phase \in {"blocks", "entities"}
  BY <1>1, <1>2, SingleOpen
<1>4. /\ a \in Seq(ScopeSet) /\ Len(a) = Lo + 1
      /\ Lo = 1 => a[1].records = scopes[1].records
      /\ a[Lo + 1].records = Top.records /\ a[Lo + 1].size = Top.size + 1
      /\ a[Lo + 1].call = calls
  <2>1. /\ SameBelow(a, scopes) /\ Len(a) = Len(scopes)
        /\ Lo = 1 => a[1].records = scopes[1].records
        /\ a[Len(scopes)].records = Top.records /\ a[Len(scopes)].size = Top.size + 1
        /\ Alike(a[Len(scopes)], Top)
    BY <1>1, AskedStack
  <2> QED BY <1>3, <2>1 DEF Alike, SameBelow
<1> HIDE DEF a
<1>5. sd \in ScopeSet /\ sd.call = calls /\ sd.records = <<>>
  <2>1. Top.call \in Nat /\ "attrib" \in RecordKinds \cup SectionKinds /\ ValuesOK /\ maps \in Maps
    BY <1>1, SessionParts, InRecordIs, ScopeParts DEF RecordKinds, Session
  <2> QED BY <1>3, <2>1, ScopeIs
<1> HIDE DEF sd
<1>6. /\ st \in Seq(ScopeSet) /\ Len(st) = Lo + 2 /\ st[Lo + 2] = sd
      /\ \A k \in 1..Len(a) : st[k] = a[k]
  BY <1>3, <1>4, <1>5
<1> HIDE DEF st
<1>7. st[Lo + 1] = a[Lo + 1] /\ RecordOpen(Lo, st)
  <2>1. Lo + 1 \in 1..Len(a)
    BY <1>3, <1>4
  <2> QED BY <1>3, <1>6, <2>1 DEF RecordOpen
<1>8. Lo = 1 => st[1].records = scopes[1].records
  <2>1. 1 \in 1..Len(a)
    BY <1>3, <1>4
  <2> QED BY <1>4, <1>6, <2>1
<1>9. Top.handle \in Handles
  BY <1>1, ParentThere
<1>10. /\ SameBelow(scopes', st)
       /\ LET t == scopes'[Lo + 2]  u == st[Lo + 2]
          IN /\ Len(t.records) = Len(u.records) + 1
             /\ OneCall(u.records, u.call) => OneCall(t.records, u.call)
  <2>1. /\ ~writeError /\ SameBelow(scopes', st)
        /\ LET t == scopes'[Len(st)]  u == st[Len(st)]
           IN /\ t.size = u.size /\ t.stage = u.stage /\ t.call = u.call
              /\ Len(t.records) = Len(u.records) + 1
              /\ OneCall(u.records, u.call) => OneCall(t.records, u.call)
    BY <1>1, <1>7, <1>9, EntityEmits
  <2> QED BY <1>6, <2>1
<1>11. BaseStream' = BaseStream /\ Lo' = Lo
  BY <1>1, <1>3, <1>7, <1>8, <1>10, BaseKept
<1>12. Len(scopes'[Lo + 2].records) = 1 /\ OneCall(scopes'[Lo + 2].records, calls)
  <2>1. OneCall(<<>>, calls) /\ Len(<<>>) = 0
    BY DEF OneCall
  <2> QED BY <1>5, <1>6, <1>10, <2>1
<1>13. Len(scopes') = Lo + 2
  BY <1>6, <1>10, SameLevels
<1>14. /\ scopes'[Lo + 1].call = calls /\ OneCall(scopes'[Lo + 1].records, calls)
       /\ scopes'[Lo + 1].size = Len(scopes'[Lo + 1].records) + 1
  <2>1. Lo + 1 \in 1..(Len(st) - 1)
    BY <1>3, <1>6
  <2>2. scopes'[Lo + 1] = st[Lo + 1]
    BY <1>1, <1>7, <1>9, <2>1, EntityBelow
  <2> QED BY <1>3, <1>4, <1>7, <2>2
<1>15. Counting(Lo, scopes', accepted, calls)
  BY <1>3, <1>12, <1>13, <1>14, TwoCounted
<1> QED BY <1>1, <1>3, <1>11, <1>15 DEF Tally

LEMMA TallySeqEnd ==
  ASSUME IInv, Tally, phase # "idle", WriteSequenceEnd
  PROVE  Tally'
<1> SUFFICES ASSUME ~writeError' PROVE Tally'
  BY DEF Tally
<1> DEFINE st == Asked(scopes)
           r == Record(Handle!MintedHandle(alloc), Top.handle, {}, Top.call, NoSource)
           rs == <<r>>
           em == Emitted(st, rs)
<1>1. /\ InRecord /\ Top.stage = "open" /\ Top.kind # "attrib" /\ Handle!CanMint(alloc)
      /\ scopes' = [em EXCEPT ![Len(scopes)].stage = "ended"] /\ ~writeError
      /\ UNCHANGED <<phase, file, pending, calls, accepted>>
  BY DEF WriteSequenceEnd
<1>2. /\ Len(scopes) = Lo + 1 /\ Top = scopes[Lo + 1] /\ Lo \in {0, 1}
      /\ Top.call = calls /\ OneCall(Top.records, calls) /\ Top.size = Len(Top.records)
      /\ calls > 0 /\ \A a \in accepted : a.call # calls
      /\ Top.records \in Seq(Recs) /\ Counted(accepted, BaseStream, calls) /\ phase \in {"blocks", "entities"}
  BY <1>1, SingleOpen
<1>3. /\ SameBelow(st, scopes) /\ RecordOpen(Lo, st) /\ Len(st) = Lo + 1
      /\ Lo = 1 => st[1].records = scopes[1].records
      /\ st[Lo + 1].records = Top.records /\ st[Lo + 1].size = Top.size + 1
      /\ st[Lo + 1].call = calls
  <2>1. /\ SameBelow(st, scopes) /\ RecordOpen(Lo, st) /\ Len(st) = Len(scopes)
        /\ Lo = 1 => st[1].records = scopes[1].records
        /\ st[Len(scopes)].records = Top.records /\ st[Len(scopes)].size = Top.size + 1
        /\ Alike(st[Len(scopes)], Top)
    BY <1>1, AskedStack
  <2> QED BY <1>2, <2>1 DEF Alike
<1> HIDE DEF st
<1>4. r \in Recs /\ r.call = calls
  <2>1. Top.handle \in Handles
    BY <1>1, ParentThere
  <2>2. Handle!MintedHandle(alloc) \in Handles
    BY <1>1, SessionParts, MintIs, SoundIs
  <2>3. calls \in Nat
    BY SessionParts DEF Session, ValuesOK
  <2> QED BY <1>2, <2>1, <2>2, <2>3, RecordIs DEF Entities
<1> HIDE DEF r
<1>5. rs \in Seq(Recs) /\ rs = <<r>>
  BY <1>4
<1> HIDE DEF rs
<1>6. st \in Seq(ScopeSet) /\ Len(st) > 0 /\ Lo + 1 \in 1..Len(st)
  BY <1>2, <1>3 DEF RecordOpen
<1>7. /\ SameBelow(em, st) /\ em[Lo + 1].records = Top.records \o rs
      /\ em[Lo + 1].size = Top.size + 1
  BY <1>3, <1>5, <1>6, EmissionIs
<1> HIDE DEF em
<1>8. em \in Seq(ScopeSet) /\ Len(em) = Lo + 1 /\ Len(em) > 0
  BY <1>3, <1>6, <1>7, SameLevels
<1>9. /\ SameBelow(scopes', em) /\ scopes'[Lo + 1].records = em[Lo + 1].records
      /\ scopes'[Lo + 1].size = em[Lo + 1].size
  <2>1. scopes' = [em EXCEPT ![Len(em)].stage = "ended"]
    BY <1>1, <1>2, <1>8
  <2> QED BY <1>8, <2>1, StageEnded
<1>10. SameBelow(scopes', st)
  BY <1>7, <1>9, SameBelowJoins
<1>11. BaseStream' = BaseStream /\ Lo' = Lo
  BY <1>1, <1>2, <1>3, <1>10, BaseKept
<1>12. scopes'[Lo + 1].call = calls /\ Len(scopes') = Lo + 1
  BY <1>3, <1>6, <1>10, SameLevels DEF SameBelow, Alike
<1>13. OneCall(Top.records \o rs, calls) /\ Len(Top.records \o rs) = Len(Top.records) + 1
  <2> DEFINE t == Top.records
  <2>1. t \in Seq(Recs)
    BY <1>2
  <2>2. OneCall(t, calls)
    BY <1>2, Zenon
  <2> HIDE DEF t
  <2>3. OneCall(t \o <<r>>, calls) /\ Len(t \o <<r>>) = Len(t) + 1
    BY <1>4, <2>1, <2>2, OneCallMore
  <2> QED BY <1>5, <2>3 DEF t
<1>14. Counting(Lo, scopes', accepted, calls)
  BY <1>2, <1>7, <1>9, <1>12, <1>13, OneCounted
<1> QED BY <1>1, <1>2, <1>11, <1>14 DEF Tally

LEMMA OneCallJoins ==
  ASSUME NEW a \in Seq(Recs), NEW b \in Seq(Recs), NEW n, OneCall(a, n), OneCall(b, n)
  PROVE  OneCall(Joined(a, b), n)
<1> DEFINE w == Joined(a, b)
<1>1. /\ \A i \in 1..Len(a) : w[i] = a[i]
      /\ \A i \in 1..Len(b) : w[Len(a) + i] = b[i]
      /\ \A i \in 1..Len(w) : i \in 1..Len(a) \/ \E j \in 1..Len(b) : i = Len(a) + j
  BY JoinedIs
<1> HIDE DEF w
<1> QED BY <1>1 DEF OneCall, w

\* Where a record's scope commits into its section, its records join the
\* section's stream.
LEMMA CommitJoins ==
  ASSUME IInv, phase # "idle", CommitRecord, Len(scopes) = Lo + 1
  PROVE  BaseStream' = Joined(BaseStream, Top.records) /\ Len(scopes') = Lo /\ Lo' = Lo
<1>1. InRecord /\ CommitScope /\ UNCHANGED <<phase, pending>> /\ phase \in {"blocks", "entities"}
  BY InRecordIs DEF CommitRecord
<1>2. /\ Len(scopes') = Lo
      /\ phase = "blocks" => file' = file /\ file' \o scopes'[1].records = Joined(BaseStream, Top.records)
      /\ phase = "entities" => file' = Joined(BaseStream, Top.records)
  BY <1>1, CommitIntoSection
<1>3. CASE phase = "entities"
  <2>1. BaseStream' = file'
    BY <1>1, <1>3 DEF BaseStream
  <2> QED BY <1>1, <1>2, <1>3, <2>1 DEF Lo
<1>4. CASE phase = "blocks"
  <2>1. BaseStream' = file' \o scopes'[1].records
    BY <1>1, <1>4 DEF BaseStream
  <2> QED BY <1>1, <1>2, <1>4, <2>1 DEF Lo
<1> QED BY <1>1, <1>3, <1>4

LEMMA TallyCommitSection ==
  ASSUME IInv, Tally, phase # "idle", CommitRecord, Len(scopes) = Lo + 1
  PROVE  Tally'
<1> SUFFICES ASSUME ~writeError' PROVE Tally'
  BY DEF Tally
<1>1. /\ InRecord /\ Complete /\ UNCHANGED <<phase, calls, writeError>>
      /\ accepted' = IF Top.kind = "attrib" THEN accepted
                     ELSE accepted \cup {[call |-> Top.call, size |-> Top.size]}
  BY DEF CommitRecord
<1>2. /\ Top = scopes[Lo + 1] /\ Top \in ScopeSet /\ Lo \in {0, 1} /\ BaseStream \in Seq(Recs)
      /\ ScopesIn(Lo, phase, scopes) /\ ValuesOK /\ Top.records \in Seq(Recs)
  BY <1>1, SessionParts, InRecordIs, ScopeParts DEF Session
<1>3. Top.kind # "attrib"
  <2>1. Len(scopes) > Lo
    BY <1>2
  <2> QED BY <1>2, <2>1 DEF ScopesIn
<1>4. Counted(accepted, BaseStream, calls) /\ Counting(Lo, scopes, accepted, calls) /\ ~writeError
  BY <1>1, TallyIs
<1>5. Top.stage # "failed"
  BY <1>1 DEF Complete
<1>6. /\ calls > 0 /\ Top.call = calls /\ OneCall(Top.records, calls)
      /\ \A a \in accepted : a.call # calls
      /\ Top.stage # "failed" => Top.size = Len(Top.records)
  <2>1. Lo \in {0, 1} /\ Len(scopes) = Lo + 1
    BY <1>2
  <2>2. Counting(Lo, scopes, accepted, calls)
    BY <1>4
  <2>3. Len(scopes) > Lo
    BY <2>1
  <2>4. /\ calls > 0 /\ scopes[Lo + 1].call = calls /\ OneCall(scopes[Lo + 1].records, calls)
        /\ \A a \in accepted : a.call # calls
        /\ scopes[Lo + 1].stage # "failed" => scopes[Lo + 1].size = Len(scopes[Lo + 1].records)
    BY <2>1, <2>2, <2>3 DEF Counting
  <2> QED BY <1>2, <2>4
<1>7. Top.size = Len(Top.records)
  BY <1>5, <1>6
<1>8. BaseStream' = Joined(BaseStream, Top.records) /\ Len(scopes') = Lo /\ Lo' = Lo
  BY CommitJoins
<1>9. accepted' = accepted \cup {[call |-> calls, size |-> Len(Top.records)]}
  BY <1>1, <1>3, <1>6, <1>7
<1>10. Counted(accepted \cup {[call |-> calls, size |-> Len(Top.records)]},
               Joined(BaseStream, Top.records), calls)
  BY <1>2, <1>4, <1>6, CountedCommit DEF ValuesOK
<1>11. Counting(Lo, scopes', accepted', calls)
  BY <1>2, <1>8, NoneCounted
<1> QED BY <1>1, <1>8, <1>9, <1>10, <1>11 DEF Tally

LEMMA TallyCommitInside ==
  ASSUME IInv, Tally, phase # "idle", CommitRecord, Len(scopes) = Lo + 2
  PROVE  Tally'
<1> SUFFICES ASSUME ~writeError' PROVE Tally'
  BY DEF Tally
<1> DEFINE m == Len(scopes)
<1>1. /\ InRecord /\ CommitScope /\ UNCHANGED <<phase, calls, writeError, pending>>
      /\ Top.kind = "attrib" => accepted' = accepted
  BY DEF CommitRecord
<1>2. /\ phase \in {"blocks", "entities"} /\ Lo \in {0, 1} /\ Top = scopes[m] /\ Top \in ScopeSet
      /\ RecordOpen(Lo, scopes) /\ ScopesIn(Lo, phase, scopes) /\ Top.records \in Seq(Recs)
      /\ scopes \in Seq(ScopeSet)
  BY <1>1, SessionParts, InRecordIs, ScopeParts DEF Session
<1>3. Top = scopes[Lo + 2] /\ Top.kind = "attrib" /\ accepted' = accepted
  <2>1. m > Lo + 1
    BY <1>2
  <2> QED BY <1>1, <1>2, <2>1 DEF ScopesIn
<1>4. Counted(accepted, BaseStream, calls) /\ Counting(Lo, scopes, accepted, calls) /\ ~writeError
  BY <1>1, TallyIs
<1>5. /\ calls > 0 /\ scopes[Lo + 1].call = calls /\ OneCall(scopes[Lo + 1].records, calls)
      /\ \A a \in accepted : a.call # calls
      /\ scopes[Lo + 1].size = Len(scopes[Lo + 1].records) + 1
      /\ Len(scopes[Lo + 2].records) = 1 /\ OneCall(scopes[Lo + 2].records, calls)
  <2>1. Lo \in {0, 1} /\ Len(scopes) = Lo + 2
    BY <1>2
  <2>2. Counting(Lo, scopes, accepted, calls)
    BY <1>4
  <2>3. Len(scopes) > Lo
    BY <2>1
  <2> QED BY <2>1, <2>2, <2>3 DEF Counting
<1>6. /\ scopes[Lo + 1].size = Len(scopes[Lo + 1].records) + 1
      /\ Len(Top.records) = 1 /\ OneCall(Top.records, calls)
  BY <1>3, <1>5
<1>7. /\ Outer \in Seq(ScopeSet) /\ Len(Outer) = m - 1
      /\ \A k \in 1..(m - 1) : Outer[k] = scopes[k]
      /\ Outer = <<>> <=> m = 1
  BY <1>2, OuterIs
<1> HIDE DEF Outer
<1>8. /\ Len(Outer) = Lo + 1 /\ Len(Outer) > 0 /\ RecordOpen(Lo, Outer) /\ Outer # <<>>
      /\ Lo + 1 \in 1..(m - 1) /\ Lo + 1 \in 1..Len(Outer) /\ Lo + 1 \in 1..m
  <2>1. /\ Len(Outer) = Lo + 1 /\ Len(Outer) > 0 /\ m # 1
        /\ Lo + 1 \in 1..(m - 1) /\ Lo + 1 \in 1..m
    BY <1>2, <1>7
  <2> QED BY <1>2, <1>7, <2>1 DEF RecordOpen
<1>9. Outer[Lo + 1] = scopes[Lo + 1] /\ scopes[Lo + 1].records \in Seq(Recs)
  <2>1. scopes[Lo + 1] \in ScopeSet
    BY <1>2, <1>8, ElementOfSeq
  <2> QED BY <1>7, <1>8, <2>1, ScopeParts
<1>10. scopes' = Emitted(Outer, Top.records) /\ file' = file
  BY <1>1, <1>8 DEF CommitScope
<1>11. /\ SameBelow(scopes', Outer)
       /\ scopes'[Lo + 1].records = Joined(scopes[Lo + 1].records, Top.records)
       /\ scopes'[Lo + 1].size = scopes[Lo + 1].size
  BY <1>2, <1>7, <1>8, <1>9, <1>10, EmissionIs DEF Joined
<1>12. scopes'[Lo + 1].call = calls /\ Len(scopes') = Lo + 1
  BY <1>5, <1>8, <1>9, <1>11, SameLevels DEF SameBelow, Alike
<1>13. Lo = 1 => Outer[1].records = scopes[1].records
  BY <1>7, <1>8
<1>14. BaseStream' = BaseStream /\ Lo' = Lo
  BY <1>1, <1>2, <1>8, <1>10, <1>11, <1>13, BaseKept
<1>15. /\ OneCall(scopes'[Lo + 1].records, calls)
       /\ scopes'[Lo + 1].size = Len(scopes'[Lo + 1].records)
  <2>1. OneCall(scopes'[Lo + 1].records, calls)
    BY <1>2, <1>5, <1>6, <1>9, <1>11, OneCallJoins
  <2>2. Len(Joined(scopes[Lo + 1].records, Top.records))
          = Len(scopes[Lo + 1].records) + Len(Top.records)
    <3> DEFINE a == scopes[Lo + 1].records
               b == Top.records
    <3>1. a \in Seq(Recs) /\ b \in Seq(Recs)
      BY <1>2, <1>9
    <3> HIDE DEF a, b
    <3>2. Len(Joined(a, b)) = Len(a) + Len(b)
      BY <3>1, JoinedIs
    <3> QED BY <3>2 DEF a, b
  <2> QED BY <1>6, <1>11, <2>1, <2>2
<1>16. Counting(Lo, scopes', accepted, calls)
  BY <1>2, <1>5, <1>12, <1>15, OneCounted
<1> QED BY <1>1, <1>3, <1>4, <1>14, <1>16 DEF Tally

\* A record that is taken back was not accepted, unless the write fails.
LEMMA TallyAbort ==
  ASSUME IInv, Tally, phase # "idle", AbortRecord
  PROVE  Tally'
<1> SUFFICES ASSUME ~writeError' PROVE Tally'
  BY DEF Tally
<1> DEFINE m == Len(scopes)
<1>1. InRecord /\ RollbackScope /\ UNCHANGED <<phase, calls>>
  BY DEF AbortRecord
<1>2. ~writeError
  BY DEF AbortRecord
<1>3. accepted' = accepted /\ scopes' = AfterRejected
  <2>1. ASSUME Top.stage # "failed", ~writerError PROVE FALSE
    <3>1. ~CleanEnough
      BY <2>1 DEF AbortRecord
    <3> QED BY <1>2, <2>1, <3>1 DEF CleanEnough
  <2> QED BY <2>1 DEF AbortRecord
<1>4. /\ phase \in {"blocks", "entities"} /\ ValuesOK /\ Lo \in {0, 1} /\ Top = scopes[m]
      /\ RecordOpen(Lo, scopes) /\ RecordScope(Top, block, Len(pending), maps.blocks)
      /\ ScopesIn(Lo, phase, scopes) /\ (m = Lo + 1 \/ m = Lo + 2)
  BY <1>1, SessionParts, InRecordIs DEF Session, RecordOpen
<1>5. UNCHANGED <<file, pending>>
  <2>1. Top.pending = Len(pending)
    BY <1>4 DEF RecordScope
  <2>2. SubSeq(pending, 1, Len(pending)) = pending
    BY <1>4 DEF ValuesOK
  <2> QED BY <1>1, <2>1, <2>2 DEF RollbackScope
<1>6. /\ Outer \in Seq(ScopeSet) /\ Len(Outer) = m - 1
      /\ \A k \in 1..(m - 1) : Outer[k] = scopes[k]
  BY <1>4, OuterIs
<1>7. Counted(accepted, BaseStream, calls) /\ Counting(Lo, scopes, accepted, calls)
  BY <1>2, TallyIs
<1>8. Lo' = Lo
  BY <1>1 DEF Lo
<1>9. CASE m = Lo + 1
  <2>1. scopes' = Outer
    <3>1. Top.kind # "attrib"
      BY <1>4, <1>9 DEF ScopesIn
    <3> QED BY <1>3, <3>1 DEF AfterRejected
  <2>2. Len(scopes') = Lo
    BY <1>4, <1>6, <1>9, <2>1
  <2>3. BaseStream' = BaseStream
    <3>1. ASSUME phase = "blocks" PROVE scopes'[1].records = scopes[1].records
      <4>1. Lo = 1
        BY <3>1 DEF Lo
      <4>2. 1 \in 1..(m - 1)
        BY <1>9, <4>1
      <4> QED BY <1>6, <2>1, <4>2
    <3> QED BY <1>1, <1>4, <1>5, <3>1, BaseSame
  <2>4. Counting(Lo, scopes', accepted, calls)
    BY <1>4, <2>2, NoneCounted
  <2> QED BY <1>1, <1>3, <1>7, <1>8, <2>3, <2>4 DEF Tally
<1>10. CASE m = Lo + 2
  <2>1. Top.kind = "attrib" /\ scopes' = Failed(Outer)
    <3>1. m > Lo + 1 /\ Top = scopes[Lo + 2]
      BY <1>4, <1>10
    <3>2. Top.kind = "attrib"
      BY <1>4, <3>1 DEF ScopesIn
    <3> QED BY <1>3, <3>2 DEF AfterRejected
  <2> HIDE DEF Outer
  <2>2. /\ Len(Outer) = Lo + 1 /\ Len(Outer) > 0 /\ RecordOpen(Lo, Outer)
        /\ Lo + 1 \in 1..(m - 1) /\ Lo + 1 \in 1..Len(Outer)
    <3>1. Len(Outer) = Lo + 1 /\ Len(Outer) > 0 /\ Lo + 1 \in 1..(m - 1)
      BY <1>4, <1>6, <1>10
    <3> QED BY <1>4, <1>6, <3>1 DEF RecordOpen
  <2>3. Outer[Lo + 1] = scopes[Lo + 1]
    BY <1>6, <2>2
  <2>4. /\ SameBelow(scopes', Outer) /\ scopes'[Lo + 1].stage = "failed"
        /\ scopes'[Lo + 1].records = scopes[Lo + 1].records
    BY <1>6, <2>1, <2>2, <2>3, FailedIs
  <2>5. Lo = 1 => Outer[1].records = scopes[1].records
    BY <1>6, <2>2
  <2>6. BaseStream' = BaseStream
    BY <1>1, <1>4, <1>5, <2>2, <2>4, <2>5, BaseKept
  <2>7. /\ calls > 0 /\ scopes[Lo + 1].call = calls /\ OneCall(scopes[Lo + 1].records, calls)
        /\ \A a \in accepted : a.call # calls
    <3>1. Lo \in {0, 1} /\ Len(scopes) = Lo + 2
      BY <1>4, <1>10
    <3>2. Counting(Lo, scopes, accepted, calls)
      BY <1>7
    <3>3. Len(scopes) > Lo
      BY <3>1
    <3> QED BY <3>1, <3>2, <3>3 DEF Counting
  <2>8. scopes'[Lo + 1].call = calls /\ Len(scopes') = Lo + 1
    BY <2>2, <2>3, <2>4, <2>7, SameLevels DEF SameBelow, Alike
  <2>9. Counting(Lo, scopes', accepted, calls)
    BY <1>4, <2>4, <2>7, <2>8, OneCounted
  <2> QED BY <1>1, <1>3, <1>7, <1>8, <2>6, <2>9 DEF Tally
<1> QED BY <1>4, <1>9, <1>10

\* Between the records the stream grows by what the codec writes by itself.
LEMMA TallyQuiet ==
  ASSUME IInv, Tally, phase # "idle", ~writeError' => ~writeError,
         NEW rs, Stream(rs), OneCall(rs, 0), BaseStream' = Joined(BaseStream, rs),
         UNCHANGED <<calls, accepted>>, Lo' \in {0, 1}, Len(scopes') = Lo'
  PROVE  Tally'
<1> SUFFICES ASSUME ~writeError' PROVE Tally'
  BY DEF Tally
<1>1. BaseStream \in Seq(Recs) /\ calls \in Nat /\ Counted(accepted, BaseStream, calls)
  BY SessionParts, TallyIs DEF Session, ValuesOK
<1>2. Counted(accepted, Joined(BaseStream, rs), calls)
  BY <1>1, CountedQuiet DEF Stream
<1>3. Counting(Lo', scopes', accepted, calls)
  BY NoneCounted
<1> QED BY <1>2, <1>3 DEF Tally

LEMMA NoCall ==
  ASSUME NEW r \in Recs, r.call = 0
  PROVE  Stream(<<r>>) /\ OneCall(<<r>>, 0) /\ Stream(<<>>) /\ OneCall(<<>>, 0)
BY DEF Stream, OneCall

LEMMA TallyBlockRecord ==
  ASSUME IInv, Tally, NEW b \in Blocks, NEW inserts \in SUBSET PlannedHandles,
         WriteBlockRecord(b, inserts)
  PROVE  Tally'
<1> SUFFICES ASSUME ~writeError' PROVE Tally'
  BY DEF Tally
<1>1. /\ InCallback("blockRecords") /\ ~writeError /\ BlockRecordFits(alloc)
      /\ UNCHANGED <<phase, scopes, file, calls, accepted>>
  BY DEF WriteBlockRecord
<1>2. /\ phase = "blockRecords" /\ phase # "idle" /\ Lo = 1 /\ Len(scopes) = 1
      /\ HP!Sound(alloc) /\ maps \in Maps /\ ValuesOK /\ BaseStream = FixedRecords \o pending
  BY <1>1, FirstCallback
<1> DEFINE r == Record(Handle!MintedHandle(alloc), RootDictionary, inserts, 0, "block")
<1>3. pending' = Append(pending, r)
  BY <1>1 DEF WriteBlockRecord
<1>4. r \in Recs /\ r.call = 0
  <2>1. Handle!MintedHandle(alloc) \in Handles
    BY <1>1, <1>2, MintIs, SoundIs DEF BlockRecordFits
  <2>2. \A g \in inserts : \E s \in Sources : g = maps.minted[s] /\ g # 0
    BY DEF PlannedHandles
  <2>3. inserts \in SUBSET Handles
    BY <1>2, <2>2, MapParts
  <2>4. RootDictionary \in Handles
    BY Tags, SessionAssumption
  <2> QED BY <2>1, <2>3, <2>4, RecordIs
<1> HIDE DEF r
<1>5. BaseStream' = Joined(BaseStream, <<r>>)
  <2>1. FixedRecords \in Seq(Recs) /\ pending \in Seq(Recs) /\ <<r>> \in Seq(Recs)
    BY <1>2, <1>4, FixedRecordsAre DEF ValuesOK
  <2>2. pending' = pending \o <<r>>
    BY <1>3, <1>4, <2>1, AppendProperties
  <2>3. BaseStream' = FixedRecords \o pending'
    BY <1>1, <1>2 DEF BaseStream
  <2> QED BY <1>2, <2>1, <2>2, <2>3, StreamsJoin DEF Joined
<1>6. Lo' = 1
  BY <1>1, <1>2 DEF Lo
<1> QED BY <1>1, <1>2, <1>4, <1>5, <1>6, NoCall, TallyQuiet

LEMMA TallyWriteTables ==
  ASSUME IInv, Tally, WriteTables
  PROVE  Tally'
<1> DEFINE s == Scope("blocks", 0)
<1>1. /\ InCallback("blockRecords") /\ phase' = "blocks" /\ file' = FixedRecords \o pending
      /\ scopes' = <<s>> /\ UNCHANGED <<writeError, calls, accepted>>
  BY DEF WriteTables
<1>2. /\ phase # "idle" /\ maps \in Maps /\ ValuesOK /\ BaseStream = FixedRecords \o pending
      /\ BaseStream \in Seq(Recs)
  BY <1>1, FirstCallback
<1>3. s \in ScopeSet /\ s.records = <<>>
  <2>1. "blocks" \in RecordKinds \cup SectionKinds
    BY DEF SectionKinds
  <2> QED BY <1>2, <2>1, ScopeIs
<1> HIDE DEF s
<1>4. Len(scopes') = 1 /\ scopes'[1] = s /\ Lo' = 1
  BY <1>1, <1>3 DEF Lo
<1>5. BaseStream' = Joined(BaseStream, <<>>)
  BY <1>1, <1>2, <1>3, <1>4 DEF BaseStream, Joined
<1>6. Stream(<<>>) /\ OneCall(<<>>, 0)
  BY DEF Stream, OneCall
<1> QED BY <1>1, <1>2, <1>4, <1>5, <1>6, TallyQuiet

LEMMA EndsCall ==
  ASSUME IInv, phase = "blocks", ~InRecord
  PROVE  Ends \in Seq(Recs) /\ OneCall(Ends, 0)
<1>1. Ends \in Seq(Recs)
  BY EndedIs
<1>2. CASE ~block.open
  BY <1>1, <1>2 DEF Ends, OneCall
<1>3. CASE block.open
  <2>1. EndBlock.call = 0
    BY DEF EndBlock, Record
  <2>2. OneCall(<<EndBlock>>, 0)
    BY <1>3, <2>1, EndBlockCoherent, NoCall
  <2>3. Ends = <<EndBlock>>
    BY <1>3 DEF Ends
  <2> QED BY <1>1, <2>2, <2>3
<1> QED BY <1>1, <1>2, <1>3

LEMMA TallyWriteBlock ==
  ASSUME IInv, Tally, NEW b \in Blocks, WriteBlock(b)
  PROVE  Tally'
<1> SUFFICES ASSUME ~writeError' PROVE Tally'
  BY DEF Tally
<1> DEFINE o == maps.blocks[b]
           r == Record(o + 1, o, {}, 0, "block")
           rs == Ends \o <<r>>
<1>1. /\ phase = "blocks" /\ ~InRecord /\ ~writeError /\ o # 0 /\ scopes' = Emitted(scopes, rs)
      /\ UNCHANGED <<phase, file, calls, accepted>>
  BY DEF WriteBlock, InCallback, Ends, BlockHandle
<1>2. /\ HP!Sound(alloc) /\ maps \in Maps /\ Coherent(maps, BaseStream, Keeps, alloc.next)
  BY <1>1, CallbackIs
<1>3. r \in Recs /\ r.call = 0
  <2>1. o \in Nat /\ o \in Handles
    BY <1>2, MapParts DEF Handles
  <2>2. o + 1 \in Claim(maps, Keeps, "block")
    BY <1>1, BlockClaim
  <2>3. "block" \in Claimers
    BY DEF Claimers
  <2>4. o + 1 < alloc.next
    BY <1>2, <2>2, <2>3 DEF Coherent, Below
  <2>5. alloc.next <= MaxHandle /\ alloc.next \in Nat /\ MaxHandle \in Nat
    BY <1>2, SoundIs
  <2> HIDE DEF o
  <2>6. o + 1 \in Handles
    BY <2>1, <2>4, <2>5 DEF Handles
  <2> QED BY <2>1, <2>6, RecordIs
<1> HIDE DEF r, o
<1>4. Ends \in Seq(Recs) /\ OneCall(Ends, 0)
  BY <1>1, EndsCall
<1>5. Stream(rs) /\ OneCall(rs, 0)
  <2>1. OneCall(Ends \o <<r>>, 0)
    BY <1>3, <1>4, OneCallMore
  <2>2. Ends \o <<r>> \in Seq(Recs)
    BY <1>3, <1>4, OneMore
  <2> QED BY <2>1, <2>2 DEF Stream
<1> HIDE DEF rs
<1>6. Lo' = Lo /\ Lo = 1 /\ Len(scopes') = 1 /\ BaseStream' = Joined(BaseStream, rs)
  BY <1>1, <1>5, SectionEmits
<1> QED BY <1>1, <1>5, <1>6, TallyQuiet

LEMMA TallyWriteBlocks ==
  ASSUME IInv, Tally, WriteBlocks
  PROVE  Tally'
<1>1. /\ phase = "blocks" /\ ~InRecord /\ phase # "idle" /\ phase' = "entities"
      /\ file' = (file \o Top.records) \o Ends /\ scopes' = <<>>
      /\ UNCHANGED <<writeError, calls, accepted>>
  BY DEF WriteBlocks, InCallback, Ends
<1>2. Lo = 1 /\ Len(scopes) = 1
  <2>1. Lo = 1
    BY <1>1 DEF Lo
  <2> QED BY <1>1, <2>1, CallbackIs
<1>3. BaseStream' = Joined(BaseStream, Ends)
  <2>1. Top = scopes[1] /\ BaseStream = file \o scopes[1].records /\ BaseStream' = file'
    BY <1>1, <1>2 DEF Top, BaseStream
  <2> QED BY <1>1, <2>1 DEF Joined
<1>4. Stream(Ends) /\ OneCall(Ends, 0)
  BY <1>1, EndsCall DEF Stream
<1>5. Lo' = 0 /\ Len(scopes') = 0
  BY <1>1 DEF Lo
<1> QED BY <1>1, <1>3, <1>4, <1>5, TallyQuiet

LEMMA TallyEntities ==
  ASSUME IInv, Tally, WriteEntities
  PROVE  Tally'
<1> SUFFICES ASSUME ~writeError' PROVE Tally'
  BY DEF Tally
<1> DEFINE r == Record(Handle!MintedHandle(alloc), RootDictionary, EmittedMembers, 0, "group")
           s == Scope("objects", 0)
           st == <<s>>
           rs == <<r>>
<1>1. /\ phase = "entities" /\ ~InRecord /\ phase # "idle" /\ Handle!CanMint(alloc)
      /\ phase' = "objects" /\ file' = file /\ scopes' = Emitted(st, rs) /\ ~writeError
      /\ UNCHANGED <<calls, accepted>>
  BY DEF WriteEntities, InCallback
<1>2. Lo = 0 /\ BaseStream = file
  BY <1>1 DEF Lo, BaseStream
<1>3. HP!Sound(alloc) /\ ValuesOK /\ maps \in Maps
  BY <1>1, CallbackIs
<1>4. r \in Recs /\ r.call = 0
  <2>1. Handle!MintedHandle(alloc) \in Handles
    BY <1>1, <1>3, MintIs, SoundIs
  <2>2. \A g \in EmittedMembers : \E x \in Sources : g = maps.minted[x] /\ g # 0
    BY SessionAssumption DEF EmittedMembers
  <2>3. EmittedMembers \in SUBSET Handles
    BY <1>3, <2>2, MapParts
  <2>4. RootDictionary \in Handles
    BY Tags, SessionAssumption
  <2> QED BY <2>1, <2>3, <2>4, RecordIs
<1>5. s \in ScopeSet /\ s.kind = "objects" /\ s.records = <<>>
  <2>1. "objects" \in RecordKinds \cup SectionKinds
    BY DEF SectionKinds
  <2> QED BY <1>3, <2>1, ScopeIs
<1> HIDE DEF r, s
<1>6. st \in Seq(ScopeSet) /\ Len(st) = 1 /\ Len(st) > 0 /\ st[1] = s /\ rs \in Seq(Recs)
  BY <1>4, <1>5
<1>7. Stream(rs) /\ OneCall(rs, 0)
  BY <1>4, NoCall
<1> HIDE DEF st, rs
<1>8. SameBelow(scopes', st) /\ scopes'[1].records = <<>> \o rs
  <2>1. /\ SameBelow(Emitted(st, rs), st)
        /\ Emitted(st, rs)[Len(st)].records = st[Len(st)].records \o rs
    BY <1>6, EmissionIs
  <2> QED BY <1>1, <1>5, <1>6, <2>1
<1>9. Len(scopes') = 1 /\ Lo' = 1
  BY <1>1, <1>6, <1>8, SameLevels DEF Lo
<1>10. BaseStream' = Joined(BaseStream, rs)
  <2>1. scopes'[1].records = rs
    BY <1>6, <1>8, ConcatEmptySeq
  <2> QED BY <1>1, <1>2, <2>1 DEF BaseStream, Joined
<1> QED BY <1>1, <1>7, <1>9, <1>10, TallyQuiet

LEMMA TallyKept ==
  ASSUME IInv, Tally, NEW h, NEW parent \in ParentHandles,
         WriteDictionary(h, parent) \/ WriteLayout(h, parent)
  PROVE  Tally'
<1> SUFFICES ASSUME ~writeError' PROVE Tally'
  BY DEF Tally
<1>1. /\ InCallback("objects") /\ phase = "objects" /\ ~InRecord /\ ~writeError
      /\ h \in Preserved \cup Layouts \cup {replacement}
      /\ UNCHANGED <<phase, file, pending, calls, accepted>>
      /\ scopes' = scopes \/ scopes' = Emitted(scopes, <<Kept(h, parent)>>)
  <2>1. ASSUME WriteDictionary(h, parent) PROVE ~writeError
    <3>1. \/ writeError' = TRUE \/ UNCHANGED writeError
          \/ writeError' \in {TRUE, writeError \/ ~Handle!CanReserve(alloc, h)}
      BY <2>1 DEF WriteDictionary
    <3>2. CASE writeError' \in {TRUE, writeError \/ ~Handle!CanReserve(alloc, h)}
      <4>1. writeError' = TRUE \/ writeError' = (writeError \/ ~Handle!CanReserve(alloc, h))
        BY <3>2
      <4> QED BY <4>1, Zenon
    <3> QED BY <3>1, <3>2
  <2>2. ASSUME WriteLayout(h, parent) PROVE ~writeError
    BY <2>2 DEF WriteLayout
  <2>3. /\ InCallback("objects") /\ h \in Preserved \cup Layouts \cup {replacement}
        /\ UNCHANGED <<phase, file, pending, calls, accepted>>
    BY DEF WriteDictionary, WriteLayout
  <2>4. scopes' = scopes \/ scopes' = Emitted(scopes, <<Kept(h, parent)>>)
    BY DEF WriteDictionary, WriteLayout
  <2> QED BY <2>1, <2>2, <2>3, <2>4 DEF InCallback
<1>2. CASE scopes' = scopes
  BY <1>1, <1>2, TallySame
<1>3. CASE scopes' = Emitted(scopes, <<Kept(h, parent)>>)
  <2> DEFINE rs == <<Kept(h, parent)>>
  <2>1. Kept(h, parent) \in Recs /\ Kept(h, parent).call = 0
    <3>1. replacement \in Handles
      BY <1>1, CallbackIs DEF AllocOK
    <3>2. Preserved \subseteq Handles /\ Layouts \subseteq Handles
      <4>1. FirstHandle \in Nat /\ MaxHandle \in Nat
            /\ Preserved \subseteq FirstHandle..(MaxHandle - 1)
            /\ Layouts \subseteq FirstHandle..MaxHandle
        BY SessionAssumption
      <4> QED BY <4>1 DEF Handles
    <3>3. h \in Preserved \/ h \in Layouts \/ h = replacement
      BY <1>1
    <3>4. h \in Handles
      BY <3>1, <3>2, <3>3
    <3> QED BY <3>4, KeptIs
  <2>2. Stream(rs) /\ OneCall(rs, 0)
    BY <2>1, NoCall
  <2> HIDE DEF rs
  <2>3. scopes' = Emitted(scopes, rs)
    BY <1>3 DEF rs
  <2>4. Lo' = Lo /\ Lo = 1 /\ Len(scopes') = 1 /\ BaseStream' = Joined(BaseStream, rs)
    BY <1>1, <2>2, <2>3, SectionEmits
  <2> QED BY <1>1, <2>2, <2>4, TallyQuiet
<1> QED BY <1>1, <1>2, <1>3

LEMMA TallyStart ==
  ASSUME IInv, StartWrite
  PROVE  Tally'
<1>1. /\ phase' = "blockRecords" /\ pending' = <<>> /\ calls' = 0 /\ accepted' = {}
      /\ Len(scopes') = 1
  BY DEF StartWrite, ResetSession
<1>2. Lo' = 1 /\ BaseStream' = FixedRecords
  <2>1. BaseStream' = FixedRecords \o <<>>
    BY <1>1 DEF BaseStream
  <2> QED BY <1>1, <2>1, FixedRecordsAre, ConcatEmptySeq DEF Lo
<1>3. Counted({}, FixedRecords, 0)
  BY FixedRecordsAre DEF Counted
<1>4. Counting(Lo', scopes', accepted', calls')
  BY <1>1, <1>2, NoneCounted
<1> QED BY <1>1, <1>2, <1>3, <1>4 DEF Tally

LEMMA TallyInit == Init => Tally
BY DEF Init, Tally

LEMMA TallyStep ==
  ASSUME IInv, Tally, [Next]_vars
  PROVE  Tally'
<1>1. CASE UNCHANGED vars
  BY <1>1, TallySame DEF vars
<1>2. ASSUME phase' = "idle" PROVE Tally'
  BY <1>2 DEF Tally
<1>3. ASSUME NEW h, KeepHandle(h) PROVE Tally'
  BY <1>2, <1>3 DEF KeepHandle
<1>4. CASE RemapHandle \/ RefuseWrite \/ Publish \/ FailWrite
  BY <1>2, <1>4 DEF RemapHandle, RefuseWrite, Publish, FailWrite
<1>5. CASE StartWrite
  BY <1>5, TallyStart
<1>6. ASSUME NEW s, PreallocateEntityHandle(s) \/ MarkSourceHandleAmbiguous(s) PROVE Tally'
  <2>1. ASSUME ~writeError' PROVE ~writeError
    BY <1>6, <2>1 DEF PreallocateEntityHandle, MarkSourceHandleAmbiguous
  <2>2. UNCHANGED <<phase, scopes, file, pending, calls, accepted>>
    BY <1>6 DEF PreallocateEntityHandle, MarkSourceHandleAmbiguous
  <2> QED BY <2>1, <2>2, TallySame
<1>7. CASE WriterFails
  <2>1. UNCHANGED <<phase, scopes, file, pending, calls, accepted, writeError>>
    BY <1>7 DEF WriterFails
  <2> QED BY <2>1, TallySame
<1>8. ASSUME NEW b \in Blocks, NEW inserts \in SUBSET PlannedHandles, WriteBlockRecord(b, inserts)
      PROVE  Tally'
  BY <1>8, TallyBlockRecord
<1>9. CASE WriteTables \/ WriteBlocks \/ WriteEntities
  BY <1>9, TallyWriteTables, TallyWriteBlocks, TallyEntities
<1>10. ASSUME NEW b \in Blocks, WriteBlock(b) PROVE Tally'
  BY <1>10, TallyWriteBlock
<1>11. ASSUME NEW kind \in RecordKinds \ {"attrib"}, NEW s \in Entities,
              NEW parent \in ParentHandles, NEW space \in Spaces, NEW valid \in BOOLEAN,
              BeginRecord(kind, s, parent, space, valid)
       PROVE  Tally'
  BY <1>11, TallyBegin
<1>12. ASSUME NEW s \in Entities, WriteVertex(s) \/ BeginAttrib(s) PROVE Tally'
  <2>1. phase # "idle"
    BY <1>12, RecordBusy DEF WriteVertex, BeginAttrib
  <2> QED BY <1>12, <2>1, TallyVertex, TallyAttrib
<1>13. CASE WriteSequenceEnd \/ AbortRecord
  <2>1. phase # "idle"
    BY <1>13, RecordBusy DEF WriteSequenceEnd, AbortRecord
  <2> QED BY <1>13, <2>1, TallySeqEnd, TallyAbort
<1>14. CASE CommitRecord
  <2>1. InRecord /\ phase # "idle"
    BY <1>14, RecordBusy DEF CommitRecord
  <2>2. Len(scopes) = Lo + 1 \/ Len(scopes) = Lo + 2
    BY <2>1, InRecordIs DEF RecordOpen
  <2> QED BY <1>14, <2>1, <2>2, TallyCommitSection, TallyCommitInside
<1>15. ASSUME NEW h, NEW parent \in ParentHandles,
              WriteDictionary(h, parent) \/ WriteLayout(h, parent)
       PROVE  Tally'
  BY <1>15, TallyKept
<1> QED BY <1>1, <1>3, <1>4, <1>5, <1>6, <1>7, <1>8, <1>9, <1>10, <1>11, <1>12, <1>13, <1>14, <1>15
        DEF Next

\* A published file holds, whole, the records the writer accepted, and nothing
\* of those it rejected: a rejected record's scopes give back what they took.
THEOREM PublishesExactly == Spec => PublishesWhatItAccepted
<1> DEFINE Whole == published' # published =>
             \A c \in 1..MaxCalls :
               IF \E a \in accepted : a.call = c
               THEN [call |-> c, size |-> Cardinality(RecordsOf(published', c))] \in accepted
               ELSE RecordsOf(published', c) = {}
<1>1. IInv /\ Tally /\ [Next]_vars => [Whole]_vars
  <2> SUFFICES ASSUME IInv, Tally, Next, published' # published PROVE Whole
    OBVIOUS
  <2>1. Publish
    BY PublishedOnce
  <2>2. published'.records = BaseStream /\ phase = "objects" /\ ~writeError
    BY <2>1, PublishIs
  <2>3. Counted(accepted, BaseStream, calls) /\ BaseStream \in Seq(Recs)
    BY <2>2, TallyIs, SessionParts
  <2>4. \A c : RecordsOf(published', c) = Of(BaseStream, c)
    BY <2>2, <2>3, StreamIs DEF RecordsOf, Of
  <2>5. ASSUME NEW c \in 1..MaxCalls, NEW a \in accepted, a.call = c
        PROVE  [call |-> c, size |-> Cardinality(RecordsOf(published', c))] \in accepted
    <3>1. Cardinality(Of(BaseStream, c)) = a.size /\ a \in [call : Nat, size : Nat]
      BY <2>3, <2>5 DEF Counted
    <3>2. a = [call |-> a.call, size |-> a.size]
      BY <3>1
    <3> QED BY <2>4, <2>5, <3>1, <3>2
  <2>6. ASSUME NEW c \in 1..MaxCalls, ~\E a \in accepted : a.call = c
        PROVE  RecordsOf(published', c) = {}
    <3>1. c # 0
      BY SessionAssumption
    <3>2. ASSUME NEW i \in 1..Len(BaseStream), BaseStream[i].call = c PROVE FALSE
      BY <2>3, <2>6, <3>1, <3>2 DEF Counted
    <3>3. Of(BaseStream, c) = {}
      BY <3>2 DEF Of
    <3> QED BY <2>4, <3>3
  <2> QED BY <2>5, <2>6
<1>2. IInv /\ Tally /\ [Next]_vars => Tally'
  BY TallyStep
<1>3. IInv /\ [Next]_vars => IInv'
  BY StepKeeps
<1> QED BY <1>1, <1>2, <1>3, InitKeeps, TallyInit, PTL DEF Spec, PublishesWhatItAccepted

=============================================================================
