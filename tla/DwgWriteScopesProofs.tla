------------------------- MODULE DwgWriteScopesProofs -------------------------
(* What a DWG write takes back is what was written, and nothing it took back  *)
(* leaves a trace, for any entities, parts, blocks and depth of scopes.       *)
EXTENDS DwgWriteScopes, SequenceTheorems, FiniteSetTheorems, TLAPS

\* The theorems about the allocator.
HP == INSTANCE HandleAllocatorProofs WITH got <- 0

Handles == 0..MaxHandle

---------------------------------------------------------------------------
(* The allocator.                                                            *)

LEMMA HandleSpace == HP!HandleAssumption
BY ScopesAssumption DEF HP!HandleAssumption

LEMMA SoundNext ==
  ASSUME NEW a, HP!Sound(a)
  PROVE  /\ a = [explicitReserved |-> a.explicitReserved, allocated |-> a.allocated,
                 next |-> a.next]
         /\ a.next \in Handles /\ a.next >= FirstHandle /\ a.next # 0
         /\ a.explicitReserved \subseteq Handles /\ a.allocated \subseteq Handles
BY ScopesAssumption DEF HP!Sound, HP!Allocator, HP!Handles, Handles

\* Enough handles are left for n calls of next().
LEMMA RoomLeft ==
  ASSUME HP!Sound(alloc), NEW n \in Nat, Room(n)
  PROVE  alloc.next + n < MaxHandle
<1>1. /\ alloc.next \in Nat /\ MaxHandle \in Nat /\ alloc.next <= MaxHandle
      /\ \A h \in alloc.next..(MaxHandle - 1) : ~Handle!IsReserved(alloc, h)
  BY ScopesAssumption DEF HP!Sound, HP!Allocator, HP!Handles, Handle!IsReserved
<1>2. Handle!Unused(alloc) = alloc.next..(MaxHandle - 1)
  BY <1>1 DEF Handle!Unused
<1>3. Cardinality(Handle!Unused(alloc)) = MaxHandle - alloc.next
  <2>1. MaxHandle - 1 \in Int /\ alloc.next \in Int
    BY <1>1
  <2>2. Cardinality(alloc.next..(MaxHandle - 1)) =
          IF alloc.next > MaxHandle - 1 THEN 0 ELSE (MaxHandle - 1) - alloc.next + 1
    BY <2>1, FS_Interval
  <2> QED BY <1>1, <1>2, <2>2
<1> QED BY <1>1, <1>3 DEF Room

LEMMA MintNext ==
  ASSUME NEW a, HP!Sound(a), a.next < MaxHandle
  PROVE  /\ Handle!MintedHandle(a) = a.next
         /\ HP!Sound(Handle!Minted(a))
         /\ Handle!Minted(a).next = a.next + 1
<1> USE HandleSpace
<1>1. HP!CanMint(a)
  <2>1. a.next \in a.next..(MaxHandle - 1) /\ ~HP!IsReserved(a, a.next)
    BY ScopesAssumption DEF HP!Sound, HP!Allocator, HP!Handles, HP!IsReserved
  <2> QED BY <2>1 DEF HP!CanMint, HP!Unused
<1>2. HP!MintedHandle(a) = a.next
  BY <1>1, HP!MintTakesNext
<1>3. Handle!MintedHandle(a) = HP!MintedHandle(a)
  BY DEF HP!MintedHandle, Handle!MintedHandle, HP!Unused, Handle!Unused,
         HP!IsReserved, Handle!IsReserved
<1>4. HP!Sound(HP!Minted(a))
  BY <1>1, HP!MintSound
<1>5. HP!Minted(a) = Handle!Minted(a)
  BY <1>3 DEF HP!Minted, Handle!Minted
<1> QED BY <1>2, <1>3, <1>4, <1>5 DEF Handle!Minted

LEMMA ReserveKnown ==
  ASSUME NEW a, HP!Sound(a), NEW h \in Handles, h < a.next
  PROVE  HP!Sound(Handle!Reserved(a, h)) /\ Handle!Reserved(a, h).next = a.next
<1> USE HandleSpace
<1>1. h \in HP!Handles /\ HP!CanReserve(a, h)
  BY SoundNext DEF Handles, HP!Handles, HP!CanReserve
<1>2. HP!Sound(HP!Reserved(a, h))
  BY <1>1, HP!ReserveSound
<1>3. HP!Reserved(a, h) = Handle!Reserved(a, h)
  BY DEF HP!Reserved, Handle!Reserved
<1>4. ~(h >= a.next)
  BY SoundNext DEF Handles
<1> QED BY <1>2, <1>3, <1>4 DEF Handle!Reserved

---------------------------------------------------------------------------
(* The handles of an entity and its parts.                                   *)

Entry == [handle : Handles, owner : Handles]
Helds == [Records -> Entry]
\* What the callers' records carry is below m_next.
HeldBelow == held \in Helds /\ \A r \in Records : held[r].handle < alloc.next

LEMMA PartsAre ==
  ASSUME NEW e \in Entities
  PROVE  /\ Len(Parts[e]) \in Nat \ {0} /\ DOMAIN Parts[e] = 1..Len(Parts[e])
         /\ Parts[e][1] = e /\ e \in Records
         /\ \A n \in 1..Len(Parts[e]) : Parts[e][n] \in Records
         /\ PartsOf(e) \subseteq Records
<1>1. Parts[e] \in Seq(Entities \cup Children) /\ Len(Parts[e]) >= 1 /\ Parts[e][1] = e
  BY ScopesAssumption
<1>2. Len(Parts[e]) \in Nat /\ DOMAIN Parts[e] = 1..Len(Parts[e])
      /\ \A n \in 1..Len(Parts[e]) : Parts[e][n] \in Entities \cup Children
  BY <1>1, LenProperties, ElementOfSeq
<1> QED BY <1>1, <1>2 DEF PartsOf, Records

\* After n parts of e: each new handle is fresh and above the one before it.
Unset(e, m) == held[Parts[e][m]].handle = 0
AssignedOK(e, n, v) ==
  /\ HP!Sound(v.alloc) /\ Len(v.handles) = n
  /\ alloc.next <= v.alloc.next /\ v.alloc.next <= alloc.next + n
  /\ \A m \in 1..n : IF Unset(e, m) THEN v.handles[m] \in alloc.next..(v.alloc.next - 1)
                     ELSE v.handles[m] = held[Parts[e][m]].handle
  /\ \A m, k \in 1..n : m < k /\ Unset(e, m) /\ Unset(e, k) => v.handles[m] < v.handles[k]
AssignedState(e, n) ==
  {v \in [alloc : HP!Allocator, handles : Seq(Handles)] : AssignedOK(e, n, v)}
AssignedNext(e, n, v) ==
  [alloc |-> Took(v.alloc, Parts[e][n]),
   handles |-> Append(v.handles, Taken(v.alloc, Parts[e][n]))]

LEMMA AssignedStep ==
  ASSUME HP!Sound(alloc), HeldBelow, NEW e \in Entities,
         alloc.next + Len(Parts[e]) < MaxHandle,
         NEW n \in 1..Len(Parts[e]), NEW v \in AssignedState(e, n - 1)
  PROVE  AssignedNext(e, n, v) \in AssignedState(e, n)
<1> DEFINE r == Parts[e][n]
           w == AssignedNext(e, n, v)
<1>1. /\ Len(Parts[e]) \in Nat /\ r \in Records /\ MaxHandle \in Nat
      /\ \A m \in 1..Len(Parts[e]) : Parts[e][m] \in Records
  BY PartsAre, ScopesAssumption
<1>2. /\ HP!Sound(v.alloc) /\ v.handles \in Seq(Handles) /\ Len(v.handles) = n - 1
      /\ alloc.next <= v.alloc.next /\ v.alloc.next <= alloc.next + (n - 1)
      /\ \A m \in 1..(n - 1) :
           IF Unset(e, m) THEN v.handles[m] \in alloc.next..(v.alloc.next - 1)
           ELSE v.handles[m] = held[Parts[e][m]].handle
      /\ \A m, k \in 1..(n - 1) : m < k /\ Unset(e, m) /\ Unset(e, k)
                                    => v.handles[m] < v.handles[k]
  BY DEF AssignedState, AssignedOK
<1>3. alloc.next \in Nat /\ v.alloc.next \in Nat
  BY <1>2, SoundNext DEF Handles
<1>4. held[r].handle \in Handles /\ held[r].handle < alloc.next
  BY <1>1 DEF HeldBelow, Helds, Entry
<1>5. w = [alloc |-> Took(v.alloc, r), handles |-> Append(v.handles, Taken(v.alloc, r))]
  BY DEF AssignedNext
<1>6. CASE held[r].handle = 0
  <2>1. v.alloc.next < MaxHandle
    BY <1>1, <1>2, <1>3
  <2>2. /\ HP!Sound(Took(v.alloc, r)) /\ Took(v.alloc, r).next = v.alloc.next + 1
        /\ Taken(v.alloc, r) = v.alloc.next
    BY <1>2, <1>6, <2>1, MintNext DEF Took, Taken
  <2>3. v.alloc.next \in Handles
    BY <1>2, SoundNext
  <2>4. /\ w.alloc = Took(v.alloc, r) /\ w.handles \in Seq(Handles) /\ Len(w.handles) = n
        /\ w.handles[n] = v.alloc.next
        /\ \A m \in 1..(n - 1) : w.handles[m] = v.handles[m]
    BY <1>2, <1>5, <2>2, <2>3, AppendProperties
  <2>5. w \in [alloc : HP!Allocator, handles : Seq(Handles)]
    BY <1>5, <2>2, <2>4 DEF HP!Sound
  <2>6. \A m \in 1..n : IF Unset(e, m) THEN w.handles[m] \in alloc.next..(w.alloc.next - 1)
                        ELSE w.handles[m] = held[Parts[e][m]].handle
    <3>1. Unset(e, n)
      BY <1>6 DEF Unset
    <3>2. \A m \in 1..n : m = n \/ m \in 1..(n - 1)
      OBVIOUS
    <3> HIDE DEF w, r
    <3>3. w.alloc.next = v.alloc.next + 1 /\ w.handles[n] \in alloc.next..(w.alloc.next - 1)
      BY <1>2, <1>3, <2>2, <2>4
    <3>4. ASSUME NEW m \in 1..(n - 1)
          PROVE  IF Unset(e, m) THEN w.handles[m] \in alloc.next..(w.alloc.next - 1)
                 ELSE w.handles[m] = held[Parts[e][m]].handle
      <4>1. IF Unset(e, m) THEN v.handles[m] \in alloc.next..(v.alloc.next - 1)
            ELSE v.handles[m] = held[Parts[e][m]].handle
        BY <1>2
      <4>2. w.handles[m] = v.handles[m] /\ v.alloc.next <= w.alloc.next
        BY <1>3, <2>4, <3>3
      <4> QED BY <1>3, <3>3, <4>1, <4>2
    <3> QED BY <3>1, <3>2, <3>3, <3>4
  <2>7. \A m, k \in 1..n : m < k /\ Unset(e, m) /\ Unset(e, k) => w.handles[m] < w.handles[k]
    <3> HIDE DEF w, r
    <3>1. SUFFICES ASSUME NEW m \in 1..n, NEW k \in 1..n, m < k, Unset(e, m), Unset(e, k)
                   PROVE  w.handles[m] < w.handles[k]
      OBVIOUS
    <3>2. m \in 1..(n - 1) /\ (k = n \/ k \in 1..(n - 1))
      BY <3>1
    <3>3. w.handles[m] = v.handles[m] /\ v.handles[m] \in alloc.next..(v.alloc.next - 1)
      BY <1>2, <2>4, <3>1, <3>2
    <3>4. CASE k = n
      BY <1>3, <2>4, <3>3, <3>4
    <3>5. CASE k \in 1..(n - 1)
      <4>1. w.handles[k] = v.handles[k]
        BY <2>4, <3>5
      <4>2. v.handles[m] < v.handles[k]
        BY <1>2, <3>1, <3>2, <3>5
      <4> QED BY <3>3, <4>1, <4>2
    <3> QED BY <3>2, <3>4, <3>5
  <2> HIDE DEF w, r
  <2>8. HP!Sound(w.alloc) /\ alloc.next <= w.alloc.next /\ w.alloc.next <= alloc.next + n
    BY <1>1, <1>2, <1>3, <2>2, <2>4
  <2>9. AssignedOK(e, n, w)
    BY <2>4, <2>6, <2>7, <2>8 DEF AssignedOK
  <2>10. w \in AssignedState(e, n)
    BY <2>5, <2>9 DEF AssignedState
  <2> QED BY <2>10 DEF w
<1>7. CASE held[r].handle # 0
  <2>1. held[r].handle < v.alloc.next
    <3> HIDE DEF r
    <3> QED BY <1>2, <1>3, <1>4 DEF Handles
  <2>2. /\ HP!Sound(Took(v.alloc, r)) /\ Took(v.alloc, r).next = v.alloc.next
        /\ Taken(v.alloc, r) = held[r].handle
    BY <1>2, <1>4, <1>7, <2>1, ReserveKnown DEF Took, Taken
  <2>4. /\ w.alloc = Took(v.alloc, r) /\ w.handles \in Seq(Handles) /\ Len(w.handles) = n
        /\ w.handles[n] = held[r].handle
        /\ \A m \in 1..(n - 1) : w.handles[m] = v.handles[m]
    BY <1>2, <1>4, <1>5, <2>2, AppendProperties
  <2>5. w \in [alloc : HP!Allocator, handles : Seq(Handles)]
    BY <1>5, <2>2, <2>4 DEF HP!Sound
  <2>3. ~Unset(e, n) /\ held[Parts[e][n]].handle = held[r].handle
    BY <1>7 DEF Unset
  <2>6. \A m \in 1..n : IF Unset(e, m) THEN w.handles[m] \in alloc.next..(w.alloc.next - 1)
                        ELSE w.handles[m] = held[Parts[e][m]].handle
    <3>2. \A m \in 1..n : m = n \/ m \in 1..(n - 1)
      OBVIOUS
    <3> HIDE DEF w, r
    <3> QED BY <1>2, <1>3, <2>2, <2>4, <2>3, <3>2
  <2>7. \A m, k \in 1..n : m < k /\ Unset(e, m) /\ Unset(e, k) => w.handles[m] < w.handles[k]
    <3>1. \A m \in 1..n : m = n \/ m \in 1..(n - 1)
      OBVIOUS
    <3> HIDE DEF w, r
    <3> QED BY <1>2, <1>3, <2>3, <2>4, <3>1
  <2> HIDE DEF w, r
  <2>8. HP!Sound(w.alloc) /\ alloc.next <= w.alloc.next /\ w.alloc.next <= alloc.next + n
    BY <1>1, <1>2, <1>3, <2>2, <2>4
  <2>9. AssignedOK(e, n, w)
    BY <2>4, <2>6, <2>7, <2>8 DEF AssignedOK
  <2>10. w \in AssignedState(e, n)
    BY <2>5, <2>9 DEF AssignedState
  <2> QED BY <2>10 DEF w
<1> QED BY <1>6, <1>7

LEMMA AssignedIs ==
  ASSUME HP!Sound(alloc), HeldBelow, NEW e \in Entities,
         alloc.next + Len(Parts[e]) < MaxHandle
  PROVE  Assigned(e)[Len(Parts[e])] \in AssignedState(e, Len(Parts[e]))
<1> DEFINE L == Len(Parts[e])
           S == [n \in 0..L |-> AssignedState(e, n)]
           base == [alloc |-> alloc, handles |-> <<>>]
           G == [n \in 1..L |-> [v \in AssignedState(e, n - 1) |-> AssignedNext(e, n, v)]]
           Is(f) == f = [n \in 0..L |-> IF n = 0 THEN base
                          ELSE [alloc |-> Took(f[n - 1].alloc, Parts[e][n]),
                                handles |-> Append(f[n - 1].handles,
                                              Taken(f[n - 1].alloc, Parts[e][n]))]]
<1>1. L \in Nat
  BY PartsAre
<1>2. base \in AssignedState(e, 0)
  <2>1. <<>> \in Seq(Handles) /\ Len(<<>>) = 0
    OBVIOUS
  <2>2. alloc \in HP!Allocator /\ alloc.next \in Nat
    BY SoundNext DEF HP!Sound, Handles
  <2>3. AssignedOK(e, 0, base)
    BY <2>1, <2>2 DEF AssignedOK
  <2> QED BY <2>1, <2>2, <2>3 DEF AssignedState
<1>3. \A n \in 1..L : \A v \in AssignedState(e, n - 1) :
         AssignedNext(e, n, v) \in AssignedState(e, n)
  BY AssignedStep
<1>4. \A n \in 1..L : n - 1 \in 0..L /\ n \in 0..L
  BY <1>1
<1>5. PICK f : HP!Iterates(f, L, S, base, G)
  <2>1. base \in S[0] /\ \A n \in 1..L : \A v \in S[n - 1] : G[n][v] \in S[n]
    BY <1>1, <1>2, <1>3, <1>4
  <2> HIDE DEF base, S, G, L
  <2> QED BY <1>1, <2>1, HP!IterationExists, HandleSpace
<1>6. Is(f)
  <2>1. /\ f = [n \in 0..L |-> IF n = 0 THEN base ELSE G[n][f[n - 1]]]
        /\ \A n \in 0..L : f[n] \in AssignedState(e, n)
    BY <1>5 DEF HP!Iterates
  <2>2. \A n \in 1..L : G[n][f[n - 1]] = AssignedNext(e, n, f[n - 1])
    BY <1>4, <2>1
  <2>3. \A n \in 0..L : n # 0 => n \in 1..L
    OBVIOUS
  <2>4. [n \in 0..L |-> IF n = 0 THEN base ELSE G[n][f[n - 1]]]
          = [n \in 0..L |-> IF n = 0 THEN base ELSE AssignedNext(e, n, f[n - 1])]
    <3> HIDE DEF L, base, G
    <3> QED BY <2>2, <2>3
  <2>5. f = [n \in 0..L |-> IF n = 0 THEN base ELSE AssignedNext(e, n, f[n - 1])]
    BY <2>1, <2>4
  <2> QED BY <2>5 DEF AssignedNext
<1>7. Is(Assigned(e))
  <2>1. Assigned(e) = CHOOSE g : Is(g)
    BY DEF Assigned
  <2> HIDE DEF Is
  <2> QED BY <1>6, <2>1
<1>8. DEFINE g == Assigned(e)
             T == {n \in 0..L : g[n] \in AssignedState(e, n)}
<1>9. 0 \in T
  BY <1>1, <1>2, <1>7
<1>10. ASSUME NEW n \in 1..L, n - 1 \in T PROVE n \in T
  <2>1. g[n] = AssignedNext(e, n, g[n - 1])
    <3>1. n \in 0..L /\ n # 0
      OBVIOUS
    <3> QED BY <1>7, <3>1 DEF AssignedNext
  <2> QED BY <1>3, <1>4, <1>10, <2>1
<1>11. 0..L \subseteq T
  <2> HIDE DEF T, L
  <2> QED BY <1>1, <1>9, <1>10, HP!IntervalInduction, HandleSpace
<1> QED BY <1>1, <1>11
---------------------------------------------------------------------------
(* Sequences that grow at the end and are cut there.                         *)

LEMMA SeqIntro ==
  ASSUME NEW S, NEW n \in Nat, NEW f \in [1..n -> S]
  PROVE  f \in Seq(S) /\ Len(f) = n /\ DOMAIN f = 1..n
<1>1. f \in Seq(S)
  BY SeqDef
<1>2. Len(f) \in Nat /\ DOMAIN f = 1..Len(f) /\ DOMAIN f = 1..n
  BY <1>1, LenProperties
<1> QED BY <1>1, <1>2

\* t goes on where s ends.
Prefix(s, t) == Len(s) <= Len(t) /\ \A i \in 1..Len(s) : s[i] = t[i]

LEMMA PrefixTransitive ==
  ASSUME NEW S, NEW s \in Seq(S), NEW t \in Seq(S), NEW u \in Seq(S),
         Prefix(s, t), Prefix(t, u)
  PROVE  Prefix(s, u)
<1>1. Len(s) \in Nat /\ Len(t) \in Nat /\ Len(u) \in Nat
  BY LenProperties
<1> QED BY <1>1 DEF Prefix

LEMMA PrefixAppend ==
  ASSUME NEW S, NEW s \in Seq(S), NEW x \in S
  PROVE  Prefix(s, Append(s, x))
<1>1. Len(s) \in Nat /\ Len(Append(s, x)) = Len(s) + 1
      /\ \A i \in 1..Len(s) : Append(s, x)[i] = s[i]
  BY LenProperties, AppendProperties
<1> QED BY <1>1 DEF Prefix

LEMMA TruncatedIs ==
  ASSUME NEW S, NEW s \in Seq(S), NEW n \in Nat
  PROVE  /\ Truncated(s, n) \in Seq(S)
         /\ Len(Truncated(s, n)) = IF n <= Len(s) THEN n ELSE Len(s)
         /\ \A i \in 1..Len(Truncated(s, n)) : i \in 1..Len(s) /\ Truncated(s, n)[i] = s[i]
<1>1. Len(s) \in Nat /\ \A i \in 1..Len(s) : s[i] \in S
  BY LenProperties, ElementOfSeq
<1>2. CASE n <= Len(s)
  <2>1. \A i \in 1..n : s[i] \in S
    BY <1>1, <1>2
  <2>2. /\ SubSeq(s, 1, n) \in Seq(S)
        /\ Len(SubSeq(s, 1, n)) = IF 1 <= n THEN n - 1 + 1 ELSE 0
        /\ \A i \in 1..(n - 1 + 1) : SubSeq(s, 1, n)[i] = s[1 + i - 1]
    BY <2>1, SubSeqProperties
  <2>3. Len(SubSeq(s, 1, n)) = n /\ \A i \in 1..n : SubSeq(s, 1, n)[i] = s[i]
    <3>1. \A i \in 1..n : 1 + i - 1 = i
      OBVIOUS
    <3>2. n - 1 + 1 = n
      OBVIOUS
    <3> QED BY <2>2, <3>1, <3>2
  <2> QED BY <1>1, <1>2, <2>2, <2>3 DEF Truncated
<1>3. CASE ~(n <= Len(s))
  BY <1>1, <1>3 DEF Truncated
<1> QED BY <1>2, <1>3

\* What grew is cut back to what it was.
LEMMA TruncatedBack ==
  ASSUME NEW S, NEW s \in Seq(S), NEW t \in Seq(S), Prefix(s, t)
  PROVE  Truncated(t, Len(s)) = s
<1> DEFINE u == Truncated(t, Len(s))
<1>1. Len(s) \in Nat /\ Len(t) \in Nat
  BY LenProperties
<1>2. u \in Seq(S) /\ Len(u) = Len(s) /\ \A i \in 1..Len(u) : u[i] = t[i]
  BY <1>1, TruncatedIs DEF Prefix
<1>3. \A i \in 1..Len(u) : u[i] = s[i]
  BY <1>2 DEF Prefix
<1> HIDE DEF u
<1>4. u = s
  BY <1>2, <1>3, SeqEqual
<1> QED BY <1>4 DEF u

LEMMA TruncatedPrefix ==
  ASSUME NEW S, NEW s \in Seq(S), NEW n \in Nat
  PROVE  Prefix(Truncated(s, n), s)
<1>1. Len(s) \in Nat
  BY LenProperties
<1> QED BY <1>1, TruncatedIs DEF Prefix

LEMMA TruncatedAll ==
  ASSUME NEW S, NEW s \in Seq(S), NEW n \in Nat, n >= Len(s)
  PROVE  Truncated(s, n) = s
<1>1. Len(s) \in Nat
  BY LenProperties
<1> QED BY <1>1, TruncatedBack DEF Prefix, Truncated

---------------------------------------------------------------------------
(* Types.                                                                    *)

\* Whose frame it is: a record, a block for BLOCK and ENDBLK, or a raw object.
Whos == Records \cup Blocks \cup {"raw"}
Frames == [handle : Handles, of : Whos]
BlockSet == [name : Blocks, record : Handles, entities : Seq(Handles)]
Ledgers == [frames : Seq(Frames), model : Seq(Handles), blocks : Seq(BlockSet),
            active : Handles, layers : [Layers -> Handles], eed : BOOLEAN]
Checkpoints == [frames : Nat, model : Nat, lists : Seq(Nat), blocks : Nat,
                active : Handles, admission : BOOLEAN, layers : [Layers -> Handles]]
\* What a write captures: the entries of some records.
Captures == UNION {[R -> Entry] : R \in SUBSET Records}
Writes == [checkpoint : Checkpoints, captured : Captures, live : BOOLEAN]
Scopes == [checkpoint : Checkpoints, track : BOOLEAN, suppress : BOOLEAN,
           written : Nat, skips : Nat, required : BOOLEAN, captured : Seq(Captures)]
Begins == [ledger : Ledgers, held : Helds, alloc : HP!Allocator, written : Nat,
           loose : SUBSET Records]

TypeInv ==
  /\ phase \in {"tables", "content", "done"}
  /\ HP!Sound(alloc) /\ held \in Helds
  /\ ledger \in Ledgers
  /\ scopes \in Seq(Scopes)
  /\ begun \in Seq(Begins) /\ Len(begun) = Len(scopes)
  /\ lastWrite \in Writes /\ ~lastWrite.checkpoint.admission
  /\ written \in Nat /\ skips \in Nat /\ required \in BOOLEAN
  /\ result \in {"none", "published", "refused"} /\ calls \in Nat
  /\ undo \in [frames : SUBSET Handles, overtaken : BOOLEAN]

LEMMA LedgerParts ==
  ASSUME NEW l \in Ledgers
  PROVE  /\ l = [frames |-> l.frames, model |-> l.model, blocks |-> l.blocks,
                 active |-> l.active, layers |-> l.layers, eed |-> l.eed]
         /\ l.frames \in Seq(Frames) /\ Len(l.frames) \in Nat
         /\ DOMAIN l.frames = 1..Len(l.frames)
         /\ \A i \in 1..Len(l.frames) : l.frames[i] \in Frames
         /\ l.model \in Seq(Handles) /\ Len(l.model) \in Nat
         /\ DOMAIN l.model = 1..Len(l.model)
         /\ l.blocks \in Seq(BlockSet) /\ Len(l.blocks) \in Nat
         /\ DOMAIN l.blocks = 1..Len(l.blocks)
         /\ \A b \in 1..Len(l.blocks) :
              /\ l.blocks[b] \in BlockSet
              /\ l.blocks[b] = Block(l.blocks[b].name, l.blocks[b].record,
                                     l.blocks[b].entities)
              /\ l.blocks[b].entities \in Seq(Handles)
              /\ Len(l.blocks[b].entities) \in Nat
              /\ DOMAIN l.blocks[b].entities = 1..Len(l.blocks[b].entities)
         /\ l.active \in Handles /\ l.layers \in [Layers -> Handles] /\ l.eed \in BOOLEAN
<1>1. l = [frames |-> l.frames, model |-> l.model, blocks |-> l.blocks,
           active |-> l.active, layers |-> l.layers, eed |-> l.eed]
      /\ l.frames \in Seq(Frames) /\ l.model \in Seq(Handles) /\ l.blocks \in Seq(BlockSet)
      /\ l.active \in Handles /\ l.layers \in [Layers -> Handles] /\ l.eed \in BOOLEAN
  BY DEF Ledgers
<1>2. /\ Len(l.frames) \in Nat /\ DOMAIN l.frames = 1..Len(l.frames)
      /\ \A i \in 1..Len(l.frames) : l.frames[i] \in Frames
  BY <1>1, LenProperties, ElementOfSeq
<1>3. Len(l.model) \in Nat /\ DOMAIN l.model = 1..Len(l.model)
  BY <1>1, LenProperties
<1>4. /\ Len(l.blocks) \in Nat /\ DOMAIN l.blocks = 1..Len(l.blocks)
      /\ \A b \in 1..Len(l.blocks) : l.blocks[b] \in BlockSet
  BY <1>1, LenProperties, ElementOfSeq
<1>5. ASSUME NEW b \in 1..Len(l.blocks)
      PROVE  /\ l.blocks[b] = Block(l.blocks[b].name, l.blocks[b].record,
                                    l.blocks[b].entities)
             /\ l.blocks[b].entities \in Seq(Handles)
             /\ Len(l.blocks[b].entities) \in Nat
             /\ DOMAIN l.blocks[b].entities = 1..Len(l.blocks[b].entities)
  <2>1. l.blocks[b] = Block(l.blocks[b].name, l.blocks[b].record, l.blocks[b].entities)
        /\ l.blocks[b].entities \in Seq(Handles)
    BY <1>4 DEF BlockSet, Block
  <2> QED BY <2>1, LenProperties
<1> QED BY <1>1, <1>2, <1>3, <1>4, <1>5

\* The lists have the same owners in a and b, and b's go on where a's end.
Continues(a, b) ==
  /\ Prefix(a.frames, b.frames) /\ Prefix(a.model, b.model)
  /\ Len(a.blocks) = Len(b.blocks)
  /\ \A i \in 1..Len(a.blocks) : /\ a.blocks[i].name = b.blocks[i].name
                                 /\ a.blocks[i].record = b.blocks[i].record
                                 /\ Prefix(a.blocks[i].entities, b.blocks[i].entities)

LEMMA ContinuesTransitive ==
  ASSUME NEW a \in Ledgers, NEW b \in Ledgers, NEW c \in Ledgers,
         Continues(a, b), Continues(b, c)
  PROVE  Continues(a, c)
<1>1. Prefix(a.frames, c.frames) /\ Prefix(a.model, c.model)
  BY LedgerParts, PrefixTransitive DEF Continues
<1>2. Len(a.blocks) = Len(c.blocks)
  BY DEF Continues
<1>3. ASSUME NEW i \in 1..Len(a.blocks)
      PROVE  /\ a.blocks[i].name = c.blocks[i].name /\ a.blocks[i].record = c.blocks[i].record
             /\ Prefix(a.blocks[i].entities, c.blocks[i].entities)
  <2>1. i \in 1..Len(b.blocks) /\ i \in 1..Len(c.blocks)
    BY DEF Continues
  <2>2. /\ a.blocks[i].entities \in Seq(Handles) /\ b.blocks[i].entities \in Seq(Handles)
        /\ c.blocks[i].entities \in Seq(Handles)
    BY <2>1, LedgerParts
  <2>3. Prefix(a.blocks[i].entities, c.blocks[i].entities)
    BY <2>1, <2>2, PrefixTransitive DEF Continues
  <2> QED BY <2>1, <2>3 DEF Continues
<1> QED BY <1>1, <1>2, <1>3 DEF Continues

LEMMA ContinuesItself ==
  ASSUME NEW a \in Ledgers PROVE Continues(a, a)
BY LedgerParts DEF Continues, Prefix

---------------------------------------------------------------------------
(* Checkpoints.                                                              *)

LEMMA CheckpointIs ==
  ASSUME NEW l \in Ledgers, NEW admission \in BOOLEAN
  PROVE  /\ Checkpoint(l, admission) \in Checkpoints
         /\ Len(Checkpoint(l, admission).lists) = Len(l.blocks)
<1>1. Len(l.blocks) \in Nat /\ DOMAIN l.blocks = 1..Len(l.blocks)
      /\ \A i \in 1..Len(l.blocks) : Len(l.blocks[i].entities) \in Nat
  BY LedgerParts
<1>2. [i \in DOMAIN l.blocks |-> Len(l.blocks[i].entities)] \in Seq(Nat)
      /\ Len([i \in DOMAIN l.blocks |-> Len(l.blocks[i].entities)]) = Len(l.blocks)
  BY <1>1, SeqIntro
<1> QED BY <1>2, LedgerParts DEF Checkpoint, Checkpoints

\* The blocks of l with their lists cut to c, before the blocks themselves are.
Cut(l, c) == [i \in DOMAIN l.blocks |->
                Block(l.blocks[i].name, l.blocks[i].record,
                      IF Len(c.lists) = Len(l.blocks)
                      THEN Truncated(l.blocks[i].entities, c.lists[i])
                      ELSE l.blocks[i].entities)]

LEMMA CutIs ==
  ASSUME NEW l \in Ledgers, NEW c \in Checkpoints
  PROVE  /\ Cut(l, c) \in Seq(BlockSet) /\ Len(Cut(l, c)) = Len(l.blocks)
         /\ \A i \in 1..Len(l.blocks) :
              /\ Cut(l, c)[i].name = l.blocks[i].name
              /\ Cut(l, c)[i].record = l.blocks[i].record
              /\ Cut(l, c)[i].entities = IF Len(c.lists) = Len(l.blocks)
                                         THEN Truncated(l.blocks[i].entities, c.lists[i])
                                         ELSE l.blocks[i].entities
              /\ Prefix(Cut(l, c)[i].entities, l.blocks[i].entities)
<1>1. Len(l.blocks) \in Nat /\ DOMAIN l.blocks = 1..Len(l.blocks)
  BY LedgerParts
<1>2. ASSUME NEW i \in 1..Len(l.blocks)
      PROVE  /\ Cut(l, c)[i] \in BlockSet
             /\ Cut(l, c)[i].name = l.blocks[i].name
             /\ Cut(l, c)[i].record = l.blocks[i].record
             /\ Cut(l, c)[i].entities = IF Len(c.lists) = Len(l.blocks)
                                        THEN Truncated(l.blocks[i].entities, c.lists[i])
                                        ELSE l.blocks[i].entities
             /\ Prefix(Cut(l, c)[i].entities, l.blocks[i].entities)
  <2> DEFINE s == l.blocks[i].entities
             t == IF Len(c.lists) = Len(l.blocks) THEN Truncated(s, c.lists[i]) ELSE s
  <2>1. s \in Seq(Handles) /\ Len(s) \in Nat /\ l.blocks[i] \in BlockSet
    BY LedgerParts
  <2>2. Len(c.lists) = Len(l.blocks) => c.lists[i] \in Nat
    BY ElementOfSeq DEF Checkpoints
  <2>3. t \in Seq(Handles) /\ Prefix(t, s)
    <3>1. CASE Len(c.lists) = Len(l.blocks)
      BY <2>1, <2>2, <3>1, TruncatedIs, TruncatedPrefix
    <3>2. CASE Len(c.lists) # Len(l.blocks)
      BY <2>1, <3>2 DEF Prefix
    <3> QED BY <3>1, <3>2
  <2>4. Cut(l, c)[i] = Block(l.blocks[i].name, l.blocks[i].record, t)
    BY <1>1 DEF Cut
  <2> HIDE DEF t
  <2>5. /\ Cut(l, c)[i] \in BlockSet /\ Cut(l, c)[i].name = l.blocks[i].name
        /\ Cut(l, c)[i].record = l.blocks[i].record /\ Cut(l, c)[i].entities = t
    BY <2>1, <2>3, <2>4 DEF Block, BlockSet
  <2> QED BY <2>3, <2>5 DEF t
<1>3. Cut(l, c) \in [1..Len(l.blocks) -> BlockSet]
  BY <1>1, <1>2 DEF Cut
<1>4. Cut(l, c) \in Seq(BlockSet) /\ Len(Cut(l, c)) = Len(l.blocks)
  BY <1>1, <1>3, SeqIntro
<1> QED BY <1>2, <1>4

LEMMA RolledBackIs ==
  ASSUME NEW l \in Ledgers, NEW c \in Checkpoints
  PROVE  /\ RolledBack(l, c) \in Ledgers
         /\ RolledBack(l, c).frames = Truncated(l.frames, c.frames)
         /\ RolledBack(l, c).model = Truncated(l.model, c.model)
         /\ RolledBack(l, c).blocks = Truncated(Cut(l, c), c.blocks)
         /\ RolledBack(l, c).active = c.active
         /\ RolledBack(l, c).layers = IF c.admission THEN c.layers ELSE l.layers
         /\ RolledBack(l, c).eed = l.eed
<1> DEFINE r == [frames |-> Truncated(l.frames, c.frames),
                 model |-> Truncated(l.model, c.model),
                 blocks |-> Truncated(Cut(l, c), c.blocks),
                 active |-> c.active,
                 layers |-> IF c.admission THEN c.layers ELSE l.layers,
                 eed |-> l.eed]
<1>1. RolledBack(l, c) = r
  BY DEF RolledBack, Cut
<1>2. /\ c.frames \in Nat /\ c.model \in Nat /\ c.blocks \in Nat /\ c.active \in Handles
      /\ c.layers \in [Layers -> Handles]
  BY DEF Checkpoints
<1>3. /\ Truncated(l.frames, c.frames) \in Seq(Frames)
      /\ Truncated(l.model, c.model) \in Seq(Handles)
  BY <1>2, LedgerParts, TruncatedIs
<1>4. Truncated(Cut(l, c), c.blocks) \in Seq(BlockSet)
  BY <1>2, CutIs, TruncatedIs
<1>5. r \in Ledgers
  BY <1>2, <1>3, <1>4, LedgerParts DEF Ledgers
<1> QED BY <1>1, <1>5

\* What goes on from a ledger is rolled back to it.
LEMMA RollsBackTo ==
  ASSUME NEW a \in Ledgers, NEW b \in Ledgers, NEW admission \in BOOLEAN, Continues(a, b)
  PROVE  RolledBack(b, Checkpoint(a, admission)) =
           [frames |-> a.frames, model |-> a.model, blocks |-> a.blocks, active |-> a.active,
            layers |-> IF admission THEN a.layers ELSE b.layers, eed |-> b.eed]
<1> DEFINE c == Checkpoint(a, admission)
<1>1. /\ c \in Checkpoints /\ c.frames = Len(a.frames) /\ c.model = Len(a.model)
      /\ c.blocks = Len(a.blocks) /\ c.active = a.active /\ c.admission = admission
      /\ c.layers = a.layers /\ Len(c.lists) = Len(a.blocks)
      /\ c.lists = [i \in DOMAIN a.blocks |-> Len(a.blocks[i].entities)]
  BY CheckpointIs DEF Checkpoint
<1> HIDE DEF c
<1>2. /\ Truncated(b.frames, c.frames) = a.frames
      /\ Truncated(b.model, c.model) = a.model
  BY <1>1, LedgerParts, TruncatedBack DEF Continues
<1>3. Len(a.blocks) = Len(b.blocks) /\ Len(a.blocks) \in Nat
      /\ DOMAIN a.blocks = 1..Len(a.blocks)
  BY LedgerParts DEF Continues
<1>4. ASSUME NEW i \in 1..Len(b.blocks) PROVE Cut(b, c)[i] = a.blocks[i]
  <2>1. a.blocks[i].entities \in Seq(Handles) /\ b.blocks[i].entities \in Seq(Handles)
        /\ Prefix(a.blocks[i].entities, b.blocks[i].entities)
        /\ a.blocks[i].name = b.blocks[i].name /\ a.blocks[i].record = b.blocks[i].record
    BY <1>3, LedgerParts DEF Continues
  <2>2. c.lists[i] = Len(a.blocks[i].entities) /\ Len(c.lists) = Len(b.blocks)
    BY <1>1, <1>3
  <2>3. Truncated(b.blocks[i].entities, c.lists[i]) = a.blocks[i].entities
    BY <2>1, <2>2, TruncatedBack
  <2>4. Cut(b, c)[i] = Block(b.blocks[i].name, b.blocks[i].record,
                             Truncated(b.blocks[i].entities, c.lists[i]))
    BY <2>2, LedgerParts DEF Cut
  <2>5. Cut(b, c)[i] = Block(a.blocks[i].name, a.blocks[i].record, a.blocks[i].entities)
    BY <2>1, <2>3, <2>4
  <2> QED BY <1>3, <2>5, LedgerParts
<1>5. Cut(b, c) = a.blocks
  <2>1. Cut(b, c) \in Seq(BlockSet) /\ Len(Cut(b, c)) = Len(b.blocks)
    BY <1>1, CutIs
  <2> QED BY <1>3, <1>4, <2>1, LedgerParts, SeqEqual
<1>6. Truncated(Cut(b, c), c.blocks) = a.blocks
  <2>1. a.blocks \in Seq(BlockSet) /\ Len(a.blocks) >= Len(a.blocks)
    BY <1>3, LedgerParts
  <2>2. Truncated(a.blocks, Len(a.blocks)) = a.blocks
    BY <1>3, <2>1, TruncatedAll
  <2> QED BY <1>1, <1>5, <2>2
<1>7. RolledBack(b, c) = [frames |-> Truncated(b.frames, c.frames),
                 model |-> Truncated(b.model, c.model),
                 blocks |-> Truncated(Cut(b, c), c.blocks),
                 active |-> c.active,
                 layers |-> IF c.admission THEN c.layers ELSE b.layers,
                 eed |-> b.eed]
  BY DEF RolledBack, Cut
<1>8. RolledBack(b, c) = [frames |-> a.frames, model |-> a.model, blocks |-> a.blocks,
            active |-> a.active,
            layers |-> IF admission THEN a.layers ELSE b.layers, eed |-> b.eed]
  BY <1>1, <1>2, <1>6, <1>7
<1> QED BY <1>8 DEF c

---------------------------------------------------------------------------
(* Frames and lists.                                                         *)

LEMMA FramingIs ==
  ASSUME NEW l \in Ledgers, NEW h \in Handles, NEW w \in Whos
  PROVE  LET m == Framing(l, h, w)
         IN /\ m \in Ledgers /\ Continues(l, m)
            /\ m.frames = Append(l.frames, [handle |-> h, of |-> w])
            /\ m.model = l.model /\ m.blocks = l.blocks /\ m.active = l.active
            /\ m.layers = l.layers /\ m.eed = l.eed
<1> DEFINE f == [handle |-> h, of |-> w]
           m == Framing(l, h, w)
<1>1. f \in Frames
  BY DEF Frames
<1>2. Append(l.frames, f) \in Seq(Frames) /\ Prefix(l.frames, Append(l.frames, f))
  BY <1>1, LedgerParts, AppendProperties, PrefixAppend
<1>3. m = [frames |-> Append(l.frames, f), model |-> l.model, blocks |-> l.blocks,
           active |-> l.active, layers |-> l.layers, eed |-> l.eed]
  <2>1. l = [frames |-> l.frames, model |-> l.model, blocks |-> l.blocks,
             active |-> l.active, layers |-> l.layers, eed |-> l.eed]
    BY LedgerParts
  <2>2. m = [l EXCEPT !.frames = Append(l.frames, f)]
    BY DEF Framing
  <2> HIDE DEF m, f
  <2> QED BY <2>1, <2>2
<1>4. m \in Ledgers
  BY <1>2, <1>3, LedgerParts DEF Ledgers
<1>5. Continues(l, m)
  BY <1>2, <1>3, LedgerParts DEF Continues, Prefix
<1> QED BY <1>3, <1>4, <1>5

LEMMA RecordingIs ==
  ASSUME NEW l \in Ledgers, NEW h \in Handles, NEW list
  PROVE  LET m == Recording(l, h, list)
         IN /\ m \in Ledgers /\ Continues(l, m)
            /\ m.frames = l.frames /\ m.active = l.active
            /\ m.layers = l.layers /\ m.eed = l.eed /\ Len(m.blocks) = Len(l.blocks)
            /\ m.model = IF list = 0 THEN Append(l.model, h) ELSE l.model
            /\ \A i \in 1..Len(l.blocks) :
                 m.blocks[i].entities = IF list # 0 /\ l.blocks[i].record = list
                                        THEN Append(l.blocks[i].entities, h)
                                        ELSE l.blocks[i].entities
<1> DEFINE m == Recording(l, h, list)
           bs == [i \in DOMAIN l.blocks |->
                    IF l.blocks[i].record = list
                    THEN Block(l.blocks[i].name, l.blocks[i].record,
                               Append(l.blocks[i].entities, h))
                    ELSE l.blocks[i]]
<1>1. CASE list = 0
  <2>1. Append(l.model, h) \in Seq(Handles) /\ Prefix(l.model, Append(l.model, h))
    BY LedgerParts, AppendProperties, PrefixAppend
  <2>2. m = [frames |-> l.frames, model |-> Append(l.model, h), blocks |-> l.blocks,
             active |-> l.active, layers |-> l.layers, eed |-> l.eed]
    <3>1. l = [frames |-> l.frames, model |-> l.model, blocks |-> l.blocks,
               active |-> l.active, layers |-> l.layers, eed |-> l.eed]
      BY LedgerParts
    <3> QED BY <1>1, <3>1 DEF Recording
  <2>3. m \in Ledgers
    BY <2>1, <2>2, LedgerParts DEF Ledgers
  <2>4. Continues(l, m)
    BY <2>1, <2>2, LedgerParts DEF Continues, Prefix
  <2> QED BY <1>1, <2>2, <2>3, <2>4
<1>2. CASE list # 0
  <2>1. Len(l.blocks) \in Nat /\ DOMAIN l.blocks = 1..Len(l.blocks)
    BY LedgerParts
  <2>2. ASSUME NEW i \in 1..Len(l.blocks)
        PROVE  /\ bs[i] \in BlockSet
               /\ bs[i].name = l.blocks[i].name /\ bs[i].record = l.blocks[i].record
               /\ bs[i].entities = IF l.blocks[i].record = list
                                   THEN Append(l.blocks[i].entities, h)
                                   ELSE l.blocks[i].entities
               /\ Prefix(l.blocks[i].entities, bs[i].entities)
    <3>1. l.blocks[i] \in BlockSet /\ l.blocks[i].entities \in Seq(Handles)
          /\ Len(l.blocks[i].entities) \in Nat
      BY LedgerParts
    <3>2. Append(l.blocks[i].entities, h) \in Seq(Handles)
          /\ Prefix(l.blocks[i].entities, Append(l.blocks[i].entities, h))
      BY <3>1, AppendProperties, PrefixAppend
    <3>3. bs[i] = IF l.blocks[i].record = list
                  THEN Block(l.blocks[i].name, l.blocks[i].record,
                             Append(l.blocks[i].entities, h))
                  ELSE l.blocks[i]
      BY <2>1
    <3> HIDE DEF bs
    <3>4. CASE l.blocks[i].record = list
      BY <3>1, <3>2, <3>3, <3>4 DEF Block, BlockSet
    <3>5. CASE l.blocks[i].record # list
      BY <3>1, <3>3, <3>5 DEF Prefix
    <3> QED BY <3>4, <3>5
  <2>3. bs \in Seq(BlockSet) /\ Len(bs) = Len(l.blocks)
    <3>1. bs \in [1..Len(l.blocks) -> BlockSet]
      BY <2>1, <2>2
    <3> HIDE DEF bs
    <3> QED BY <2>1, <3>1, SeqIntro
  <2>4. m = [frames |-> l.frames, model |-> l.model, blocks |-> bs,
             active |-> l.active, layers |-> l.layers, eed |-> l.eed]
    <3>1. l = [frames |-> l.frames, model |-> l.model, blocks |-> l.blocks,
               active |-> l.active, layers |-> l.layers, eed |-> l.eed]
      BY LedgerParts
    <3> QED BY <1>2, <3>1 DEF Recording
  <2> HIDE DEF bs, m
  <2>5. m \in Ledgers
    BY <2>3, <2>4, LedgerParts DEF Ledgers
  <2>6. Continues(l, m)
    BY <2>2, <2>3, <2>4, LedgerParts DEF Continues, Prefix
  <2>7. \A i \in 1..Len(l.blocks) :
                 m.blocks[i].entities = IF list # 0 /\ l.blocks[i].record = list
                                        THEN Append(l.blocks[i].entities, h)
                                        ELSE l.blocks[i].entities
    BY <1>2, <2>2, <2>4
  <2>8. /\ m.frames = l.frames /\ m.active = l.active
        /\ m.layers = l.layers /\ m.eed = l.eed /\ Len(m.blocks) = Len(l.blocks)
        /\ m.model = IF list = 0 THEN Append(l.model, h) ELSE l.model
    BY <1>2, <2>3, <2>4
  <2> QED BY <2>5, <2>6, <2>7, <2>8 DEF m
<1> QED BY <1>1, <1>2

\* t is s with the first n of xs at its end.
Grown(s, t, xs, n) ==
  /\ Len(t) = Len(s) + n /\ Prefix(s, t)
  /\ \A m \in 1..n : t[Len(s) + m] = xs[m]

LEMMA GrownOne ==
  ASSUME NEW S, NEW s \in Seq(S), NEW t \in Seq(S), NEW n \in Nat \ {0}, NEW xs,
         Grown(s, t, xs, n - 1), xs[n] \in S
  PROVE  Grown(s, Append(t, xs[n]), xs, n)
<1> DEFINE u == Append(t, xs[n])
<1>1. Len(s) \in Nat /\ Len(t) = Len(s) + (n - 1)
  BY LenProperties DEF Grown
<1>2. /\ Len(u) = Len(t) + 1 /\ \A i \in 1..Len(t) : u[i] = t[i]
      /\ u[Len(t) + 1] = xs[n]
  BY AppendProperties
<1> HIDE DEF u
<1>3. Len(u) = Len(s) + n /\ Prefix(s, u)
  BY <1>1, <1>2 DEF Grown, Prefix
<1>4. ASSUME NEW m \in 1..n PROVE u[Len(s) + m] = xs[m]
  <2>1. CASE m = n
    <3>1. Len(s) + m = Len(t) + 1
      BY <1>1, <2>1
    <3> QED BY <1>2, <2>1, <3>1
  <2>2. CASE m # n
    <3>1. m \in 1..(n - 1) /\ Len(s) + m \in 1..Len(t)
      BY <1>1, <2>2
    <3> QED BY <1>2, <3>1 DEF Grown
  <2> QED BY <2>1, <2>2
<1>5. Grown(s, u, xs, n)
  BY <1>3, <1>4 DEF Grown
<1> QED BY <1>5 DEF u

\* The frames of the parts of e.
FramesOf(e, handles) ==
  [n \in 1..Len(handles) |-> [handle |-> handles[n], of |-> Parts[e][n]]]

\* After the frames of n parts: they follow the frames before, and when e goes
\* where its children go, all of them follow the list they belong to.
StagedOK(e, handles, n, l) ==
  /\ l \in Ledgers /\ Continues(ledger, l)
  /\ Grown(ledger.frames, l.frames, FramesOf(e, handles), n)
  /\ l.active = ledger.active /\ l.layers = ledger.layers /\ l.eed = ledger.eed
  /\ OwnerOf(e) = ledger.active =>
       /\ IF ledger.active = 0 THEN Grown(ledger.model, l.model, handles, n)
          ELSE l.model = ledger.model
       /\ \A b \in 1..Len(ledger.blocks) :
            IF ledger.active # 0 /\ ledger.blocks[b].record = ledger.active
            THEN Grown(ledger.blocks[b].entities, l.blocks[b].entities, handles, n)
            ELSE l.blocks[b].entities = ledger.blocks[b].entities
StagedState(e, handles, n) == {l \in Ledgers : StagedOK(e, handles, n, l)}
StagedNext(e, handles, n, l) ==
  Recording(Framing(l, handles[n], Parts[e][n]), handles[n], ListFor(e, n))

LEMMA StagedStep ==
  ASSUME ledger \in Ledgers, NEW e \in Entities, NEW handles \in Seq(Handles),
         Len(handles) = Len(Parts[e]), NEW n \in 1..Len(handles),
         NEW l, StagedOK(e, handles, n - 1, l)
  PROVE  StagedOK(e, handles, n, StagedNext(e, handles, n, l))
<1> DEFINE h == handles[n]
           w == Parts[e][n]
           k == Framing(l, h, w)
           m == Recording(k, h, ListFor(e, n))
<1>1. /\ Len(handles) \in Nat /\ DOMAIN handles = 1..Len(handles) /\ h \in Handles
      /\ n \in Nat \ {0}
  BY LenProperties, ElementOfSeq
<1>2. w \in Whos
  BY PartsAre DEF Whos
<1>3. l \in Ledgers /\ Continues(ledger, l)
      /\ l.active = ledger.active /\ l.layers = ledger.layers /\ l.eed = ledger.eed
  BY DEF StagedOK
<1>4. /\ k \in Ledgers /\ Continues(l, k)
      /\ k.frames = Append(l.frames, [handle |-> h, of |-> w])
      /\ k.model = l.model /\ k.blocks = l.blocks /\ k.active = l.active
      /\ k.layers = l.layers /\ k.eed = l.eed
  BY <1>1, <1>2, <1>3, FramingIs
<1> HIDE DEF k
<1>5. /\ m \in Ledgers /\ Continues(k, m)
      /\ m.frames = k.frames /\ m.active = k.active
      /\ m.layers = k.layers /\ m.eed = k.eed /\ Len(m.blocks) = Len(k.blocks)
      /\ m.model = IF ListFor(e, n) = 0 THEN Append(k.model, h) ELSE k.model
      /\ \A i \in 1..Len(k.blocks) :
           m.blocks[i].entities = IF ListFor(e, n) # 0 /\ k.blocks[i].record = ListFor(e, n)
                                  THEN Append(k.blocks[i].entities, h)
                                  ELSE k.blocks[i].entities
  <2>1. k \in Ledgers /\ h \in Handles
    BY <1>1, <1>4
  <2> QED BY <2>1, RecordingIs
<1> HIDE DEF m
<1>6. Continues(ledger, m)
  BY <1>3, <1>4, <1>5, ContinuesTransitive
<1>7. Grown(ledger.frames, m.frames, FramesOf(e, handles), n)
  <2>1. FramesOf(e, handles)[n] = [handle |-> h, of |-> w]
        /\ [handle |-> h, of |-> w] \in Frames
    BY <1>1, <1>2 DEF FramesOf, Frames
  <2>2. Grown(ledger.frames, l.frames, FramesOf(e, handles), n - 1)
        /\ ledger.frames \in Seq(Frames) /\ l.frames \in Seq(Frames)
    BY <1>3, LedgerParts DEF StagedOK
  <2>3. m.frames = Append(l.frames, FramesOf(e, handles)[n])
    BY <1>4, <1>5, <2>1
  <2> QED BY <1>1, <2>1, <2>2, <2>3, GrownOne
<1>8. ASSUME OwnerOf(e) = ledger.active
      PROVE  /\ IF ledger.active = 0 THEN Grown(ledger.model, m.model, handles, n)
                ELSE m.model = ledger.model
             /\ \A b \in 1..Len(ledger.blocks) :
                  IF ledger.active # 0 /\ ledger.blocks[b].record = ledger.active
                  THEN Grown(ledger.blocks[b].entities, m.blocks[b].entities, handles, n)
                  ELSE m.blocks[b].entities = ledger.blocks[b].entities
  <2>1. ListFor(e, n) = ledger.active
    BY <1>8 DEF ListFor
  <2>2. IF ledger.active = 0 THEN Grown(ledger.model, l.model, handles, n - 1)
        ELSE l.model = ledger.model
    BY <1>8 DEF StagedOK
  <2>3. IF ledger.active = 0 THEN Grown(ledger.model, m.model, handles, n)
        ELSE m.model = ledger.model
    <3>1. CASE ledger.active = 0
      <4>1. m.model = Append(l.model, handles[n])
        BY <1>4, <1>5, <2>1, <3>1
      <4>2. /\ ledger.model \in Seq(Handles) /\ l.model \in Seq(Handles)
            /\ handles[n] \in Handles
        BY <1>1, <1>3, LedgerParts
      <4>3. Grown(ledger.model, l.model, handles, n - 1) /\ n \in Nat \ {0}
        BY <2>2, <3>1
      <4> QED BY <3>1, <4>1, <4>2, <4>3, GrownOne
    <3>2. CASE ledger.active # 0
      BY <1>4, <1>5, <2>1, <2>2, <3>2
    <3> QED BY <3>1, <3>2
  <2>4. ASSUME NEW b \in 1..Len(ledger.blocks)
        PROVE  IF ledger.active # 0 /\ ledger.blocks[b].record = ledger.active
               THEN Grown(ledger.blocks[b].entities, m.blocks[b].entities, handles, n)
               ELSE m.blocks[b].entities = ledger.blocks[b].entities
    <3>1. b \in 1..Len(l.blocks) /\ b \in 1..Len(k.blocks)
          /\ l.blocks[b].record = ledger.blocks[b].record
          /\ k.blocks[b].record = ledger.blocks[b].record
          /\ k.blocks[b].entities = l.blocks[b].entities
      BY <1>3, <1>4 DEF Continues
    <3>2. IF ledger.active # 0 /\ ledger.blocks[b].record = ledger.active
          THEN Grown(ledger.blocks[b].entities, l.blocks[b].entities, handles, n - 1)
          ELSE l.blocks[b].entities = ledger.blocks[b].entities
      BY <1>8 DEF StagedOK
    <3>3. m.blocks[b].entities =
            IF ledger.active # 0 /\ ledger.blocks[b].record = ledger.active
            THEN Append(l.blocks[b].entities, h) ELSE l.blocks[b].entities
      BY <1>5, <2>1, <3>1
    <3>4. ledger.blocks[b].entities \in Seq(Handles) /\ l.blocks[b].entities \in Seq(Handles)
      BY <1>3, <3>1, LedgerParts
    <3>5. CASE ledger.active # 0 /\ ledger.blocks[b].record = ledger.active
      BY <1>1, <3>2, <3>3, <3>4, <3>5, GrownOne
    <3>6. CASE ~(ledger.active # 0 /\ ledger.blocks[b].record = ledger.active)
      BY <3>2, <3>3, <3>6
    <3> QED BY <3>5, <3>6
  <2> QED BY <2>3, <2>4
<1>9. StagedOK(e, handles, n, m)
  BY <1>3, <1>4, <1>5, <1>6, <1>7, <1>8 DEF StagedOK
<1>10. StagedNext(e, handles, n, l) = m
  BY DEF StagedNext, k, m
<1> QED BY <1>9, <1>10

LEMMA StagedIs ==
  ASSUME ledger \in Ledgers, NEW e \in Entities, NEW handles \in Seq(Handles),
         Len(handles) = Len(Parts[e])
  PROVE  \A n \in 0..Len(handles) : StagedOK(e, handles, n, Staged(e, handles)[n])
<1> DEFINE L == Len(handles)
           S == [n \in 0..L |-> StagedState(e, handles, n)]
           G == [n \in 1..L |-> [l \in StagedState(e, handles, n - 1) |->
                                   StagedNext(e, handles, n, l)]]
           Is(f) == f = [n \in 0..Len(handles) |-> IF n = 0 THEN ledger
                          ELSE Recording(Framing(f[n - 1], handles[n], Parts[e][n]),
                                         handles[n], ListFor(e, n))]
<1>1. L \in Nat
  BY LenProperties
<1>2. ledger \in StagedState(e, handles, 0)
  <2>1. StagedOK(e, handles, 0, ledger)
    BY ContinuesItself, LedgerParts DEF StagedOK, Grown, Prefix
  <2> QED BY <2>1 DEF StagedState
<1>3. \A n \in 1..L : \A l \in StagedState(e, handles, n - 1) :
         StagedNext(e, handles, n, l) \in StagedState(e, handles, n)
  <2>1. ASSUME NEW n \in 1..L, NEW l \in StagedState(e, handles, n - 1)
        PROVE  StagedNext(e, handles, n, l) \in StagedState(e, handles, n)
    <3>1. StagedOK(e, handles, n, StagedNext(e, handles, n, l))
      BY StagedStep DEF StagedState
    <3> QED BY <3>1 DEF StagedState, StagedOK
  <2> QED BY <2>1
<1>4. \A n \in 1..L : n - 1 \in 0..L /\ n \in 0..L
  BY <1>1
<1>5. PICK f : HP!Iterates(f, L, S, ledger, G)
  <2>1. ledger \in S[0] /\ \A n \in 1..L : \A l \in S[n - 1] : G[n][l] \in S[n]
    BY <1>1, <1>2, <1>3, <1>4
  <2> HIDE DEF S, G, L
  <2> QED BY <1>1, <2>1, HP!IterationExists, HandleSpace
<1>6. Is(f)
  <2>1. /\ f = [n \in 0..L |-> IF n = 0 THEN ledger ELSE G[n][f[n - 1]]]
        /\ \A n \in 0..L : f[n] \in StagedState(e, handles, n)
    BY <1>5 DEF HP!Iterates
  <2>2. \A n \in 1..L : G[n][f[n - 1]] = StagedNext(e, handles, n, f[n - 1])
    BY <1>4, <2>1
  <2>3. \A n \in 0..L : n # 0 => n \in 1..L
    OBVIOUS
  <2>4. [n \in 0..L |-> IF n = 0 THEN ledger ELSE G[n][f[n - 1]]]
          = [n \in 0..L |-> IF n = 0 THEN ledger ELSE StagedNext(e, handles, n, f[n - 1])]
    <3> HIDE DEF L, G
    <3> QED BY <2>2, <2>3
  <2>5. f = [n \in 0..L |-> IF n = 0 THEN ledger ELSE StagedNext(e, handles, n, f[n - 1])]
    BY <2>1, <2>4
  <2> QED BY <2>5 DEF StagedNext
<1>7. Is(Staged(e, handles))
  <2>1. Staged(e, handles) = CHOOSE g : Is(g)
    BY DEF Staged
  <2> HIDE DEF Is
  <2> QED BY <1>6, <2>1
<1>8. DEFINE g == Staged(e, handles)
             T == {n \in 0..L : g[n] \in StagedState(e, handles, n)}
<1>9. 0 \in T
  BY <1>1, <1>2, <1>7
<1>10. ASSUME NEW n \in 1..L, n - 1 \in T PROVE n \in T
  <2>1. g[n] = StagedNext(e, handles, n, g[n - 1])
    <3>1. n \in 0..L /\ n # 0
      OBVIOUS
    <3> QED BY <1>7, <3>1 DEF StagedNext
  <2> QED BY <1>3, <1>4, <1>10, <2>1
<1>11. 0..L \subseteq T
  <2> HIDE DEF T, L
  <2> QED BY <1>1, <1>9, <1>10, HP!IntervalInduction, HandleSpace
<1> QED BY <1>1, <1>11 DEF StagedState

---------------------------------------------------------------------------
(* Who carries a handle: the callers' records now, and what would come back  *)
(* to them; the layers; the frames.                                          *)

HeldBears(hs, x, h) == x \in Records /\ hs[x].handle = h
CaptureBears(c, x, h) == x \in DOMAIN c /\ c[x].handle = h
CapturesBear(cs, x, h) == \E j \in 1..Len(cs) : CaptureBears(cs[j], x, h)
LayersBear(ls, x, h) == x \in Layers /\ ls[x] = h
ScopesBear(ss, x, h) == \E i \in 1..Len(ss) : \/ CapturesBear(ss[i].captured, x, h)
                                              \/ LayersBear(ss[i].checkpoint.layers, x, h)
FramesBear(fs, x, h) == \E i \in 1..Len(fs) : fs[i] = [handle |-> h, of |-> x]
Bears(x, h) ==
  \/ HeldBears(held, x, h)
  \/ ScopesBear(scopes, x, h) \/ CaptureBears(lastWrite.captured, x, h)
  \/ LayersBear(ledger.layers, x, h) \/ FramesBear(ledger.frames, x, h)

\* Every handle somebody carries, and every raw object's, is behind m_next.
Behind == /\ \A h \in Raws : h < alloc.next
          /\ \A x \in Whos, h \in Handles : Bears(x, h) => h < alloc.next
IInv == TypeInv /\ Behind

LEMMA IInvHeldBelow == ASSUME IInv PROVE HeldBelow
<1>1. ASSUME NEW r \in Records PROVE held[r].handle < alloc.next
  <2>1. held[r].handle \in Handles /\ r \in Whos
    BY DEF IInv, TypeInv, Helds, Entry, Whos
  <2>2. Bears(r, held[r].handle)
    BY DEF Bears, HeldBears
  <2> QED BY <2>1, <2>2 DEF IInv, Behind
<1> QED BY <1>1 DEF HeldBelow, IInv, TypeInv

\* Part by part: the handles e and its children get.
LEMMA AssignedFor ==
  ASSUME IInv, NEW e \in Entities, Room(Len(Parts[e]))
  PROVE  LET a == Assigned(e)[Len(Parts[e])]
         IN /\ HP!Sound(a.alloc) /\ alloc.next <= a.alloc.next
            /\ a.handles \in Seq(Handles) /\ Len(a.handles) = Len(Parts[e])
            /\ DOMAIN a.handles = 1..Len(Parts[e]) /\ Len(Parts[e]) \in Nat \ {0}
            /\ \A m \in 1..Len(Parts[e]) :
                 /\ a.handles[m] \in Handles
                 /\ IF Unset(e, m) THEN a.handles[m] \in alloc.next..(a.alloc.next - 1)
                    ELSE a.handles[m] = held[Parts[e][m]].handle
            /\ \A m, k \in 1..Len(Parts[e]) :
                 m < k /\ Unset(e, m) /\ Unset(e, k) => a.handles[m] < a.handles[k]
<1> DEFINE a == Assigned(e)[Len(Parts[e])]
<1>1. Len(Parts[e]) \in Nat \ {0}
  BY PartsAre
<1>2. HP!Sound(alloc) /\ HeldBelow
  BY IInvHeldBelow DEF IInv, TypeInv
<1>3. alloc.next + Len(Parts[e]) < MaxHandle
  BY <1>1, <1>2, RoomLeft
<1>4. a \in AssignedState(e, Len(Parts[e]))
  BY <1>2, <1>3, AssignedIs
<1> HIDE DEF a
<1>5. a.handles \in Seq(Handles) /\ AssignedOK(e, Len(Parts[e]), a)
  BY <1>4 DEF AssignedState
<1>6. Len(a.handles) = Len(Parts[e])
  BY <1>5 DEF AssignedOK
<1>7. DOMAIN a.handles = 1..Len(Parts[e]) /\ \A m \in 1..Len(Parts[e]) : a.handles[m] \in Handles
  BY <1>5, <1>6, LenProperties, ElementOfSeq
<1>8. /\ HP!Sound(a.alloc) /\ alloc.next <= a.alloc.next
      /\ a.handles \in Seq(Handles) /\ Len(a.handles) = Len(Parts[e])
      /\ DOMAIN a.handles = 1..Len(Parts[e]) /\ Len(Parts[e]) \in Nat \ {0}
      /\ \A m \in 1..Len(Parts[e]) :
           /\ a.handles[m] \in Handles
           /\ IF Unset(e, m) THEN a.handles[m] \in alloc.next..(a.alloc.next - 1)
              ELSE a.handles[m] = held[Parts[e][m]].handle
      /\ \A m, k \in 1..Len(Parts[e]) :
           m < k /\ Unset(e, m) /\ Unset(e, k) => a.handles[m] < a.handles[k]
  BY <1>1, <1>5, <1>6, <1>7 DEF AssignedOK
<1> QED BY <1>8 DEF a

\* One record: its own handle, or the next.
LEMMA TakenIs ==
  ASSUME IInv, NEW r \in Records, Room(1)
  PROVE  /\ HP!Sound(Took(alloc, r)) /\ Taken(alloc, r) \in Handles
         /\ alloc.next <= Took(alloc, r).next /\ Taken(alloc, r) < Took(alloc, r).next
         /\ Taken(alloc, r) = IF held[r].handle = 0 THEN alloc.next ELSE held[r].handle
<1>1. HP!Sound(alloc) /\ HeldBelow /\ alloc.next \in Handles /\ alloc.next \in Nat
  BY IInvHeldBelow, SoundNext DEF IInv, TypeInv, Handles
<1>2. alloc.next < MaxHandle
  <2>1. alloc.next + 1 < MaxHandle
    BY <1>1, RoomLeft
  <2> QED BY <1>1, <2>1, ScopesAssumption
<1>3. held[r].handle \in Handles /\ held[r].handle < alloc.next
  BY <1>1 DEF HeldBelow, Helds, Entry
<1>4. CASE held[r].handle = 0
  <2>1. /\ Handle!MintedHandle(alloc) = alloc.next /\ HP!Sound(Handle!Minted(alloc))
        /\ Handle!Minted(alloc).next = alloc.next + 1
    BY <1>1, <1>2, MintNext
  <2> QED BY <1>1, <1>4, <2>1 DEF Took, Taken
<1>5. CASE held[r].handle # 0
  <2>1. HP!Sound(Handle!Reserved(alloc, held[r].handle))
        /\ Handle!Reserved(alloc, held[r].handle).next = alloc.next
    BY <1>1, <1>3, ReserveKnown
  <2> QED BY <1>1, <1>3, <1>5, <2>1 DEF Took, Taken
<1> QED BY <1>4, <1>5

LEMMA CapturedIs ==
  ASSUME held \in Helds, NEW R \in SUBSET Records
  PROVE  /\ Captured(R) \in Captures /\ DOMAIN Captured(R) = R
         /\ \A x, h : CaptureBears(Captured(R), x, h) => HeldBears(held, x, h)
<1>1. Captured(R) \in [R -> Entry] /\ DOMAIN Captured(R) = R
  BY DEF Captured, Helds
<1> QED BY <1>1 DEF Captures, CaptureBears, HeldBears, Captured

LEMMA CapturesParts ==
  ASSUME NEW c \in Captures
  PROVE  DOMAIN c \subseteq Records /\ \A r \in DOMAIN c : c[r] \in Entry
BY DEF Captures

LEMMA ScopeParts ==
  ASSUME NEW ss \in Seq(Scopes)
  PROVE  /\ Len(ss) \in Nat /\ DOMAIN ss = 1..Len(ss)
         /\ \A i \in 1..Len(ss) :
              /\ ss[i] \in Scopes
              /\ ss[i].checkpoint \in Checkpoints /\ ss[i].captured \in Seq(Captures)
              /\ Len(ss[i].captured) \in Nat
              /\ DOMAIN ss[i].captured = 1..Len(ss[i].captured)
              /\ \A j \in 1..Len(ss[i].captured) : ss[i].captured[j] \in Captures
              /\ ss[i].checkpoint.layers \in [Layers -> Handles]
<1>1. Len(ss) \in Nat /\ DOMAIN ss = 1..Len(ss) /\ \A i \in 1..Len(ss) : ss[i] \in Scopes
  BY LenProperties, ElementOfSeq
<1>2. ASSUME NEW i \in 1..Len(ss)
      PROVE  /\ ss[i].checkpoint \in Checkpoints /\ ss[i].captured \in Seq(Captures)
             /\ Len(ss[i].captured) \in Nat
             /\ DOMAIN ss[i].captured = 1..Len(ss[i].captured)
             /\ \A j \in 1..Len(ss[i].captured) : ss[i].captured[j] \in Captures
             /\ ss[i].checkpoint.layers \in [Layers -> Handles]
  <2>1. ss[i].checkpoint \in Checkpoints /\ ss[i].captured \in Seq(Captures)
    BY <1>1 DEF Scopes
  <2> QED BY <2>1, LenProperties, ElementOfSeq DEF Checkpoints
<1> QED BY <1>1, <1>2

LEMMA TrackingIs ==
  ASSUME TypeInv
  PROVE  /\ Len(scopes) \in Nat /\ (scopes # <<>> <=> Len(scopes) # 0)
         /\ scopes # <<>> => Len(scopes) \in 1..Len(scopes) /\ Innermost \in Scopes
                             /\ Innermost = scopes[Len(scopes)]
                             /\ Len(begun) \in 1..Len(begun)
                             /\ begun[Len(begun)] \in Begins
<1>1. Len(scopes) \in Nat /\ (scopes # <<>> <=> Len(scopes) # 0)
  BY EmptySeq, LenProperties DEF TypeInv
<1> QED BY <1>1, ElementOfSeq DEF TypeInv, Innermost

\* A scope that remembers one more capture, or other captures.
WithCaptured(s, cs) == [s EXCEPT !.captured = cs]
LEMMA WithCapturedIs ==
  ASSUME NEW s \in Scopes, NEW cs \in Seq(Captures)
  PROVE  /\ WithCaptured(s, cs) \in Scopes /\ WithCaptured(s, cs).captured = cs
         /\ WithCaptured(s, cs).checkpoint = s.checkpoint
         /\ WithCaptured(s, cs).track = s.track /\ WithCaptured(s, cs).written = s.written
         /\ WithCaptured(s, cs).skips = s.skips
BY DEF WithCaptured, Scopes

\* The scopes when the innermost one has other captures.
Recaptured(ss, cs) == [ss EXCEPT ![Len(ss)].captured = cs]
LEMMA RecapturedIs ==
  ASSUME NEW ss \in Seq(Scopes), Len(ss) # 0, NEW cs \in Seq(Captures)
  PROVE  /\ Recaptured(ss, cs) \in Seq(Scopes) /\ Len(Recaptured(ss, cs)) = Len(ss)
         /\ \A i \in 1..Len(ss) :
              /\ Recaptured(ss, cs)[i].checkpoint = ss[i].checkpoint
              /\ Recaptured(ss, cs)[i].track = ss[i].track
              /\ Recaptured(ss, cs)[i].written = ss[i].written
              /\ Recaptured(ss, cs)[i].skips = ss[i].skips
              /\ Recaptured(ss, cs)[i].captured = IF i = Len(ss) THEN cs ELSE ss[i].captured
<1>1. Len(ss) \in Nat /\ Len(ss) \in 1..Len(ss) /\ DOMAIN ss = 1..Len(ss)
      /\ \A i \in 1..Len(ss) : ss[i] \in Scopes
  BY LenProperties, ElementOfSeq
<1> DEFINE w == WithCaptured(ss[Len(ss)], cs)
<1>2. /\ w \in Scopes /\ w.captured = cs /\ w.checkpoint = ss[Len(ss)].checkpoint
      /\ w.track = ss[Len(ss)].track /\ w.written = ss[Len(ss)].written
      /\ w.skips = ss[Len(ss)].skips
  BY <1>1, WithCapturedIs
<1>3. Recaptured(ss, cs) = [ss EXCEPT ![Len(ss)] = w]
  BY DEF Recaptured, WithCaptured
<1> HIDE DEF w
<1>4. /\ Recaptured(ss, cs) \in Seq(Scopes) /\ Len(Recaptured(ss, cs)) = Len(ss)
      /\ \A j \in 1..Len(ss) : Recaptured(ss, cs)[j] = IF j = Len(ss) THEN w ELSE ss[j]
  BY <1>1, <1>2, <1>3, ExceptSeq
<1> QED BY <1>1, <1>2, <1>4

LEMMA RememberedIs ==
  ASSUME TypeInv, NEW R \in SUBSET Records
  PROVE  /\ Remembered(R) \in Seq(Scopes) /\ Len(Remembered(R)) = Len(scopes)
         /\ \A i \in 1..Len(scopes) :
              /\ Remembered(R)[i].checkpoint = scopes[i].checkpoint
              /\ Remembered(R)[i].track = scopes[i].track
              /\ Remembered(R)[i].written = scopes[i].written
              /\ Remembered(R)[i].skips = scopes[i].skips
              /\ Remembered(R)[i].captured =
                   IF i = Len(scopes) /\ Tracking
                   THEN Append(scopes[i].captured, Captured(R)) ELSE scopes[i].captured
         /\ \A x, h : ScopesBear(Remembered(R), x, h) =>
                        ScopesBear(scopes, x, h) \/ HeldBears(held, x, h)
<1>1. CASE ~Tracking
  BY <1>1 DEF Remembered, TypeInv
<1>2. CASE Tracking
  <2>1. scopes \in Seq(Scopes) /\ Len(scopes) # 0 /\ Len(scopes) \in 1..Len(scopes)
    BY <1>2, TrackingIs DEF Tracking, TypeInv
  <2> DEFINE old == scopes[Len(scopes)].captured
             cs == Append(old, Captured(R))
             ss == Recaptured(scopes, cs)
  <2>2. old \in Seq(Captures) /\ Len(old) \in Nat
    BY <2>1, ScopeParts
  <2>3. held \in Helds
    BY DEF TypeInv
  <2>4. Captured(R) \in Captures
    BY <2>3, CapturedIs
  <2>5. /\ cs \in Seq(Captures) /\ Len(cs) = Len(old) + 1
        /\ \A j \in 1..Len(old) : cs[j] = old[j]
        /\ cs[Len(old) + 1] = Captured(R)
    BY <2>2, <2>4, AppendProperties
  <2>6. Remembered(R) = ss
    BY <1>2 DEF Remembered, Recaptured
  <2> HIDE DEF cs, ss
  <2>7. /\ ss \in Seq(Scopes) /\ Len(ss) = Len(scopes)
        /\ \A i \in 1..Len(scopes) :
              /\ ss[i].checkpoint = scopes[i].checkpoint
              /\ ss[i].track = scopes[i].track
              /\ ss[i].written = scopes[i].written
              /\ ss[i].skips = scopes[i].skips
              /\ ss[i].captured = IF i = Len(scopes) THEN cs ELSE scopes[i].captured
    BY <2>1, <2>5, RecapturedIs DEF ss
  <2>8. ASSUME NEW x, NEW h, ScopesBear(ss, x, h)
        PROVE  ScopesBear(scopes, x, h) \/ HeldBears(held, x, h)
    <3>1. PICK i \in 1..Len(scopes) : \/ CapturesBear(ss[i].captured, x, h)
                                      \/ LayersBear(ss[i].checkpoint.layers, x, h)
      BY <2>7, <2>8 DEF ScopesBear
    <3>2. CASE LayersBear(ss[i].checkpoint.layers, x, h)
      BY <2>7, <3>2 DEF ScopesBear
    <3>3. CASE CapturesBear(ss[i].captured, x, h) /\ i # Len(scopes)
      BY <2>7, <3>3 DEF ScopesBear
    <3>4. CASE CapturesBear(ss[i].captured, x, h) /\ i = Len(scopes)
      <4>1. PICK j \in 1..Len(cs) : CaptureBears(cs[j], x, h)
        BY <2>7, <3>4 DEF CapturesBear
      <4>2. CASE j \in 1..Len(old)
        <5>1. CapturesBear(scopes[i].captured, x, h)
          BY <2>5, <3>4, <4>1, <4>2 DEF CapturesBear
        <5> QED BY <5>1 DEF ScopesBear
      <4>3. CASE j = Len(old) + 1
        BY <2>3, <2>5, <4>1, <4>3, CapturedIs
      <4> QED BY <2>2, <2>5, <4>2, <4>3
    <3> QED BY <3>1, <3>2, <3>3, <3>4
  <2>9. \A i \in 1..Len(scopes) :
          ss[i].captured = IF i = Len(scopes) /\ Tracking
                           THEN Append(scopes[i].captured, Captured(R)) ELSE scopes[i].captured
    BY <1>2, <2>7 DEF cs
  <2> QED BY <2>6, <2>7, <2>8, <2>9
<1> QED BY <1>1, <1>2

LEMMA LoosenedIs ==
  ASSUME TypeInv, NEW R \in SUBSET Records
  PROVE  /\ Loosened(R) \in Seq(Begins) /\ Len(Loosened(R)) = Len(begun)
         /\ \A i \in 1..Len(begun) :
              /\ Loosened(R)[i].ledger = begun[i].ledger /\ Loosened(R)[i].held = begun[i].held
              /\ Loosened(R)[i].written = begun[i].written
              /\ Loosened(R)[i].loose = begun[i].loose \cup R
<1>1. begun \in Seq(Begins)
  BY DEF TypeInv
<1>2. Len(begun) \in Nat /\ DOMAIN begun = 1..Len(begun)
      /\ \A i \in 1..Len(begun) : begun[i] \in Begins
  BY <1>1, LenProperties, ElementOfSeq
<1>3. \A i \in 1..Len(begun) : Loosened(R)[i] = [begun[i] EXCEPT !.loose = @ \cup R]
  BY <1>2 DEF Loosened
<1>4. ASSUME NEW i \in 1..Len(begun)
      PROVE  /\ Loosened(R)[i] \in Begins
             /\ Loosened(R)[i].ledger = begun[i].ledger /\ Loosened(R)[i].held = begun[i].held
             /\ Loosened(R)[i].written = begun[i].written
             /\ Loosened(R)[i].loose = begun[i].loose \cup R
  <2> DEFINE b == begun[i]
             c == Loosened(R)[i]
  <2>1. b \in Begins /\ c = [b EXCEPT !.loose = b.loose \cup R]
    BY <1>2, <1>3
  <2> HIDE DEF b, c
  <2>2. /\ c.ledger = b.ledger /\ c.held = b.held /\ c.alloc = b.alloc
        /\ c.written = b.written /\ c.loose = b.loose \cup R
        /\ c = [ledger |-> c.ledger, held |-> c.held, alloc |-> c.alloc,
                written |-> c.written, loose |-> c.loose]
    BY <2>1 DEF Begins
  <2>3. /\ b.ledger \in Ledgers /\ b.held \in Helds /\ b.alloc \in HP!Allocator
        /\ b.written \in Nat /\ b.loose \cup R \in SUBSET Records
    BY <2>1 DEF Begins
  <2>4. c \in Begins
    BY <2>2, <2>3 DEF Begins
  <2> QED BY <2>2, <2>4 DEF b, c
<1>5. Loosened(R) \in [1..Len(begun) -> Begins]
  BY <1>2, <1>4 DEF Loosened
<1>6. Loosened(R) \in Seq(Begins) /\ Len(Loosened(R)) = Len(begun)
  BY <1>2, <1>5, SeqIntro
<1> QED BY <1>4, <1>6

---------------------------------------------------------------------------
(* What a rollback gives back to the callers.                                *)

LEMMA FirstCaptureIs ==
  ASSUME NEW cs \in Seq(Captures), NEW r, \E i \in DOMAIN cs : r \in DOMAIN cs[i]
  PROVE  /\ FirstCapture(cs, r) \in 1..Len(cs)
         /\ r \in DOMAIN cs[FirstCapture(cs, r)]
         /\ \A j \in 1..(FirstCapture(cs, r) - 1) : r \notin DOMAIN cs[j]
<1>1. Len(cs) \in Nat /\ DOMAIN cs = 1..Len(cs)
  BY LenProperties
<1> DEFINE I == {i \in 1..Len(cs) : r \in DOMAIN cs[i]}
<1>2. I \subseteq Nat /\ I # {}
  BY <1>1
<1>3. PICK i \in I : \A j \in I : i <= j
  <2> HIDE DEF I
  <2> QED BY <1>2, HP!LeastExists, HandleSpace
<1>4. i \in DOMAIN cs /\ r \in DOMAIN cs[i] /\ \A j \in 1..(i - 1) : r \notin DOMAIN cs[j]
  <2>1. ASSUME NEW j \in 1..(i - 1), r \in DOMAIN cs[j] PROVE FALSE
    <3>1. j \in I /\ j < i
      BY <1>1, <2>1
    <3> HIDE DEF I
    <3> QED BY <1>2, <1>3, <3>1
  <2> QED BY <1>1, <2>1
<1> DEFINE P(k) == r \in DOMAIN cs[k] /\ \A j \in 1..(k - 1) : r \notin DOMAIN cs[j]
<1>5. FirstCapture(cs, r) = CHOOSE k \in DOMAIN cs : P(k)
  BY DEF FirstCapture
<1>6. (CHOOSE k \in DOMAIN cs : P(k)) \in DOMAIN cs /\ P(CHOOSE k \in DOMAIN cs : P(k))
  <2>1. \E k \in DOMAIN cs : P(k)
    BY <1>4
  <2> HIDE DEF P
  <2> QED BY <2>1
<1> QED BY <1>1, <1>5, <1>6

LEMMA RestoredIs ==
  ASSUME held \in Helds, NEW cs \in Seq(Captures)
  PROVE  /\ Restored(cs) \in Helds
         /\ \A x, h : HeldBears(Restored(cs), x, h) => HeldBears(held, x, h)
                                                        \/ CapturesBear(cs, x, h)
<1>1. ASSUME NEW r \in Records
      PROVE  /\ Restored(cs)[r] \in Entry
             /\ \A h : Restored(cs)[r].handle = h => held[r].handle = h \/ CapturesBear(cs, r, h)
  <2>1. CASE \E i \in DOMAIN cs : r \in DOMAIN cs[i]
    <3> DEFINE k == FirstCapture(cs, r)
    <3>1. k \in 1..Len(cs) /\ r \in DOMAIN cs[k]
      BY <2>1, FirstCaptureIs
    <3>2. Restored(cs)[r] = cs[k][r]
      BY <2>1 DEF Restored
    <3> HIDE DEF k
    <3>3. cs[k] \in Captures
      BY <3>1, ElementOfSeq
    <3>4. cs[k][r] \in Entry
      BY <3>1, <3>3, CapturesParts
    <3> QED BY <3>1, <3>2, <3>4 DEF CapturesBear, CaptureBears
  <2>2. CASE ~\E i \in DOMAIN cs : r \in DOMAIN cs[i]
    <3>1. Restored(cs)[r] = held[r]
      BY <2>2 DEF Restored
    <3> QED BY <3>1 DEF Helds
  <2> QED BY <2>1, <2>2
<1>2. Restored(cs) \in Helds
  BY <1>1 DEF Restored, Helds
<1> QED BY <1>1, <1>2 DEF HeldBears

\* One capture less, at most.
LEMMA ForgottenIs ==
  ASSUME NEW cs \in Seq(Captures), NEW R
  PROVE  /\ Forgotten(cs, R) \in Seq(Captures)
         /\ \A j \in 1..Len(Forgotten(cs, R)) : \E k \in 1..Len(cs) : Forgotten(cs, R)[j] = cs[k]
         /\ \A x, h : CapturesBear(Forgotten(cs, R), x, h) => CapturesBear(cs, x, h)
<1> DEFINE mine == {i \in DOMAIN cs : DOMAIN cs[i] = R}
           last == CHOOSE i \in mine : \A j \in mine : j <= i
           fs == [i \in 1..(Len(cs) - 1) |-> cs[IF i < last THEN i ELSE i + 1]]
<1>1. Len(cs) \in Nat /\ DOMAIN cs = 1..Len(cs) /\ \A i \in 1..Len(cs) : cs[i] \in Captures
  BY LenProperties, ElementOfSeq
<1>2. Forgotten(cs, R) = IF mine = {} THEN cs ELSE fs
  BY DEF Forgotten
<1>3. CASE mine # {}
  <2>1. Len(cs) - 1 \in Nat
    BY <1>1, <1>3
  <2> HIDE DEF last
  <2>2. ASSUME NEW i \in 1..(Len(cs) - 1)
        PROVE  \E k \in 1..Len(cs) : fs[i] = cs[k]
    <3>1. (IF i < last THEN i ELSE i + 1) \in 1..Len(cs)
      BY <1>1
    <3> QED BY <3>1
  <2>3. fs \in [1..(Len(cs) - 1) -> Captures]
    BY <1>1
  <2> HIDE DEF fs
  <2>4. fs \in Seq(Captures) /\ Len(fs) = Len(cs) - 1
    BY <2>1, <2>3, SeqIntro
  <2>5. Forgotten(cs, R) = fs
    BY <1>2, <1>3
  <2> QED BY <2>2, <2>4, <2>5 DEF CapturesBear
<1>4. CASE mine = {}
  BY <1>2, <1>4
<1> QED BY <1>3, <1>4

LEMMA OuterIs ==
  ASSUME TypeInv, scopes # <<>>
  PROVE  /\ Outer \in Seq(Scopes) /\ Len(Outer) = Len(scopes) - 1
         /\ DOMAIN Outer = 1..(Len(scopes) - 1)
         /\ \A i \in 1..(Len(scopes) - 1) : Outer[i] = scopes[i] /\ i \in 1..Len(scopes)
         /\ \A x, h : ScopesBear(Outer, x, h) => ScopesBear(scopes, x, h)
<1>1. scopes \in Seq(Scopes) /\ Len(scopes) \in Nat \ {0}
  BY TrackingIs DEF TypeInv
<1>2. \A i \in 1..(Len(scopes) - 1) : scopes[i] \in Scopes
  BY <1>1, ElementOfSeq
<1>3. /\ Outer \in Seq(Scopes)
      /\ Len(Outer) = IF 1 <= Len(scopes) - 1 THEN Len(scopes) - 1 - 1 + 1 ELSE 0
      /\ \A i \in 1..(Len(scopes) - 1 - 1 + 1) : Outer[i] = scopes[1 + i - 1]
  <2>1. Len(scopes) - 1 \in Int
    BY <1>1
  <2> QED BY <1>2, <2>1, SubSeqProperties DEF Outer
<1>4. Len(Outer) = Len(scopes) - 1
  <2>1. \A n \in Nat \ {0} : (IF 1 <= n - 1 THEN n - 1 - 1 + 1 ELSE 0) = n - 1
    OBVIOUS
  <2>2. Len(Outer) = IF 1 <= Len(scopes) - 1 THEN Len(scopes) - 1 - 1 + 1 ELSE 0
    BY <1>3
  <2> QED BY <1>1, <2>1, <2>2
<1>5. \A i \in 1..(Len(scopes) - 1) :
         Outer[i] = scopes[i] /\ i \in 1..Len(scopes)
  <2>1. \A i \in 1..(Len(scopes) - 1) :
           i \in 1..(Len(scopes) - 1 - 1 + 1) /\ 1 + i - 1 = i /\ i \in 1..Len(scopes)
    BY <1>1
  <2> QED BY <1>3, <2>1
<1>6. DOMAIN Outer = 1..(Len(scopes) - 1)
  BY <1>3, <1>4, LenProperties
<1>7. \A x, h : ScopesBear(Outer, x, h) => ScopesBear(scopes, x, h)
  BY <1>4, <1>5 DEF ScopesBear
<1> QED BY <1>3, <1>4, <1>5, <1>6, <1>7

\* The scopes around the innermost one begin where they did.
LEMMA OuterBegins ==
  ASSUME TypeInv, scopes # <<>>,
         NEW loose \in [1..(Len(scopes) - 1) -> SUBSET Records]
  PROVE  LET bs == [i \in DOMAIN Outer |-> [begun[i] EXCEPT !.loose = loose[i]]]
         IN /\ bs \in Seq(Begins) /\ Len(bs) = Len(scopes) - 1
            /\ \A i \in 1..(Len(scopes) - 1) :
                 /\ bs[i].ledger = begun[i].ledger /\ bs[i].held = begun[i].held
                 /\ bs[i].written = begun[i].written /\ bs[i].loose = loose[i]
<1> DEFINE n == Len(scopes) - 1
           bs == [i \in DOMAIN Outer |-> [begun[i] EXCEPT !.loose = loose[i]]]
<1>1. n \in Nat /\ DOMAIN Outer = 1..n /\ \A i \in 1..n : i \in 1..Len(begun)
  BY TrackingIs, OuterIs DEF TypeInv
<1>2. \A i \in 1..n : begun[i] \in Begins
  BY <1>1, ElementOfSeq DEF TypeInv
<1>3. ASSUME NEW i \in 1..n
      PROVE  /\ bs[i] \in Begins
             /\ bs[i].ledger = begun[i].ledger /\ bs[i].held = begun[i].held
             /\ bs[i].written = begun[i].written /\ bs[i].loose = loose[i]
  <2> DEFINE b == begun[i]
             c == bs[i]
             l == loose[i]
  <2>1. b \in Begins /\ c = [b EXCEPT !.loose = l] /\ l \in SUBSET Records
    BY <1>1, <1>2
  <2> HIDE DEF b, c, l, bs
  <2>2. /\ c.ledger = b.ledger /\ c.held = b.held /\ c.alloc = b.alloc
        /\ c.written = b.written /\ c.loose = l
        /\ c = [ledger |-> c.ledger, held |-> c.held, alloc |-> c.alloc,
                written |-> c.written, loose |-> c.loose]
    BY <2>1 DEF Begins
  <2>3. /\ b.ledger \in Ledgers /\ b.held \in Helds /\ b.alloc \in HP!Allocator
        /\ b.written \in Nat
    BY <2>1 DEF Begins
  <2>4. c \in Begins
    BY <2>1, <2>2, <2>3 DEF Begins
  <2> QED BY <2>2, <2>4 DEF b, c, l
<1>4. bs \in [1..n -> Begins]
  BY <1>1, <1>3
<1> HIDE DEF bs, n
<1>5. bs \in Seq(Begins) /\ Len(bs) = n
  BY <1>1, <1>4, SeqIntro
<1> QED BY <1>3, <1>5 DEF bs, n

\* The begins after CommitScope and RollbackScope.
LEMMA BegunAfter ==
  ASSUME TypeInv, scopes # <<>>, CommitScope \/ RollbackScope
  PROVE  /\ begun' \in Seq(Begins) /\ Len(begun') = Len(scopes) - 1
         /\ \A i \in 1..(Len(scopes) - 1) :
              /\ begun'[i].ledger = begun[i].ledger /\ begun'[i].held = begun[i].held
              /\ begun'[i].written = begun[i].written
              /\ begun[i].loose \subseteq begun'[i].loose
<1> DEFINE n == Len(scopes) - 1
<1>1. n \in Nat /\ DOMAIN Outer = 1..n /\ \A i \in 1..n : i \in 1..Len(begun)
  BY TrackingIs, OuterIs DEF TypeInv
<1>2. \A i \in 1..Len(begun) : begun[i] \in Begins
  BY ElementOfSeq DEF TypeInv
<1>3. \A i \in 1..n : begun[i] = [begun[i] EXCEPT !.loose = begun[i].loose]
                      /\ begun[i].loose \subseteq Records
  BY <1>1, <1>2 DEF Begins
<1>4. PICK loose \in [1..n -> SUBSET Records] :
         /\ begun' = [i \in DOMAIN Outer |-> [begun[i] EXCEPT !.loose = loose[i]]]
         /\ \A i \in 1..n : begun[i].loose \subseteq loose[i]
  <2>1. CASE CommitScope
    <3> DEFINE inner == Innermost.captured
               kept == Outer # <<>> /\ Outer[Len(Outer)].track
               lost == UNION {DOMAIN inner[i] : i \in DOMAIN inner}
               l == [i \in 1..n |-> IF kept THEN begun[i].loose ELSE begun[i].loose \cup lost]
    <3>1. lost \subseteq Records
      <4>1. \A i \in DOMAIN inner : DOMAIN inner[i] \subseteq Records
        BY TrackingIs, ScopeParts, CapturesParts DEF TypeInv
      <4> QED BY <4>1
    <3>2. begun' = [i \in DOMAIN Outer |->
                      IF kept THEN begun[i]
                      ELSE [begun[i] EXCEPT !.loose = begun[i].loose \cup lost]]
      BY <2>1 DEF CommitScope
    <3> HIDE DEF kept, lost
    <3>3. begun' = [i \in DOMAIN Outer |-> [begun[i] EXCEPT !.loose = l[i]]]
      <4>1. \A i \in 1..n : (IF kept THEN begun[i]
                      ELSE [begun[i] EXCEPT !.loose = begun[i].loose \cup lost])
                = [begun[i] EXCEPT !.loose = l[i]]
        BY <1>3
      <4> QED BY <1>1, <3>2, <4>1
    <3>4. l \in [1..n -> SUBSET Records] /\ \A i \in 1..n : begun[i].loose \subseteq l[i]
      BY <1>3, <3>1
    <3> QED BY <3>3, <3>4
  <2>2. CASE RollbackScope
    <3> DEFINE mine == begun[Len(begun)].loose
               l == [i \in 1..n |-> IF Innermost.track THEN begun[i].loose
                                    ELSE begun[i].loose \cup mine]
    <3>1. mine \subseteq Records
      BY TrackingIs DEF Begins
    <3>2. begun' = [i \in DOMAIN Outer |->
                      IF Innermost.track THEN begun[i]
                      ELSE [begun[i] EXCEPT !.loose = begun[i].loose \cup mine]]
      BY <2>2 DEF RollbackScope
    <3> HIDE DEF mine
    <3>3. begun' = [i \in DOMAIN Outer |-> [begun[i] EXCEPT !.loose = l[i]]]
      <4>1. \A i \in 1..n : (IF Innermost.track THEN begun[i]
                      ELSE [begun[i] EXCEPT !.loose = begun[i].loose \cup mine])
                = [begun[i] EXCEPT !.loose = l[i]]
        BY <1>3
      <4> QED BY <1>1, <3>2, <4>1
    <3>4. l \in [1..n -> SUBSET Records] /\ \A i \in 1..n : begun[i].loose \subseteq l[i]
      BY <1>3, <3>1
    <3> QED BY <3>3, <3>4
  <2> QED BY <2>1, <2>2
<1> QED BY <1>4, OuterBegins

---------------------------------------------------------------------------
(* One step: whoever carries a handle afterwards carried it before, or is    *)
(* the only one to carry a handle that is new, or is a raw object.           *)

Moves ==
  /\ TypeInv'
  /\ alloc.next <= alloc'.next
  /\ \A x \in Whos, h \in Handles :
       Bears(x, h)' => \/ Bears(x, h)
                       \/ h >= alloc.next /\ h < alloc'.next
                       \/ x = "raw" /\ h \in Raws
  /\ \A x, y \in Whos, h \in Handles :
       h >= alloc.next /\ Bears(x, h)' /\ Bears(y, h)' => x = y

LEMMA MovesQuietly ==
  ASSUME IInv, TypeInv', alloc.next <= alloc'.next,
         \A x \in Whos, h \in Handles : Bears(x, h)' => Bears(x, h)
  PROVE  Moves
<1>1. \A x \in Whos, h \in Handles : Bears(x, h)' => h < alloc.next
  BY DEF IInv, Behind
<1>2. alloc.next \in Nat
  BY SoundNext DEF IInv, TypeInv, Handles
<1>3. ASSUME NEW x \in Whos, NEW y \in Whos, NEW h \in Handles,
             h >= alloc.next, Bears(x, h)', Bears(y, h)'
      PROVE  x = y
  BY <1>1, <1>2, <1>3 DEF Handles
<1> QED BY <1>3 DEF Moves

\* One record carries one handle more.
LEMMA MovesOne ==
  ASSUME IInv, TypeInv', alloc.next <= alloc'.next, NEW r, NEW f \in Handles,
         f < alloc'.next,
         \A x \in Whos, h \in Handles :
           Bears(x, h)' => Bears(x, h) \/ (x = r /\ h = f),
         f >= alloc.next \/ Bears(r, f) \/ (r = "raw" /\ f \in Raws)
  PROVE  Moves
<1>1. \A x \in Whos, h \in Handles : Bears(x, h) => h < alloc.next
  BY DEF IInv, Behind
<1>2. alloc.next \in Nat
  BY SoundNext DEF IInv, TypeInv, Handles
<1>3. ASSUME NEW x \in Whos, NEW y \in Whos, NEW h \in Handles,
             h >= alloc.next, Bears(x, h)', Bears(y, h)'
      PROVE  x = y
  <2>1. ~Bears(x, h) /\ ~Bears(y, h)
    BY <1>1, <1>2, <1>3 DEF Handles
  <2> QED BY <1>3, <2>1
<1>4. ASSUME NEW x \in Whos, NEW h \in Handles, Bears(x, h)'
      PROVE  Bears(x, h) \/ (h >= alloc.next /\ h < alloc'.next) \/ (x = "raw" /\ h \in Raws)
  BY <1>4
<1> QED BY <1>3, <1>4 DEF Moves

LEMMA HeldExcept ==
  ASSUME held \in Helds, NEW x \in Records, NEW h \in Handles
  PROVE  /\ [held EXCEPT ![x].handle = h] \in Helds
         /\ \A y, g : HeldBears([held EXCEPT ![x].handle = h], y, g) =>
                        HeldBears(held, y, g) \/ (y = x /\ g = h)
<1> DEFINE new == [held EXCEPT ![x].handle = h]
<1>1. \A y \in Records : new[y] = IF y = x THEN [handle |-> h, owner |-> held[y].owner]
                                  ELSE held[y]
  <2>1. held[x] = [handle |-> held[x].handle, owner |-> held[x].owner]
    BY DEF Helds, Entry
  <2> QED BY <2>1 DEF Helds
<1>2. new \in Helds
  <2>1. \A y \in Records : new[y] \in Entry
    BY <1>1 DEF Helds, Entry
  <2> QED BY <2>1 DEF Helds
<1> QED BY <1>1, <1>2 DEF HeldBears

LEMMA FramingBears ==
  ASSUME NEW l \in Ledgers, NEW f \in Handles, NEW w \in Whos
  PROVE  \A x, h : FramesBear(Framing(l, f, w).frames, x, h) =>
                     FramesBear(l.frames, x, h) \/ (x = w /\ h = f)
<1> DEFINE fs == l.frames
           gs == Append(fs, [handle |-> f, of |-> w])
<1>1. Framing(l, f, w).frames = gs
  BY FramingIs
<1>2. [handle |-> f, of |-> w] \in Frames /\ fs \in Seq(Frames) /\ Len(fs) \in Nat
  BY LedgerParts DEF Frames
<1>3. /\ Len(gs) = Len(fs) + 1 /\ \A i \in 1..Len(fs) : gs[i] = fs[i]
      /\ gs[Len(fs) + 1] = [handle |-> f, of |-> w]
  BY <1>2, AppendProperties
<1> HIDE DEF fs, gs
<1>4. \A i \in 1..Len(gs) : i \in 1..Len(fs) \/ i = Len(fs) + 1
  BY <1>2, <1>3
<1>5. \A x, h : FramesBear(gs, x, h) => FramesBear(fs, x, h) \/ (x = w /\ h = f)
  BY <1>3, <1>4 DEF FramesBear
<1> QED BY <1>1, <1>5 DEF fs

LEMMA RolledBackBears ==
  ASSUME NEW l \in Ledgers, NEW c \in Checkpoints
  PROVE  /\ \A x, h : FramesBear(RolledBack(l, c).frames, x, h) => FramesBear(l.frames, x, h)
         /\ \A x, h : LayersBear(RolledBack(l, c).layers, x, h) =>
                        LayersBear(l.layers, x, h) \/ (c.admission /\ LayersBear(c.layers, x, h))
<1> DEFINE fs == RolledBack(l, c).frames
<1>1. fs = Truncated(l.frames, c.frames) /\ c.frames \in Nat
  BY RolledBackIs DEF Checkpoints
<1>2. \A i \in 1..Len(fs) : i \in 1..Len(l.frames) /\ fs[i] = l.frames[i]
  BY <1>1, LedgerParts, TruncatedIs
<1> HIDE DEF fs
<1>3. \A x, h : FramesBear(fs, x, h) => FramesBear(l.frames, x, h)
  BY <1>2 DEF FramesBear
<1>4. RolledBack(l, c).layers = IF c.admission THEN c.layers ELSE l.layers
  BY RolledBackIs
<1> QED BY <1>3, <1>4 DEF fs, LayersBear

\* A ledger that only grew goes back to itself.
LEMMA BackToItself ==
  ASSUME NEW l \in Ledgers, NEW m \in Ledgers, Continues(l, m),
         m.layers = l.layers, m.eed = l.eed
  PROVE  RolledBack(m, Checkpoint(l, FALSE)) = l
<1>1. RolledBack(m, Checkpoint(l, FALSE)) =
        [frames |-> l.frames, model |-> l.model, blocks |-> l.blocks,
         active |-> l.active, layers |-> m.layers, eed |-> m.eed]
  BY RollsBackTo
<1>2. l = [frames |-> l.frames, model |-> l.model, blocks |-> l.blocks,
           active |-> l.active, layers |-> l.layers, eed |-> l.eed]
  BY LedgerParts
<1> QED BY <1>1, <1>2

LEMMA NoWriteTyped ==
  NoWrite \in Writes /\ ~NoWrite.checkpoint.admission
  /\ \A x, h : ~CaptureBears(NoWrite.captured, x, h)
<1>1. NoLedger \in Ledgers
  <2>1. /\ <<>> \in Seq(Frames) /\ <<>> \in Seq(Handles) /\ <<>> \in Seq(BlockSet)
        /\ 0 \in Handles /\ [x \in Layers |-> 0] \in [Layers -> Handles]
    BY ScopesAssumption DEF Handles
  <2> QED BY <2>1 DEF NoLedger, Ledgers
<1>2. Checkpoint(NoLedger, FALSE) \in Checkpoints
  BY <1>1, CheckpointIs
<1>3. NoCaptures \in Captures /\ DOMAIN NoCaptures = {}
  <2>1. <<>> \in [{} -> Entry]
    OBVIOUS
  <2> QED BY <2>1 DEF NoCaptures, Captures
<1> QED BY <1>2, <1>3 DEF NoWrite, Writes, CaptureBears, Checkpoint

\* Calls that leave who carries what alone.
LEMMA KeepsBearers ==
  ASSUME IInv, TypeInv', UNCHANGED <<held, scopes>>, alloc.next <= alloc'.next,
         lastWrite' = lastWrite \/ lastWrite' = NoWrite,
         ledger'.layers = ledger.layers, ledger'.frames = ledger.frames
  PROVE  Moves
<1>1. \A x, h : CaptureBears(lastWrite'.captured, x, h) => CaptureBears(lastWrite.captured, x, h)
  BY NoWriteTyped
<1>2. ASSUME NEW x \in Whos, NEW h \in Handles, Bears(x, h)' PROVE Bears(x, h)
  BY <1>1, <1>2 DEF Bears
<1> QED BY <1>2, MovesQuietly

LEMMA SoundStays == ASSUME IInv PROVE HP!Sound(alloc) /\ alloc.next \in Nat /\ alloc.next \in Handles
BY SoundNext DEF IInv, TypeInv, Handles

LEMMA ActiveKept ==
  ASSUME NEW l \in Ledgers, NEW a \in Handles
  PROVE  LET m == [l EXCEPT !.active = a]
         IN /\ m \in Ledgers /\ m.frames = l.frames /\ m.model = l.model
            /\ m.blocks = l.blocks /\ m.layers = l.layers /\ m.eed = l.eed /\ m.active = a
            /\ Continues(l, m)
<1> DEFINE m == [l EXCEPT !.active = a]
<1>1. l = [frames |-> l.frames, model |-> l.model, blocks |-> l.blocks,
           active |-> l.active, layers |-> l.layers, eed |-> l.eed]
  BY LedgerParts
<1>2. m = [frames |-> l.frames, model |-> l.model, blocks |-> l.blocks,
           active |-> a, layers |-> l.layers, eed |-> l.eed]
  BY <1>1
<1>3. m \in Ledgers
  BY <1>2, LedgerParts DEF Ledgers
<1> HIDE DEF m
<1>4. Continues(l, m)
  BY <1>2, ContinuesItself DEF Continues
<1> QED BY <1>2, <1>3, <1>4 DEF m

LEMMA StartContentMoves == ASSUME IInv, StartContent PROVE Moves
<1>1. TypeInv'
  BY DEF StartContent, IInv, TypeInv
<1>2. alloc.next <= alloc'.next
  BY SoundStays DEF StartContent
<1> QED BY <1>1, <1>2, KeepsBearers DEF StartContent

LEMMA MarkFailureMoves == ASSUME IInv, MarkFailure PROVE Moves
<1>1. TypeInv'
  BY DEF MarkFailure, IInv, TypeInv
<1>2. alloc.next <= alloc'.next
  BY SoundStays DEF MarkFailure
<1> QED BY <1>1, <1>2, KeepsBearers DEF MarkFailure

LEMMA FinishMoves == ASSUME IInv, Finish PROVE Moves
<1>1. TypeInv'
  BY DEF Finish, IInv, TypeInv
<1>2. alloc.next <= alloc'.next
  BY SoundStays DEF Finish
<1> QED BY <1>1, <1>2, KeepsBearers DEF Finish

LEMMA OvertakenTyped ==
  ASSUME TypeInv PROVE Overtaken \in [frames : SUBSET Handles, overtaken : BOOLEAN]
BY DEF TypeInv, Overtaken

LEMMA BeginBlockContentMoves ==
  ASSUME IInv, NEW i \in DOMAIN ledger.blocks, BeginBlockContent(i) PROVE Moves
<1>1. ledger \in Ledgers /\ ledger.blocks[i].record \in Handles
  BY LedgerParts DEF IInv, TypeInv, BlockSet
<1>2. ledger' \in Ledgers /\ ledger'.frames = ledger.frames /\ ledger'.layers = ledger.layers
  BY <1>1, ActiveKept DEF BeginBlockContent
<1>3. TypeInv'
  BY <1>2, OvertakenTyped DEF BeginBlockContent, IInv, TypeInv
<1>4. alloc.next <= alloc'.next
  BY SoundStays DEF BeginBlockContent
<1> QED BY <1>2, <1>3, <1>4, KeepsBearers DEF BeginBlockContent

LEMMA EndBlockContentMoves == ASSUME IInv, EndBlockContent PROVE Moves
<1>1. ledger \in Ledgers /\ 0 \in Handles
  BY ScopesAssumption DEF IInv, TypeInv, Handles
<1>2. ledger' \in Ledgers /\ ledger'.frames = ledger.frames /\ ledger'.layers = ledger.layers
  BY <1>1, ActiveKept DEF EndBlockContent
<1>3. TypeInv'
  BY <1>2, OvertakenTyped DEF EndBlockContent, IInv, TypeInv
<1>4. alloc.next <= alloc'.next
  BY SoundStays DEF EndBlockContent
<1> QED BY <1>2, <1>3, <1>4, KeepsBearers DEF EndBlockContent

LEMMA AddLayerMoves == ASSUME IInv, NEW x \in Layers, AddLayer(x) PROVE Moves
<1> DEFINE known == ledger.layers[x]
           handle == IF known # 0 THEN known ELSE Handle!MintedHandle(alloc)
<1>1. x \in Records /\ held \in Helds /\ ledger \in Ledgers /\ known \in Handles
      /\ x \in Whos
  BY LedgerParts DEF IInv, TypeInv, Records, Whos
<1>2. /\ alloc' = IF known # 0 THEN alloc ELSE Handle!Minted(alloc)
      /\ ledger' = [ledger EXCEPT !.layers[x] = handle]
      /\ held' = [held EXCEPT ![x].handle = handle]
      /\ scopes' = Remembered({x}) /\ begun' = IF Tracking THEN begun ELSE Loosened({x})
      /\ calls' = calls + 1
      /\ UNCHANGED <<phase, lastWrite, written, skips, required, result, undo>>
  BY DEF AddLayer
<1>3. /\ HP!Sound(alloc') /\ alloc.next <= alloc'.next /\ handle \in Handles
      /\ handle < alloc'.next /\ (handle >= alloc.next \/ Bears(x, handle))
  <2>1. alloc.next < MaxHandle
    <3>1. alloc.next + 1 < MaxHandle
      BY SoundStays, RoomLeft DEF AddLayer
    <3> QED BY <3>1, SoundStays, ScopesAssumption
  <2>2. CASE known # 0
    <3>1. Bears(x, known)
      BY DEF Bears, LayersBear
    <3>2. known < alloc.next
      BY <1>1, <3>1 DEF IInv, Behind
    <3> QED BY <1>1, <1>2, <2>2, <3>1, <3>2, SoundStays
  <2>3. CASE known = 0
    <3>1. /\ Handle!MintedHandle(alloc) = alloc.next /\ HP!Sound(Handle!Minted(alloc))
          /\ Handle!Minted(alloc).next = alloc.next + 1
      BY <2>1, SoundStays, MintNext
    <3> QED BY <1>2, <2>3, <3>1, SoundStays
  <2> QED BY <2>2, <2>3
<1> HIDE DEF handle, known
<1>4. /\ held' \in Helds
      /\ \A y, g : HeldBears(held', y, g) => HeldBears(held, y, g) \/ (y = x /\ g = handle)
  BY <1>1, <1>2, <1>3, HeldExcept
<1>5. {x} \in SUBSET Records
  BY <1>1
<1>6. /\ scopes' \in Seq(Scopes) /\ Len(scopes') = Len(scopes)
      /\ \A y, g : ScopesBear(scopes', y, g) => ScopesBear(scopes, y, g) \/ HeldBears(held, y, g)
  BY <1>2, <1>5, RememberedIs DEF IInv
<1>7. begun' \in Seq(Begins) /\ Len(begun') = Len(begun)
  BY <1>2, <1>5, LoosenedIs DEF IInv, TypeInv
<1>8. /\ ledger' \in Ledgers /\ ledger'.frames = ledger.frames
      /\ ledger'.layers = [ledger.layers EXCEPT ![x] = handle]
  <2>1. ledger = [frames |-> ledger.frames, model |-> ledger.model, blocks |-> ledger.blocks,
           active |-> ledger.active, layers |-> ledger.layers, eed |-> ledger.eed]
        /\ ledger.layers \in [Layers -> Handles]
    BY <1>1, LedgerParts
  <2>2. ledger' = [frames |-> ledger.frames, model |-> ledger.model, blocks |-> ledger.blocks,
           active |-> ledger.active, layers |-> [ledger.layers EXCEPT ![x] = handle],
           eed |-> ledger.eed]
    BY <1>2, <2>1
  <2>3. [ledger.layers EXCEPT ![x] = handle] \in [Layers -> Handles]
    BY <1>3, <2>1
  <2>4. ledger' \in Ledgers
    BY <1>1, <2>2, <2>3, LedgerParts DEF Ledgers
  <2> QED BY <2>2, <2>4
<1>9. TypeInv'
  <2>1. /\ HP!Sound(alloc') /\ held' \in Helds /\ ledger' \in Ledgers
        /\ scopes' \in Seq(Scopes) /\ begun' \in Seq(Begins) /\ Len(begun') = Len(scopes')
    BY <1>3, <1>4, <1>6, <1>7, <1>8 DEF IInv, TypeInv
  <2>2. /\ phase' = phase /\ lastWrite' = lastWrite /\ written' = written /\ skips' = skips
        /\ required' = required /\ result' = result /\ undo' = undo /\ calls' = calls + 1
    BY <1>2
  <2> QED BY <2>1, <2>2 DEF IInv, TypeInv
<1>10. \A y, g : LayersBear(ledger'.layers, y, g) =>
                   LayersBear(ledger.layers, y, g) \/ (y = x /\ g = handle)
  BY <1>1, <1>8, LedgerParts DEF LayersBear
<1>11. ASSUME NEW y \in Whos, NEW g \in Handles, Bears(y, g)'
       PROVE  Bears(y, g) \/ (y = x /\ g = handle)
  <2>1. \/ HeldBears(held', y, g) \/ ScopesBear(scopes', y, g)
        \/ CaptureBears(lastWrite'.captured, y, g)
        \/ LayersBear(ledger'.layers, y, g) \/ FramesBear(ledger'.frames, y, g)
    BY <1>11 DEF Bears
  <2>2. lastWrite' = lastWrite /\ ledger'.frames = ledger.frames
    BY <1>2, <1>8
  <2>3. \/ HeldBears(held, y, g) \/ ScopesBear(scopes, y, g)
        \/ CaptureBears(lastWrite.captured, y, g)
        \/ LayersBear(ledger.layers, y, g) \/ FramesBear(ledger.frames, y, g)
        \/ (y = x /\ g = handle)
    BY <1>4, <1>6, <1>10, <2>1, <2>2
  <2> QED BY <2>3 DEF Bears
<1> QED BY <1>3, <1>9, <1>11, MovesOne

\* defineBlock() takes three handles in a row.
LEMMA TrioIs ==
  ASSUME IInv, Room(3)
  PROVE  LET trio == Trio(alloc)
         IN /\ trio.record = alloc.next /\ trio.block = alloc.next + 1
            /\ trio.endblk = alloc.next + 2 /\ trio.alloc.next = alloc.next + 3
            /\ HP!Sound(trio.alloc)
            /\ {trio.record, trio.block, trio.endblk} \subseteq Handles
<1>1. HP!Sound(alloc) /\ alloc.next \in Nat /\ alloc.next + 3 < MaxHandle /\ MaxHandle \in Nat
  BY SoundStays, RoomLeft, ScopesAssumption
<1> DEFINE one == Handle!Minted(alloc)
           two == Handle!Minted(one)
<1>2. /\ Handle!MintedHandle(alloc) = alloc.next /\ HP!Sound(one) /\ one.next = alloc.next + 1
  BY <1>1, MintNext
<1> HIDE DEF one
<1>3. /\ Handle!MintedHandle(one) = alloc.next + 1 /\ HP!Sound(two)
      /\ two.next = alloc.next + 2
  <2>1. one.next < MaxHandle
    BY <1>1, <1>2
  <2>2. /\ Handle!MintedHandle(one) = one.next /\ HP!Sound(two) /\ two.next = one.next + 1
    BY <1>2, <2>1, MintNext
  <2> QED BY <1>1, <1>2, <2>2
<1> HIDE DEF two
<1>4. /\ Handle!MintedHandle(two) = alloc.next + 2 /\ HP!Sound(Handle!Minted(two))
      /\ Handle!Minted(two).next = alloc.next + 3
  <2>1. two.next < MaxHandle
    BY <1>1, <1>3
  <2>2. /\ Handle!MintedHandle(two) = two.next /\ HP!Sound(Handle!Minted(two))
        /\ Handle!Minted(two).next = two.next + 1
    BY <1>3, <2>1, MintNext
  <2> QED BY <1>1, <1>3, <2>2
<1>5. Trio(alloc) = [record |-> Handle!MintedHandle(alloc), block |-> Handle!MintedHandle(one),
                     endblk |-> Handle!MintedHandle(two), alloc |-> Handle!Minted(two)]
  BY DEF Trio, one, two
<1>6. {alloc.next, alloc.next + 1, alloc.next + 2} \subseteq Handles
  BY <1>1 DEF Handles
<1> QED BY <1>2, <1>3, <1>4, <1>5, <1>6

LEMMA DefineBlockIs ==
  ASSUME IInv, NEW b \in Blocks, DefineBlock(b)
  PROVE  LET trio == Trio(alloc)
             f1 == [handle |-> trio.block, of |-> b]
             f2 == [handle |-> trio.endblk, of |-> b]
         IN /\ ledger' \in Ledgers
            /\ ledger'.frames = Append(Append(ledger.frames, f1), f2)
            /\ ledger'.model = ledger.model /\ ledger'.active = ledger.active
            /\ ledger'.layers = ledger.layers /\ ledger'.eed = ledger.eed
            /\ ledger'.blocks = Append(ledger.blocks, Block(b, trio.record, <<>>))
            /\ Block(b, trio.record, <<>>) \in BlockSet
            /\ \A x, h : FramesBear(ledger'.frames, x, h) =>
                 FramesBear(ledger.frames, x, h) \/ (x = b /\ h \in {trio.block, trio.endblk})
<1> DEFINE trio == Trio(alloc)
           l1 == Framing(ledger, trio.block, b)
           l2 == Framing(l1, trio.endblk, b)
           bs == Append(ledger.blocks, Block(b, trio.record, <<>>))
<1>1. trio.record \in Handles /\ trio.block \in Handles /\ trio.endblk \in Handles
  BY TrioIs DEF DefineBlock
<1>2. ledger \in Ledgers /\ b \in Whos
  BY DEF IInv, TypeInv, Whos
<1>3. ledger' = [l2 EXCEPT !.blocks = Append(l2.blocks, Block(b, trio.record, <<>>))]
  BY DEF DefineBlock
<1> HIDE DEF trio
<1>4. /\ l1 \in Ledgers
      /\ l1.frames = Append(ledger.frames, [handle |-> trio.block, of |-> b])
      /\ l1.model = ledger.model /\ l1.blocks = ledger.blocks /\ l1.active = ledger.active
      /\ l1.layers = ledger.layers /\ l1.eed = ledger.eed
      /\ \A x, h : FramesBear(l1.frames, x, h) =>
                     FramesBear(ledger.frames, x, h) \/ (x = b /\ h = trio.block)
  <2>1. /\ ledger \in Ledgers /\ trio.block \in Handles /\ b \in Whos
    BY <1>1, <1>2
  <2>2. \A x, h : FramesBear(l1.frames, x, h) =>
                     FramesBear(ledger.frames, x, h) \/ (x = b /\ h = trio.block)
    BY <2>1, FramingBears
  <2> QED BY <2>1, <2>2, FramingIs
<1> HIDE DEF l1
<1>5. /\ l2 \in Ledgers
      /\ l2.frames = Append(l1.frames, [handle |-> trio.endblk, of |-> b])
      /\ l2.model = l1.model /\ l2.blocks = l1.blocks /\ l2.active = l1.active
      /\ l2.layers = l1.layers /\ l2.eed = l1.eed
      /\ \A x, h : FramesBear(l2.frames, x, h) =>
                     FramesBear(l1.frames, x, h) \/ (x = b /\ h = trio.endblk)
  <2>1. /\ l1 \in Ledgers /\ trio.endblk \in Handles /\ b \in Whos
    BY <1>1, <1>2, <1>4
  <2>2. \A x, h : FramesBear(l2.frames, x, h) =>
                     FramesBear(l1.frames, x, h) \/ (x = b /\ h = trio.endblk)
    BY <2>1, FramingBears
  <2> QED BY <2>1, <2>2, FramingIs
<1> HIDE DEF l2
<1>6. Block(b, trio.record, <<>>) \in BlockSet
  <2>1. <<>> \in Seq(Handles)
    OBVIOUS
  <2> QED BY <1>1, <2>1 DEF Block, BlockSet
<1>7. bs \in Seq(BlockSet)
  BY <1>2, <1>6, LedgerParts, AppendProperties
<1>8. l2 = [frames |-> l2.frames, model |-> l2.model, blocks |-> l2.blocks,
            active |-> l2.active, layers |-> l2.layers, eed |-> l2.eed]
  BY <1>5, LedgerParts
<1>9. ledger' = [frames |-> l2.frames, model |-> l2.model, blocks |-> bs,
                 active |-> l2.active, layers |-> l2.layers, eed |-> l2.eed]
  <2>1. l2.blocks = ledger.blocks
    BY <1>4, <1>5
  <2> HIDE DEF bs
  <2>2. ledger' = [l2 EXCEPT !.blocks = bs]
    BY <1>3, <2>1 DEF bs
  <2> QED BY <1>8, <2>2
<1>10. ledger' \in Ledgers
  BY <1>5, <1>7, <1>9, LedgerParts DEF Ledgers
<1>11. \A x, h : FramesBear(ledger'.frames, x, h) =>
         FramesBear(ledger.frames, x, h) \/ (x = b /\ h \in {trio.block, trio.endblk})
  BY <1>4, <1>5, <1>9
<1> QED BY <1>4, <1>5, <1>6, <1>9, <1>10, <1>11 DEF trio

LEMMA DefineBlockMoves ==
  ASSUME IInv, NEW b \in Blocks, DefineBlock(b) PROVE Moves
<1> DEFINE trio == Trio(alloc)
<1>1. alloc' = trio.alloc /\ calls' = calls + 1 /\ undo' = Overtaken
      /\ UNCHANGED <<phase, held, scopes, lastWrite, written, skips, required, result, begun>>
  BY DEF DefineBlock
<1>2. /\ HP!Sound(alloc') /\ alloc'.next = alloc.next + 3 /\ alloc.next \in Nat
      /\ trio.block = alloc.next + 1 /\ trio.endblk = alloc.next + 2
  BY <1>1, TrioIs, SoundStays DEF DefineBlock
<1>3. /\ ledger' \in Ledgers /\ ledger'.layers = ledger.layers
      /\ \A x, h : FramesBear(ledger'.frames, x, h) =>
           FramesBear(ledger.frames, x, h) \/ (x = b /\ h \in {trio.block, trio.endblk})
  BY DefineBlockIs
<1> HIDE DEF trio
<1>4. TypeInv'
  BY <1>1, <1>2, <1>3, OvertakenTyped DEF IInv, TypeInv
<1>5. ASSUME NEW x \in Whos, NEW h \in Handles, Bears(x, h)'
      PROVE  Bears(x, h) \/ (x = b /\ h >= alloc.next /\ h < alloc'.next)
  <2>1. Bears(x, h) \/ (x = b /\ h \in {trio.block, trio.endblk})
    BY <1>1, <1>3, <1>5 DEF Bears
  <2> QED BY <1>2, <2>1
<1>6. ASSUME NEW x \in Whos, NEW y \in Whos, NEW h \in Handles,
             h >= alloc.next, Bears(x, h)', Bears(y, h)'
      PROVE  x = y
  <2>1. ~Bears(x, h) /\ ~Bears(y, h)
    BY <1>2, <1>6 DEF IInv, Behind, Handles
  <2> QED BY <1>5, <1>6, <2>1
<1>7. alloc.next <= alloc'.next
  BY <1>2
<1>8. \A x \in Whos, h \in Handles :
        Bears(x, h)' => \/ Bears(x, h)
                        \/ h >= alloc.next /\ h < alloc'.next
                        \/ x = "raw" /\ h \in Raws
  BY <1>5
<1> QED BY <1>4, <1>6, <1>7, <1>8 DEF Moves

LEMMA DefineBlockFailsIs ==
  ASSUME IInv, NEW b \in Blocks, NEW framed \in BOOLEAN, DefineBlockFails(b, framed)
  PROVE  ledger' = ledger
<1> DEFINE trio == Trio(alloc)
           m == IF framed THEN Framing(ledger, trio.block, b) ELSE ledger
<1>1. trio.block \in Handles
  BY TrioIs DEF DefineBlockFails
<1>2. ledger \in Ledgers /\ b \in Whos
  BY DEF IInv, TypeInv, Whos
<1>3. ledger' = RolledBack(m, Checkpoint(ledger, FALSE))
  BY DEF DefineBlockFails
<1> HIDE DEF trio
<1>4. m \in Ledgers /\ Continues(ledger, m) /\ m.layers = ledger.layers /\ m.eed = ledger.eed
  BY <1>1, <1>2, FramingIs, ContinuesItself
<1> HIDE DEF m
<1> QED BY <1>2, <1>3, <1>4, BackToItself

LEMMA DefineBlockFailsMoves ==
  ASSUME IInv, NEW b \in Blocks, NEW framed \in BOOLEAN, DefineBlockFails(b, framed)
  PROVE  Moves
<1>1. HP!Sound(alloc') /\ alloc.next <= alloc'.next
  BY TrioIs, SoundStays DEF DefineBlockFails
<1>2. ledger' = ledger
  BY DefineBlockFailsIs
<1>3. TypeInv'
  <2>1. /\ skips' = skips + 1 /\ calls' = calls + 1
        /\ UNCHANGED <<phase, held, scopes, lastWrite, written, required, result, begun, undo>>
    BY DEF DefineBlockFails
  <2> QED BY <1>1, <1>2, <2>1 DEF IInv, TypeInv
<1> QED BY <1>1, <1>2, <1>3, KeepsBearers DEF DefineBlockFails

\* What the write of e leaves in the callers' records.
LEMMA StampedIs ==
  ASSUME IInv, NEW e \in Entities, NEW handles \in Seq(Handles),
         Len(handles) = Len(Parts[e])
  PROVE  /\ Stamped(e, handles) \in Helds
         /\ \A m \in 1..Len(Parts[e]) : Stamped(e, handles)[Parts[e][m]].handle = handles[m]
         /\ \A r \in Records \ PartsOf(e) : Stamped(e, handles)[r] = held[r]
<1> DEFINE L == Len(Parts[e])
           new == Stamped(e, handles)
           at(r) == CHOOSE n \in 2..Len(handles) : Parts[e][n] = r
<1>1. /\ L \in Nat \ {0} /\ DOMAIN Parts[e] = 1..L /\ Parts[e][1] = e /\ e \in Records
      /\ \A n \in 1..L : Parts[e][n] \in Records
      /\ \A n \in 1..L : handles[n] \in Handles
  BY PartsAre, ElementOfSeq
<1>2. \A n, m \in 1..L : Parts[e][n] = Parts[e][m] => n = m
  BY <1>1, ScopesAssumption
<1>3. OwnerOf(e) \in Handles
  <2>1. held[e].owner \in Handles /\ ledger.active \in Handles
    BY <1>1, LedgerParts DEF IInv, TypeInv, Helds, Entry
  <2> QED BY <2>1 DEF OwnerOf
<1>4. ASSUME NEW r \in Records
      PROVE  new[r] = IF r = e THEN [handle |-> handles[1], owner |-> OwnerOf(e)]
                      ELSE IF \E n \in 2..Len(handles) : Parts[e][n] = r
                      THEN [handle |-> handles[at(r)], owner |-> handles[1]]
                      ELSE held[r]
  BY DEF Stamped
<1>5. ASSUME NEW m \in 2..L PROVE at(Parts[e][m]) = m /\ Parts[e][m] # e
  <2>1. at(Parts[e][m]) \in 2..L /\ Parts[e][at(Parts[e][m])] = Parts[e][m]
    OBVIOUS
  <2> HIDE DEF at
  <2> QED BY <1>1, <1>2, <2>1
<1> HIDE DEF at, new
<1>6. ASSUME NEW m \in 1..L
      PROVE  new[Parts[e][m]] \in Entry /\ new[Parts[e][m]].handle = handles[m]
  <2>1. Parts[e][m] \in Records
    BY <1>1
  <2>2. CASE m = 1
    <3>1. new[Parts[e][m]] = [handle |-> handles[1], owner |-> OwnerOf(e)]
      BY <1>1, <1>4, <2>2
    <3> QED BY <1>1, <1>3, <2>2, <3>1 DEF Entry
  <2>3. CASE m # 1
    <3>1. m \in 2..L /\ 1 \in 1..L
      BY <1>1, <2>3
    <3>2. new[Parts[e][m]] = [handle |-> handles[m], owner |-> handles[1]]
      BY <1>4, <1>5, <2>1, <3>1
    <3> QED BY <1>1, <3>1, <3>2 DEF Entry
  <2> QED BY <2>2, <2>3
<1>7. ASSUME NEW r \in Records \ PartsOf(e) PROVE new[r] = held[r]
  <2>1. r # e /\ ~\E n \in 2..Len(handles) : Parts[e][n] = r
    BY <1>1 DEF PartsOf
  <2> QED BY <1>4, <2>1
<1>8. new \in Helds
  <2>1. \A r \in Records : new[r] \in Entry
    <3>1. ASSUME NEW r \in PartsOf(e) PROVE new[r] \in Entry
      BY <1>1, <1>6 DEF PartsOf
    <3>2. \A r \in Records \ PartsOf(e) : new[r] \in Entry
      BY <1>7 DEF IInv, TypeInv, Helds
    <3> QED BY <3>1, <3>2
  <2> QED BY <2>1 DEF Helds, Stamped, new
<1> QED BY <1>6, <1>7, <1>8 DEF new

\* A write that succeeds: who carries the new handles.
LEMMA WriteEntityIs ==
  ASSUME IInv, NEW e \in Entities, WriteEntity(e)
  PROVE  LET a == Assigned(e)[Len(Parts[e])]
         IN /\ Len(Parts[e]) \in Nat \ {0} /\ a.handles \in Seq(Handles)
            /\ Len(a.handles) = Len(Parts[e]) /\ DOMAIN a.handles = 1..Len(Parts[e])
            /\ alloc' = a.alloc /\ HP!Sound(a.alloc) /\ alloc.next <= a.alloc.next
            /\ held' = Stamped(e, a.handles) /\ held' \in Helds
            /\ StagedOK(e, a.handles, Len(Parts[e]), ledger')
            /\ \A m \in 1..Len(Parts[e]) :
                 /\ held'[Parts[e][m]].handle = a.handles[m]
                 /\ a.handles[m] \in Handles /\ Parts[e][m] \in Records
                 /\ IF Unset(e, m) THEN a.handles[m] \in alloc.next..(a.alloc.next - 1)
                    ELSE a.handles[m] = held[Parts[e][m]].handle
            /\ \A m, k \in 1..Len(Parts[e]) :
                 m < k /\ Unset(e, m) /\ Unset(e, k) => a.handles[m] < a.handles[k]
            /\ \A r \in Records \ PartsOf(e) : held'[r] = held[r]
            /\ lastWrite' = [checkpoint |-> Checkpoint(ledger, FALSE),
                             captured |-> Captured(PartsOf(e)), live |-> TRUE]
            /\ undo' = [frames |-> {a.handles[n] : n \in DOMAIN a.handles},
                        overtaken |-> FALSE]
<1> DEFINE a == Assigned(e)[Len(Parts[e])]
<1>1. /\ Room(Len(Parts[e])) /\ alloc' = a.alloc
      /\ ledger' = Staged(e, a.handles)[Len(Parts[e])]
      /\ held' = Stamped(e, a.handles)
      /\ undo' = [frames |-> {a.handles[n] : n \in DOMAIN a.handles}, overtaken |-> FALSE]
      /\ lastWrite' = [checkpoint |-> Checkpoint(ledger, FALSE),
                       captured |-> Captured(PartsOf(e)), live |-> TRUE]
  BY DEF WriteEntity
<1>2. /\ HP!Sound(a.alloc) /\ alloc.next <= a.alloc.next
      /\ a.handles \in Seq(Handles) /\ Len(a.handles) = Len(Parts[e])
      /\ DOMAIN a.handles = 1..Len(Parts[e]) /\ Len(Parts[e]) \in Nat \ {0}
      /\ \A m \in 1..Len(Parts[e]) :
           /\ a.handles[m] \in Handles
           /\ IF Unset(e, m) THEN a.handles[m] \in alloc.next..(a.alloc.next - 1)
              ELSE a.handles[m] = held[Parts[e][m]].handle
      /\ \A m, k \in 1..Len(Parts[e]) :
           m < k /\ Unset(e, m) /\ Unset(e, k) => a.handles[m] < a.handles[k]
  BY <1>1, AssignedFor
<1> HIDE DEF a
<1>3. StagedOK(e, a.handles, Len(Parts[e]), ledger')
  <2>1. Len(Parts[e]) \in 0..Len(a.handles) /\ ledger \in Ledgers
    BY <1>2 DEF IInv, TypeInv
  <2> QED BY <1>1, <1>2, <2>1, StagedIs
<1>4. /\ held' \in Helds
      /\ \A m \in 1..Len(Parts[e]) : held'[Parts[e][m]].handle = a.handles[m]
      /\ \A r \in Records \ PartsOf(e) : held'[r] = held[r]
  BY <1>1, <1>2, StampedIs
<1>5. \A m \in 1..Len(Parts[e]) : Parts[e][m] \in Records
  BY PartsAre
<1> QED BY <1>1, <1>2, <1>3, <1>4, <1>5 DEF a

\* Who carries a frame of the parts.
LEMMA StagedBears ==
  ASSUME ledger \in Ledgers, NEW e \in Entities, NEW hs \in Seq(Handles),
         Len(hs) = Len(Parts[e]), NEW n \in 0..Len(hs), NEW l, StagedOK(e, hs, n, l)
  PROVE  \A x, h : FramesBear(l.frames, x, h) =>
           FramesBear(ledger.frames, x, h)
           \/ \E m \in 1..Len(Parts[e]) : x = Parts[e][m] /\ h = hs[m]
<1>1. /\ Grown(ledger.frames, l.frames, FramesOf(e, hs), n)
      /\ Len(ledger.frames) \in Nat /\ Len(hs) \in Nat
  BY LedgerParts, LenProperties DEF StagedOK
<1> DEFINE k == Len(ledger.frames)
<1>2. /\ Len(l.frames) = k + n /\ \A i \in 1..k : l.frames[i] = ledger.frames[i]
      /\ \A m \in 1..n : l.frames[k + m] = FramesOf(e, hs)[m]
  BY <1>1 DEF Grown, Prefix
<1> HIDE DEF k
<1>3. \A m \in 1..n : m \in 1..Len(Parts[e])
                      /\ FramesOf(e, hs)[m] = [handle |-> hs[m], of |-> Parts[e][m]]
  BY <1>1 DEF FramesOf
<1>4. \A i \in 1..(k + n) : i \in 1..k \/ \E m \in 1..n : i = k + m
  <2>1. ASSUME NEW i \in 1..(k + n), i \notin 1..k PROVE i - k \in 1..n /\ i = k + (i - k)
    BY <1>1, <2>1 DEF k
  <2> QED BY <2>1
<1>5. ASSUME NEW x, NEW h, FramesBear(l.frames, x, h)
      PROVE  FramesBear(ledger.frames, x, h)
             \/ \E m \in 1..Len(Parts[e]) : x = Parts[e][m] /\ h = hs[m]
  <2>1. PICK i \in 1..(k + n) : l.frames[i] = [handle |-> h, of |-> x]
    BY <1>2, <1>5 DEF FramesBear
  <2>2. CASE i \in 1..k
    BY <1>2, <2>1, <2>2 DEF FramesBear, k
  <2>3. CASE i \notin 1..k
    <3>1. PICK m \in 1..n : i = k + m
      BY <1>4, <2>3
    <3>2. [handle |-> h, of |-> x] = [handle |-> hs[m], of |-> Parts[e][m]]
      <4>1. l.frames[k + m] = FramesOf(e, hs)[m]
        BY <1>2
      <4>2. FramesOf(e, hs)[m] = [handle |-> hs[m], of |-> Parts[e][m]]
        BY <1>3
      <4> QED BY <2>1, <3>1, <4>1, <4>2
    <3>3. x = Parts[e][m] /\ h = hs[m]
      <4>1. [handle |-> h, of |-> x].of = [handle |-> hs[m], of |-> Parts[e][m]].of
            /\ [handle |-> h, of |-> x].handle = [handle |-> hs[m], of |-> Parts[e][m]].handle
        BY <3>2
      <4> QED BY <4>1
    <3> QED BY <1>3, <3>3
  <2> QED BY <2>2, <2>3
<1> QED BY <1>5

LEMMA UndoTyped ==
  ASSUME NEW hs \in Seq(Handles)
  PROVE  [frames |-> {hs[n] : n \in DOMAIN hs}, overtaken |-> FALSE]
           \in [frames : SUBSET Handles, overtaken : BOOLEAN]
<1>1. \A n \in DOMAIN hs : hs[n] \in Handles
  BY LenProperties, ElementOfSeq
<1> QED BY <1>1

LEMMA WriteEntityMoves ==
  ASSUME IInv, NEW e \in Entities, WriteEntity(e) PROVE Moves
<1> DEFINE a == Assigned(e)[Len(Parts[e])]
           hs == a.handles
           L == Len(Parts[e])
<1>1. /\ L \in Nat \ {0} /\ hs \in Seq(Handles) /\ Len(hs) = L
      /\ HP!Sound(alloc') /\ alloc.next <= alloc'.next
      /\ held' \in Helds /\ StagedOK(e, hs, L, ledger')
      /\ \A m \in 1..L : /\ held'[Parts[e][m]].handle = hs[m] /\ hs[m] \in Handles
                         /\ Parts[e][m] \in Records
                         /\ IF Unset(e, m) THEN hs[m] \in alloc.next..(alloc'.next - 1)
                            ELSE hs[m] = held[Parts[e][m]].handle
      /\ \A m, k \in 1..L : m < k /\ Unset(e, m) /\ Unset(e, k) => hs[m] < hs[k]
      /\ \A r \in Records \ PartsOf(e) : held'[r] = held[r]
      /\ lastWrite' = [checkpoint |-> Checkpoint(ledger, FALSE),
                       captured |-> Captured(PartsOf(e)), live |-> TRUE]
      /\ undo' = [frames |-> {hs[n] : n \in DOMAIN hs}, overtaken |-> FALSE]
  BY WriteEntityIs
<1>2. /\ scopes' = Remembered(PartsOf(e))
      /\ begun' = IF Tracking THEN begun ELSE Loosened(PartsOf(e))
      /\ written' = written + 1 /\ calls' = calls + 1
      /\ UNCHANGED <<phase, skips, required, result>>
  BY DEF WriteEntity
<1> HIDE DEF a, hs, L
<1>3. /\ ledger \in Ledgers /\ held \in Helds /\ PartsOf(e) \in SUBSET Records
      /\ alloc.next \in Nat
  BY PartsAre, SoundStays DEF IInv, TypeInv
<1>4. /\ scopes' \in Seq(Scopes) /\ Len(scopes') = Len(scopes)
      /\ \A y, g : ScopesBear(scopes', y, g) => ScopesBear(scopes, y, g) \/ HeldBears(held, y, g)
  BY <1>2, <1>3, RememberedIs DEF IInv
<1>5. begun' \in Seq(Begins) /\ Len(begun') = Len(begun)
  BY <1>2, <1>3, LoosenedIs DEF IInv, TypeInv
<1>6. ledger' \in Ledgers /\ ledger'.layers = ledger.layers
  BY <1>1 DEF StagedOK
<1>7. /\ lastWrite' \in Writes /\ ~lastWrite'.checkpoint.admission
      /\ \A x, h : CaptureBears(lastWrite'.captured, x, h) => HeldBears(held, x, h)
  <2>1. Captured(PartsOf(e)) \in Captures
        /\ \A x, h : CaptureBears(Captured(PartsOf(e)), x, h) => HeldBears(held, x, h)
    BY <1>3, CapturedIs
  <2>2. Checkpoint(ledger, FALSE) \in Checkpoints /\ ~Checkpoint(ledger, FALSE).admission
    BY <1>3, CheckpointIs DEF Checkpoint
  <2> QED BY <1>1, <2>1, <2>2 DEF Writes
<1>8. undo' \in [frames : SUBSET Handles, overtaken : BOOLEAN]
  BY <1>1, UndoTyped
<1>9. TypeInv'
  <2>1. written' \in Nat /\ calls' \in Nat
    BY <1>2 DEF IInv, TypeInv
  <2>2. Len(begun') = Len(scopes')
    BY <1>4, <1>5 DEF IInv, TypeInv
  <2>3. phase' = phase /\ skips' = skips /\ required' = required /\ result' = result
    BY <1>2
  <2>4. held' \in Helds /\ HP!Sound(alloc')
    BY <1>1
  <2> QED BY <1>4, <1>5, <1>6, <1>7, <1>8, <2>1, <2>2, <2>3, <2>4 DEF IInv, TypeInv
<1>10. ASSUME NEW x \in Whos, NEW h \in Handles, Bears(x, h)'
       PROVE  Bears(x, h) \/ \E m \in 1..L : Unset(e, m) /\ x = Parts[e][m] /\ h = hs[m]
  <2>1. ASSUME NEW m \in 1..L, x = Parts[e][m], h = hs[m]
        PROVE  Bears(x, h) \/ \E k \in 1..L : Unset(e, k) /\ x = Parts[e][k] /\ h = hs[k]
    <3>1. CASE ~Unset(e, m)
      <4>1. HeldBears(held, x, h)
        BY <1>1, <2>1, <3>1 DEF HeldBears
      <4> QED BY <4>1 DEF Bears
    <3> QED BY <2>1, <3>1
  <2>2. CASE HeldBears(held', x, h)
    <3>1. CASE x \in PartsOf(e)
      <4>1. PICK m \in 1..L : x = Parts[e][m]
        BY <3>1, PartsAre DEF PartsOf, L
      <4> QED BY <1>1, <2>1, <2>2, <4>1 DEF HeldBears
    <3>2. CASE x \notin PartsOf(e)
      <4>1. HeldBears(held, x, h)
        BY <1>1, <2>2, <3>2 DEF HeldBears
      <4> QED BY <4>1 DEF Bears
    <3> QED BY <3>1, <3>2
  <2>3. CASE FramesBear(ledger'.frames, x, h)
    <3>1. FramesBear(ledger.frames, x, h) \/ \E m \in 1..L : x = Parts[e][m] /\ h = hs[m]
      <4>1. L \in 0..Len(hs)
        BY <1>1
      <4> QED BY <1>1, <1>3, <2>3, <4>1, StagedBears DEF L
    <3> QED BY <2>1, <3>1 DEF Bears
  <2>4. CASE \/ ScopesBear(scopes', x, h) \/ CaptureBears(lastWrite'.captured, x, h)
             \/ LayersBear(ledger'.layers, x, h)
    BY <1>4, <1>6, <1>7, <2>4 DEF Bears
  <2> QED BY <1>10, <2>2, <2>3, <2>4 DEF Bears
<1>11. ASSUME NEW x \in Whos, NEW y \in Whos, NEW h \in Handles,
              h >= alloc.next, Bears(x, h)', Bears(y, h)'
       PROVE  x = y
  <2>1. ~Bears(x, h) /\ ~Bears(y, h)
    BY <1>3, <1>11 DEF IInv, Behind, Handles
  <2>2. PICK m \in 1..L : Unset(e, m) /\ x = Parts[e][m] /\ h = hs[m]
    BY <1>10, <1>11, <2>1
  <2>3. PICK k \in 1..L : Unset(e, k) /\ y = Parts[e][k] /\ h = hs[k]
    BY <1>10, <1>11, <2>1
  <2>4. ~(m < k) /\ ~(k < m)
    <3>1. hs[m] = h /\ hs[k] = h /\ h \in Nat
      BY <2>2, <2>3 DEF Handles
    <3>2. (m < k => hs[m] < hs[k]) /\ (k < m => hs[k] < hs[m])
      BY <1>1, <2>2, <2>3
    <3> QED BY <3>1, <3>2
  <2> QED BY <1>1, <2>2, <2>3, <2>4
<1>12. \A x \in Whos, h \in Handles :
         Bears(x, h)' => \/ Bears(x, h)
                         \/ h >= alloc.next /\ h < alloc'.next
                         \/ x = "raw" /\ h \in Raws
  <2>1. ASSUME NEW m \in 1..L, Unset(e, m) PROVE hs[m] >= alloc.next /\ hs[m] < alloc'.next
    <3>1. alloc'.next \in Nat
      BY <1>1, SoundNext DEF Handles
    <3> QED BY <1>1, <1>3, <2>1, <3>1
  <2> QED BY <1>10, <2>1
<1> QED BY <1>1, <1>9, <1>11, <1>12 DEF Moves

\* A write that is refused leaves the ledger as it was, but for the mark of
\* extended data.
LEMMA RejectEntityIs ==
  ASSUME IInv, NEW e \in Entities, NEW n \in 0..(Len(Parts[e]) - 1), NEW eed \in BOOLEAN,
         RejectEntity(e, n, eed)
  PROVE  /\ ledger' = [ledger EXCEPT !.eed = ledger.eed \/ eed]
         /\ HP!Sound(alloc') /\ alloc.next <= alloc'.next
<1> DEFINE a == Assigned(e)[Len(Parts[e])]
           staged == Staged(e, a.handles)[n]
<1>1. /\ Room(Len(Parts[e])) /\ alloc' = a.alloc
      /\ ledger' = [RolledBack(staged, Checkpoint(ledger, FALSE)) EXCEPT !.eed = @ \/ eed]
  BY DEF RejectEntity
<1>2. /\ HP!Sound(a.alloc) /\ alloc.next <= a.alloc.next
      /\ a.handles \in Seq(Handles) /\ Len(a.handles) = Len(Parts[e])
      /\ Len(Parts[e]) \in Nat \ {0}
  BY <1>1, AssignedFor
<1> HIDE DEF a
<1>3. StagedOK(e, a.handles, n, staged)
  <2>1. n \in 0..Len(a.handles) /\ ledger \in Ledgers
    BY <1>2 DEF IInv, TypeInv
  <2> QED BY <1>2, <2>1, StagedIs
<1> HIDE DEF staged
<1>4. RolledBack(staged, Checkpoint(ledger, FALSE)) = ledger
  <2>1. ledger \in Ledgers
    BY DEF IInv, TypeInv
  <2> QED BY <1>3, <2>1, BackToItself DEF StagedOK
<1> QED BY <1>1, <1>2, <1>4

LEMMA EedKept ==
  ASSUME NEW l \in Ledgers, NEW eed \in BOOLEAN
  PROVE  LET m == [l EXCEPT !.eed = eed]
         IN /\ m \in Ledgers /\ m.frames = l.frames /\ m.model = l.model
            /\ m.blocks = l.blocks /\ m.layers = l.layers /\ m.active = l.active
            /\ Continues(l, m)
<1> DEFINE m == [l EXCEPT !.eed = eed]
<1>1. l = [frames |-> l.frames, model |-> l.model, blocks |-> l.blocks,
           active |-> l.active, layers |-> l.layers, eed |-> l.eed]
  BY LedgerParts
<1>2. m = [frames |-> l.frames, model |-> l.model, blocks |-> l.blocks,
           active |-> l.active, layers |-> l.layers, eed |-> eed]
  BY <1>1
<1>3. m \in Ledgers
  BY <1>2, LedgerParts DEF Ledgers
<1> HIDE DEF m
<1>4. Continues(l, m)
  BY <1>2, ContinuesItself DEF Continues
<1> QED BY <1>2, <1>3, <1>4 DEF m

LEMMA RejectEntityMoves ==
  ASSUME IInv, NEW e \in Entities, NEW n \in 0..(Len(Parts[e]) - 1), NEW eed \in BOOLEAN,
         RejectEntity(e, n, eed)
  PROVE  Moves
<1>1. /\ ledger' = [ledger EXCEPT !.eed = ledger.eed \/ eed]
      /\ HP!Sound(alloc') /\ alloc.next <= alloc'.next
  BY RejectEntityIs
<1>2. ledger' \in Ledgers /\ ledger'.frames = ledger.frames /\ ledger'.layers = ledger.layers
  <2>1. ledger \in Ledgers /\ (ledger.eed \/ eed) \in BOOLEAN
    BY LedgerParts DEF IInv, TypeInv
  <2> QED BY <1>1, <2>1, EedKept
<1>3. /\ skips' = skips + 1 /\ calls' = calls + 1 /\ lastWrite' = NoWrite
      /\ UNCHANGED <<phase, held, scopes, written, required, result, begun, undo>>
  BY DEF RejectEntity
<1>4. TypeInv'
  BY <1>1, <1>2, <1>3, NoWriteTyped DEF IInv, TypeInv
<1> QED BY <1>1, <1>2, <1>3, <1>4, KeepsBearers

LEMMA WriteObjectMoves == ASSUME IInv, NEW o \in Objects, WriteObject(o) PROVE Moves
<1> DEFINE t == Taken(alloc, o)
<1>1. /\ Room(1) /\ alloc' = Took(alloc, o) /\ ledger' = Framing(ledger, t, o)
      /\ held' = [held EXCEPT ![o].handle = t] /\ scopes' = Remembered({o})
      /\ begun' = IF Tracking THEN begun ELSE Loosened({o})
      /\ lastWrite' = NoWrite /\ calls' = calls + 1
      /\ UNCHANGED <<phase, written, skips, required, result, undo>>
  BY DEF WriteObject, Disarmed
<1>2. /\ o \in Records /\ o \in Whos /\ {o} \in SUBSET Records
      /\ ledger \in Ledgers /\ held \in Helds
  BY DEF Records, Whos, IInv, TypeInv
<1>3. /\ HP!Sound(alloc') /\ t \in Handles /\ alloc.next <= alloc'.next /\ t < alloc'.next
      /\ t = IF held[o].handle = 0 THEN alloc.next ELSE held[o].handle
  BY <1>1, <1>2, TakenIs
<1> HIDE DEF t
<1>4. /\ ledger' \in Ledgers /\ ledger'.layers = ledger.layers
      /\ \A x, h : FramesBear(ledger'.frames, x, h) =>
                     FramesBear(ledger.frames, x, h) \/ (x = o /\ h = t)
  <2>1. ledger' \in Ledgers /\ ledger'.layers = ledger.layers
    BY <1>1, <1>2, <1>3, FramingIs
  <2>2. \A x, h : FramesBear(ledger'.frames, x, h) =>
                     FramesBear(ledger.frames, x, h) \/ (x = o /\ h = t)
    BY <1>1, <1>2, <1>3, FramingBears
  <2> QED BY <2>1, <2>2
<1>5. /\ held' \in Helds
      /\ \A y, g : HeldBears(held', y, g) => HeldBears(held, y, g) \/ (y = o /\ g = t)
  BY <1>1, <1>2, <1>3, HeldExcept
<1>6. /\ scopes' \in Seq(Scopes) /\ Len(scopes') = Len(scopes)
      /\ \A y, g : ScopesBear(scopes', y, g) => ScopesBear(scopes, y, g) \/ HeldBears(held, y, g)
  BY <1>1, <1>2, RememberedIs DEF IInv
<1>7. begun' \in Seq(Begins) /\ Len(begun') = Len(begun)
  BY <1>1, <1>2, LoosenedIs DEF IInv, TypeInv
<1>8. /\ lastWrite' \in Writes /\ ~lastWrite'.checkpoint.admission
      /\ \A x, h : ~CaptureBears(lastWrite'.captured, x, h)
  BY <1>1, NoWriteTyped
<1>9. TypeInv'
  <2>1. /\ phase' = phase /\ written' = written /\ skips' = skips
        /\ required' = required /\ result' = result /\ undo' = undo /\ calls' = calls + 1
    BY <1>1
  <2>2. Len(begun') = Len(scopes')
    BY <1>6, <1>7 DEF IInv, TypeInv
  <2> QED BY <1>3, <1>4, <1>5, <1>6, <1>7, <1>8, <2>1, <2>2 DEF IInv, TypeInv
<1>10. ASSUME NEW x \in Whos, NEW h \in Handles, Bears(x, h)'
       PROVE  Bears(x, h) \/ (x = o /\ h = t)
  <2>1. \/ HeldBears(held', x, h) \/ ScopesBear(scopes', x, h)
        \/ CaptureBears(lastWrite'.captured, x, h)
        \/ LayersBear(ledger'.layers, x, h) \/ FramesBear(ledger'.frames, x, h)
    BY <1>10 DEF Bears
  <2>2. \/ HeldBears(held, x, h) \/ ScopesBear(scopes, x, h)
        \/ LayersBear(ledger.layers, x, h) \/ FramesBear(ledger.frames, x, h)
        \/ (x = o /\ h = t)
    BY <1>4, <1>5, <1>6, <1>8, <2>1
  <2> QED BY <2>2 DEF Bears
<1>11. t >= alloc.next \/ Bears(o, t)
  <2>1. CASE held[o].handle = 0
    BY <1>3, <2>1, SoundStays
  <2>2. CASE held[o].handle # 0
    <3>1. HeldBears(held, o, t)
      BY <1>2, <1>3, <2>2 DEF HeldBears
    <3> QED BY <3>1 DEF Bears
  <2> QED BY <2>1, <2>2
<1> QED BY <1>3, <1>9, <1>10, <1>11, MovesOne

LEMMA RejectObjectIs ==
  ASSUME IInv, NEW o \in Objects, RejectObject(o)
  PROVE  /\ ledger' = ledger /\ HP!Sound(alloc') /\ alloc.next <= alloc'.next
<1> DEFINE t == Taken(alloc, o)
           m == Framing(ledger, t, o)
<1>1. /\ Room(1) /\ alloc' = Took(alloc, o)
      /\ ledger' = RolledBack(m, Checkpoint(ledger, FALSE))
  BY DEF RejectObject
<1>2. o \in Records /\ o \in Whos /\ ledger \in Ledgers
  BY DEF Records, Whos, IInv, TypeInv
<1>3. HP!Sound(alloc') /\ t \in Handles /\ alloc.next <= alloc'.next
  BY <1>1, <1>2, TakenIs
<1> HIDE DEF t
<1>4. m \in Ledgers /\ Continues(ledger, m) /\ m.layers = ledger.layers /\ m.eed = ledger.eed
  BY <1>2, <1>3, FramingIs
<1> HIDE DEF m
<1> QED BY <1>1, <1>2, <1>3, <1>4, BackToItself

LEMMA RejectObjectMoves == ASSUME IInv, NEW o \in Objects, RejectObject(o) PROVE Moves
<1>1. /\ ledger' = ledger /\ HP!Sound(alloc') /\ alloc.next <= alloc'.next
  BY RejectObjectIs
<1>2. /\ lastWrite' = NoWrite /\ skips' = skips + 1 /\ calls' = calls + 1
      /\ UNCHANGED <<phase, held, scopes, written, required, result, begun, undo>>
  BY DEF RejectObject
<1>3. TypeInv'
  BY <1>1, <1>2, NoWriteTyped DEF IInv, TypeInv
<1> QED BY <1>1, <1>2, <1>3, KeepsBearers

LEMMA WriteRawMoves == ASSUME IInv, NEW f \in Raws, WriteRawDwgObject(f) PROVE Moves
<1>1. /\ alloc' = Handle!Reserved(alloc, f) /\ ledger' = Framing(ledger, f, "raw")
      /\ calls' = calls + 1 /\ undo' = Overtaken
      /\ UNCHANGED <<phase, held, scopes, lastWrite, written, skips, required, result, begun>>
  BY DEF WriteRawDwgObject
<1>2. f \in Handles /\ "raw" \in Whos /\ ledger \in Ledgers /\ f < alloc.next
  BY ScopesAssumption DEF Handles, Whos, IInv, TypeInv, Behind
<1>3. HP!Sound(alloc') /\ alloc'.next = alloc.next /\ alloc.next \in Nat
  BY <1>1, <1>2, SoundStays, ReserveKnown
<1>4. /\ ledger' \in Ledgers /\ ledger'.layers = ledger.layers
      /\ \A x, h : FramesBear(ledger'.frames, x, h) =>
                     FramesBear(ledger.frames, x, h) \/ (x = "raw" /\ h = f)
  <2>1. ledger' \in Ledgers /\ ledger'.layers = ledger.layers
    BY <1>1, <1>2, FramingIs
  <2>2. \A x, h : FramesBear(ledger'.frames, x, h) =>
                     FramesBear(ledger.frames, x, h) \/ (x = "raw" /\ h = f)
    BY <1>1, <1>2, FramingBears
  <2> QED BY <2>1, <2>2
<1>5. TypeInv'
  BY <1>1, <1>3, <1>4, OvertakenTyped DEF IInv, TypeInv
<1>6. ASSUME NEW x \in Whos, NEW h \in Handles, Bears(x, h)'
      PROVE  Bears(x, h) \/ (x = "raw" /\ h = f)
  BY <1>1, <1>4, <1>6 DEF Bears
<1>7. f < alloc'.next /\ alloc.next <= alloc'.next
  BY <1>2, <1>3
<1> QED BY <1>2, <1>5, <1>6, <1>7, MovesOne

LEMMA UndoLastMoves ==
  ASSUME IInv, NEW restore \in BOOLEAN, UndoLast(restore) PROVE Moves
<1> DEFINE c == lastWrite.captured
           cs == <<c>>
           k == lastWrite.checkpoint
<1>1. /\ ledger' = RolledBack(ledger, k)
      /\ held' = IF restore THEN Restored(cs) ELSE held
      /\ scopes' = IF ~Tracking THEN scopes
                   ELSE [scopes EXCEPT ![Len(scopes)].captured =
                           Forgotten(scopes[Len(scopes)].captured, DOMAIN c)]
      /\ begun' = IF restore THEN begun ELSE Loosened(DOMAIN c)
      /\ lastWrite' = NoWrite /\ written' = IF written = 0 THEN 0 ELSE written - 1
      /\ UNCHANGED <<phase, alloc, skips, required, result, calls, undo>>
  BY DEF UndoLast
<1>2. /\ c \in Captures /\ k \in Checkpoints /\ ~k.admission /\ ledger \in Ledgers
      /\ held \in Helds /\ DOMAIN c \in SUBSET Records
  <2>1. c \in Captures /\ k \in Checkpoints /\ ~k.admission
    BY DEF IInv, TypeInv, Writes
  <2> QED BY <2>1, CapturesParts DEF IInv, TypeInv
<1> HIDE DEF c, k
<1>3. cs \in Seq(Captures) /\ Len(cs) = 1 /\ cs[1] = c
  BY <1>2
<1> HIDE DEF cs
<1>4. held' \in Helds /\ \A x, h : HeldBears(held', x, h) => HeldBears(held, x, h)
                                                            \/ CaptureBears(c, x, h)
  <2>1. \A x, h : CapturesBear(cs, x, h) => CaptureBears(c, x, h)
    BY <1>3 DEF CapturesBear
  <2> QED BY <1>1, <1>2, <1>3, <2>1, RestoredIs
<1>5. /\ ledger' \in Ledgers
      /\ \A x, h : FramesBear(ledger'.frames, x, h) => FramesBear(ledger.frames, x, h)
      /\ \A x, h : LayersBear(ledger'.layers, x, h) => LayersBear(ledger.layers, x, h)
  BY <1>1, <1>2, RolledBackIs, RolledBackBears
<1>6. /\ scopes' \in Seq(Scopes) /\ Len(scopes') = Len(scopes)
      /\ \A x, h : ScopesBear(scopes', x, h) => ScopesBear(scopes, x, h)
  <2>1. CASE ~Tracking
    BY <1>1, <2>1 DEF IInv, TypeInv
  <2>2. CASE Tracking
    <3>1. scopes \in Seq(Scopes) /\ Len(scopes) # 0 /\ Len(scopes) \in 1..Len(scopes)
      BY <2>2, TrackingIs DEF Tracking, IInv, TypeInv
    <3> DEFINE old == scopes[Len(scopes)].captured
               new == Forgotten(old, DOMAIN c)
    <3>2. old \in Seq(Captures)
      BY <3>1, ScopeParts
    <3>3. new \in Seq(Captures) /\ \A x, h : CapturesBear(new, x, h) => CapturesBear(old, x, h)
      BY <3>2, ForgottenIs
    <3>4. scopes' = Recaptured(scopes, new)
      BY <1>1, <2>2 DEF Recaptured
    <3> HIDE DEF new
    <3>5. /\ scopes' \in Seq(Scopes) /\ Len(scopes') = Len(scopes)
          /\ \A i \in 1..Len(scopes) :
               /\ scopes'[i].checkpoint = scopes[i].checkpoint
               /\ scopes'[i].captured = IF i = Len(scopes) THEN new ELSE scopes[i].captured
      BY <3>1, <3>3, <3>4, RecapturedIs
    <3>6. ASSUME NEW x, NEW h, ScopesBear(scopes', x, h) PROVE ScopesBear(scopes, x, h)
      <4>1. PICK i \in 1..Len(scopes) :
              \/ CapturesBear(scopes'[i].captured, x, h)
              \/ LayersBear(scopes'[i].checkpoint.layers, x, h)
        BY <3>5, <3>6 DEF ScopesBear
      <4>2. \/ CapturesBear(scopes[i].captured, x, h)
            \/ LayersBear(scopes[i].checkpoint.layers, x, h)
        BY <3>3, <3>5, <4>1
      <4> QED BY <4>2 DEF ScopesBear
    <3> QED BY <3>5, <3>6
  <2> QED BY <2>1, <2>2
<1>7. begun' \in Seq(Begins) /\ Len(begun') = Len(begun)
  BY <1>1, <1>2, LoosenedIs DEF IInv, TypeInv
<1>8. /\ lastWrite' \in Writes /\ ~lastWrite'.checkpoint.admission
      /\ \A x, h : ~CaptureBears(lastWrite'.captured, x, h)
  BY <1>1, NoWriteTyped
<1>9. TypeInv'
  <2>1. /\ phase' = phase /\ skips' = skips /\ calls' = calls /\ alloc' = alloc
        /\ required' = required /\ result' = result /\ undo' = undo
    BY <1>1
  <2>2. Len(begun') = Len(scopes') /\ written' \in Nat
    BY <1>1, <1>6, <1>7 DEF IInv, TypeInv
  <2> QED BY <1>4, <1>5, <1>6, <1>7, <1>8, <2>1, <2>2 DEF IInv, TypeInv
<1>10. ASSUME NEW x \in Whos, NEW h \in Handles, Bears(x, h)' PROVE Bears(x, h)
  <2>1. \/ HeldBears(held', x, h) \/ ScopesBear(scopes', x, h)
        \/ CaptureBears(lastWrite'.captured, x, h)
        \/ LayersBear(ledger'.layers, x, h) \/ FramesBear(ledger'.frames, x, h)
    BY <1>10 DEF Bears
  <2>2. \/ HeldBears(held, x, h) \/ ScopesBear(scopes, x, h) \/ CaptureBears(c, x, h)
        \/ LayersBear(ledger.layers, x, h) \/ FramesBear(ledger.frames, x, h)
    BY <1>4, <1>5, <1>6, <1>8, <2>1
  <2> QED BY <2>2 DEF Bears, c
<1>11. alloc.next <= alloc'.next
  BY <1>1, SoundStays
<1> QED BY <1>9, <1>10, <1>11, MovesQuietly

LEMMA BeginScopeMoves ==
  ASSUME IInv, NEW track \in BOOLEAN, NEW suppress \in BOOLEAN, NEW admission \in BOOLEAN,
         BeginScope(track, suppress, admission)
  PROVE  Moves
<1> DEFINE s == [checkpoint |-> Checkpoint(ledger, admission), track |-> track,
                 suppress |-> suppress, written |-> written, skips |-> skips,
                 required |-> required, captured |-> <<>>]
           b == [ledger |-> ledger, held |-> held, alloc |-> alloc, written |-> written,
                 loose |-> {}]
<1>1. /\ scopes' = Append(scopes, s) /\ begun' = Append(begun, b) /\ lastWrite' = NoWrite
      /\ UNCHANGED <<phase, alloc, ledger, held, written, skips, required, result, calls, undo>>
  BY DEF BeginScope
<1>2. s \in Scopes /\ s.captured = <<>> /\ s.checkpoint.layers = ledger.layers
  <2>1. ledger \in Ledgers /\ written \in Nat /\ skips \in Nat /\ required \in BOOLEAN
    BY DEF IInv, TypeInv
  <2>2. Checkpoint(ledger, admission) \in Checkpoints
    BY <2>1, CheckpointIs
  <2>3. <<>> \in Seq(Captures)
    OBVIOUS
  <2> QED BY <2>1, <2>2, <2>3 DEF Scopes, Checkpoint
<1>3. b \in Begins
  BY DEF Begins, IInv, TypeInv, HP!Sound
<1> HIDE DEF s, b
<1>4. /\ scopes \in Seq(Scopes) /\ Len(scopes) \in Nat
      /\ begun \in Seq(Begins) /\ Len(begun) = Len(scopes)
  BY TrackingIs DEF IInv, TypeInv
<1>5. /\ scopes' \in Seq(Scopes) /\ Len(scopes') = Len(scopes) + 1
      /\ \A i \in 1..Len(scopes) : scopes'[i] = scopes[i]
      /\ scopes'[Len(scopes) + 1] = s
  BY <1>1, <1>2, <1>4, AppendProperties
<1>6. begun' \in Seq(Begins) /\ Len(begun') = Len(begun) + 1
  BY <1>1, <1>3, <1>4, AppendProperties
<1>7. /\ lastWrite' \in Writes /\ ~lastWrite'.checkpoint.admission
      /\ \A x, h : ~CaptureBears(lastWrite'.captured, x, h)
  BY <1>1, NoWriteTyped
<1>8. TypeInv'
  <2>1. Len(begun') = Len(scopes')
    BY <1>4, <1>5, <1>6
  <2> QED BY <1>1, <1>5, <1>6, <1>7, <2>1 DEF IInv, TypeInv
<1>9. ASSUME NEW x, NEW h, ScopesBear(scopes', x, h)
      PROVE  ScopesBear(scopes, x, h) \/ LayersBear(ledger.layers, x, h)
  <2>1. PICK i \in 1..(Len(scopes) + 1) :
          \/ CapturesBear(scopes'[i].captured, x, h)
          \/ LayersBear(scopes'[i].checkpoint.layers, x, h)
    BY <1>5, <1>9 DEF ScopesBear
  <2>2. CASE i \in 1..Len(scopes)
    BY <1>5, <2>1, <2>2 DEF ScopesBear
  <2>3. CASE i = Len(scopes) + 1
    <3>1. ~CapturesBear(<<>>, x, h)
      BY DEF CapturesBear
    <3> QED BY <1>2, <1>5, <2>1, <2>3, <3>1
  <2> QED BY <1>4, <2>2, <2>3
<1>10. ASSUME NEW x \in Whos, NEW h \in Handles, Bears(x, h)' PROVE Bears(x, h)
  BY <1>1, <1>7, <1>9, <1>10 DEF Bears
<1>11. alloc.next <= alloc'.next
  BY <1>1, SoundStays
<1> QED BY <1>8, <1>10, <1>11, MovesQuietly

LEMMA CommitScopeMoves == ASSUME IInv, CommitScope PROVE Moves
<1> DEFINE inner == Innermost.captured
           kept == Outer # <<>> /\ Outer[Len(Outer)].track
           n == Len(scopes) - 1
           cs == Outer[Len(Outer)].captured \o inner
<1>1. /\ scopes # <<>> /\ lastWrite' = NoWrite
      /\ scopes' = IF kept THEN [Outer EXCEPT ![Len(Outer)].captured = @ \o inner] ELSE Outer
      /\ UNCHANGED <<phase, alloc, ledger, held, written, skips, required, result, calls, undo>>
  BY DEF CommitScope
<1>2. /\ Outer \in Seq(Scopes) /\ Len(Outer) = n /\ n \in Nat
      /\ \A i \in 1..n : Outer[i] = scopes[i] /\ i \in 1..Len(scopes)
      /\ \A x, h : ScopesBear(Outer, x, h) => ScopesBear(scopes, x, h)
      /\ Len(scopes) \in 1..Len(scopes) /\ Innermost = scopes[Len(scopes)]
      /\ scopes \in Seq(Scopes)
  BY <1>1, OuterIs, TrackingIs DEF IInv, TypeInv
<1>3. inner \in Seq(Captures) /\ Len(inner) \in Nat
  BY <1>2, ScopeParts
<1>4. /\ scopes' \in Seq(Scopes) /\ Len(scopes') = n
      /\ \A x, h : ScopesBear(scopes', x, h) => ScopesBear(scopes, x, h)
  <2>1. CASE ~kept
    BY <1>1, <1>2, <2>1
  <2>2. CASE kept
    <3>1. Len(Outer) # 0 /\ Len(Outer) \in 1..n
      <4>1. Outer # <<>>
        BY <2>2
      <4> QED BY <1>2, <4>1, EmptySeq
    <3> DEFINE old == Outer[Len(Outer)].captured
    <3>2. old \in Seq(Captures) /\ Len(old) \in Nat
      BY <1>2, <3>1, ScopeParts
    <3>3. /\ cs \in Seq(Captures) /\ Len(cs) = Len(old) + Len(inner)
          /\ \A i \in 1..(Len(old) + Len(inner)) :
               cs[i] = IF i <= Len(old) THEN old[i] ELSE inner[i - Len(old)]
      BY <1>3, <3>2, ConcatProperties
    <3>4. scopes' = Recaptured(Outer, cs)
      BY <1>1, <2>2 DEF Recaptured
    <3> HIDE DEF cs, inner, kept
    <3>5. /\ scopes' \in Seq(Scopes) /\ Len(scopes') = n
          /\ \A i \in 1..n :
               /\ scopes'[i].checkpoint = Outer[i].checkpoint
               /\ scopes'[i].captured = IF i = n THEN cs ELSE Outer[i].captured
      <4>1. Outer \in Seq(Scopes) /\ Len(Outer) # 0 /\ Len(Outer) = n
        BY <1>2, <3>1
      <4> HIDE DEF n
      <4> QED BY <3>3, <3>4, <4>1, RecapturedIs
    <3>6. ASSUME NEW x, NEW h, CapturesBear(cs, x, h) PROVE ScopesBear(scopes, x, h)
      <4>1. PICK i \in 1..(Len(old) + Len(inner)) : CaptureBears(cs[i], x, h)
        BY <3>3, <3>6 DEF CapturesBear
      <4>2. CASE i <= Len(old)
        <5>1. CapturesBear(Outer[Len(Outer)].captured, x, h)
          <6>1. i \in 1..Len(old) /\ cs[i] = old[i]
            BY <1>3, <3>2, <3>3, <4>2
          <6> QED BY <4>1, <6>1 DEF CapturesBear
        <5>2. ScopesBear(Outer, x, h)
          BY <1>2, <3>1, <5>1 DEF ScopesBear
        <5> QED BY <1>2, <5>2
      <4>3. CASE ~(i <= Len(old))
        <5>1. i - Len(old) \in 1..Len(inner) /\ cs[i] = inner[i - Len(old)]
          BY <1>3, <3>2, <3>3, <4>3
        <5>2. CapturesBear(scopes[Len(scopes)].captured, x, h)
          BY <1>2, <4>1, <5>1 DEF CapturesBear, inner
        <5> QED BY <1>2, <5>2 DEF ScopesBear
      <4> QED BY <4>2, <4>3
    <3>7. ASSUME NEW x, NEW h, ScopesBear(scopes', x, h) PROVE ScopesBear(scopes, x, h)
      <4>1. PICK i \in 1..n : \/ CapturesBear(scopes'[i].captured, x, h)
                              \/ LayersBear(scopes'[i].checkpoint.layers, x, h)
        BY <3>5, <3>7 DEF ScopesBear
      <4>2. \/ CapturesBear(cs, x, h) \/ CapturesBear(Outer[i].captured, x, h)
            \/ LayersBear(Outer[i].checkpoint.layers, x, h)
        BY <3>5, <4>1
      <4>3. CapturesBear(cs, x, h) \/ ScopesBear(Outer, x, h)
        BY <1>2, <4>2 DEF ScopesBear
      <4> QED BY <1>2, <3>6, <4>3
    <3> QED BY <3>5, <3>7
  <2> QED BY <2>1, <2>2
<1>5. begun' \in Seq(Begins) /\ Len(begun') = n
  BY <1>1, BegunAfter DEF IInv
<1>6. /\ lastWrite' \in Writes /\ ~lastWrite'.checkpoint.admission
      /\ \A x, h : ~CaptureBears(lastWrite'.captured, x, h)
  BY <1>1, NoWriteTyped
<1>7. TypeInv'
  <2>1. Len(begun') = Len(scopes')
    BY <1>4, <1>5
  <2> QED BY <1>1, <1>4, <1>5, <1>6, <2>1 DEF IInv, TypeInv
<1>8. ASSUME NEW x \in Whos, NEW h \in Handles, Bears(x, h)' PROVE Bears(x, h)
  BY <1>1, <1>4, <1>6, <1>8 DEF Bears
<1>9. alloc.next <= alloc'.next
  BY <1>1, SoundStays
<1> QED BY <1>7, <1>8, <1>9, MovesQuietly

LEMMA RollbackScopeMoves == ASSUME IInv, RollbackScope PROVE Moves
<1> DEFINE s == Innermost
<1>1. /\ scopes # <<>> /\ lastWrite' = NoWrite
      /\ ledger' = RolledBack(ledger, s.checkpoint)
      /\ held' = IF s.track THEN Restored(s.captured) ELSE held
      /\ scopes' = Outer
      /\ skips' = IF s.suppress THEN s.skips ELSE skips
      /\ required' = s.required /\ written' = s.written
      /\ UNCHANGED <<phase, alloc, result, calls, undo>>
  BY DEF RollbackScope, AllocatorAfter, CountAfter
<1>2. /\ Outer \in Seq(Scopes) /\ Len(Outer) = Len(scopes) - 1
      /\ \A x, h : ScopesBear(Outer, x, h) => ScopesBear(scopes, x, h)
      /\ Len(scopes) \in 1..Len(scopes) /\ s = scopes[Len(scopes)] /\ s \in Scopes
      /\ scopes \in Seq(Scopes) /\ ledger \in Ledgers /\ held \in Helds
  BY <1>1, OuterIs, TrackingIs DEF IInv, TypeInv
<1>3. s.captured \in Seq(Captures) /\ s.checkpoint \in Checkpoints
  BY <1>2, ScopeParts
<1> HIDE DEF s
<1>4. held' \in Helds /\ \A x, h : HeldBears(held', x, h) => HeldBears(held, x, h)
                                                            \/ CapturesBear(s.captured, x, h)
  BY <1>1, <1>2, <1>3, RestoredIs
<1>5. /\ ledger' \in Ledgers
      /\ \A x, h : FramesBear(ledger'.frames, x, h) => FramesBear(ledger.frames, x, h)
      /\ \A x, h : LayersBear(ledger'.layers, x, h) =>
                     LayersBear(ledger.layers, x, h) \/ LayersBear(s.checkpoint.layers, x, h)
  BY <1>1, <1>2, <1>3, RolledBackIs, RolledBackBears
<1>6. \A x, h : CapturesBear(s.captured, x, h) \/ LayersBear(s.checkpoint.layers, x, h)
                  => ScopesBear(scopes, x, h)
  BY <1>2 DEF ScopesBear
<1>7. begun' \in Seq(Begins) /\ Len(begun') = Len(scopes) - 1
  BY <1>1, BegunAfter DEF IInv
<1>8. /\ lastWrite' \in Writes /\ ~lastWrite'.checkpoint.admission
      /\ \A x, h : ~CaptureBears(lastWrite'.captured, x, h)
  BY <1>1, NoWriteTyped
<1>9. TypeInv'
  <2>1. Len(begun') = Len(scopes') /\ scopes' \in Seq(Scopes)
    BY <1>1, <1>2, <1>7
  <2>2. skips' \in Nat /\ required' \in BOOLEAN /\ written' \in Nat
    BY <1>1, <1>2 DEF Scopes, IInv, TypeInv
  <2>3. phase' = phase /\ alloc' = alloc /\ result' = result /\ calls' = calls /\ undo' = undo
    BY <1>1
  <2> QED BY <1>4, <1>5, <1>7, <1>8, <2>1, <2>2, <2>3 DEF IInv, TypeInv
<1>10. ASSUME NEW x \in Whos, NEW h \in Handles, Bears(x, h)' PROVE Bears(x, h)
  <2>1. \/ HeldBears(held', x, h) \/ ScopesBear(scopes', x, h)
        \/ CaptureBears(lastWrite'.captured, x, h)
        \/ LayersBear(ledger'.layers, x, h) \/ FramesBear(ledger'.frames, x, h)
    BY <1>10 DEF Bears
  <2>2. \/ HeldBears(held, x, h) \/ ScopesBear(scopes, x, h)
        \/ LayersBear(ledger.layers, x, h) \/ FramesBear(ledger.frames, x, h)
    BY <1>1, <1>2, <1>4, <1>5, <1>6, <1>8, <2>1
  <2> QED BY <2>2 DEF Bears
<1>11. alloc.next <= alloc'.next
  BY <1>1, SoundStays
<1> QED BY <1>9, <1>10, <1>11, MovesQuietly

LEMMA StutterMoves == ASSUME IInv, UNCHANGED vars PROVE Moves
<1>1. TypeInv'
  BY DEF vars, IInv, TypeInv
<1>2. alloc.next <= alloc'.next
  BY SoundStays DEF vars
<1> QED BY <1>1, <1>2, KeepsBearers DEF vars

LEMMA StepMoves == ASSUME IInv, [Next]_vars PROVE Moves
BY AddLayerMoves, StartContentMoves, DefineBlockMoves, DefineBlockFailsMoves,
   BeginBlockContentMoves, EndBlockContentMoves, WriteEntityMoves, RejectEntityMoves,
   WriteObjectMoves, RejectObjectMoves, WriteRawMoves, UndoLastMoves, BeginScopeMoves,
   CommitScopeMoves, RollbackScopeMoves, MarkFailureMoves, FinishMoves, StutterMoves
   DEF Next

---------------------------------------------------------------------------
(* Types, and handles behind m_next.                                         *)

LEMMA StepIInv == ASSUME IInv, [Next]_vars PROVE IInv'
<1>1. Moves
  BY StepMoves
<1>2. TypeInv' /\ alloc.next <= alloc'.next /\ alloc.next \in Nat /\ alloc'.next \in Nat
  BY <1>1, SoundStays, SoundNext DEF Moves, TypeInv, Handles
<1>3. ASSUME NEW h \in Raws PROVE h < alloc'.next
  <2>1. h \in Nat /\ h < alloc.next
    BY ScopesAssumption DEF IInv, Behind
  <2> QED BY <1>2, <2>1
<1>4. ASSUME NEW x \in Whos, NEW h \in Handles, Bears(x, h)' PROVE h < alloc'.next
  <2>1. \/ Bears(x, h)
        \/ h >= alloc.next /\ h < alloc'.next
        \/ x = "raw" /\ h \in Raws
    BY <1>1, <1>4 DEF Moves
  <2>2. CASE Bears(x, h)
    <3>1. h < alloc.next /\ h \in Nat
      BY <2>2 DEF IInv, Behind, Handles
    <3> QED BY <1>2, <3>1
  <2> QED BY <1>3, <2>1, <2>2
<1> QED BY <1>2, <1>3, <1>4 DEF IInv, Behind

\* The handles the records and raw objects come with are behind m_next.
LEMMA InitIInv == ASSUME Init PROVE IInv
<1> DEFINE seeded == Handle!Seeded(Handle!NewAllocator)
           kept == (Raws \cup {Preset[r] : r \in Records}) \ {0}
<1>1. /\ phase = "tables" /\ ledger = NoLedger
      /\ alloc = [explicitReserved |-> seeded.explicitReserved \cup kept, allocated |-> {},
                  next |-> IF \A h \in kept : h < FirstHandle THEN FirstHandle
                           ELSE Handle!Highest(kept) + 1]
      /\ held = [r \in Records |-> [handle |-> Preset[r], owner |-> 0]]
      /\ scopes = <<>> /\ lastWrite = NoWrite
      /\ written = 0 /\ skips = 0 /\ required = FALSE
      /\ result = "none" /\ calls = 0 /\ begun = <<>> /\ undo = NoUndo
  BY DEF Init
<1>2. /\ FirstHandle \in Nat \ {0} /\ MaxHandle \in Nat /\ FirstHandle < MaxHandle
      /\ FixedHandles \subseteq 1..(FirstHandle - 1)
      /\ kept \subseteq 1..(MaxHandle - 1)
      /\ seeded.explicitReserved = FixedHandles
  <2>1. /\ FirstHandle \in Nat \ {0} /\ MaxHandle \in Nat /\ FirstHandle < MaxHandle
        /\ FixedHandles \subseteq 1..(FirstHandle - 1)
        /\ Raws \subseteq FirstHandle..(MaxHandle - 1)
        /\ \A r \in Records : Preset[r] \in 0..(MaxHandle - 1)
    BY ScopesAssumption
  <2>2. seeded.explicitReserved = FixedHandles
    BY DEF Handle!Seeded, Handle!NewAllocator
  <2>3. kept \subseteq 1..(MaxHandle - 1)
    <3>1. \A h \in Raws : h \in 1..(MaxHandle - 1)
      BY <2>1
    <3>2. \A r \in Records : Preset[r] # 0 => Preset[r] \in 1..(MaxHandle - 1)
      BY <2>1
    <3> QED BY <3>1, <3>2
  <2> QED BY <2>1, <2>2, <2>3
<1> HIDE DEF kept, seeded
<1>3. /\ alloc.next \in FirstHandle..MaxHandle /\ \A h \in kept : h < alloc.next
  <2>1. CASE \A h \in kept : h < FirstHandle
    BY <1>1, <1>2, <2>1
  <2>2. CASE ~\A h \in kept : h < FirstHandle
    <3>1. kept # {} /\ kept \subseteq 0..MaxHandle
      BY <1>2, <2>2
    <3>2. PICK g \in kept : \A h \in kept : h <= g
      BY <1>2, <3>1, HP!GreatestExists, HandleSpace
    <3>3. Handle!Highest(kept) \in kept /\ \A h \in kept : h <= Handle!Highest(kept)
      <4>1. Handle!Highest(kept) = CHOOSE h \in kept : \A o \in kept : o <= h
        BY DEF Handle!Highest
      <4> QED BY <3>2, <4>1
    <3>4. alloc.next = Handle!Highest(kept) + 1
      BY <1>1, <2>2
    <3> DEFINE top == Handle!Highest(kept)
    <3>5. top \in 1..(MaxHandle - 1) /\ \A h \in kept : h \in 1..(MaxHandle - 1) /\ h <= top
      BY <1>2, <3>3
    <3> HIDE DEF top
    <3>6. top >= FirstHandle
      <4>1. PICK h \in kept : ~(h < FirstHandle)
        BY <2>2
      <4> QED BY <1>2, <3>5, <4>1
    <3> QED BY <1>2, <3>4, <3>5, <3>6 DEF top
  <2> QED BY <2>1, <2>2
<1>4. HP!Sound(alloc)
  <2>1. /\ alloc.explicitReserved = FixedHandles \cup kept /\ alloc.allocated = {}
        /\ alloc = [explicitReserved |-> alloc.explicitReserved,
                    allocated |-> alloc.allocated, next |-> alloc.next]
    BY <1>1, <1>2
  <2>2. \A h \in FixedHandles \cup kept : h \in 1..MaxHandle /\ h < alloc.next
    BY <1>2, <1>3
  <2>3. FixedHandles \cup kept \subseteq FixedHandles => alloc.next = FirstHandle
    <3>1. ASSUME FixedHandles \cup kept \subseteq FixedHandles, NEW h \in kept
          PROVE  h < FirstHandle
      BY <1>2, <3>1
    <3> QED BY <1>1, <3>1
  <2>4. alloc \in HP!Allocator
    <3>1. FixedHandles \cup kept \subseteq 0..MaxHandle /\ alloc.next \in 0..MaxHandle
      BY <1>2, <1>3, <2>2
    <3> QED BY <2>1, <3>1 DEF HP!Allocator, HP!Handles
  <2>5. alloc.next >= FirstHandle
    BY <1>2, <1>3
  <2> QED BY <2>1, <2>2, <2>3, <2>4, <2>5 DEF HP!Sound
<1>5. \A r \in Records : Preset[r] \in Handles /\ Preset[r] < alloc.next
  <2>1. ASSUME NEW r \in Records PROVE Preset[r] \in Handles /\ Preset[r] < alloc.next
    <3>1. Preset[r] \in 0..(MaxHandle - 1)
      BY ScopesAssumption
    <3>2. Preset[r] # 0 => Preset[r] \in kept
      BY DEF kept
    <3> QED BY <1>2, <1>3, <3>1, <3>2 DEF Handles
  <2> QED BY <2>1
<1>6. held \in Helds
  <2>1. 0 \in Handles
    BY <1>2 DEF Handles
  <2> QED BY <1>1, <1>5, <2>1 DEF Helds, Entry
<1>7. ledger \in Ledgers
  <2>1. /\ <<>> \in Seq(Frames) /\ <<>> \in Seq(Handles) /\ <<>> \in Seq(BlockSet)
        /\ 0 \in Handles /\ [x \in Layers |-> 0] \in [Layers -> Handles]
    BY <1>2 DEF Handles
  <2> QED BY <1>1, <2>1 DEF NoLedger, Ledgers
<1>8. TypeInv
  <2>1. <<>> \in Seq(Scopes) /\ <<>> \in Seq(Begins) /\ Len(<<>>) = 0
    OBVIOUS
  <2>2. undo \in [frames : SUBSET Handles, overtaken : BOOLEAN]
    BY <1>1 DEF NoUndo
  <2> QED BY <1>1, <1>4, <1>6, <1>7, <2>1, <2>2, NoWriteTyped DEF TypeInv
<1>9. Behind
  <2>1. ASSUME NEW h \in Raws PROVE h < alloc.next
    <3>1. h \in kept
      BY ScopesAssumption DEF kept
    <3> QED BY <1>3, <3>1
  <2>2. ASSUME NEW x \in Whos, NEW h \in Handles, Bears(x, h) PROVE h < alloc.next
    <3>1. ~ScopesBear(scopes, x, h) /\ ~CaptureBears(lastWrite.captured, x, h)
          /\ ~FramesBear(ledger.frames, x, h)
      BY <1>1, NoWriteTyped DEF ScopesBear, FramesBear, NoLedger
    <3>2. CASE HeldBears(held, x, h)
      BY <1>1, <1>5, <3>2 DEF HeldBears
    <3>3. CASE LayersBear(ledger.layers, x, h)
      <4>1. h = 0
        BY <1>1, <3>3 DEF LayersBear, NoLedger
      <4> QED BY <1>2, <1>3, <4>1
    <3> QED BY <2>2, <3>1, <3>2, <3>3 DEF Bears
  <2> QED BY <2>1, <2>2 DEF Behind
<1> QED BY <1>8, <1>9 DEF IInv

\* Every record, frame, list, scope and capture of a writer has its type, and
\* nobody carries a handle that m_next has not passed.
THEOREM ScopesTypeCorrect == Spec => []TypeInv
<1>1. IInv /\ [Next]_vars => IInv'
  BY StepIInv
<1>2. IInv => TypeInv
  BY DEF IInv
<1> QED BY <1>1, <1>2, InitIInv, PTL DEF Spec

---------------------------------------------------------------------------
(* A handle has one bearer.                                                  *)

\* The drawing came with distinct handles.
PresetsDistinct ==
  /\ \A r, q \in Records : Preset[r] = Preset[q] /\ r # q => Preset[r] = 0
  /\ \A r \in Records : Preset[r] \notin Raws

OneBearer ==
  /\ \A x \in Whos, h \in Raws : Bears(x, h) => x = "raw"
  /\ \A x, y \in Whos, h \in Handles \ {0} : Bears(x, h) /\ Bears(y, h) => x = y
  /\ \A x \in Whos : ~FramesBear(ledger.frames, x, 0)
DistinctInv == IInv /\ OneBearer

LEMMA InitOneBearer == ASSUME PresetsDistinct, Init PROVE OneBearer
<1>1. /\ ledger = NoLedger /\ scopes = <<>> /\ lastWrite = NoWrite
      /\ held = [r \in Records |-> [handle |-> Preset[r], owner |-> 0]]
  BY DEF Init
<1>2. \A x : ~FramesBear(ledger.frames, x, 0)
  BY <1>1 DEF FramesBear, NoLedger
<1>3. ASSUME NEW x, NEW h, Bears(x, h), h # 0
      PROVE  x \in Records /\ Preset[x] = h
  <2>1. ~ScopesBear(scopes, x, h) /\ ~CaptureBears(lastWrite.captured, x, h)
        /\ ~FramesBear(ledger.frames, x, h) /\ ~LayersBear(ledger.layers, x, h)
    BY <1>1, <1>3, NoWriteTyped DEF ScopesBear, FramesBear, LayersBear, NoLedger
  <2>2. HeldBears(held, x, h)
    BY <1>3, <2>1 DEF Bears
  <2> QED BY <1>1, <2>2 DEF HeldBears
<1>4. \A h \in Raws : h # 0
  BY ScopesAssumption
<1>5. \A x \in Whos, h \in Raws : ~Bears(x, h)
  BY <1>3, <1>4 DEF PresetsDistinct
<1>6. \A x, y \in Whos, h \in Handles \ {0} : Bears(x, h) /\ Bears(y, h) => x = y
  <2>1. ASSUME NEW x \in Whos, NEW y \in Whos, NEW h \in Handles \ {0},
               Bears(x, h), Bears(y, h)
        PROVE  x = y
    <3>1. x \in Records /\ y \in Records /\ Preset[x] = h /\ Preset[y] = h
      BY <1>3, <2>1
    <3> QED BY <3>1 DEF PresetsDistinct
  <2> QED BY <2>1
<1> QED BY <1>2, <1>5, <1>6 DEF OneBearer

\* Nobody frames an object without a handle.
LEMMA FramesHaveHandles ==
  ASSUME IInv, [Next]_vars, \A x \in Whos : ~FramesBear(ledger.frames, x, 0)
  PROVE  \A x \in Whos : ~FramesBear(ledger'.frames, x, 0)
<1>1. ledger \in Ledgers /\ alloc.next \in Nat /\ alloc.next # 0 /\ lastWrite \in Writes
  BY SoundNext, SoundStays DEF IInv, TypeInv
<1>2. ASSUME \A x : FramesBear(ledger'.frames, x, 0) => FramesBear(ledger.frames, x, 0)
      PROVE  \A x \in Whos : ~FramesBear(ledger'.frames, x, 0)
  BY <1>2
<1>3. ASSUME ledger'.frames = ledger.frames
      PROVE  \A x \in Whos : ~FramesBear(ledger'.frames, x, 0)
  BY <1>3
<1>4. ASSUME NEW b \in Blocks, DefineBlock(b)
      PROVE  \A x \in Whos : ~FramesBear(ledger'.frames, x, 0)
  <2>1. /\ \A x, h : FramesBear(ledger'.frames, x, h) =>
             FramesBear(ledger.frames, x, h)
             \/ (x = b /\ h \in {Trio(alloc).block, Trio(alloc).endblk})
    BY <1>4, DefineBlockIs
  <2>2. Trio(alloc).block # 0 /\ Trio(alloc).endblk # 0
    <3>1. Trio(alloc).block = alloc.next + 1 /\ Trio(alloc).endblk = alloc.next + 2
      BY <1>4, TrioIs DEF DefineBlock
    <3> QED BY <1>1, <3>1
  <2> QED BY <2>1, <2>2
<1>5. ASSUME NEW e \in Entities, WriteEntity(e)
      PROVE  \A x \in Whos : ~FramesBear(ledger'.frames, x, 0)
  <2> DEFINE hs == Assigned(e)[Len(Parts[e])].handles
  <2>1. /\ StagedOK(e, hs, Len(Parts[e]), ledger') /\ hs \in Seq(Handles)
        /\ Len(hs) = Len(Parts[e]) /\ Len(Parts[e]) \in 0..Len(hs)
        /\ \A m \in 1..Len(Parts[e]) :
             IF Unset(e, m) THEN hs[m] \in alloc.next..(alloc'.next - 1)
             ELSE hs[m] = held[Parts[e][m]].handle
    <3>1. /\ StagedOK(e, hs, Len(Parts[e]), ledger') /\ hs \in Seq(Handles)
          /\ Len(hs) = Len(Parts[e]) /\ Len(Parts[e]) \in Nat
          /\ alloc' = Assigned(e)[Len(Parts[e])].alloc
          /\ \A m \in 1..Len(Parts[e]) :
               IF Unset(e, m)
               THEN hs[m] \in alloc.next..(Assigned(e)[Len(Parts[e])].alloc.next - 1)
               ELSE hs[m] = held[Parts[e][m]].handle
      BY <1>5, WriteEntityIs
    <3> HIDE DEF hs
    <3> QED BY <3>1
  <2> HIDE DEF hs
  <2>2. \A m \in 1..Len(Parts[e]) : hs[m] # 0
    BY <1>1, <2>1 DEF Unset
  <2>3. \A x, h : FramesBear(ledger'.frames, x, h) =>
           FramesBear(ledger.frames, x, h)
           \/ \E m \in 1..Len(Parts[e]) : x = Parts[e][m] /\ h = hs[m]
    BY <1>1, <2>1, StagedBears
  <2> QED BY <2>2, <2>3
<1>6. ASSUME NEW o \in Objects, WriteObject(o)
      PROVE  \A x \in Whos : ~FramesBear(ledger'.frames, x, 0)
  <2>1. o \in Records /\ o \in Whos
    BY DEF Records, Whos
  <2>2. /\ Taken(alloc, o) \in Handles
        /\ Taken(alloc, o) = IF held[o].handle = 0 THEN alloc.next ELSE held[o].handle
    BY <1>6, <2>1, TakenIs DEF WriteObject
  <2>3. Taken(alloc, o) # 0
    BY <1>1, <2>2
  <2>4. ledger' = Framing(ledger, Taken(alloc, o), o)
    BY <1>6 DEF WriteObject
  <2> QED BY <1>1, <2>1, <2>2, <2>3, <2>4, FramingBears
<1>7. ASSUME NEW f \in Raws, WriteRawDwgObject(f)
      PROVE  \A x \in Whos : ~FramesBear(ledger'.frames, x, 0)
  <2>1. f \in Handles /\ f # 0 /\ "raw" \in Whos
    BY ScopesAssumption DEF Handles, Whos
  <2>2. ledger' = Framing(ledger, f, "raw")
    BY <1>7 DEF WriteRawDwgObject
  <2> QED BY <1>1, <2>1, <2>2, FramingBears
<1>8. ASSUME NEW c \in Checkpoints, ledger' = RolledBack(ledger, c)
      PROVE  \A x \in Whos : ~FramesBear(ledger'.frames, x, 0)
  BY <1>1, <1>2, <1>8, RolledBackBears
<1>9. ASSUME NEW restore \in BOOLEAN, UndoLast(restore)
      PROVE  \A x \in Whos : ~FramesBear(ledger'.frames, x, 0)
  BY <1>1, <1>8, <1>9 DEF UndoLast, Writes
<1>10. CASE RollbackScope
  <2>1. Innermost.checkpoint \in Checkpoints
    BY <1>10, TrackingIs DEF RollbackScope, IInv, Scopes
  <2> QED BY <1>8, <1>10, <2>1 DEF RollbackScope
<1>11. ASSUME NEW e \in Entities, NEW n \in 0..(Len(Parts[e]) - 1), NEW eed \in BOOLEAN,
              RejectEntity(e, n, eed)
       PROVE  ledger'.frames = ledger.frames
  <2>1. ledger' = [ledger EXCEPT !.eed = ledger.eed \/ eed] /\ (ledger.eed \/ eed) \in BOOLEAN
    BY <1>1, <1>11, RejectEntityIs, LedgerParts
  <2> QED BY <1>1, <2>1, EedKept
<1>12. ASSUME NEW x \in Layers, AddLayer(x) PROVE ledger'.frames = ledger.frames
  <2>1. ledger = [frames |-> ledger.frames, model |-> ledger.model, blocks |-> ledger.blocks,
           active |-> ledger.active, layers |-> ledger.layers, eed |-> ledger.eed]
    BY <1>1, LedgerParts
  <2>2. PICK h : ledger' = [ledger EXCEPT !.layers[x] = h]
    BY <1>12 DEF AddLayer
  <2> QED BY <2>1, <2>2
<1>13. ASSUME NEW a, ledger' = [ledger EXCEPT !.active = a]
       PROVE  ledger'.frames = ledger.frames
  <2>1. ledger = [frames |-> ledger.frames, model |-> ledger.model, blocks |-> ledger.blocks,
           active |-> ledger.active, layers |-> ledger.layers, eed |-> ledger.eed]
    BY <1>1, LedgerParts
  <2> QED BY <1>13, <2>1
<1>14. CASE \/ StartContent \/ CommitScope \/ MarkFailure \/ Finish \/ UNCHANGED vars
            \/ \E track, suppress, admission \in BOOLEAN : BeginScope(track, suppress, admission)
            \/ \E o \in Objects : RejectObject(o)
            \/ \E b \in Blocks, framed \in BOOLEAN : DefineBlockFails(b, framed)
  <2>1. ledger' = ledger
    BY <1>14, RejectObjectIs, DefineBlockFailsIs
       DEF StartContent, CommitScope, MarkFailure, Finish, vars, BeginScope
  <2> QED BY <1>3, <2>1
<1>15. CASE EndBlockContent \/ \E i \in DOMAIN ledger.blocks : BeginBlockContent(i)
  BY <1>3, <1>13, <1>15 DEF EndBlockContent, BeginBlockContent
<1> QED BY <1>3, <1>4, <1>5, <1>6, <1>7, <1>9, <1>10, <1>11, <1>12, <1>14, <1>15 DEF Next

LEMMA StepDistinctInv == ASSUME DistinctInv, [Next]_vars PROVE DistinctInv'
<1>1. Moves /\ IInv /\ IInv' /\ alloc.next \in Nat
  BY StepMoves, StepIInv, SoundStays DEF DistinctInv
<1>2. ASSUME NEW x \in Whos, NEW h \in Raws, Bears(x, h)' PROVE x = "raw"
  <2>1. h \in Handles /\ h < alloc.next /\ h \in Nat
    BY <1>1, ScopesAssumption DEF IInv, Behind, Handles
  <2>2. \/ Bears(x, h)
        \/ h >= alloc.next /\ h < alloc'.next
        \/ x = "raw" /\ h \in Raws
    BY <1>1, <1>2, <2>1 DEF Moves
  <2>3. Bears(x, h) \/ x = "raw"
    BY <1>1, <2>1, <2>2
  <2> QED BY <2>3 DEF DistinctInv, OneBearer
<1>3. ASSUME NEW x \in Whos, NEW y \in Whos, NEW h \in Handles \ {0}, Bears(x, h)', Bears(y, h)'
      PROVE  x = y
  <2>1. CASE h >= alloc.next
    BY <1>1, <1>3, <2>1 DEF Moves
  <2>2. CASE h \in Raws
    BY <1>2, <1>3, <2>2
  <2>3. CASE ~(h >= alloc.next) /\ h \notin Raws
    <3>1. Bears(x, h) /\ Bears(y, h)
      BY <1>1, <1>3, <2>3 DEF Moves
    <3> QED BY <3>1 DEF DistinctInv, OneBearer
  <2> QED BY <2>1, <2>2, <2>3
<1>4. \A x \in Whos : ~FramesBear(ledger'.frames, x, 0)
  BY <1>1, FramesHaveHandles DEF DistinctInv, OneBearer
<1>5. OneBearer'
  BY <1>2, <1>3, <1>4 DEF OneBearer
<1> QED BY <1>1, <1>5 DEF DistinctInv

LEMMA OneBearerDistinct == ASSUME DistinctInv PROVE HandlesDistinct
<1>1. ledger \in Ledgers /\ held \in Helds
  BY DEF DistinctInv, IInv, TypeInv
<1>2. ASSUME NEW r \in Records
      PROVE  r \in Whos /\ held[r].handle \in Handles /\ Bears(r, held[r].handle)
  BY <1>1 DEF Whos, Helds, Entry, Bears, HeldBears
<1>3. ASSUME NEW r \in Records, NEW q \in Records, held[r].handle = held[q].handle, r # q
      PROVE  held[r].handle = 0
  BY <1>2, <1>3 DEF DistinctInv, OneBearer
<1>4. ASSUME NEW i \in DOMAIN ledger.frames, NEW r \in Records,
             ledger.frames[i].handle = held[r].handle
      PROVE  ledger.frames[i].of = r
  <2> DEFINE h == held[r].handle
             x == ledger.frames[i].of
  <2>1. i \in 1..Len(ledger.frames) /\ ledger.frames[i] \in Frames
    BY <1>1, LedgerParts
  <2>2. x \in Whos /\ ledger.frames[i] = [handle |-> h, of |-> x]
    BY <1>4, <2>1 DEF Frames
  <2> HIDE DEF h, x
  <2>3. FramesBear(ledger.frames, x, h)
    BY <2>1, <2>2 DEF FramesBear
  <2>4. h # 0 /\ Bears(x, h)
    BY <2>2, <2>3 DEF DistinctInv, OneBearer, Bears
  <2>5. x = r
    BY <1>2, <2>2, <2>4 DEF DistinctInv, OneBearer, h
  <2> QED BY <2>5 DEF x
<1> QED BY <1>3, <1>4 DEF HandlesDistinct

\* Whatever is rolled back, restored and written again, no two records of the
\* caller carry one handle and no record the handle of another one's frame: the
\* allocator never goes back.  The handles the drawing comes with are distinct.
THEOREM HandlesStayDistinct ==
  ASSUME PresetsDistinct PROVE Spec => []HandlesDistinct
<1>1. Init => DistinctInv
  BY InitIInv, InitOneBearer DEF DistinctInv
<1>2. DistinctInv /\ [Next]_vars => DistinctInv'
  BY StepDistinctInv
<1>3. DistinctInv => HandlesDistinct
  BY OneBearerDistinct
<1> QED BY <1>1, <1>2, <1>3, PTL DEF Spec

---------------------------------------------------------------------------
(* Scopes come and go one at a time; every other call leaves what they found *)
(* when they were opened alone.                                              *)

Opens == \E track, suppress, admission \in BOOLEAN : BeginScope(track, suppress, admission)

Alike(n) ==
  /\ Len(scopes') = n /\ Len(begun') = n
  /\ \A i \in 1..n :
       /\ i \in 1..Len(scopes)
       /\ scopes'[i].checkpoint = scopes[i].checkpoint /\ scopes'[i].track = scopes[i].track
       /\ scopes'[i].written = scopes[i].written /\ scopes'[i].skips = scopes[i].skips
       /\ begun'[i].ledger = begun[i].ledger /\ begun'[i].held = begun[i].held
       /\ begun'[i].written = begun[i].written

LEMMA RemembersAlike ==
  ASSUME IInv, NEW R \in SUBSET Records, scopes' = Remembered(R),
         begun' = IF Tracking THEN begun ELSE Loosened(R)
  PROVE  Alike(Len(scopes))
<1>1. /\ Len(scopes') = Len(scopes)
      /\ \A i \in 1..Len(scopes) :
           /\ scopes'[i].checkpoint = scopes[i].checkpoint /\ scopes'[i].track = scopes[i].track
           /\ scopes'[i].written = scopes[i].written /\ scopes'[i].skips = scopes[i].skips
  BY RememberedIs DEF IInv
<1>2. /\ Len(begun') = Len(begun) /\ Len(begun) = Len(scopes)
      /\ \A i \in 1..Len(begun) :
           /\ begun'[i].ledger = begun[i].ledger /\ begun'[i].held = begun[i].held
           /\ begun'[i].written = begun[i].written
  BY LoosenedIs DEF IInv, TypeInv
<1> QED BY <1>1, <1>2 DEF Alike

LEMMA SameAlike ==
  ASSUME IInv, UNCHANGED <<scopes, begun>> PROVE Alike(Len(scopes))
BY DEF Alike, IInv, TypeInv

LEMMA UndoAlike ==
  ASSUME IInv, NEW restore \in BOOLEAN, UndoLast(restore) PROVE Alike(Len(scopes))
<1> DEFINE R == DOMAIN lastWrite.captured
<1>1. R \in SUBSET Records
  BY CapturesParts DEF IInv, TypeInv, Writes
<1>2. /\ scopes' = IF ~Tracking THEN scopes
                   ELSE Recaptured(scopes, Forgotten(scopes[Len(scopes)].captured, R))
      /\ begun' = IF restore THEN begun ELSE Loosened(R)
  BY DEF UndoLast, Recaptured
<1> HIDE DEF R
<1>3. /\ Len(scopes') = Len(scopes)
      /\ \A i \in 1..Len(scopes) :
           /\ scopes'[i].checkpoint = scopes[i].checkpoint /\ scopes'[i].track = scopes[i].track
           /\ scopes'[i].written = scopes[i].written /\ scopes'[i].skips = scopes[i].skips
  <2>1. CASE ~Tracking
    BY <1>2, <2>1
  <2>2. CASE Tracking
    <3>1. scopes \in Seq(Scopes) /\ Len(scopes) # 0 /\ Len(scopes) \in 1..Len(scopes)
      BY <2>2, TrackingIs DEF Tracking, IInv, TypeInv
    <3>2. scopes[Len(scopes)].captured \in Seq(Captures)
      BY <3>1, ScopeParts
    <3>3. Forgotten(scopes[Len(scopes)].captured, R) \in Seq(Captures)
      BY <3>2, ForgottenIs
    <3> QED BY <1>2, <2>2, <3>1, <3>3, RecapturedIs
  <2> QED BY <2>1, <2>2
<1>4. /\ Len(begun') = Len(begun) /\ Len(begun) = Len(scopes)
      /\ \A i \in 1..Len(begun) :
           /\ begun'[i].ledger = begun[i].ledger /\ begun'[i].held = begun[i].held
           /\ begun'[i].written = begun[i].written
  BY <1>1, <1>2, LoosenedIs DEF IInv, TypeInv
<1> QED BY <1>3, <1>4 DEF Alike

LEMMA StepsAlike ==
  ASSUME IInv, [Next]_vars
  PROVE  Alike(Len(scopes)) \/ Opens \/ CommitScope \/ RollbackScope
<1>1. ASSUME NEW x \in Layers, AddLayer(x) PROVE Alike(Len(scopes))
  <2>1. {x} \in SUBSET Records
    BY DEF Records
  <2> QED BY <1>1, <2>1, RemembersAlike DEF AddLayer
<1>2. ASSUME NEW e \in Entities, WriteEntity(e) PROVE Alike(Len(scopes))
  <2>1. PartsOf(e) \in SUBSET Records
    BY PartsAre
  <2> QED BY <1>2, <2>1, RemembersAlike DEF WriteEntity
<1>3. ASSUME NEW o \in Objects, WriteObject(o) PROVE Alike(Len(scopes))
  <2>1. {o} \in SUBSET Records
    BY DEF Records
  <2> QED BY <1>3, <2>1, RemembersAlike DEF WriteObject
<1>4. ASSUME \/ StartContent \/ EndBlockContent \/ MarkFailure \/ Finish \/ UNCHANGED vars
             \/ \E b \in Blocks : DefineBlock(b) \/ \E framed \in BOOLEAN : DefineBlockFails(b, framed)
             \/ \E i \in DOMAIN ledger.blocks : BeginBlockContent(i)
             \/ \E e \in Entities : \E n \in 0..(Len(Parts[e]) - 1), eed \in BOOLEAN :
                  RejectEntity(e, n, eed)
             \/ \E o \in Objects : RejectObject(o)
             \/ \E h \in Raws : WriteRawDwgObject(h)
      PROVE  Alike(Len(scopes))
  <2>1. UNCHANGED <<scopes, begun>>
    BY <1>4 DEF StartContent, EndBlockContent, MarkFailure, Finish, vars, DefineBlock,
                DefineBlockFails, BeginBlockContent, RejectEntity, RejectObject,
                WriteRawDwgObject
  <2> QED BY <2>1, SameAlike
<1> QED BY <1>1, <1>2, <1>3, <1>4, UndoAlike DEF Next, Opens

LEMMA ClosesAlike ==
  ASSUME IInv, CommitScope \/ RollbackScope
  PROVE  Alike(Len(scopes) - 1) /\ scopes # <<>>
<1>1. scopes # <<>>
  BY DEF CommitScope, RollbackScope
<1> DEFINE n == Len(scopes) - 1
<1>2. /\ Len(begun') = n
      /\ \A i \in 1..n :
           /\ begun'[i].ledger = begun[i].ledger /\ begun'[i].held = begun[i].held
           /\ begun'[i].written = begun[i].written
  BY <1>1, BegunAfter DEF IInv
<1>3. /\ Outer \in Seq(Scopes) /\ Len(Outer) = n /\ n \in Nat
      /\ \A i \in 1..n : Outer[i] = scopes[i] /\ i \in 1..Len(scopes)
      /\ Len(scopes) \in 1..Len(scopes) /\ scopes \in Seq(Scopes)
      /\ Innermost = scopes[Len(scopes)]
  BY <1>1, OuterIs, TrackingIs DEF IInv, TypeInv
<1>4. /\ Len(scopes') = n
      /\ \A i \in 1..n :
           /\ scopes'[i].checkpoint = Outer[i].checkpoint /\ scopes'[i].track = Outer[i].track
           /\ scopes'[i].written = Outer[i].written /\ scopes'[i].skips = Outer[i].skips
  <2>1. CASE scopes' = Outer
    BY <1>3, <2>1
  <2>2. CASE scopes' # Outer
    <3> DEFINE cs == Outer[Len(Outer)].captured \o Innermost.captured
    <3>1. Outer # <<>> /\ scopes' = Recaptured(Outer, cs)
      BY <2>2 DEF CommitScope, RollbackScope, Recaptured
    <3>2. Len(Outer) # 0 /\ Len(Outer) \in 1..Len(Outer)
      BY <1>3, <3>1, EmptySeq
    <3>3. Outer[Len(Outer)].captured \in Seq(Captures) /\ Innermost.captured \in Seq(Captures)
      BY <1>3, <3>2, ScopeParts
    <3>4. cs \in Seq(Captures)
      BY <3>3, ConcatProperties
    <3> HIDE DEF cs
    <3>5. /\ Len(Recaptured(Outer, cs)) = Len(Outer)
          /\ \A i \in 1..Len(Outer) :
               /\ Recaptured(Outer, cs)[i].checkpoint = Outer[i].checkpoint
               /\ Recaptured(Outer, cs)[i].track = Outer[i].track
               /\ Recaptured(Outer, cs)[i].written = Outer[i].written
               /\ Recaptured(Outer, cs)[i].skips = Outer[i].skips
      BY <1>3, <3>2, <3>4, RecapturedIs
    <3> QED BY <1>3, <3>1, <3>5
  <2> QED BY <2>1, <2>2
<1> QED BY <1>1, <1>2, <1>3, <1>4 DEF Alike

LEMMA OpensIs ==
  ASSUME IInv, Opens
  PROVE  /\ Len(scopes') = Len(scopes) + 1 /\ Len(begun') = Len(scopes) + 1
         /\ Len(scopes) \in Nat
         /\ \A i \in 1..Len(scopes) : scopes'[i] = scopes[i] /\ begun'[i] = begun[i]
         /\ LET s == scopes'[Len(scopes) + 1]
                b == begun'[Len(scopes) + 1]
            IN /\ s.checkpoint = Checkpoint(ledger, s.checkpoint.admission)
               /\ s.checkpoint.admission \in BOOLEAN
               /\ s.skips = skips /\ s.written = written /\ s.captured = <<>>
               /\ s.track \in BOOLEAN
               /\ b.ledger = ledger /\ b.held = held /\ b.written = written /\ b.loose = {}
         /\ UNCHANGED <<phase, alloc, ledger, held, written, skips, undo>>
         /\ lastWrite' = NoWrite
<1>1. PICK track \in BOOLEAN, suppress \in BOOLEAN, admission \in BOOLEAN :
         BeginScope(track, suppress, admission)
  BY DEF Opens
<1> DEFINE s == [checkpoint |-> Checkpoint(ledger, admission), track |-> track,
                 suppress |-> suppress, written |-> written, skips |-> skips,
                 required |-> required, captured |-> <<>>]
           b == [ledger |-> ledger, held |-> held, alloc |-> alloc, written |-> written,
                 loose |-> {}]
<1>2. /\ scopes' = Append(scopes, s) /\ begun' = Append(begun, b) /\ lastWrite' = NoWrite
      /\ UNCHANGED <<phase, alloc, ledger, held, written, skips, undo>>
  BY <1>1 DEF BeginScope
<1>3. s \in Scopes /\ b \in Begins
  <2>1. /\ ledger \in Ledgers /\ written \in Nat /\ skips \in Nat /\ required \in BOOLEAN
        /\ held \in Helds /\ HP!Sound(alloc)
    BY DEF IInv, TypeInv
  <2>2. Checkpoint(ledger, admission) \in Checkpoints
    BY <2>1, CheckpointIs
  <2>3. <<>> \in Seq(Captures)
    OBVIOUS
  <2> QED BY <2>1, <2>2, <2>3 DEF Scopes, Begins, HP!Sound
<1>4. /\ s.checkpoint = Checkpoint(ledger, s.checkpoint.admission)
      /\ s.checkpoint.admission \in BOOLEAN
      /\ s.skips = skips /\ s.written = written /\ s.captured = <<>> /\ s.track \in BOOLEAN
      /\ b.ledger = ledger /\ b.held = held /\ b.written = written /\ b.loose = {}
  BY DEF Checkpoint
<1> HIDE DEF s, b
<1>5. /\ scopes \in Seq(Scopes) /\ Len(scopes) \in Nat
      /\ begun \in Seq(Begins) /\ Len(begun) = Len(scopes)
  BY TrackingIs DEF IInv, TypeInv
<1>6. /\ Len(scopes') = Len(scopes) + 1 /\ \A i \in 1..Len(scopes) : scopes'[i] = scopes[i]
      /\ scopes'[Len(scopes) + 1] = s
  BY <1>2, <1>3, <1>5, AppendProperties
<1>7. /\ Len(begun') = Len(scopes) + 1 /\ \A i \in 1..Len(scopes) : begun'[i] = begun[i]
      /\ begun'[Len(scopes) + 1] = b
  BY <1>2, <1>3, <1>5, AppendProperties
<1> QED BY <1>2, <1>4, <1>5, <1>6, <1>7

---------------------------------------------------------------------------
(* Skips.                                                                    *)

\* A scope that suppresses the skips of what it takes back goes back to a count
\* that is no higher.
SkipInv ==
  /\ \A i \in 1..Len(scopes) : scopes[i].skips <= skips
  /\ \A i, j \in 1..Len(scopes) : i <= j => scopes[i].skips <= scopes[j].skips

LEMMA SkipsGrow ==
  ASSUME IInv, [Next]_vars, ~RollbackScope PROVE skips' \in Nat /\ skips <= skips'
<1>1. skips \in Nat
  BY DEF IInv, TypeInv
<1>2. skips' = skips \/ skips' = skips + 1
  BY DEF Next, vars, AddLayer, StartContent, DefineBlock, DefineBlockFails,
         BeginBlockContent, EndBlockContent, WriteEntity, RejectEntity, WriteObject,
         RejectObject, WriteRawDwgObject, UndoLast, BeginScope, CommitScope, MarkFailure,
         Finish
<1> QED BY <1>1, <1>2

LEMMA ScopeSkips ==
  ASSUME IInv PROVE \A i \in 1..Len(scopes) : scopes[i].skips \in Nat
<1>1. \A i \in 1..Len(scopes) : scopes[i] \in Scopes
  BY ElementOfSeq DEF IInv, TypeInv
<1> QED BY <1>1 DEF Scopes

LEMMA StepSkipInv == ASSUME IInv, SkipInv, [Next]_vars PROVE SkipInv'
<1>1. skips \in Nat /\ Len(scopes) \in Nat
  BY TrackingIs DEF IInv, TypeInv
<1>2. ASSUME NEW n \in Nat, Alike(n), skips' \in Nat,
             \A i \in 1..n : scopes[i].skips <= skips'
      PROVE  SkipInv'
  <2>1. /\ Len(scopes') = n /\ \A i \in 1..n : scopes'[i].skips = scopes[i].skips
        /\ \A i \in 1..n : i \in 1..Len(scopes)
    BY <1>2 DEF Alike
  <2> QED BY <1>2, <2>1 DEF SkipInv
<1>3. CASE Alike(Len(scopes)) /\ ~RollbackScope
  <2>1. skips' \in Nat /\ skips <= skips'
    BY <1>3, SkipsGrow
  <2>2. \A i \in 1..Len(scopes) : scopes[i].skips <= skips'
    BY <1>1, <2>1, ScopeSkips DEF SkipInv
  <2> QED BY <1>1, <1>2, <1>3, <2>1, <2>2
<1>4. CASE Opens
  <2> DEFINE n == Len(scopes)
  <2>1. /\ Len(scopes') = n + 1 /\ \A i \in 1..n : scopes'[i] = scopes[i]
        /\ scopes'[n + 1].skips = skips /\ skips' = skips
    BY <1>4, OpensIs
  <2>2. \A i \in 1..(n + 1) : i \in 1..n \/ i = n + 1
    BY <1>1
  <2>3. \A i \in 1..n : scopes[i].skips <= skips
    BY DEF SkipInv
  <2>4. \A i, j \in 1..n : i <= j => scopes[i].skips <= scopes[j].skips
    BY DEF SkipInv
  <2> HIDE DEF n
  <2>5. \A i \in 1..(n + 1) : scopes'[i].skips <= skips'
    BY <1>1, <2>1, <2>2, <2>3
  <2>6. ASSUME NEW i \in 1..(n + 1), NEW j \in 1..(n + 1), i <= j
        PROVE  scopes'[i].skips <= scopes'[j].skips
    <3>1. CASE j = n + 1
      BY <2>1, <2>5, <3>1
    <3>2. CASE j # n + 1
      <4>1. j \in 1..n /\ i \in 1..n
        BY <1>1, <2>2, <2>6, <3>2 DEF n
      <4> QED BY <2>1, <2>4, <2>6, <4>1
    <3> QED BY <3>1, <3>2
  <2> QED BY <2>1, <2>5, <2>6 DEF SkipInv
<1>5. CASE CommitScope \/ RollbackScope
  <2>1. Alike(Len(scopes) - 1) /\ scopes # <<>>
    BY <1>5, ClosesAlike
  <2>2. Len(scopes) - 1 \in Nat /\ Len(scopes) \in 1..Len(scopes)
        /\ Innermost = scopes[Len(scopes)]
        /\ \A i \in 1..(Len(scopes) - 1) : i \in 1..Len(scopes)
    BY <1>1, <2>1, TrackingIs DEF IInv
  <2>3. skips' = skips \/ skips' = Innermost.skips
    BY <1>5 DEF CommitScope, RollbackScope
  <2>4. skips' \in Nat /\ \A i \in 1..(Len(scopes) - 1) : scopes[i].skips <= skips'
    BY <1>1, <2>2, <2>3, ScopeSkips DEF SkipInv
  <2> QED BY <1>2, <2>1, <2>2, <2>4
<1> QED BY <1>3, <1>4, <1>5, StepsAlike

\* What a skip leaves.
LEMMA SkipLeaves ==
  ASSUME IInv, SkipInv, [Next]_vars, skips' > skips
  PROVE  [ledger' EXCEPT !.eed = ledger.eed] = ledger /\ held' = held
<1>1. skips \in Nat /\ ledger \in Ledgers
  BY DEF IInv, TypeInv
<1>2. ledger = [frames |-> ledger.frames, model |-> ledger.model, blocks |-> ledger.blocks,
                active |-> ledger.active, layers |-> ledger.layers, eed |-> ledger.eed]
  BY <1>1, LedgerParts
<1>3. ASSUME ledger' = ledger PROVE [ledger' EXCEPT !.eed = ledger.eed] = ledger
  BY <1>2, <1>3
<1>4. CASE RollbackScope
  <2>1. Innermost = scopes[Len(scopes)] /\ Len(scopes) \in 1..Len(scopes)
    BY <1>4, TrackingIs DEF RollbackScope, IInv
  <2>2. skips' = skips \/ skips' = scopes[Len(scopes)].skips
    BY <1>4, <2>1 DEF RollbackScope
  <2>3. scopes[Len(scopes)].skips <= skips /\ scopes[Len(scopes)].skips \in Nat
    BY <2>1, ScopeSkips DEF SkipInv
  <2> QED BY <1>1, <2>2, <2>3
<1>5. ASSUME NEW b \in Blocks, NEW framed \in BOOLEAN, DefineBlockFails(b, framed)
      PROVE  [ledger' EXCEPT !.eed = ledger.eed] = ledger /\ held' = held
  <2>1. ledger' = ledger /\ held' = held
    BY <1>5, DefineBlockFailsIs DEF DefineBlockFails
  <2> QED BY <1>3, <2>1
<1>6. ASSUME NEW e \in Entities, NEW n \in 0..(Len(Parts[e]) - 1), NEW eed \in BOOLEAN,
             RejectEntity(e, n, eed)
      PROVE  [ledger' EXCEPT !.eed = ledger.eed] = ledger /\ held' = held
  <2>1. ledger' = [ledger EXCEPT !.eed = ledger.eed \/ eed]
    BY <1>6, RejectEntityIs
  <2>2. held' = held
    BY <1>6 DEF RejectEntity
  <2> QED BY <1>2, <2>1, <2>2
<1>7. ASSUME NEW o \in Objects, RejectObject(o)
      PROVE  [ledger' EXCEPT !.eed = ledger.eed] = ledger /\ held' = held
  <2>1. ledger' = ledger /\ held' = held
    BY <1>7, RejectObjectIs DEF RejectObject
  <2> QED BY <1>3, <2>1
<1>8. \/ RollbackScope
      \/ \E b \in Blocks, framed \in BOOLEAN : DefineBlockFails(b, framed)
      \/ \E e \in Entities : \E n \in 0..(Len(Parts[e]) - 1), eed \in BOOLEAN :
           RejectEntity(e, n, eed)
      \/ \E o \in Objects : RejectObject(o)
      \/ skips' = skips
  BY DEF Next, vars, AddLayer, StartContent, DefineBlock,
         BeginBlockContent, EndBlockContent, WriteEntity, WriteObject,
         WriteRawDwgObject, UndoLast, BeginScope, CommitScope, MarkFailure, Finish
<1> QED BY <1>1, <1>4, <1>5, <1>6, <1>7, <1>8

\* A call that reports a skip has put the writer back as it was and given the
\* caller's records back; a rollback never adds to the skips.
THEOREM SkipsChangeNothing == Spec => RefusedWriteChangesNothing
<1> DEFINE I == IInv /\ SkipInv
           A == skips' > skips => /\ [ledger' EXCEPT !.eed = ledger.eed] = ledger
                                  /\ held' = held
<1>1. Init => I
  <2>1. Init => SkipInv
    BY DEF Init, SkipInv
  <2> QED BY <2>1, InitIInv
<1>2. I /\ [Next]_vars => I'
  BY StepIInv, StepSkipInv
<1>3. I /\ [Next]_vars => [A]_vars
  BY SkipLeaves
<1> QED BY <1>1, <1>2, <1>3, PTL DEF Spec, RefusedWriteChangesNothing

---------------------------------------------------------------------------
(* Owner lists: what an owner lists is framed, and the parts of an entity    *)
(* are listed by one owner.                                                  *)

\* A part belongs to one entity.
PartsUnshared == \A e, f \in Entities : e # f => PartsOf(e) \cap PartsOf(f) = {}

Has(s, h) == \E i \in 1..Len(s) : s[i] = h
HasFrame(fs, h) == \E i \in 1..Len(fs) : fs[i].handle = h
AllDistinct(s) == \A i, j \in 1..Len(s) : s[i] = s[j] => i = j
ListGood(fs, s) == AllDistinct(s) /\ \A i \in 1..Len(s) : HasFrame(fs, s[i])
Lists(fs, s, e) == \A i \in 1..Len(fs) : fs[i].of \in PartsOf(e) => Has(s, fs[i].handle)
Good(l) == ListGood(l.frames, l.model)
           /\ \A b \in 1..Len(l.blocks) : ListGood(l.frames, l.blocks[b].entities)
Together(l) == \A e \in Entities :
  \/ Lists(l.frames, l.model, e)
  \/ \E b \in 1..Len(l.blocks) : Lists(l.frames, l.blocks[b].entities, e)
\* The documented calls keep the lists so.
Fine(l) == Habits = {} => Good(l) /\ (PartsUnshared => Together(l))

SameLists(l, m) == m.frames = l.frames /\ m.model = l.model /\ m.blocks = l.blocks

LEMMA SameFine == ASSUME NEW l, NEW m, SameLists(l, m), Fine(l) PROVE Fine(m)
BY DEF SameLists, Fine, Good, Together

LEMMA SameContinues ==
  ASSUME NEW a, NEW b, NEW c, SameLists(b, c)
  PROVE  (Continues(a, b) => Continues(a, c)) /\ (Continues(b, a) => Continues(c, a))
BY DEF SameLists, Continues

LEMMA ListMoreFrames ==
  ASSUME NEW fs \in Seq(Frames), NEW gs \in Seq(Frames), NEW s \in Seq(Handles),
         Prefix(fs, gs), ListGood(fs, s)
  PROVE  ListGood(gs, s)
<1>1. Len(fs) \in Nat /\ Len(gs) \in Nat
  BY LenProperties
<1>2. ASSUME NEW i \in 1..Len(s) PROVE HasFrame(gs, s[i])
  <2>1. PICK k \in 1..Len(fs) : fs[k].handle = s[i]
    BY DEF ListGood, HasFrame
  <2>2. k \in 1..Len(gs) /\ gs[k] = fs[k]
    BY <1>1 DEF Prefix
  <2> QED BY <2>1, <2>2 DEF HasFrame
<1> QED BY <1>2 DEF ListGood

\* More frames, but no part's.
LEMMA MoreFramesFine ==
  ASSUME NEW l \in Ledgers, NEW m \in Ledgers, Fine(l), Prefix(l.frames, m.frames),
         m.model = l.model, m.blocks = l.blocks,
         \A i \in (Len(l.frames) + 1)..Len(m.frames) :
           \A e \in Entities : m.frames[i].of \notin PartsOf(e)
  PROVE  Fine(m)
<1>1. /\ l.frames \in Seq(Frames) /\ m.frames \in Seq(Frames) /\ l.model \in Seq(Handles)
      /\ Len(l.frames) \in Nat /\ Len(m.frames) \in Nat
      /\ \A b \in 1..Len(l.blocks) : l.blocks[b].entities \in Seq(Handles)
  BY LedgerParts
<1>2. Good(l) => Good(m)
  BY <1>1, ListMoreFrames DEF Good
<1>3. ASSUME NEW s, NEW e \in Entities, Lists(l.frames, s, e) PROVE Lists(m.frames, s, e)
  <2>1. ASSUME NEW i \in 1..Len(m.frames), m.frames[i].of \in PartsOf(e)
        PROVE  Has(s, m.frames[i].handle)
    <3>1. i \in 1..Len(l.frames) /\ m.frames[i] = l.frames[i]
      BY <1>1, <2>1 DEF Prefix
    <3> QED BY <1>3, <2>1, <3>1 DEF Lists
  <2> QED BY <2>1 DEF Lists
<1>4. Together(l) => Together(m)
  BY <1>3 DEF Together
<1> QED BY <1>2, <1>4 DEF Fine

\* One block more, with nothing in it yet.
LEMMA MoreBlocksFine ==
  ASSUME NEW l \in Ledgers, NEW m \in Ledgers, Fine(l), m.frames = l.frames,
         m.model = l.model, NEW b \in BlockSet, b.entities = <<>>,
         m.blocks = Append(l.blocks, b)
  PROVE  Fine(m)
<1>1. l.blocks \in Seq(BlockSet) /\ Len(l.blocks) \in Nat
  BY LedgerParts
<1>2. /\ Len(m.blocks) = Len(l.blocks) + 1 /\ m.blocks[Len(l.blocks) + 1] = b
      /\ \A k \in 1..Len(l.blocks) : m.blocks[k] = l.blocks[k] /\ k \in 1..Len(m.blocks)
      /\ \A k \in 1..Len(m.blocks) : k \in 1..Len(l.blocks) \/ k = Len(l.blocks) + 1
  BY <1>1, AppendProperties
<1>3. ListGood(m.frames, <<>>)
  BY DEF ListGood, AllDistinct
<1>4. Good(l) => Good(m)
  BY <1>2, <1>3 DEF Good
<1>5. Together(l) => Together(m)
  BY <1>2 DEF Together
<1> QED BY <1>4, <1>5 DEF Fine

\* A list whose new elements have no frame yet, each of them once.
LEMMA GrownGood ==
  ASSUME NEW fs \in Seq(Frames), NEW gs \in Seq(Frames), NEW s \in Seq(Handles),
         NEW t \in Seq(Handles), NEW hs \in Seq(Handles), NEW xs,
         Grown(fs, gs, xs, Len(hs)), Grown(s, t, hs, Len(hs)),
         \A n \in 1..Len(hs) : xs[n].handle = hs[n] /\ ~HasFrame(fs, hs[n]),
         AllDistinct(hs), ListGood(fs, s)
  PROVE  ListGood(gs, t)
<1>1. /\ Len(fs) \in Nat /\ Len(gs) \in Nat /\ Len(s) \in Nat /\ Len(t) \in Nat
      /\ Len(hs) \in Nat
  BY LenProperties
<1>2. /\ Len(gs) = Len(fs) + Len(hs) /\ Prefix(fs, gs)
      /\ Len(t) = Len(s) + Len(hs) /\ Prefix(s, t)
      /\ \A m \in 1..Len(hs) : gs[Len(fs) + m].handle = hs[m] /\ t[Len(s) + m] = hs[m]
  BY DEF Grown
<1>3. ListGood(gs, s)
  BY <1>2, ListMoreFrames
<1>4. \A i \in 1..Len(t) : \/ i \in 1..Len(s) /\ t[i] = s[i] /\ HasFrame(fs, t[i])
                           \/ \E m \in 1..Len(hs) : i = Len(s) + m /\ t[i] = hs[m]
  <2>1. ASSUME NEW i \in 1..Len(t)
        PROVE  \/ i \in 1..Len(s) /\ t[i] = s[i] /\ HasFrame(fs, t[i])
               \/ \E m \in 1..Len(hs) : i = Len(s) + m /\ t[i] = hs[m]
    <3>1. CASE i <= Len(s)
      BY <1>1, <1>2, <3>1 DEF Prefix, ListGood
    <3>2. CASE ~(i <= Len(s))
      <4>1. i - Len(s) \in 1..Len(hs) /\ i = Len(s) + (i - Len(s))
        BY <1>1, <1>2, <3>2
      <4> QED BY <1>2, <4>1
    <3> QED BY <3>1, <3>2
  <2> QED BY <2>1
<1>5. ASSUME NEW i \in 1..Len(t) PROVE HasFrame(gs, t[i])
  <2>1. CASE i \in 1..Len(s) /\ t[i] = s[i]
    BY <1>3, <2>1 DEF ListGood
  <2>2. ASSUME NEW m \in 1..Len(hs), t[i] = hs[m] PROVE HasFrame(gs, t[i])
    <3>1. Len(fs) + m \in 1..Len(gs) /\ gs[Len(fs) + m].handle = hs[m]
      BY <1>1, <1>2
    <3> QED BY <2>2, <3>1 DEF HasFrame
  <2> QED BY <1>4, <2>1, <2>2
<1>6. ASSUME NEW i \in 1..Len(t), NEW j \in 1..Len(t), t[i] = t[j] PROVE i = j
  <2>1. CASE i \in 1..Len(s) /\ j \in 1..Len(s) /\ t[i] = s[i] /\ t[j] = s[j]
    BY <1>6, <2>1 DEF ListGood, AllDistinct
  <2>2. \A k \in 1..Len(t) : (\E m \in 1..Len(hs) : t[k] = hs[m]) => ~HasFrame(fs, t[k])
    OBVIOUS
  <2>3. ASSUME NEW m \in 1..Len(hs), NEW n \in 1..Len(hs), i = Len(s) + m, t[i] = hs[m],
               j = Len(s) + n, t[j] = hs[n]
        PROVE  i = j
    BY <1>6, <2>3 DEF AllDistinct
  <2>4. \/ i \in 1..Len(s) /\ t[i] = s[i] /\ HasFrame(fs, t[i])
        \/ \E m \in 1..Len(hs) : i = Len(s) + m /\ t[i] = hs[m]
    BY <1>4
  <2>5. \/ j \in 1..Len(s) /\ t[j] = s[j] /\ HasFrame(fs, t[j])
        \/ \E m \in 1..Len(hs) : j = Len(s) + m /\ t[j] = hs[m]
    BY <1>4
  <2> QED BY <1>6, <2>1, <2>2, <2>3, <2>4, <2>5
<1> QED BY <1>5, <1>6 DEF ListGood, AllDistinct

LEMMA ListsMore ==
  ASSUME NEW fs \in Seq(Frames), NEW gs \in Seq(Frames), NEW s \in Seq(Handles),
         NEW t \in Seq(Handles), NEW e \in Entities, Prefix(fs, gs), Prefix(s, t),
         Lists(fs, s, e),
         \A i \in (Len(fs) + 1)..Len(gs) : gs[i].of \notin PartsOf(e)
  PROVE  Lists(gs, t, e)
<1>1. Len(fs) \in Nat /\ Len(gs) \in Nat /\ Len(s) \in Nat /\ Len(t) \in Nat
  BY LenProperties
<1>2. ASSUME NEW i \in 1..Len(gs), gs[i].of \in PartsOf(e)
      PROVE  Has(t, gs[i].handle)
  <2>1. i \in 1..Len(fs) /\ gs[i] = fs[i]
    BY <1>1, <1>2 DEF Prefix
  <2>2. PICK k \in 1..Len(s) : s[k] = gs[i].handle
    BY <1>2, <2>1 DEF Lists, Has
  <2>3. k \in 1..Len(t) /\ t[k] = gs[i].handle
    BY <1>1, <2>2 DEF Prefix
  <2> QED BY <2>3 DEF Has
<1> QED BY <1>2 DEF Lists

\* The frames of a write that succeeds and the lists they are entered in.
LEMMA StagedFine ==
  ASSUME ledger \in Ledgers, NEW e \in Entities, NEW hs \in Seq(Handles),
         Len(hs) = Len(Parts[e]), NEW m, StagedOK(e, hs, Len(hs), m),
         OwnerOf(e) = ledger.active, CanOwn(e), Unframed(hs), Fine(ledger),
         \A i \in 1..Len(ledger.frames) : ledger.frames[i].of \notin PartsOf(e)
  PROVE  Fine(m)
<1> DEFINE xs == FramesOf(e, hs)
           fs == ledger.frames
           gs == m.frames
           here(b) == ledger.active # 0 /\ ledger.blocks[b].record = ledger.active
<1>1. /\ m \in Ledgers /\ Continues(ledger, m) /\ Grown(fs, gs, xs, Len(hs))
      /\ IF ledger.active = 0 THEN Grown(ledger.model, m.model, hs, Len(hs))
         ELSE m.model = ledger.model
      /\ \A b \in 1..Len(ledger.blocks) :
            IF here(b) THEN Grown(ledger.blocks[b].entities, m.blocks[b].entities, hs, Len(hs))
            ELSE m.blocks[b].entities = ledger.blocks[b].entities
  BY DEF StagedOK
<1>2. /\ fs \in Seq(Frames) /\ gs \in Seq(Frames) /\ ledger.model \in Seq(Handles)
      /\ m.model \in Seq(Handles)
      /\ Len(m.blocks) = Len(ledger.blocks) /\ DOMAIN ledger.blocks = 1..Len(ledger.blocks)
      /\ \A b \in 1..Len(ledger.blocks) : /\ ledger.blocks[b].entities \in Seq(Handles)
                                          /\ m.blocks[b].entities \in Seq(Handles)
  BY <1>1, LedgerParts DEF Continues
<1>3. /\ Len(fs) \in Nat /\ Len(gs) \in Nat /\ Len(hs) \in Nat /\ DOMAIN hs = 1..Len(hs)
      /\ DOMAIN fs = 1..Len(fs)
  BY <1>2, LenProperties
<1>4. \A n \in 1..Len(hs) : /\ xs[n].handle = hs[n] /\ xs[n].of = Parts[e][n]
                            /\ ~HasFrame(fs, hs[n])
  <2>1. ASSUME NEW n \in 1..Len(hs) PROVE ~HasFrame(fs, hs[n])
    <3>1. hs[n] \notin Framed(ledger)
      BY <1>3 DEF Unframed
    <3> QED BY <1>3, <3>1 DEF Framed, HasFrame
  <2> QED BY <2>1 DEF FramesOf
<1>5. AllDistinct(hs)
  BY <1>3 DEF Unframed, AllDistinct
<1> HIDE DEF xs, fs, gs
<1>6. Prefix(fs, gs)
  BY <1>1 DEF Grown
<1>7. ASSUME Good(ledger) PROVE Good(m)
  <2>1. ListGood(fs, ledger.model)
        /\ \A b \in 1..Len(ledger.blocks) : ListGood(fs, ledger.blocks[b].entities)
    BY <1>7 DEF Good, fs
  <2>2. ListGood(gs, m.model)
    <3>1. CASE ledger.active = 0
      BY <1>1, <1>2, <1>4, <1>5, <2>1, <3>1, GrownGood
    <3>2. CASE ledger.active # 0
      BY <1>1, <1>2, <1>6, <2>1, <3>2, ListMoreFrames
    <3> QED BY <3>1, <3>2
  <2>3. ASSUME NEW b \in 1..Len(ledger.blocks) PROVE ListGood(gs, m.blocks[b].entities)
    <3>1. CASE here(b)
      <4>1. Grown(ledger.blocks[b].entities, m.blocks[b].entities, hs, Len(hs))
            /\ ledger.blocks[b].entities \in Seq(Handles) /\ m.blocks[b].entities \in Seq(Handles)
        BY <1>1, <1>2, <3>1
      <4> HIDE DEF here
      <4> QED BY <1>1, <1>2, <1>4, <1>5, <2>1, <4>1, GrownGood
    <3>2. CASE ~here(b)
      <4>1. m.blocks[b].entities = ledger.blocks[b].entities
        BY <1>1, <3>2
      <4> HIDE DEF here
      <4> QED BY <1>2, <1>6, <2>1, <4>1, ListMoreFrames
    <3> QED BY <3>1, <3>2
  <2> QED BY <1>2, <2>2, <2>3 DEF Good, gs
<1>8. \A i \in (Len(fs) + 1)..Len(gs) :
         \E n \in 1..Len(hs) : i = Len(fs) + n /\ gs[i].handle = hs[n] /\ gs[i].of = Parts[e][n]
  <2>1. ASSUME NEW i \in (Len(fs) + 1)..Len(gs)
        PROVE  \E n \in 1..Len(hs) : i = Len(fs) + n /\ gs[i].handle = hs[n]
                                     /\ gs[i].of = Parts[e][n]
    <3>1. Len(gs) = Len(fs) + Len(hs) /\ \A n \in 1..Len(hs) : gs[Len(fs) + n] = xs[n]
      BY <1>1 DEF Grown
    <3>2. i - Len(fs) \in 1..Len(hs) /\ i = Len(fs) + (i - Len(fs))
      BY <1>3, <3>1
    <3> QED BY <1>4, <3>1, <3>2
  <2> QED BY <2>1
<1>9. ASSUME Together(ledger), PartsUnshared PROVE Together(m)
  <2>1. ASSUME NEW f \in Entities, f # e
        PROVE  \/ Lists(gs, m.model, f)
               \/ \E b \in 1..Len(m.blocks) : Lists(gs, m.blocks[b].entities, f)
    <3>1. \A i \in (Len(fs) + 1)..Len(gs) : gs[i].of \notin PartsOf(f)
      <4>1. \A n \in 1..Len(hs) : Parts[e][n] \in PartsOf(e)
        BY PartsAre DEF PartsOf
      <4> QED BY <1>8, <1>9, <2>1, <4>1 DEF PartsUnshared
    <3>2. CASE Lists(fs, ledger.model, f)
      <4>1. Prefix(ledger.model, m.model)
        BY <1>1 DEF Continues
      <4> QED BY <1>2, <1>6, <3>1, <3>2, <4>1, ListsMore
    <3>3. ASSUME NEW b \in 1..Len(ledger.blocks), Lists(fs, ledger.blocks[b].entities, f)
          PROVE  Lists(gs, m.blocks[b].entities, f)
      <4>1. Prefix(ledger.blocks[b].entities, m.blocks[b].entities)
            /\ ledger.blocks[b].entities \in Seq(Handles) /\ m.blocks[b].entities \in Seq(Handles)
        BY <1>1, <1>2 DEF Continues
      <4> QED BY <1>2, <1>6, <3>1, <3>3, <4>1, ListsMore
    <3>4. \/ Lists(fs, ledger.model, f)
          \/ \E b \in 1..Len(ledger.blocks) : Lists(fs, ledger.blocks[b].entities, f)
      BY <1>9 DEF Together, fs
    <3> QED BY <1>2, <3>2, <3>3, <3>4
  <2>2. ASSUME NEW s \in Seq(Handles), NEW t \in Seq(Handles), Grown(s, t, hs, Len(hs))
        PROVE  Lists(gs, t, e)
    <3>1. Len(s) \in Nat /\ Len(t) = Len(s) + Len(hs) /\ \A n \in 1..Len(hs) : t[Len(s) + n] = hs[n]
      BY <2>2, LenProperties DEF Grown
    <3>2. \A n \in 1..Len(hs) : Has(t, hs[n])
      <4>1. ASSUME NEW n \in 1..Len(hs) PROVE Has(t, hs[n])
        <5>1. Len(s) + n \in 1..Len(t)
          BY <1>3, <3>1
        <5> QED BY <3>1, <5>1 DEF Has
      <4> QED BY <4>1
    <3>3. ASSUME NEW i \in 1..Len(gs), gs[i].of \in PartsOf(e) PROVE Has(t, gs[i].handle)
      <4>1. CASE i <= Len(fs)
        <5>1. i \in 1..Len(fs) /\ gs[i] = fs[i]
          BY <1>3, <1>6, <4>1 DEF Prefix
        <5> QED BY <3>3, <5>1 DEF fs
      <4>2. CASE ~(i <= Len(fs))
        <5>1. i \in (Len(fs) + 1)..Len(gs)
          BY <1>3, <4>2
        <5> QED BY <1>8, <3>2, <5>1
      <4> QED BY <4>1, <4>2
    <3> QED BY <3>3 DEF Lists
  <2>3. \/ Lists(gs, m.model, e)
        \/ \E b \in 1..Len(m.blocks) : Lists(gs, m.blocks[b].entities, e)
    <3>1. CASE ledger.active = 0
      BY <1>1, <1>2, <2>2, <3>1
    <3>2. CASE ledger.active # 0
      <4>1. PICK b \in 1..Len(ledger.blocks) : ledger.blocks[b].record = ledger.active
        BY <1>2, <3>2 DEF CanOwn, IsBlock
      <4>2. here(b)
        BY <3>2, <4>1
      <4>3. Lists(gs, m.blocks[b].entities, e)
        <5>1. Grown(ledger.blocks[b].entities, m.blocks[b].entities, hs, Len(hs))
              /\ ledger.blocks[b].entities \in Seq(Handles) /\ m.blocks[b].entities \in Seq(Handles)
          BY <1>1, <1>2, <4>2
        <5> QED BY <2>2, <5>1
      <4> QED BY <1>2, <4>3
    <3> QED BY <3>1, <3>2
  <2> QED BY <2>1, <2>3 DEF Together, gs
<1> QED BY <1>7, <1>9 DEF Fine

---------------------------------------------------------------------------
(* Whose frames there are: a record with a frame carries its handle, and     *)
(* what a scope or a write can restore had no frame when it began.           *)

Spares(fs, c, n) == \A r \in DOMAIN c : \A k \in 1..n : fs[k].of # r
FramesHeld(fs, hs) ==
  \A i \in 1..Len(fs) : fs[i].of \in Records =>
    /\ hs[fs[i].of].handle = fs[i].handle /\ fs[i].of \notin Layers
FrameInv ==
  /\ FramesHeld(ledger.frames, held)
  /\ \A s \in 1..Len(scopes) : scopes[s].checkpoint.frames <= Len(ledger.frames)
  /\ \A s, t \in 1..Len(scopes) :
       s <= t => scopes[s].checkpoint.frames <= scopes[t].checkpoint.frames
  /\ \A s \in 1..Len(scopes) : \A j \in 1..Len(scopes[s].captured) :
       Spares(ledger.frames, scopes[s].captured[j], scopes[s].checkpoint.frames)
  /\ lastWrite.live =>
       /\ lastWrite.checkpoint.frames <= Len(ledger.frames)
       /\ \A s \in 1..Len(scopes) :
            scopes[s].checkpoint.frames <= lastWrite.checkpoint.frames
       /\ Spares(ledger.frames, lastWrite.captured, lastWrite.checkpoint.frames)

LEMMA FrameNumbers ==
  ASSUME IInv
  PROVE  /\ Len(scopes) \in Nat /\ Len(ledger.frames) \in Nat
         /\ DOMAIN ledger.frames = 1..Len(ledger.frames)
         /\ \A i \in 1..Len(ledger.frames) : ledger.frames[i] \in Frames
         /\ \A s \in 1..Len(scopes) : scopes[s].checkpoint.frames \in Nat
         /\ lastWrite.checkpoint.frames \in Nat
<1>1. ledger \in Ledgers /\ scopes \in Seq(Scopes) /\ lastWrite \in Writes
  BY DEF IInv, TypeInv
<1> QED BY <1>1, LedgerParts, ScopeParts DEF Checkpoints, Writes

\* The first n frames and the outer m scopes stay.
LEMMA FramesMove ==
  ASSUME IInv, IInv', FrameInv,
         NEW n \in 0..Len(ledger.frames), n <= Len(ledger'.frames),
         \A i \in 1..n : ledger'.frames[i] = ledger.frames[i],
         NEW m \in 0..Len(scopes), Len(scopes') = m,
         \A s \in 1..m : /\ scopes'[s].checkpoint = scopes[s].checkpoint
                         /\ scopes[s].checkpoint.frames <= n
                         /\ \A j \in 1..Len(scopes'[s].captured) :
                              Spares(ledger.frames, scopes'[s].captured[j],
                                     scopes[s].checkpoint.frames),
         FramesHeld(ledger'.frames, held'),
         \/ ~lastWrite'.live
         \/ n = Len(ledger.frames) /\ m = Len(scopes) /\ lastWrite' = lastWrite
         \/ lastWrite'.checkpoint.frames = n /\ Spares(ledger.frames, lastWrite'.captured, n)
  PROVE  FrameInv'
<1>1. /\ Len(scopes) \in Nat /\ Len(ledger.frames) \in Nat /\ Len(ledger'.frames) \in Nat
      /\ n \in Nat /\ m \in Nat
      /\ \A s \in 1..m : s \in 1..Len(scopes) /\ scopes[s].checkpoint.frames \in Nat
      /\ lastWrite.checkpoint.frames \in Nat
  <2>1. /\ Len(scopes) \in Nat /\ Len(ledger.frames) \in Nat
        /\ \A s \in 1..Len(scopes) : scopes[s].checkpoint.frames \in Nat
        /\ lastWrite.checkpoint.frames \in Nat
    BY FrameNumbers
  <2>2. Len(ledger'.frames) \in Nat
    BY LedgerParts DEF IInv, TypeInv
  <2> QED BY <2>1, <2>2
<1>2. ASSUME NEW c, NEW k \in Nat, k <= n, Spares(ledger.frames, c, k)
      PROVE  Spares(ledger'.frames, c, k)
  <2>1. \A i \in 1..k : i \in 1..n
    BY <1>1, <1>2
  <2> QED BY <1>2, <2>1 DEF Spares
<1>3. \A s \in 1..m : scopes'[s].checkpoint.frames <= Len(ledger'.frames)
  BY <1>1
<1>4. \A s, t \in 1..m : s <= t => scopes'[s].checkpoint.frames <= scopes'[t].checkpoint.frames
  BY <1>1 DEF FrameInv
<1>5. \A s \in 1..m : \A j \in 1..Len(scopes'[s].captured) :
         Spares(ledger'.frames, scopes'[s].captured[j], scopes'[s].checkpoint.frames)
  BY <1>1, <1>2
<1>6. ASSUME lastWrite'.live
      PROVE  /\ lastWrite'.checkpoint.frames <= Len(ledger'.frames)
             /\ \A s \in 1..m : scopes'[s].checkpoint.frames <= lastWrite'.checkpoint.frames
             /\ Spares(ledger'.frames, lastWrite'.captured, lastWrite'.checkpoint.frames)
  <2>1. CASE n = Len(ledger.frames) /\ m = Len(scopes) /\ lastWrite' = lastWrite
    <3>1. /\ lastWrite.checkpoint.frames <= n
          /\ \A s \in 1..m : scopes[s].checkpoint.frames <= lastWrite.checkpoint.frames
          /\ Spares(ledger.frames, lastWrite.captured, lastWrite.checkpoint.frames)
      BY <1>6, <2>1 DEF FrameInv
    <3> QED BY <1>1, <1>2, <2>1, <3>1
  <2>2. CASE lastWrite'.checkpoint.frames = n /\ Spares(ledger.frames, lastWrite'.captured, n)
    BY <1>1, <1>2, <2>2
  <2> QED BY <1>6, <2>1, <2>2
<1> QED BY <1>3, <1>4, <1>5, <1>6 DEF FrameInv

\* What the innermost scope remembers of records without a frame.
LEMMA RememberedSpares ==
  ASSUME IInv, FrameInv, NEW R \in SUBSET Records,
         \A k \in 1..Len(ledger.frames) : ledger.frames[k].of \notin R
  PROVE  /\ Len(Remembered(R)) = Len(scopes)
         /\ \A s \in 1..Len(scopes) :
              /\ Remembered(R)[s].checkpoint = scopes[s].checkpoint
              /\ scopes[s].checkpoint.frames <= Len(ledger.frames)
              /\ \A j \in 1..Len(Remembered(R)[s].captured) :
                   Spares(ledger.frames, Remembered(R)[s].captured[j],
                          scopes[s].checkpoint.frames)
         /\ Spares(ledger.frames, Captured(R), Len(ledger.frames))
<1>1. /\ Len(Remembered(R)) = Len(scopes)
      /\ \A s \in 1..Len(scopes) :
           /\ Remembered(R)[s].checkpoint = scopes[s].checkpoint
           /\ Remembered(R)[s].captured =
                   IF s = Len(scopes) /\ Tracking
                   THEN Append(scopes[s].captured, Captured(R)) ELSE scopes[s].captured
  BY RememberedIs DEF IInv
<1>2. held \in Helds /\ scopes \in Seq(Scopes)
  BY DEF IInv, TypeInv
<1>3. Captured(R) \in Captures /\ DOMAIN Captured(R) = R
  BY <1>2, CapturedIs
<1>4. Spares(ledger.frames, Captured(R), Len(ledger.frames))
  BY <1>3 DEF Spares
<1>5. ASSUME NEW s \in 1..Len(scopes), NEW j \in 1..Len(Remembered(R)[s].captured)
      PROVE  Spares(ledger.frames, Remembered(R)[s].captured[j], scopes[s].checkpoint.frames)
  <2>1. scopes[s].captured \in Seq(Captures) /\ Len(scopes[s].captured) \in Nat
    BY <1>2, ScopeParts
  <2>2. scopes[s].checkpoint.frames <= Len(ledger.frames)
        /\ scopes[s].checkpoint.frames \in Nat /\ Len(ledger.frames) \in Nat
    BY FrameNumbers DEF FrameInv
  <2>3. Spares(ledger.frames, Captured(R), scopes[s].checkpoint.frames)
    BY <1>4, <2>2 DEF Spares
  <2>4. \A k \in 1..Len(scopes[s].captured) :
          Spares(ledger.frames, scopes[s].captured[k], scopes[s].checkpoint.frames)
    BY DEF FrameInv
  <2>5. CASE s = Len(scopes) /\ Tracking
    <3>1. /\ Len(Append(scopes[s].captured, Captured(R))) = Len(scopes[s].captured) + 1
          /\ \A k \in 1..Len(scopes[s].captured) :
               Append(scopes[s].captured, Captured(R))[k] = scopes[s].captured[k]
          /\ Append(scopes[s].captured, Captured(R))[Len(scopes[s].captured) + 1] = Captured(R)
      BY <1>3, <2>1, AppendProperties
    <3>2. Remembered(R)[s].captured = Append(scopes[s].captured, Captured(R))
      BY <1>1, <2>5
    <3>3. j \in 1..Len(scopes[s].captured) \/ j = Len(scopes[s].captured) + 1
      BY <2>1, <3>1, <3>2
    <3> QED BY <2>3, <2>4, <3>1, <3>2, <3>3
  <2>6. CASE ~(s = Len(scopes) /\ Tracking)
    BY <1>1, <2>4, <2>6
  <2> QED BY <2>5, <2>6
<1>6. \A s \in 1..Len(scopes) : scopes[s].checkpoint.frames <= Len(ledger.frames)
  BY DEF FrameInv
<1> QED BY <1>1, <1>4, <1>5, <1>6

\* Calls that leave the frames and the records that have one alone.
LEMMA FramesKept ==
  ASSUME IInv, IInv', FrameInv, ledger'.frames = ledger.frames, scopes' = scopes,
         \A r \in Records \ Layers : held'[r].handle = held[r].handle,
         ~lastWrite'.live \/ lastWrite' = lastWrite
  PROVE  FrameInv'
<1>1. /\ Len(ledger.frames) \in Nat /\ Len(scopes) \in Nat
      /\ \A s \in 1..Len(scopes) : scopes[s].checkpoint.frames <= Len(ledger.frames)
      /\ \A s \in 1..Len(scopes) : \A j \in 1..Len(scopes[s].captured) :
           Spares(ledger.frames, scopes[s].captured[j], scopes[s].checkpoint.frames)
  BY FrameNumbers DEF FrameInv
<1>2. FramesHeld(ledger'.frames, held')
  BY DEF FrameInv, FramesHeld
<1>3. Len(ledger.frames) \in 0..Len(ledger.frames) /\ Len(scopes) \in 0..Len(scopes)
  BY <1>1
<1> QED BY <1>1, <1>2, <1>3, FramesMove

\* One frame more, of no record.
LEMMA FramesOfNobody ==
  ASSUME IInv, IInv', FrameInv, Prefix(ledger.frames, ledger'.frames),
         \A i \in (Len(ledger.frames) + 1)..Len(ledger'.frames) :
           ledger'.frames[i].of \notin Records,
         UNCHANGED <<held, scopes, lastWrite>>
  PROVE  FrameInv'
<1>1. /\ Len(ledger.frames) \in Nat /\ Len(scopes) \in Nat
      /\ \A s \in 1..Len(scopes) : scopes[s].checkpoint.frames <= Len(ledger.frames)
      /\ \A s \in 1..Len(scopes) : \A j \in 1..Len(scopes[s].captured) :
           Spares(ledger.frames, scopes[s].captured[j], scopes[s].checkpoint.frames)
  BY FrameNumbers DEF FrameInv
<1>2. Len(ledger'.frames) \in Nat
  BY LedgerParts DEF IInv, TypeInv
<1>3. Len(ledger.frames) <= Len(ledger'.frames)
      /\ \A i \in 1..Len(ledger.frames) : ledger'.frames[i] = ledger.frames[i]
  BY DEF Prefix
<1>4. \A i \in 1..Len(ledger'.frames) :
         i \in 1..Len(ledger.frames) \/ i \in (Len(ledger.frames) + 1)..Len(ledger'.frames)
  BY <1>1, <1>2
<1>5. FramesHeld(ledger'.frames, held')
  BY <1>3, <1>4 DEF FrameInv, FramesHeld
<1>6. Len(ledger.frames) \in 0..Len(ledger.frames) /\ Len(scopes) \in 0..Len(scopes)
  BY <1>1
<1> QED BY <1>1, <1>3, <1>5, <1>6, FramesMove

NoBareFrame == \A x \in Whos : ~FramesBear(ledger.frames, x, 0)

LEMMA NotFramedYet ==
  ASSUME IInv, FrameInv, NoBareFrame, NEW r \in Records,
         held[r].handle = 0 \/ held[r].handle \notin Framed(ledger)
  PROVE  \A k \in 1..Len(ledger.frames) : ledger.frames[k].of # r
<1>1. ASSUME NEW k \in 1..Len(ledger.frames), ledger.frames[k].of = r PROVE FALSE
  <2>1. k \in DOMAIN ledger.frames /\ ledger.frames[k] \in Frames
    BY FrameNumbers
  <2>2. held[r].handle = ledger.frames[k].handle
    BY <1>1 DEF FrameInv, FramesHeld
  <2>3. ledger.frames[k].handle # 0
    <3>1. ledger.frames[k] = [handle |-> ledger.frames[k].handle, of |-> r] /\ r \in Whos
      BY <1>1, <2>1 DEF Frames
    <3> QED BY <3>1 DEF NoBareFrame, FramesBear
  <2> QED BY <2>1, <2>2, <2>3 DEF Framed
<1> QED BY <1>1

LEMMA WriteObjectFrames ==
  ASSUME IInv, IInv', FrameInv, NoBareFrame, NEW o \in Objects, WriteObject(o)
  PROVE  FrameInv'
<1> DEFINE f == Taken(alloc, o)
           g == [handle |-> f, of |-> o]
           n == Len(ledger.frames)
<1>1. o \in Records /\ o \notin Layers /\ o \in Whos
  BY ScopesAssumption DEF Records, Whos
<1>2. /\ f \notin Framed(ledger) /\ ledger' = Framing(ledger, f, o)
      /\ held' = [held EXCEPT ![o].handle = f] /\ scopes' = Remembered({o})
      /\ lastWrite' = NoWrite /\ Room(1)
  BY DEF WriteObject, Disarmed
<1>3. f \in Handles /\ f = IF held[o].handle = 0 THEN alloc.next ELSE held[o].handle
  BY <1>1, <1>2, TakenIs
<1> HIDE DEF f
<1>4. /\ n \in Nat /\ Len(scopes) \in Nat /\ ledger \in Ledgers /\ held \in Helds
      /\ ledger.frames \in Seq(Frames)
  BY FrameNumbers, LedgerParts DEF IInv, TypeInv
<1>5. ledger'.frames = Append(ledger.frames, g) /\ g \in Frames
  BY <1>1, <1>2, <1>3, <1>4, FramingIs DEF Frames
<1>6. \A k \in 1..n : ledger.frames[k].of # o
  BY <1>1, <1>2, <1>3, NotFramedYet
<1> HIDE DEF g
<1>7. /\ Len(ledger'.frames) = n + 1 /\ ledger'.frames[n + 1] = g
      /\ \A i \in 1..n : ledger'.frames[i] = ledger.frames[i]
  BY <1>4, <1>5, AppendProperties
<1>8. held'[o].handle = f /\ \A r \in Records \ {o} : held'[r] = held[r]
  BY <1>1, <1>2, <1>4 DEF Helds, Entry
<1>9. FramesHeld(ledger'.frames, held')
  <2>1. ASSUME NEW i \in 1..Len(ledger'.frames), ledger'.frames[i].of \in Records
        PROVE  /\ held'[ledger'.frames[i].of].handle = ledger'.frames[i].handle
               /\ ledger'.frames[i].of \notin Layers
    <3>1. CASE i \in 1..n
      <4>1. ledger'.frames[i] = ledger.frames[i] /\ ledger.frames[i].of # o
        BY <1>6, <1>7, <3>1
      <4>2. held[ledger.frames[i].of].handle = ledger.frames[i].handle
            /\ ledger.frames[i].of \notin Layers
        BY <2>1, <3>1, <4>1 DEF FrameInv, FramesHeld
      <4> QED BY <1>8, <2>1, <4>1, <4>2
    <3>2. CASE i \notin 1..n
      <4>1. ledger'.frames[i] = g
        BY <1>4, <1>7, <3>2
      <4> QED BY <1>1, <1>8, <4>1 DEF g
    <3> QED BY <3>1, <3>2
  <2> QED BY <2>1 DEF FramesHeld
<1>10. /\ Len(scopes') = Len(scopes)
       /\ \A s \in 1..Len(scopes) :
            /\ scopes'[s].checkpoint = scopes[s].checkpoint
            /\ scopes[s].checkpoint.frames <= n
            /\ \A j \in 1..Len(scopes'[s].captured) :
                 Spares(ledger.frames, scopes'[s].captured[j], scopes[s].checkpoint.frames)
  <2>1. {o} \in SUBSET Records /\ \A k \in 1..Len(ledger.frames) : ledger.frames[k].of \notin {o}
    BY <1>1, <1>6
  <2> QED BY <1>2, <2>1, RememberedSpares
<1>11. ~lastWrite'.live
  BY <1>2 DEF NoWrite
<1>12. n \in 0..n /\ Len(scopes) \in 0..Len(scopes) /\ n <= Len(ledger'.frames)
  BY <1>4, <1>7
<1> QED BY <1>7, <1>9, <1>10, <1>11, <1>12, FramesMove

\* No part of an entity that is written has a frame.
LEMMA PartsNotFramed ==
  ASSUME IInv, FrameInv, NoBareFrame, NEW e \in Entities, WriteEntity(e)
  PROVE  \A k \in 1..Len(ledger.frames) : ledger.frames[k].of \notin PartsOf(e)
<1> DEFINE a == Assigned(e)[Len(Parts[e])]
<1>1. /\ DOMAIN a.handles = 1..Len(Parts[e])
      /\ \A m \in 1..Len(Parts[e]) :
           Parts[e][m] \in Records /\ (~Unset(e, m) => a.handles[m] = held[Parts[e][m]].handle)
  BY WriteEntityIs
<1>2. \A n \in DOMAIN a.handles : a.handles[n] \notin Framed(ledger)
  BY DEF WriteEntity, Writable, Unframed
<1> HIDE DEF a
<1>3. ASSUME NEW m \in 1..Len(Parts[e])
      PROVE  \A k \in 1..Len(ledger.frames) : ledger.frames[k].of # Parts[e][m]
  <2>1. Parts[e][m] \in Records
        /\ (held[Parts[e][m]].handle = 0 \/ held[Parts[e][m]].handle \notin Framed(ledger))
    BY <1>1, <1>2 DEF Unset
  <2> QED BY <2>1, NotFramedYet
<1>4. ASSUME NEW k \in 1..Len(ledger.frames), ledger.frames[k].of \in PartsOf(e) PROVE FALSE
  <2>1. PICK m \in DOMAIN Parts[e] : ledger.frames[k].of = Parts[e][m]
    BY <1>4 DEF PartsOf
  <2> QED BY <1>3, <2>1, PartsAre
<1> QED BY <1>4

LEMMA WriteEntityFrames ==
  ASSUME IInv, IInv', FrameInv, NoBareFrame, NEW e \in Entities, WriteEntity(e)
  PROVE  FrameInv'
<1> DEFINE a == Assigned(e)[Len(Parts[e])]
           n == Len(ledger.frames)
           hs == a.handles
           xs == FramesOf(e, hs)
<1>1. /\ Len(Parts[e]) \in Nat \ {0} /\ Len(hs) = Len(Parts[e])
      /\ StagedOK(e, hs, Len(Parts[e]), ledger')
      /\ \A m \in 1..Len(Parts[e]) : held'[Parts[e][m]].handle = hs[m] /\ Parts[e][m] \in Records
      /\ \A r \in Records \ PartsOf(e) : held'[r] = held[r]
      /\ lastWrite' = [checkpoint |-> Checkpoint(ledger, FALSE),
                       captured |-> Captured(PartsOf(e)), live |-> TRUE]
  BY WriteEntityIs
<1> HIDE DEF a
<1>2. scopes' = Remembered(PartsOf(e)) /\ PartsOf(e) \in SUBSET Records
  BY PartsAre DEF WriteEntity
<1>3. \A k \in 1..n : ledger.frames[k].of \notin PartsOf(e)
  BY PartsNotFramed
<1>4. n \in Nat /\ Len(scopes) \in Nat /\ Len(ledger'.frames) \in Nat
  BY FrameNumbers, LedgerParts DEF IInv, TypeInv
<1>5. /\ Len(ledger'.frames) = n + Len(Parts[e])
      /\ \A i \in 1..n : ledger'.frames[i] = ledger.frames[i]
      /\ \A m \in 1..Len(Parts[e]) : ledger'.frames[n + m] = xs[m]
  BY <1>1 DEF StagedOK, Grown, Prefix
<1>6. \A m \in 1..Len(Parts[e]) : xs[m].handle = hs[m] /\ xs[m].of = Parts[e][m]
  BY <1>1 DEF FramesOf
<1> HIDE DEF xs, hs
<1> DEFINE L == Len(Parts[e])
           N == Len(ledger'.frames)
<1>11. L \in Nat /\ n \in Nat /\ N = n + L
  BY <1>1, <1>4, <1>5
<1>7. FramesHeld(ledger'.frames, held')
  <2>1. ASSUME NEW i \in 1..Len(ledger'.frames), ledger'.frames[i].of \in Records
        PROVE  /\ held'[ledger'.frames[i].of].handle = ledger'.frames[i].handle
               /\ ledger'.frames[i].of \notin Layers
    <3>1. CASE i \in 1..n
      <4>1. ledger'.frames[i] = ledger.frames[i] /\ ledger.frames[i].of \notin PartsOf(e)
        BY <1>3, <1>5, <3>1
      <4>2. held[ledger.frames[i].of].handle = ledger.frames[i].handle
            /\ ledger.frames[i].of \notin Layers
        BY <2>1, <3>1, <4>1 DEF FrameInv, FramesHeld
      <4> QED BY <1>1, <2>1, <4>1, <4>2
    <3>2. CASE i \notin 1..n
      <4>1. i - n \in 1..Len(Parts[e]) /\ i = n + (i - n)
        <5>1. i \in 1..N /\ i \notin 1..n
          BY <2>1, <3>2
        <5>2. i - n \in 1..L /\ i = n + (i - n)
          <6> HIDE DEF L, N, n
          <6> QED BY <1>11, <5>1
        <5> QED BY <5>2
      <4>2. ledger'.frames[i].handle = hs[i - n] /\ ledger'.frames[i].of = Parts[e][i - n]
        BY <1>5, <1>6, <4>1
      <4>3. Parts[e][i - n] \in Entities \cup Children
        BY <4>1, ScopesAssumption, ElementOfSeq
      <4>4. Parts[e][i - n] \notin Layers
        BY <4>3, ScopesAssumption
      <4> QED BY <1>1, <4>1, <4>2, <4>4
    <3> QED BY <3>1, <3>2
  <2> QED BY <2>1 DEF FramesHeld
<1>8. /\ Len(scopes') = Len(scopes)
      /\ \A s \in 1..Len(scopes) :
            /\ scopes'[s].checkpoint = scopes[s].checkpoint
            /\ scopes[s].checkpoint.frames <= n
            /\ \A j \in 1..Len(scopes'[s].captured) :
                 Spares(ledger.frames, scopes'[s].captured[j], scopes[s].checkpoint.frames)
      /\ Spares(ledger.frames, Captured(PartsOf(e)), n)
  BY <1>2, <1>3, RememberedSpares
<1>9. lastWrite'.checkpoint.frames = n /\ Spares(ledger.frames, lastWrite'.captured, n)
  BY <1>1, <1>8 DEF Checkpoint
<1>10. n \in 0..n /\ Len(scopes) \in 0..Len(scopes) /\ n <= Len(ledger'.frames)
  <2>1. n \in 0..n /\ n <= N
    <3> HIDE DEF L, N, n
    <3> QED BY <1>11
  <2> QED BY <1>4, <2>1
<1> QED BY <1>5, <1>7, <1>8, <1>9, <1>10, FramesMove

---------------------------------------------------------------------------
(* Calls that leave the frames, the lists and the blocks alone.              *)

Quiet ==
  \/ \E x \in Layers : AddLayer(x)
  \/ StartContent \/ EndBlockContent \/ MarkFailure \/ Finish \/ UNCHANGED vars
  \/ \E b \in Blocks, framed \in BOOLEAN : DefineBlockFails(b, framed)
  \/ \E i \in DOMAIN ledger.blocks : BeginBlockContent(i)
  \/ \E e \in Entities : \E n \in 0..(Len(Parts[e]) - 1), eed \in BOOLEAN :
       RejectEntity(e, n, eed)
  \/ \E o \in Objects : RejectObject(o)

LEMMA NextIs ==
  ASSUME [Next]_vars
  PROVE  \/ Quiet \/ Opens \/ CommitScope \/ RollbackScope
         \/ \E b \in Blocks : DefineBlock(b)
         \/ \E e \in Entities : WriteEntity(e)
         \/ \E o \in Objects : WriteObject(o)
         \/ \E h \in Raws : WriteRawDwgObject(h)
         \/ \E restore \in BOOLEAN : UndoLast(restore)
BY DEF Next, Quiet, Opens

QuietStep ==
  /\ SameLists(ledger, ledger')
  /\ lastWrite' = lastWrite \/ lastWrite' = NoWrite
  /\ undo' = Overtaken \/ (undo' = undo /\ ledger'.active = ledger.active)
  /\ written' = written
  /\ \/ held' = held /\ scopes' = scopes
     \/ \E x \in Layers : /\ scopes' = Remembered({x})
                          /\ \A r \in Records \ {x} : held'[r] = held[r]

LEMMA QuietIs == ASSUME IInv, Quiet PROVE QuietStep
<1>1. ledger \in Ledgers /\ held \in Helds
  BY DEF IInv, TypeInv
<1>2. ledger = [frames |-> ledger.frames, model |-> ledger.model, blocks |-> ledger.blocks,
                active |-> ledger.active, layers |-> ledger.layers, eed |-> ledger.eed]
  BY <1>1, LedgerParts
<1>3. ASSUME NEW x \in Layers, AddLayer(x) PROVE  QuietStep
  <2>1. PICK h : ledger' = [ledger EXCEPT !.layers[x] = h] /\ held' = [held EXCEPT ![x].handle = h]
    BY <1>3 DEF AddLayer
  <2>2. SameLists(ledger, ledger') /\ ledger'.active = ledger.active
    BY <1>2, <2>1 DEF SameLists
  <2>3. \A r \in Records \ {x} : held'[r] = held[r]
    BY <1>1, <2>1 DEF Helds
  <2> QED BY <1>3, <2>2, <2>3 DEF AddLayer, QuietStep
<1>4. ASSUME NEW e \in Entities, NEW n \in 0..(Len(Parts[e]) - 1), NEW eed \in BOOLEAN,
             RejectEntity(e, n, eed)
      PROVE  QuietStep
  <2>1. ledger' = [ledger EXCEPT !.eed = ledger.eed \/ eed]
    BY <1>4, RejectEntityIs
  <2>2. SameLists(ledger, ledger') /\ ledger'.active = ledger.active
    BY <1>2, <2>1 DEF SameLists
  <2> QED BY <1>4, <2>2 DEF RejectEntity, QuietStep
<1>5. ASSUME NEW a, ledger' = [ledger EXCEPT !.active = a]
      PROVE  SameLists(ledger, ledger')
  BY <1>2, <1>5 DEF SameLists
<1>6. CASE EndBlockContent \/ \E i \in DOMAIN ledger.blocks : BeginBlockContent(i)
  BY <1>5, <1>6 DEF EndBlockContent, BeginBlockContent, QuietStep
<1>7. ASSUME NEW b \in Blocks, NEW framed \in BOOLEAN, DefineBlockFails(b, framed)
      PROVE  QuietStep
  BY <1>7, DefineBlockFailsIs DEF DefineBlockFails, SameLists, QuietStep
<1>8. ASSUME NEW o \in Objects, RejectObject(o) PROVE  QuietStep
  BY <1>8, RejectObjectIs DEF RejectObject, SameLists, QuietStep
<1>9. CASE StartContent \/ MarkFailure \/ Finish \/ UNCHANGED vars
  BY <1>9 DEF StartContent, MarkFailure, Finish, vars, SameLists, QuietStep
<1> QED BY <1>3, <1>4, <1>6, <1>7, <1>8, <1>9 DEF Quiet

LEMMA QuietFrames == ASSUME IInv, IInv', FrameInv, Quiet PROVE FrameInv'
<1>1. ledger'.frames = ledger.frames /\ (~lastWrite'.live \/ lastWrite' = lastWrite)
  <2>1. ledger'.frames = ledger.frames /\ (lastWrite' = NoWrite \/ lastWrite' = lastWrite)
    BY QuietIs DEF QuietStep, SameLists
  <2>2. ~NoWrite.live
    BY DEF NoWrite
  <2> QED BY <2>1, <2>2
<1>2. CASE held' = held /\ scopes' = scopes
  BY <1>1, <1>2, FramesKept
<1>3. ASSUME NEW x \in Layers, scopes' = Remembered({x}),
             \A r \in Records \ {x} : held'[r] = held[r]
      PROVE  FrameInv'
  <2>1. {x} \in SUBSET Records
    BY DEF Records
  <2>2. \A k \in 1..Len(ledger.frames) : ledger.frames[k].of \notin {x}
    BY <2>1 DEF FrameInv, FramesHeld
  <2>3. /\ Len(scopes') = Len(scopes)
        /\ \A s \in 1..Len(scopes) :
             /\ scopes'[s].checkpoint = scopes[s].checkpoint
             /\ scopes[s].checkpoint.frames <= Len(ledger.frames)
             /\ \A j \in 1..Len(scopes'[s].captured) :
                  Spares(ledger.frames, scopes'[s].captured[j], scopes[s].checkpoint.frames)
    BY <1>3, <2>1, <2>2, RememberedSpares
  <2>4. FramesHeld(ledger'.frames, held')
    BY <1>1, <1>3 DEF FrameInv, FramesHeld
  <2>5. /\ Len(ledger.frames) \in 0..Len(ledger.frames) /\ Len(scopes) \in 0..Len(scopes)
        /\ Len(ledger.frames) <= Len(ledger'.frames)
    BY <1>1, FrameNumbers
  <2> QED BY <1>1, <2>3, <2>4, <2>5, FramesMove
<1> QED BY <1>2, <1>3, QuietIs DEF QuietStep

LEMMA OpensFrames == ASSUME IInv, IInv', FrameInv, Opens PROVE FrameInv'
<1> DEFINE n == Len(scopes)
           fs == ledger.frames
<1>1. /\ Len(scopes') = n + 1 /\ n \in Nat /\ \A i \in 1..n : scopes'[i] = scopes[i]
      /\ scopes'[n + 1].checkpoint = Checkpoint(ledger, scopes'[n + 1].checkpoint.admission)
      /\ scopes'[n + 1].captured = <<>> /\ ledger' = ledger /\ held' = held
      /\ lastWrite' = NoWrite
  BY OpensIs
<1>2. scopes'[n + 1].checkpoint.frames = Len(fs)
  BY <1>1 DEF Checkpoint
<1>3. Len(fs) \in Nat /\ \A i \in 1..n : scopes'[i].checkpoint.frames \in Nat
  BY <1>1, FrameNumbers
<1>4. \A i \in 1..(n + 1) : i \in 1..n \/ i = n + 1
  BY <1>1
<1>5. \A s \in 1..n : scopes'[s].checkpoint.frames <= Len(fs)
  BY <1>1 DEF FrameInv
<1>6. \A s, t \in 1..n : s <= t => scopes'[s].checkpoint.frames <= scopes'[t].checkpoint.frames
  BY <1>1 DEF FrameInv
<1>7. \A s \in 1..n : \A j \in 1..Len(scopes'[s].captured) :
        Spares(fs, scopes'[s].captured[j], scopes'[s].checkpoint.frames)
  BY <1>1 DEF FrameInv
<1>8. FramesHeld(ledger'.frames, held')
  BY <1>1 DEF FrameInv
<1> HIDE DEF n, fs
<1>9. \A s \in 1..(n + 1) : scopes'[s].checkpoint.frames <= Len(fs)
  BY <1>2, <1>3, <1>4, <1>5
<1>10. ASSUME NEW s \in 1..(n + 1), NEW t \in 1..(n + 1), s <= t
       PROVE  scopes'[s].checkpoint.frames <= scopes'[t].checkpoint.frames
  <2>1. CASE t = n + 1
    BY <1>2, <1>9, <2>1
  <2>2. CASE t # n + 1
    <3>1. t \in 1..n /\ s \in 1..n
      BY <1>1, <1>4, <1>10, <2>2
    <3> QED BY <1>6, <1>10, <3>1
  <2> QED BY <2>1, <2>2
<1>11. \A s \in 1..(n + 1) : \A j \in 1..Len(scopes'[s].captured) :
         Spares(fs, scopes'[s].captured[j], scopes'[s].checkpoint.frames)
  <2>1. 1..Len(scopes'[n + 1].captured) = {}
    BY <1>1
  <2> QED BY <1>4, <1>7, <2>1
<1>12. ~lastWrite'.live
  BY <1>1 DEF NoWrite
<1> QED BY <1>1, <1>8, <1>9, <1>10, <1>11, <1>12 DEF FrameInv, n, fs

LEMMA CommitFrames == ASSUME IInv, IInv', FrameInv, CommitScope PROVE FrameInv'
<1> DEFINE m == Len(scopes) - 1
           n == Len(ledger.frames)
           inner == Innermost.captured
           kept == Outer # <<>> /\ Outer[Len(Outer)].track
           cs == Outer[Len(Outer)].captured \o inner
<1>1. /\ scopes # <<>> /\ lastWrite' = NoWrite /\ ledger' = ledger /\ held' = held
      /\ scopes' = IF kept THEN [Outer EXCEPT ![Len(Outer)].captured = @ \o inner] ELSE Outer
  BY DEF CommitScope
<1>2. /\ Outer \in Seq(Scopes) /\ Len(Outer) = m /\ m \in Nat
      /\ \A i \in 1..m : Outer[i] = scopes[i] /\ i \in 1..Len(scopes)
      /\ Len(scopes) \in 1..Len(scopes) /\ Innermost = scopes[Len(scopes)]
      /\ scopes \in Seq(Scopes)
  BY <1>1, OuterIs, TrackingIs DEF IInv, TypeInv
<1>3. inner \in Seq(Captures) /\ Len(inner) \in Nat
  BY <1>2, ScopeParts
<1>4. n \in Nat /\ \A s \in 1..Len(scopes) : scopes[s].checkpoint.frames \in Nat
  BY FrameNumbers
<1>5. \A s \in 1..Len(scopes) : \A j \in 1..Len(scopes[s].captured) :
        Spares(ledger.frames, scopes[s].captured[j], scopes[s].checkpoint.frames)
  BY DEF FrameInv
<1>6. /\ Len(scopes') = m
      /\ \A s \in 1..m : /\ scopes'[s].checkpoint = scopes[s].checkpoint
                         /\ \A j \in 1..Len(scopes'[s].captured) :
                              Spares(ledger.frames, scopes'[s].captured[j],
                                     scopes[s].checkpoint.frames)
  <2>1. CASE ~kept
    BY <1>1, <1>2, <1>5, <2>1
  <2>2. CASE kept
    <3>1. Len(Outer) # 0 /\ Len(Outer) \in 1..m /\ m \in 1..Len(scopes)
      <4>1. Outer # <<>>
        BY <2>2
      <4> QED BY <1>2, <4>1, EmptySeq
    <3> DEFINE old == Outer[Len(Outer)].captured
    <3>2. old \in Seq(Captures) /\ Len(old) \in Nat /\ old = scopes[m].captured
      BY <1>2, <3>1, ScopeParts
    <3>3. /\ cs \in Seq(Captures) /\ Len(cs) = Len(old) + Len(inner)
          /\ \A i \in 1..(Len(old) + Len(inner)) :
               cs[i] = IF i <= Len(old) THEN old[i] ELSE inner[i - Len(old)]
      BY <1>3, <3>2, ConcatProperties
    <3>4. scopes' = Recaptured(Outer, cs)
      BY <1>1, <2>2 DEF Recaptured
    <3>5. \A j \in 1..Len(old) : Spares(ledger.frames, old[j], scopes[m].checkpoint.frames)
      BY <1>5, <3>1, <3>2
    <3>6. \A j \in 1..Len(inner) : Spares(ledger.frames, inner[j], scopes[m].checkpoint.frames)
      <4>1. \A j \in 1..Len(inner) :
               Spares(ledger.frames, inner[j], scopes[Len(scopes)].checkpoint.frames)
        BY <1>2, <1>5
      <4>2. m <= Len(scopes)
        BY <1>2
      <4>3. scopes[m].checkpoint.frames <= scopes[Len(scopes)].checkpoint.frames
            /\ scopes[m].checkpoint.frames \in Nat
            /\ scopes[Len(scopes)].checkpoint.frames \in Nat
        BY <1>2, <1>4, <3>1, <4>2 DEF FrameInv
      <4> QED BY <4>1, <4>3 DEF Spares
    <3> HIDE DEF cs, inner, kept, old
    <3>7. /\ Len(scopes') = m
          /\ \A i \in 1..m :
               /\ scopes'[i].checkpoint = Outer[i].checkpoint
               /\ scopes'[i].captured = IF i = m THEN cs ELSE Outer[i].captured
      <4>1. Outer \in Seq(Scopes) /\ Len(Outer) # 0 /\ Len(Outer) = m
        BY <1>2, <3>1
      <4> HIDE DEF m
      <4> QED BY <3>3, <3>4, <4>1, RecapturedIs
    <3>8. \A j \in 1..Len(cs) : Spares(ledger.frames, cs[j], scopes[m].checkpoint.frames)
      <4>1. ASSUME NEW j \in 1..Len(cs)
            PROVE  Spares(ledger.frames, cs[j], scopes[m].checkpoint.frames)
        <5>1. CASE j <= Len(old)
          <6>1. j \in 1..Len(old) /\ cs[j] = old[j]
            BY <1>3, <3>2, <3>3, <5>1
          <6> QED BY <3>5, <6>1
        <5>2. CASE ~(j <= Len(old))
          <6>1. j - Len(old) \in 1..Len(inner) /\ cs[j] = inner[j - Len(old)]
            BY <1>3, <3>2, <3>3, <5>2
          <6> QED BY <3>6, <6>1
        <5> QED BY <5>1, <5>2
      <4> QED BY <4>1
    <3>9. ASSUME NEW s \in 1..m
          PROVE  /\ scopes'[s].checkpoint = scopes[s].checkpoint
                 /\ \A j \in 1..Len(scopes'[s].captured) :
                      Spares(ledger.frames, scopes'[s].captured[j], scopes[s].checkpoint.frames)
      <4>1. CASE s = m
        BY <1>2, <3>7, <3>8, <4>1
      <4>2. CASE s # m
        BY <1>2, <1>5, <3>7, <4>2
      <4> QED BY <4>1, <4>2
    <3> QED BY <3>7, <3>9
  <2> QED BY <2>1, <2>2
<1>7. FramesHeld(ledger'.frames, held') /\ ~lastWrite'.live
  BY <1>1 DEF FrameInv, NoWrite
<1>8. \A s \in 1..m : scopes[s].checkpoint.frames <= n
  BY <1>2 DEF FrameInv
<1>9. n \in 0..n /\ n <= Len(ledger'.frames) /\ m \in 0..Len(scopes)
      /\ \A i \in 1..n : ledger'.frames[i] = ledger.frames[i]
  BY <1>1, <1>2, <1>4
<1> HIDE DEF n, m
<1> QED BY <1>6, <1>7, <1>8, <1>9, FramesMove DEF n

\* Frames that are left keep their records.
LEMMA RestoredHeld ==
  ASSUME IInv, FrameInv, NEW cs \in Seq(Captures), NEW n \in 0..Len(ledger.frames),
         \A j \in 1..Len(cs) : Spares(ledger.frames, cs[j], n),
         NEW fs, Len(fs) = n, \A i \in 1..n : fs[i] = ledger.frames[i]
  PROVE  FramesHeld(fs, Restored(cs))
<1>1. ASSUME NEW i \in 1..n, fs[i].of \in Records
      PROVE  /\ Restored(cs)[fs[i].of].handle = fs[i].handle /\ fs[i].of \notin Layers
  <2>1. i \in 1..Len(ledger.frames) /\ fs[i] = ledger.frames[i]
    BY FrameNumbers
  <2>2. held[fs[i].of].handle = fs[i].handle /\ fs[i].of \notin Layers
    BY <1>1, <2>1 DEF FrameInv, FramesHeld
  <2>3. \A j \in 1..Len(cs) : fs[i].of \notin DOMAIN cs[j]
    BY <2>1 DEF Spares
  <2>4. DOMAIN cs = 1..Len(cs)
    BY LenProperties
  <2>5. Restored(cs)[fs[i].of] = held[fs[i].of]
    BY <1>1, <2>3, <2>4 DEF Restored
  <2> QED BY <2>2, <2>5
<1> QED BY <1>1 DEF FramesHeld

LEMMA RollbackFrames == ASSUME IInv, IInv', FrameInv, RollbackScope PROVE FrameInv'
<1> DEFINE s == Innermost
           m == Len(scopes) - 1
           n == s.checkpoint.frames
<1>1. /\ scopes # <<>> /\ lastWrite' = NoWrite
      /\ ledger' = RolledBack(ledger, s.checkpoint)
      /\ held' = IF s.track THEN Restored(s.captured) ELSE held
      /\ scopes' = Outer
  BY DEF RollbackScope
<1>2. /\ Len(Outer) = m /\ m \in Nat
      /\ \A i \in 1..m : Outer[i] = scopes[i] /\ i \in 1..Len(scopes) /\ i <= Len(scopes)
      /\ Len(scopes) \in 1..Len(scopes) /\ s = scopes[Len(scopes)] /\ s \in Scopes
      /\ scopes \in Seq(Scopes) /\ ledger \in Ledgers
  BY <1>1, OuterIs, TrackingIs DEF IInv, TypeInv
<1>3. s.captured \in Seq(Captures) /\ s.checkpoint \in Checkpoints
  BY <1>2, ScopeParts
<1>4. /\ n \in Nat /\ n <= Len(ledger.frames) /\ Len(ledger.frames) \in Nat
      /\ \A i \in 1..m : scopes[i].checkpoint.frames <= n
      /\ \A i \in 1..Len(scopes) : \A j \in 1..Len(scopes[i].captured) :
           Spares(ledger.frames, scopes[i].captured[j], scopes[i].checkpoint.frames)
  BY <1>2, FrameNumbers DEF FrameInv
<1>5. \A j \in 1..Len(s.captured) : Spares(ledger.frames, s.captured[j], n)
  BY <1>2, <1>4
<1> HIDE DEF s
<1>6. /\ Len(ledger'.frames) = n
      /\ \A i \in 1..n : ledger'.frames[i] = ledger.frames[i]
  <2>1. ledger'.frames = Truncated(ledger.frames, n)
    BY <1>1, <1>2, <1>3, RolledBackIs
  <2>2. ledger.frames \in Seq(Frames)
    BY <1>2, LedgerParts
  <2> HIDE DEF n
  <2> QED BY <1>4, <2>1, <2>2, TruncatedIs
<1>7. n \in 0..Len(ledger.frames) /\ m \in 0..Len(scopes)
  BY <1>2, <1>4
<1> HIDE DEF n, m
<1>8. FramesHeld(ledger'.frames, held')
  <2>1. CASE s.track
    BY <1>1, <1>3, <1>5, <1>6, <1>7, <2>1, RestoredHeld
  <2>2. CASE ~s.track
    <3>1. \A i \in 1..n : i \in 1..Len(ledger.frames)
      BY <1>4
    <3> QED BY <1>1, <1>6, <2>2, <3>1 DEF FrameInv, FramesHeld
  <2> QED BY <2>1, <2>2
<1>9. /\ Len(scopes') = m
      /\ \A i \in 1..m : /\ scopes'[i].checkpoint = scopes[i].checkpoint
                         /\ scopes[i].checkpoint.frames <= n
                         /\ \A j \in 1..Len(scopes'[i].captured) :
                              Spares(ledger.frames, scopes'[i].captured[j],
                                     scopes[i].checkpoint.frames)
  BY <1>1, <1>2, <1>4
<1>10. ~lastWrite'.live /\ n <= Len(ledger'.frames)
  BY <1>1, <1>4, <1>6 DEF NoWrite
<1> QED BY <1>6, <1>7, <1>8, <1>9, <1>10, FramesMove

LEMMA UndoFrames ==
  ASSUME IInv, IInv', FrameInv, NEW restore \in BOOLEAN, UndoLast(restore) PROVE FrameInv'
<1> DEFINE c == lastWrite.captured
           k == lastWrite.checkpoint
           n == k.frames
           cs == <<c>>
<1>1. /\ lastWrite.live /\ lastWrite' = NoWrite /\ ledger' = RolledBack(ledger, k)
      /\ held' = IF restore THEN Restored(cs) ELSE held
      /\ scopes' = IF ~Tracking THEN scopes
                   ELSE Recaptured(scopes, Forgotten(scopes[Len(scopes)].captured, DOMAIN c))
  BY DEF UndoLast, Recaptured
<1>2. c \in Captures /\ k \in Checkpoints /\ ledger \in Ledgers /\ scopes \in Seq(Scopes)
  BY DEF IInv, TypeInv, Writes
<1>3. /\ n \in Nat /\ n <= Len(ledger.frames) /\ Len(ledger.frames) \in Nat
      /\ Len(scopes) \in Nat
      /\ \A i \in 1..Len(scopes) : scopes[i].checkpoint.frames <= n
      /\ \A i \in 1..Len(scopes) : \A j \in 1..Len(scopes[i].captured) :
           Spares(ledger.frames, scopes[i].captured[j], scopes[i].checkpoint.frames)
      /\ Spares(ledger.frames, c, n)
  BY <1>1, FrameNumbers DEF FrameInv
<1>4. cs \in Seq(Captures) /\ \A j \in 1..Len(cs) : Spares(ledger.frames, cs[j], n)
  BY <1>2, <1>3
<1> HIDE DEF c, k, cs
<1>5. /\ Len(ledger'.frames) = n
      /\ \A i \in 1..n : ledger'.frames[i] = ledger.frames[i]
  <2>1. ledger'.frames = Truncated(ledger.frames, n)
    BY <1>1, <1>2, RolledBackIs
  <2>2. ledger.frames \in Seq(Frames)
    BY <1>2, LedgerParts
  <2> HIDE DEF n
  <2> QED BY <1>3, <2>1, <2>2, TruncatedIs
<1>6. n \in 0..Len(ledger.frames) /\ Len(scopes) \in 0..Len(scopes)
  BY <1>3
<1> HIDE DEF n
<1>7. FramesHeld(ledger'.frames, held')
  <2>1. CASE restore
    BY <1>1, <1>4, <1>5, <1>6, <2>1, RestoredHeld
  <2>2. CASE ~restore
    <3>1. \A i \in 1..n : i \in 1..Len(ledger.frames)
      BY <1>3
    <3> QED BY <1>1, <1>5, <2>2, <3>1 DEF FrameInv, FramesHeld
  <2> QED BY <2>1, <2>2
<1>8. /\ Len(scopes') = Len(scopes)
      /\ \A i \in 1..Len(scopes) :
           /\ scopes'[i].checkpoint = scopes[i].checkpoint
           /\ \A j \in 1..Len(scopes'[i].captured) :
                Spares(ledger.frames, scopes'[i].captured[j], scopes[i].checkpoint.frames)
  <2>1. CASE ~Tracking
    BY <1>1, <1>3, <2>1
  <2>2. CASE Tracking
    <3> DEFINE old == scopes[Len(scopes)].captured
               new == Forgotten(old, DOMAIN c)
    <3>1. Len(scopes) # 0 /\ Len(scopes) \in 1..Len(scopes)
      BY <2>2, TrackingIs DEF Tracking, IInv
    <3>2. old \in Seq(Captures)
      BY <1>2, <3>1, ScopeParts
    <3>3. /\ new \in Seq(Captures)
          /\ \A j \in 1..Len(new) : \E i \in 1..Len(old) : new[j] = old[i]
      BY <3>2, ForgottenIs
    <3>4. scopes' = Recaptured(scopes, new)
      BY <1>1, <2>2
    <3> HIDE DEF new
    <3>5. /\ Len(scopes') = Len(scopes)
          /\ \A i \in 1..Len(scopes) :
               /\ scopes'[i].checkpoint = scopes[i].checkpoint
               /\ scopes'[i].captured = IF i = Len(scopes) THEN new ELSE scopes[i].captured
      BY <1>2, <3>1, <3>3, <3>4, RecapturedIs
    <3>6. \A j \in 1..Len(new) :
            Spares(ledger.frames, new[j], scopes[Len(scopes)].checkpoint.frames)
      BY <1>3, <3>1, <3>3
    <3>7. ASSUME NEW i \in 1..Len(scopes), NEW j \in 1..Len(scopes'[i].captured)
          PROVE  Spares(ledger.frames, scopes'[i].captured[j], scopes[i].checkpoint.frames)
      <4>1. CASE i = Len(scopes)
        BY <3>5, <3>6, <4>1
      <4>2. CASE i # Len(scopes)
        BY <1>3, <3>5, <4>2
      <4> QED BY <4>1, <4>2
    <3> QED BY <3>5, <3>7
  <2> QED BY <2>1, <2>2
<1>9. ~lastWrite'.live /\ n <= Len(ledger'.frames)
  BY <1>1, <1>3, <1>5 DEF NoWrite
<1> QED BY <1>3, <1>5, <1>6, <1>7, <1>8, <1>9, FramesMove

LEMMA StepFrameInv ==
  ASSUME IInv, FrameInv, NoBareFrame, [Next]_vars PROVE FrameInv' /\ NoBareFrame'
<1>1. IInv'
  BY StepIInv
<1>2. NoBareFrame'
  BY FramesHaveHandles DEF NoBareFrame
<1>3. ledger \in Ledgers /\ Len(ledger.frames) \in Nat /\ ledger.frames \in Seq(Frames)
  BY LedgerParts DEF IInv, TypeInv
<1>4. ASSUME NEW b \in Blocks, DefineBlock(b) PROVE FrameInv'
  <2> DEFINE f1 == [handle |-> Trio(alloc).block, of |-> b]
             f2 == [handle |-> Trio(alloc).endblk, of |-> b]
             one == Append(ledger.frames, f1)
             n == Len(ledger.frames)
  <2>1. ledger'.frames = Append(one, f2)
    BY <1>4, DefineBlockIs
  <2>2. b \in Whos /\ b \notin Records
    BY ScopesAssumption DEF Whos
  <2>3. f1 \in Frames /\ f2 \in Frames
    BY <1>4, <2>2, TrioIs DEF Frames, DefineBlock
  <2>4. f1.of = b /\ f2.of = b
    OBVIOUS
  <2> HIDE DEF f1, f2
  <2>5. /\ one \in Seq(Frames) /\ Len(one) = n + 1 /\ one[n + 1] = f1
        /\ \A i \in 1..n : one[i] = ledger.frames[i]
    BY <1>3, <2>3, AppendProperties
  <2> HIDE DEF one
  <2>6. /\ Len(ledger'.frames) = n + 2 /\ ledger'.frames[n + 2] = f2
        /\ \A i \in 1..(n + 1) : ledger'.frames[i] = one[i]
    BY <1>3, <2>1, <2>3, <2>5, AppendProperties
  <2>7. Prefix(ledger.frames, ledger'.frames)
    BY <1>3, <2>5, <2>6 DEF Prefix
  <2>8. \A i \in (n + 1)..Len(ledger'.frames) : ledger'.frames[i].of = b
    BY <1>3, <2>4, <2>5, <2>6
  <2>9. UNCHANGED <<held, scopes, lastWrite>>
    BY <1>4 DEF DefineBlock
  <2> QED BY <1>1, <2>2, <2>7, <2>8, <2>9, FramesOfNobody
<1>5. ASSUME NEW h \in Raws, WriteRawDwgObject(h) PROVE FrameInv'
  <2> DEFINE f == [handle |-> h, of |-> "raw"]
             n == Len(ledger.frames)
  <2>1. h \in Handles /\ "raw" \in Whos /\ "raw" \notin Records
    BY ScopesAssumption DEF Handles, Whos
  <2>2. ledger' = Framing(ledger, h, "raw") /\ UNCHANGED <<held, scopes, lastWrite>>
    BY <1>5 DEF WriteRawDwgObject
  <2>3. ledger'.frames = Append(ledger.frames, f) /\ Continues(ledger, ledger')
    BY <1>3, <2>1, <2>2, FramingIs
  <2>4. f \in Frames /\ f.of = "raw"
    BY <2>1 DEF Frames
  <2> HIDE DEF f
  <2>5. Len(ledger'.frames) = n + 1 /\ ledger'.frames[n + 1] = f
    BY <1>3, <2>3, <2>4, AppendProperties
  <2>6. \A i \in (n + 1)..Len(ledger'.frames) : ledger'.frames[i].of = "raw"
    BY <1>3, <2>4, <2>5
  <2> QED BY <1>1, <2>1, <2>2, <2>3, <2>6, FramesOfNobody DEF Continues
<1> QED BY <1>1, <1>2, <1>4, <1>5, NextIs, QuietFrames, OpensFrames, CommitFrames,
           RollbackFrames, UndoFrames, WriteObjectFrames, WriteEntityFrames

---------------------------------------------------------------------------
(* What a scope and the last write can go back to.                           *)

Strict == "defineInScope" \notin Habits

\* In t, what hs names is what follows s.
OnlyNew(s, t, hs) == \A i \in 1..Len(t) : t[i] \in hs <=> i > Len(s)
Newest(l, m, hs) ==
  /\ m.active = l.active
  /\ \A i \in 1..Len(m.frames) : m.frames[i].handle \in hs <=> i > Len(l.frames)
  /\ OnlyNew(l.model, m.model, hs)
  /\ \A b \in 1..Len(m.blocks) : OnlyNew(l.blocks[b].entities, m.blocks[b].entities, hs)

InnerLedger(i) == IF i = Len(scopes) THEN ledger ELSE begun[i + 1].ledger

\* Each scope knows the ledger it found, and the ledger has only grown since.
ScopeLedgers ==
  Strict => \A i \in 1..Len(scopes) :
    /\ scopes[i].checkpoint = Checkpoint(begun[i].ledger, scopes[i].checkpoint.admission)
    /\ scopes[i].written = begun[i].written
    /\ Continues(begun[i].ledger, InnerLedger(i))
FineLedgers == Fine(ledger) /\ \A i \in 1..Len(scopes) : Fine(begun[i].ledger)
\* The last write knows the ledger it found.
Before(l) ==
  /\ lastWrite.checkpoint = Checkpoint(l, FALSE) /\ Continues(l, ledger) /\ Fine(l)
  /\ Strict /\ Len(scopes) # 0 => Continues(begun[Len(scopes)].ledger, l)
  /\ ~undo.overtaken => Newest(l, ledger, undo.frames)
Undoable == ~undo.overtaken \/ (Strict /\ Len(scopes) # 0)
WriteLedger == lastWrite.live /\ Undoable => \E l \in Ledgers : Before(l)
LedgersInv == ScopeLedgers /\ FineLedgers /\ WriteLedger

LEMMA LedgersAre ==
  ASSUME IInv
  PROVE  /\ ledger \in Ledgers /\ Len(scopes) \in Nat /\ Len(begun) = Len(scopes)
         /\ \A i \in 1..Len(scopes) : begun[i].ledger \in Ledgers
<1>1. ledger \in Ledgers /\ begun \in Seq(Begins) /\ Len(begun) = Len(scopes)
      /\ Len(scopes) \in Nat
  BY TrackingIs DEF IInv, TypeInv
<1>2. \A i \in 1..Len(begun) : begun[i] \in Begins
  BY <1>1, ElementOfSeq
<1> QED BY <1>1, <1>2 DEF Begins

\* The innermost scope of those that are left goes on to the new ledger.
LEMMA ScopeLedgersMove ==
  ASSUME IInv, ScopeLedgers, NEW n \in 0..Len(scopes), Alike(n),
         Strict /\ n # 0 => Continues(begun[n].ledger, ledger')
  PROVE  ScopeLedgers'
<1>1. Len(scopes) \in Nat /\ n \in Nat /\ n <= Len(scopes)
  BY LedgersAre
<1>2. /\ Len(scopes') = n
      /\ \A i \in 1..n : /\ i \in 1..Len(scopes)
                         /\ scopes'[i].checkpoint = scopes[i].checkpoint
                         /\ scopes'[i].written = scopes[i].written
                         /\ begun'[i].ledger = begun[i].ledger
                         /\ begun'[i].written = begun[i].written
  BY DEF Alike
<1>3. ASSUME Strict, NEW i \in 1..n PROVE Continues(begun[i].ledger, InnerLedger(i)')
  <2>1. CASE i = n
    BY <1>2, <1>3, <2>1 DEF InnerLedger
  <2>2. CASE i # n
    <3>1. i + 1 \in 1..n /\ i # Len(scopes)
      BY <1>1, <2>2
    <3>2. InnerLedger(i)' = begun[i + 1].ledger
      BY <1>2, <2>2, <3>1 DEF InnerLedger
    <3>3. InnerLedger(i) = begun[i + 1].ledger
      BY <3>1 DEF InnerLedger
    <3> QED BY <1>2, <1>3, <3>2, <3>3 DEF ScopeLedgers
  <2> QED BY <2>1, <2>2
<1>4. ASSUME Strict, NEW i \in 1..n
      PROVE  /\ scopes'[i].checkpoint
                  = Checkpoint(begun'[i].ledger, scopes'[i].checkpoint.admission)
             /\ scopes'[i].written = begun'[i].written
             /\ Continues(begun'[i].ledger, InnerLedger(i)')
  BY <1>2, <1>3, <1>4 DEF ScopeLedgers
<1>5. Strict' <=> Strict
  BY DEF Strict
<1> QED BY <1>2, <1>4, <1>5 DEF ScopeLedgers

LEMMA FineLedgersMove ==
  ASSUME IInv, FineLedgers, NEW n \in 0..Len(scopes), Alike(n), Fine(ledger')
  PROVE  FineLedgers'
BY DEF FineLedgers, Alike

\* The innermost scope sees every call that only adds.
LEMMA GrownScopeLedgers ==
  ASSUME IInv, IInv', ScopeLedgers, Alike(Len(scopes)), Continues(ledger, ledger')
  PROVE  ScopeLedgers'
<1> DEFINE n == Len(scopes)
<1>1. n \in 0..n /\ ledger \in Ledgers /\ ledger' \in Ledgers
      /\ \A i \in 1..n : begun[i].ledger \in Ledgers
  BY LedgersAre DEF IInv, TypeInv
<1>2. ASSUME Strict, n # 0 PROVE Continues(begun[n].ledger, ledger')
  <2>1. n \in 1..n
    BY <1>1, <1>2
  <2>2. Continues(begun[n].ledger, ledger)
    BY <1>2, <2>1 DEF ScopeLedgers, InnerLedger
  <2> QED BY <1>1, <2>1, <2>2, ContinuesTransitive
<1> QED BY <1>1, <1>2, ScopeLedgersMove

\* Calls that only add leave the last write what it can go back to.
LEMMA GrownWriteLedger ==
  ASSUME IInv, IInv', WriteLedger, Alike(Len(scopes)), Continues(ledger, ledger'),
         ~lastWrite'.live \/ lastWrite' = lastWrite,
         undo' = Overtaken \/ (undo' = undo /\ SameLists(ledger, ledger')
                               /\ ledger'.active = ledger.active)
  PROVE  WriteLedger'
<1> DEFINE n == Len(scopes)
<1>1. SUFFICES ASSUME lastWrite'.live, Undoable' PROVE \E l \in Ledgers : Before(l)'
  BY DEF WriteLedger
<1>2. lastWrite' = lastWrite
  BY <1>1
<1>3. /\ Len(scopes') = n /\ n \in Nat /\ ledger \in Ledgers /\ ledger' \in Ledgers
      /\ \A i \in 1..n : begun'[i].ledger = begun[i].ledger
  BY LedgersAre DEF Alike, IInv, TypeInv
<1>4. ~undo'.overtaken => undo' = undo
  <2>1. undo \in [frames : SUBSET Handles, overtaken : BOOLEAN]
    BY DEF IInv, TypeInv
  <2>2. Overtaken.overtaken
    BY <2>1 DEF Overtaken
  <2> QED BY <2>2
<1>5. Undoable
  BY <1>1, <1>3, <1>4 DEF Undoable, Strict
<1>6. PICK l \in Ledgers : Before(l)
  BY <1>1, <1>2, <1>5 DEF WriteLedger
<1>7. Continues(l, ledger')
  BY <1>3, <1>6, ContinuesTransitive DEF Before
<1>8. ASSUME Strict, n # 0 PROVE Continues(begun'[n].ledger, l)
  <2>1. n \in 1..n
    BY <1>3, <1>8
  <2> QED BY <1>3, <1>6, <1>8, <2>1 DEF Before
<1>9. ASSUME ~undo'.overtaken PROVE Newest(l, ledger', undo'.frames)
  <2>1. undo' = undo /\ SameLists(ledger, ledger') /\ ledger'.active = ledger.active
    <3>1. undo \in [frames : SUBSET Handles, overtaken : BOOLEAN]
      BY DEF IInv, TypeInv
    <3>2. Overtaken.overtaken
      BY <3>1 DEF Overtaken
    <3> QED BY <1>9, <3>2
  <2>2. Newest(l, ledger, undo.frames)
    BY <1>6, <1>9, <2>1 DEF Before
  <2> QED BY <2>1, <2>2 DEF Newest, SameLists
<1>10. Before(l)'
  <2>1. /\ lastWrite'.checkpoint = Checkpoint(l, FALSE) /\ Fine(l)
    BY <1>2, <1>6 DEF Before
  <2> QED BY <1>3, <1>7, <1>8, <1>9, <2>1 DEF Before, Strict
<1> QED BY <1>10

LEMMA ScopesAlike ==
  ASSUME IInv, [Next]_vars, ~Opens, ~CommitScope, ~RollbackScope
  PROVE  Alike(Len(scopes)) /\ Len(scopes) \in 0..Len(scopes)
<1>1. Len(scopes) \in 0..Len(scopes)
  BY LedgersAre
<1> QED BY <1>1, StepsAlike

LEMMA NoWriteDead == ~NoWrite.live
BY DEF NoWrite

LEMMA QuietLedgers ==
  ASSUME IInv, IInv', LedgersInv, Quiet, Alike(Len(scopes)) PROVE LedgersInv'
<1>1. ledger \in Ledgers /\ Len(scopes) \in 0..Len(scopes)
  BY LedgersAre
<1>2. SameLists(ledger, ledger') /\ (~lastWrite'.live \/ lastWrite' = lastWrite)
      /\ (undo' = Overtaken \/ (undo' = undo /\ ledger'.active = ledger.active))
  BY QuietIs, NoWriteDead DEF QuietStep
<1>3. Continues(ledger, ledger') /\ Fine(ledger')
  BY <1>1, <1>2, ContinuesItself, SameContinues, SameFine DEF LedgersInv, FineLedgers
<1>4. ScopeLedgers'
  BY <1>3, GrownScopeLedgers DEF LedgersInv
<1>5. FineLedgers'
  BY <1>1, <1>3, FineLedgersMove DEF LedgersInv
<1>6. WriteLedger'
  BY <1>2, <1>3, GrownWriteLedger DEF LedgersInv
<1> QED BY <1>4, <1>5, <1>6 DEF LedgersInv

\* A frame of an object or of a raw object.
LEMMA FramingFine ==
  ASSUME NEW l \in Ledgers, NEW h \in Handles, NEW w \in Whos, Fine(l),
         w \notin Entities \cup Children
  PROVE  Fine(Framing(l, h, w)) /\ Continues(l, Framing(l, h, w))
         /\ Framing(l, h, w) \in Ledgers
<1> DEFINE m == Framing(l, h, w)
           f == [handle |-> h, of |-> w]
<1>1. /\ m \in Ledgers /\ Continues(l, m) /\ m.frames = Append(l.frames, f)
      /\ m.model = l.model /\ m.blocks = l.blocks
  BY FramingIs
<1>2. f \in Frames /\ f.of = w
  BY DEF Frames
<1>3. l.frames \in Seq(Frames) /\ Len(l.frames) \in Nat
  BY LedgerParts
<1> HIDE DEF m, f
<1>4. Len(m.frames) = Len(l.frames) + 1 /\ m.frames[Len(l.frames) + 1] = f
  BY <1>1, <1>2, <1>3, AppendProperties
<1>5. \A e \in Entities : w \notin PartsOf(e)
  BY ScopesAssumption, ElementOfSeq DEF PartsOf
<1>6. \A i \in (Len(l.frames) + 1)..Len(m.frames) :
         \A e \in Entities : m.frames[i].of \notin PartsOf(e)
  BY <1>2, <1>3, <1>4, <1>5
<1>7. Fine(m)
  BY <1>1, <1>6, MoreFramesFine DEF Continues
<1> QED BY <1>1, <1>7 DEF m

LEMMA WriteObjectLedgers ==
  ASSUME IInv, IInv', LedgersInv, NEW o \in Objects, WriteObject(o), Alike(Len(scopes))
  PROVE  LedgersInv'
<1>1. ledger \in Ledgers /\ Len(scopes) \in 0..Len(scopes)
  BY LedgersAre
<1>2. o \in Whos /\ o \in Records /\ o \notin Entities \cup Children
  BY ScopesAssumption DEF Whos, Records
<1>3. Taken(alloc, o) \in Handles
  BY <1>2, TakenIs DEF WriteObject
<1>4. ledger' = Framing(ledger, Taken(alloc, o), o) /\ lastWrite' = NoWrite
  BY DEF WriteObject, Disarmed
<1>5. Continues(ledger, ledger') /\ Fine(ledger')
  BY <1>1, <1>2, <1>3, <1>4, FramingFine DEF LedgersInv, FineLedgers
<1>6. ScopeLedgers'
  BY <1>5, GrownScopeLedgers DEF LedgersInv
<1>7. FineLedgers'
  BY <1>1, <1>5, FineLedgersMove DEF LedgersInv
<1>8. WriteLedger'
  BY <1>4, NoWriteDead DEF WriteLedger
<1> QED BY <1>6, <1>7, <1>8 DEF LedgersInv

LEMMA WriteRawLedgers ==
  ASSUME IInv, IInv', LedgersInv, NEW h \in Raws, WriteRawDwgObject(h), Alike(Len(scopes))
  PROVE  LedgersInv'
<1>1. ledger \in Ledgers /\ Len(scopes) \in 0..Len(scopes)
  BY LedgersAre
<1>2. "raw" \in Whos /\ "raw" \notin Entities \cup Children /\ h \in Handles
  BY ScopesAssumption DEF Whos, Records, Handles
<1>3. ledger' = Framing(ledger, h, "raw") /\ lastWrite' = lastWrite /\ undo' = Overtaken
  BY DEF WriteRawDwgObject
<1>4. Continues(ledger, ledger') /\ Fine(ledger')
  BY <1>1, <1>2, <1>3, FramingFine DEF LedgersInv, FineLedgers
<1>5. ScopeLedgers'
  BY <1>4, GrownScopeLedgers DEF LedgersInv
<1>6. FineLedgers'
  BY <1>1, <1>4, FineLedgersMove DEF LedgersInv
<1>7. WriteLedger'
  BY <1>3, <1>4, GrownWriteLedger DEF LedgersInv
<1> QED BY <1>5, <1>6, <1>7 DEF LedgersInv

\* No scope that could go back to it is open when a block is defined.
LEMMA DefineBlockLedgers ==
  ASSUME IInv, IInv', LedgersInv, NEW b \in Blocks, DefineBlock(b), Alike(Len(scopes))
  PROVE  LedgersInv'
<1> DEFINE trio == Trio(alloc)
           k == Framing(ledger, trio.block, b)
           m == Framing(k, trio.endblk, b)
           block == Block(b, trio.record, <<>>)
<1>1. ledger \in Ledgers /\ ledger' \in Ledgers /\ Len(scopes) \in 0..Len(scopes)
  BY LedgersAre DEF IInv, TypeInv
<1>2. b \in Whos /\ b \notin Entities \cup Children
  BY ScopesAssumption DEF Whos, Records
<1>3. trio.block \in Handles /\ trio.endblk \in Handles
  BY TrioIs DEF DefineBlock
<1>4. Fine(k) /\ k \in Ledgers
  BY <1>1, <1>2, <1>3, FramingFine DEF LedgersInv, FineLedgers
<1>5. Fine(m) /\ m \in Ledgers
  <2> HIDE DEF k
  <2> QED BY <1>2, <1>3, <1>4, FramingFine
<1>6. /\ ledger' = [m EXCEPT !.blocks = Append(m.blocks, block)]
      /\ undo' = Overtaken /\ MayDefine
  BY DEF DefineBlock
<1>7. block \in BlockSet /\ block.entities = <<>>
  BY DefineBlockIs DEF Block
<1> HIDE DEF k, m, block, trio
<1>8. /\ ledger'.frames = m.frames /\ ledger'.model = m.model
      /\ ledger'.blocks = Append(m.blocks, block)
  <2>1. m = [frames |-> m.frames, model |-> m.model, blocks |-> m.blocks,
             active |-> m.active, layers |-> m.layers, eed |-> m.eed]
    BY <1>5, LedgerParts
  <2> QED BY <1>6, <2>1
<1>9. Fine(ledger')
  BY <1>1, <1>5, <1>7, <1>8, MoreBlocksFine
<1>10. Strict => Len(scopes) = 0
  BY <1>6, TrackingIs DEF Strict, MayDefine, IInv
<1>11. ScopeLedgers'
  BY <1>1, <1>10, ScopeLedgersMove DEF LedgersInv
<1>12. FineLedgers'
  BY <1>1, <1>9, FineLedgersMove DEF LedgersInv
<1>13. WriteLedger'
  <2>1. undo \in [frames : SUBSET Handles, overtaken : BOOLEAN]
    BY DEF IInv, TypeInv
  <2>2. undo'.overtaken
    BY <1>6, <2>1 DEF Overtaken
  <2>3. Len(scopes') = Len(scopes)
    BY DEF Alike
  <2> QED BY <1>10, <2>2, <2>3 DEF WriteLedger, Undoable, Strict
<1> QED BY <1>11, <1>12, <1>13 DEF LedgersInv

LEMMA NewestGrown ==
  ASSUME NEW s, NEW t, NEW hs \in Seq(Handles), NEW n \in Nat, Len(s) \in Nat,
         Len(hs) = n, Grown(s, t, hs, n),
         \A i \in 1..Len(s) : \A k \in 1..n : s[i] # hs[k]
  PROVE  OnlyNew(s, t, {hs[k] : k \in 1..n})
<1>1. Len(t) = Len(s) + n /\ \A i \in 1..Len(s) : s[i] = t[i]
  BY DEF Grown, Prefix
<1>2. \A m \in 1..n : t[Len(s) + m] = hs[m]
  BY DEF Grown
<1>3. ASSUME NEW i \in 1..Len(t) PROVE t[i] \in {hs[k] : k \in 1..n} <=> i > Len(s)
  <2>1. CASE i <= Len(s)
    <3>1. i \in 1..Len(s) /\ t[i] = s[i]
      BY <1>1, <2>1
    <3> QED BY <2>1, <3>1
  <2>2. CASE i > Len(s)
    <3>1. i - Len(s) \in 1..n /\ i = Len(s) + (i - Len(s))
      BY <1>1, <2>2
    <3>2. t[i] = hs[i - Len(s)]
      BY <1>2, <3>1
    <3> QED BY <2>2, <3>1, <3>2
  <2> QED BY <2>1, <2>2
<1> QED BY <1>3 DEF OnlyNew

LEMMA WriteEntityNewest ==
  ASSUME ledger \in Ledgers, NEW e \in Entities, NEW hs \in Seq(Handles),
         Len(hs) = Len(Parts[e]), NEW m, StagedOK(e, hs, Len(hs), m),
         OwnerOf(e) = ledger.active, Unframed(hs)
  PROVE  Newest(ledger, m, {hs[k] : k \in 1..Len(hs)})
<1> DEFINE L == Len(hs)
           H == {hs[k] : k \in 1..L}
           xs == FramesOf(e, hs)
           here(b) == ledger.active # 0 /\ ledger.blocks[b].record = ledger.active
<1>1. /\ m \in Ledgers /\ Continues(ledger, m) /\ m.active = ledger.active
      /\ Grown(ledger.frames, m.frames, xs, L)
      /\ IF ledger.active = 0 THEN Grown(ledger.model, m.model, hs, L)
         ELSE m.model = ledger.model
      /\ \A b \in 1..Len(ledger.blocks) :
            IF here(b) THEN Grown(ledger.blocks[b].entities, m.blocks[b].entities, hs, L)
            ELSE m.blocks[b].entities = ledger.blocks[b].entities
  BY DEF StagedOK
<1>2. /\ Len(ledger.frames) \in Nat /\ DOMAIN ledger.frames = 1..Len(ledger.frames)
      /\ Len(ledger.model) \in Nat /\ DOMAIN ledger.model = 1..Len(ledger.model)
      /\ DOMAIN ledger.blocks = 1..Len(ledger.blocks)
      /\ \A b \in 1..Len(ledger.blocks) :
           /\ Len(ledger.blocks[b].entities) \in Nat
           /\ DOMAIN ledger.blocks[b].entities = 1..Len(ledger.blocks[b].entities)
  BY LedgerParts
<1>3. L \in Nat /\ DOMAIN hs = 1..L
  BY LenProperties
<1>4. \A k \in 1..L : hs[k] \notin Framed(ledger) /\ hs[k] \notin Listed(ledger)
  BY <1>3 DEF Unframed
<1>5. \A n \in 1..L : xs[n].handle = hs[n]
  BY DEF FramesOf
<1> HIDE DEF xs
<1>6. \A i \in 1..Len(m.frames) : m.frames[i].handle \in H <=> i > Len(ledger.frames)
  <2>1. \A i \in 1..Len(ledger.frames) : \A k \in 1..L : ledger.frames[i].handle # hs[k]
    BY <1>2, <1>4 DEF Framed
  <2>2. /\ Len(m.frames) = Len(ledger.frames) + L
        /\ \A i \in 1..Len(ledger.frames) : ledger.frames[i] = m.frames[i]
        /\ \A n \in 1..L : m.frames[Len(ledger.frames) + n] = xs[n]
    BY <1>1 DEF Grown, Prefix
  <2>3. ASSUME NEW i \in 1..Len(m.frames)
        PROVE  m.frames[i].handle \in H <=> i > Len(ledger.frames)
    <3> DEFINE N == Len(ledger.frames)
               M == Len(m.frames)
    <3>1. CASE i <= N
      <4>1. i \in 1..N
        <5>1. i \in 1..M /\ N \in Nat
          BY <1>2
        <5> HIDE DEF N, M
        <5> QED BY <3>1, <5>1
      <4>2. m.frames[i] = ledger.frames[i]
        BY <2>2, <4>1
      <4>3. \A k \in 1..L : m.frames[i].handle # hs[k]
        BY <2>1, <4>1, <4>2
      <4> QED BY <1>3, <3>1, <4>1, <4>3
    <3>2. CASE ~(i <= N)
      <4>1. i - N \in 1..L /\ i = N + (i - N) /\ i > N
        <5>1. i \in 1..M /\ N \in Nat /\ M = N + L
          BY <1>2, <2>2
        <5> HIDE DEF N, M, L
        <5> QED BY <1>3, <3>2, <5>1
      <4>2. m.frames[i].handle = hs[i - N]
        BY <1>5, <2>2, <4>1
      <4> QED BY <4>1, <4>2
    <3> QED BY <3>1, <3>2
  <2> QED BY <2>3
<1>7. ASSUME NEW s \in Seq(Handles), NEW t \in Seq(Handles), Grown(s, t, hs, L),
             \A i \in 1..Len(s) : s[i] \in Listed(ledger)
      PROVE  OnlyNew(s, t, H)
  <2>1. Len(s) \in Nat
    BY LenProperties
  <2>2. \A i \in 1..Len(s) : \A k \in 1..L : s[i] # hs[k]
    BY <1>4, <1>7
  <2> HIDE DEF L
  <2>3. OnlyNew(s, t, {hs[k] : k \in 1..L})
    <3>1. Len(hs) = L
      BY DEF L
    <3> QED BY <1>3, <1>7, <2>1, <2>2, <3>1, NewestGrown
  <2>4. H = {hs[k] : k \in 1..L}
    BY <1>3 DEF L
  <2> QED BY <2>3, <2>4
<1>8. ASSUME NEW s, Len(s) \in Nat, \A i \in 1..Len(s) : s[i] \in Listed(ledger)
      PROVE  OnlyNew(s, s, H)
  <2>1. \A i \in 1..Len(s) : s[i] \notin H
    BY <1>4, <1>8
  <2>2. \A i \in 1..Len(s) : ~(i > Len(s))
    BY <1>8
  <2> QED BY <2>1, <2>2 DEF OnlyNew
<1>9. \A i \in 1..Len(ledger.model) : ledger.model[i] \in Listed(ledger)
  BY <1>2 DEF Listed
<1>10. \A b \in 1..Len(ledger.blocks) : \A i \in 1..Len(ledger.blocks[b].entities) :
          ledger.blocks[b].entities[i] \in Listed(ledger)
  <2>1. ASSUME NEW b \in DOMAIN ledger.blocks, NEW i \in DOMAIN ledger.blocks[b].entities
        PROVE  ledger.blocks[b].entities[i] \in Listed(ledger)
    BY DEF Listed
  <2> QED BY <1>2, <2>1
<1>11. OnlyNew(ledger.model, m.model, H)
  <2>1. ledger.model \in Seq(Handles) /\ m.model \in Seq(Handles)
    BY <1>1, LedgerParts
  <2>2. CASE ledger.active = 0
    BY <1>1, <1>7, <1>9, <2>1, <2>2
  <2>3. CASE ledger.active # 0
    BY <1>1, <1>2, <1>8, <1>9, <2>3
  <2> QED BY <2>2, <2>3
<1>12. ASSUME NEW b \in 1..Len(m.blocks)
       PROVE  OnlyNew(ledger.blocks[b].entities, m.blocks[b].entities, H)
  <2>1. b \in 1..Len(ledger.blocks)
    BY <1>1 DEF Continues
  <2>2. ledger.blocks[b].entities \in Seq(Handles) /\ m.blocks[b].entities \in Seq(Handles)
    BY <1>1, <2>1, LedgerParts
  <2>3. \A i \in 1..Len(ledger.blocks[b].entities) :
           ledger.blocks[b].entities[i] \in Listed(ledger)
    BY <1>10, <2>1
  <2>4. CASE here(b)
    <3>1. Grown(ledger.blocks[b].entities, m.blocks[b].entities, hs, L)
      BY <1>1, <2>1, <2>4
    <3> QED BY <1>7, <2>2, <2>3, <3>1
  <2>5. CASE ~here(b)
    <3>1. m.blocks[b].entities = ledger.blocks[b].entities
      BY <1>1, <2>1, <2>5
    <3>2. OnlyNew(ledger.blocks[b].entities, ledger.blocks[b].entities, H)
      BY <1>2, <1>8, <2>1, <2>3
    <3> QED BY <3>1, <3>2
  <2> QED BY <2>4, <2>5
<1> QED BY <1>1, <1>6, <1>11, <1>12 DEF Newest

LEMMA WriteEntityLedgers ==
  ASSUME IInv, IInv', FrameInv, NoBareFrame, LedgersInv, NEW e \in Entities,
         WriteEntity(e), Alike(Len(scopes))
  PROVE  LedgersInv'
<1> DEFINE a == Assigned(e)[Len(Parts[e])]
           hs == a.handles
           n == Len(scopes)
<1>1. /\ hs \in Seq(Handles) /\ Len(hs) = Len(Parts[e]) /\ DOMAIN hs = 1..Len(hs)
      /\ StagedOK(e, hs, Len(hs), ledger')
      /\ lastWrite' = [checkpoint |-> Checkpoint(ledger, FALSE),
                       captured |-> Captured(PartsOf(e)), live |-> TRUE]
      /\ undo' = [frames |-> {hs[k] : k \in DOMAIN hs}, overtaken |-> FALSE]
  <2>1. /\ hs \in Seq(Handles) /\ Len(hs) = Len(Parts[e]) /\ DOMAIN hs = 1..Len(Parts[e])
        /\ StagedOK(e, hs, Len(Parts[e]), ledger')
        /\ lastWrite' = [checkpoint |-> Checkpoint(ledger, FALSE),
                         captured |-> Captured(PartsOf(e)), live |-> TRUE]
        /\ undo' = [frames |-> {hs[k] : k \in DOMAIN hs}, overtaken |-> FALSE]
    BY WriteEntityIs
  <2> HIDE DEF hs
  <2> QED BY <2>1
<1>2. CanOwn(e) /\ Unframed(hs) /\ OwnerOf(e) = ledger.active
  BY DEF WriteEntity, Writable, OwnerOf
<1> HIDE DEF a, hs
<1>3. ledger \in Ledgers /\ n \in Nat /\ n \in 0..n
      /\ \A i \in 1..n : begun[i].ledger \in Ledgers
  BY LedgersAre
<1>4. \A i \in 1..Len(ledger.frames) : ledger.frames[i].of \notin PartsOf(e)
  BY PartsNotFramed
<1>5. Fine(ledger) /\ Fine(ledger') /\ Continues(ledger, ledger')
  <2>1. Fine(ledger)
    BY DEF LedgersInv, FineLedgers
  <2>2. Fine(ledger')
    BY <1>1, <1>2, <1>3, <1>4, <2>1, StagedFine
  <2> QED BY <1>1, <2>1, <2>2 DEF StagedOK
<1>6. ScopeLedgers'
  BY <1>5, GrownScopeLedgers DEF LedgersInv
<1>7. FineLedgers'
  BY <1>3, <1>5, FineLedgersMove DEF LedgersInv
<1>9. undo'.frames = {hs[k] : k \in 1..Len(hs)}
  BY <1>1
<1>10. Newest(ledger, ledger', undo'.frames)
  BY <1>1, <1>2, <1>3, <1>9, WriteEntityNewest
<1>11. ASSUME Strict, n # 0 PROVE Continues(begun'[n].ledger, ledger)
  <2>1. n \in 1..n
    BY <1>3, <1>11
  <2>2. Continues(begun[n].ledger, ledger)
    BY <1>11, <2>1 DEF LedgersInv, ScopeLedgers, InnerLedger
  <2> QED BY <2>1, <2>2 DEF Alike
<1>12. WriteLedger'
  <2>1. \E l \in Ledgers :
          /\ lastWrite'.checkpoint = Checkpoint(l, FALSE) /\ Continues(l, ledger') /\ Fine(l)
          /\ Strict /\ Len(scopes') # 0 => Continues(begun'[Len(scopes')].ledger, l)
          /\ ~undo'.overtaken => Newest(l, ledger', undo'.frames)
    <3>1. lastWrite'.checkpoint = Checkpoint(ledger, FALSE)
      BY <1>1
    <3>2. Len(scopes') = n
      BY DEF Alike
    <3> QED BY <1>3, <1>5, <1>10, <1>11, <3>1, <3>2
  <2> QED BY <2>1 DEF WriteLedger, Before, Strict
<1> QED BY <1>6, <1>7, <1>12 DEF LedgersInv

\* What rollbackLastDwgObjectWrite() goes back to.
LEMMA UndoIs ==
  ASSUME IInv, NEW restore \in BOOLEAN, UndoLast(restore), NEW l \in Ledgers, Before(l)
  PROVE  ledger' = [frames |-> l.frames, model |-> l.model, blocks |-> l.blocks,
                    active |-> l.active, layers |-> ledger.layers, eed |-> ledger.eed]
<1>1. ledger' = RolledBack(ledger, Checkpoint(l, FALSE))
  BY DEF UndoLast, Before
<1>2. ledger \in Ledgers /\ Continues(l, ledger)
  BY LedgersAre DEF Before
<1> QED BY <1>1, <1>2, RollsBackTo

LEMMA UndoLedgers ==
  ASSUME IInv, IInv', LedgersInv, NEW restore \in BOOLEAN, UndoLast(restore),
         Alike(Len(scopes))
  PROVE  LedgersInv'
<1> DEFINE n == Len(scopes)
<1>1. lastWrite.live /\ (undo.overtaken => "undoLate" \in Habits) /\ lastWrite' = NoWrite
  BY DEF UndoLast
<1>2. WriteLedger'
  BY <1>1, NoWriteDead DEF WriteLedger
<1>3. n \in Nat /\ n \in 0..n
  BY LedgersAre
<1>4. CASE ~Undoable
  <2>1. Habits # {} /\ (Strict => n = 0)
    BY <1>1, <1>4 DEF Undoable
  <2>2. ScopeLedgers'
    BY <1>3, <2>1, ScopeLedgersMove DEF LedgersInv
  <2>3. Fine(ledger')
    BY <2>1 DEF Fine
  <2>4. FineLedgers'
    BY <1>3, <2>3, FineLedgersMove DEF LedgersInv
  <2> QED BY <1>2, <2>2, <2>4 DEF LedgersInv
<1>5. CASE Undoable
  <2>1. PICK l \in Ledgers : Before(l)
    BY <1>1, <1>5 DEF LedgersInv, WriteLedger
  <2>2. SameLists(l, ledger')
    <3>1. ledger' = [frames |-> l.frames, model |-> l.model, blocks |-> l.blocks,
                    active |-> l.active, layers |-> ledger.layers, eed |-> ledger.eed]
      BY <2>1, UndoIs
    <3> QED BY <3>1 DEF SameLists
  <2>3. Fine(ledger') /\ (Strict /\ n # 0 => Continues(begun[n].ledger, ledger'))
    <3>1. Fine(l) /\ (Strict /\ n # 0 => Continues(begun[n].ledger, l))
      BY <2>1 DEF Before
    <3> QED BY <2>2, <3>1, SameFine, SameContinues
  <2>4. ScopeLedgers'
    BY <1>3, <2>3, ScopeLedgersMove DEF LedgersInv
  <2>5. FineLedgers'
    BY <1>3, <2>3, FineLedgersMove DEF LedgersInv
  <2> QED BY <1>2, <2>4, <2>5 DEF LedgersInv
<1> QED BY <1>4, <1>5

LEMMA OpensLedgers == ASSUME IInv, IInv', LedgersInv, Opens PROVE LedgersInv'
<1> DEFINE n == Len(scopes)
           s == scopes'[n + 1]
           w == begun'[n + 1]
<1>1. /\ Len(scopes') = n + 1 /\ n \in Nat
      /\ \A i \in 1..n : scopes'[i] = scopes[i] /\ begun'[i] = begun[i]
      /\ s.checkpoint = Checkpoint(ledger, s.checkpoint.admission) /\ s.written = written
      /\ w.ledger = ledger /\ w.written = written /\ ledger' = ledger /\ lastWrite' = NoWrite
  BY OpensIs
<1> HIDE DEF s, w
<1>2. \A i \in 1..(n + 1) : i \in 1..n \/ i = n + 1
  BY <1>1
<1>3. ledger \in Ledgers /\ Continues(ledger, ledger)
  BY LedgersAre, ContinuesItself
<1>4. ASSUME Strict, NEW i \in 1..n
      PROVE  /\ scopes'[i].checkpoint
                  = Checkpoint(begun'[i].ledger, scopes'[i].checkpoint.admission)
             /\ scopes'[i].written = begun'[i].written
             /\ Continues(begun'[i].ledger, InnerLedger(i)')
  <2>1. InnerLedger(i)' = InnerLedger(i)
    <3>1. i # n + 1
      BY <1>1
    <3>2. CASE i = n
      BY <1>1, <3>1, <3>2 DEF InnerLedger, w
    <3>3. CASE i # n
      <4>1. i + 1 \in 1..n
        BY <1>1, <3>3
      <4> QED BY <1>1, <3>1, <3>3, <4>1 DEF InnerLedger
    <3> QED BY <3>2, <3>3
  <2> QED BY <1>1, <1>4, <2>1 DEF LedgersInv, ScopeLedgers
<1>5. ScopeLedgers'
  <2>1. ASSUME Strict, NEW i \in 1..(n + 1)
        PROVE  /\ scopes'[i].checkpoint
                  = Checkpoint(begun'[i].ledger, scopes'[i].checkpoint.admission)
               /\ scopes'[i].written = begun'[i].written
               /\ Continues(begun'[i].ledger, InnerLedger(i)')
    <3>1. CASE i = n + 1
      <4>1. InnerLedger(i)' = ledger
        BY <1>1, <3>1 DEF InnerLedger
      <4>2. /\ scopes'[i].checkpoint = Checkpoint(ledger, scopes'[i].checkpoint.admission)
            /\ scopes'[i].written = written
            /\ begun'[i].ledger = ledger /\ begun'[i].written = written
        BY <1>1, <3>1 DEF s, w
      <4> HIDE DEF n
      <4> QED BY <1>3, <4>1, <4>2
    <3>2. CASE i # n + 1
      <4>1. i \in 1..n
        BY <1>2, <3>2
      <4> QED BY <1>4, <2>1, <4>1
    <3> QED BY <3>1, <3>2
  <2>2. Strict' <=> Strict
    BY DEF Strict
  <2> QED BY <1>1, <2>1, <2>2 DEF ScopeLedgers
<1>6. FineLedgers'
  BY <1>1, <1>2 DEF LedgersInv, FineLedgers, w
<1>7. WriteLedger'
  BY <1>1, NoWriteDead DEF WriteLedger
<1> QED BY <1>5, <1>6, <1>7 DEF LedgersInv

\* What a rollback goes back to.
LEMMA RollbackIs ==
  ASSUME IInv, ScopeLedgers, Strict, RollbackScope
  PROVE  LET was == begun[Len(begun)]
         IN /\ was.ledger \in Ledgers /\ written' = was.written
            /\ Innermost.checkpoint.admission \in BOOLEAN
            /\ ledger' = [frames |-> was.ledger.frames, model |-> was.ledger.model,
                          blocks |-> was.ledger.blocks, active |-> was.ledger.active,
                          layers |-> IF Innermost.checkpoint.admission
                                     THEN was.ledger.layers ELSE ledger.layers,
                          eed |-> ledger.eed]
<1> DEFINE n == Len(scopes)
           was == begun[n]
           adm == scopes[n].checkpoint.admission
<1>1. /\ scopes # <<>> /\ ledger' = RolledBack(ledger, Innermost.checkpoint)
      /\ written' = Innermost.written
  BY DEF RollbackScope, CountAfter
<1>2. n \in 1..n /\ Innermost = scopes[n] /\ scopes[n] \in Scopes /\ Len(begun) = n
  BY <1>1, TrackingIs DEF IInv, TypeInv
<1>3. was.ledger \in Ledgers /\ ledger \in Ledgers
  BY <1>2, LedgersAre
<1>4. adm \in BOOLEAN
  BY <1>2 DEF Scopes, Checkpoints
<1>5. /\ scopes[n].checkpoint = Checkpoint(was.ledger, adm) /\ scopes[n].written = was.written
      /\ Continues(was.ledger, ledger)
  BY <1>2 DEF ScopeLedgers, InnerLedger
<1>6. ledger' = RolledBack(ledger, Checkpoint(was.ledger, adm))
  BY <1>1, <1>2, <1>5
<1> HIDE DEF was, adm
<1>7. RolledBack(ledger, Checkpoint(was.ledger, adm)) =
           [frames |-> was.ledger.frames, model |-> was.ledger.model,
            blocks |-> was.ledger.blocks, active |-> was.ledger.active,
            layers |-> IF adm THEN was.ledger.layers ELSE ledger.layers, eed |-> ledger.eed]
  BY <1>3, <1>4, <1>5, RollsBackTo
<1>8. adm = Innermost.checkpoint.admission
  BY <1>2 DEF adm
<1> QED BY <1>1, <1>2, <1>3, <1>4, <1>5, <1>6, <1>7, <1>8 DEF was

LEMMA CloseLedgers ==
  ASSUME IInv, IInv', LedgersInv, CommitScope \/ RollbackScope
  PROVE  LedgersInv'
<1> DEFINE n == Len(scopes)
<1>1. Alike(n - 1) /\ scopes # <<>> /\ lastWrite' = NoWrite
  BY ClosesAlike DEF CommitScope, RollbackScope
<1>2. /\ n \in Nat /\ n \in 1..n /\ n - 1 \in 0..n /\ (n - 1 # 0 => n - 1 \in 1..n)
      /\ Len(begun) = n
      /\ ledger \in Ledgers /\ \A i \in 1..n : begun[i].ledger \in Ledgers
  <2>1. n \in Nat /\ n \in 1..n
    BY <1>1, TrackingIs DEF IInv
  <2> QED BY <2>1, LedgersAre
<1>3. ASSUME Strict, n - 1 # 0 PROVE Continues(begun[n - 1].ledger, begun[n].ledger)
  <2>1. n - 1 \in 1..n /\ n - 1 # n /\ n - 1 + 1 = n
    BY <1>2, <1>3
  <2>2. InnerLedger(n - 1) = begun[n].ledger
    BY <2>1 DEF InnerLedger
  <2> QED BY <1>3, <2>1, <2>2 DEF LedgersInv, ScopeLedgers
<1>4. /\ Fine(ledger')
      /\ (Strict /\ n - 1 # 0 => Continues(begun[n - 1].ledger, ledger'))
  <2>1. CASE CommitScope
    <3>1. ledger' = ledger
      BY <2>1 DEF CommitScope
    <3>2. ASSUME Strict, n - 1 # 0 PROVE Continues(begun[n - 1].ledger, ledger)
      <4>1. Continues(begun[n].ledger, ledger)
        BY <1>2, <3>2 DEF LedgersInv, ScopeLedgers, InnerLedger
      <4> QED BY <1>2, <1>3, <3>2, <4>1, ContinuesTransitive
    <3> QED BY <3>1, <3>2 DEF LedgersInv, FineLedgers
  <2>2. CASE RollbackScope
    <3>1. CASE Strict
      <4>1. SameLists(begun[n].ledger, ledger')
        <5>1. LET was == begun[n]
              IN  ledger' = [frames |-> was.ledger.frames, model |-> was.ledger.model,
                          blocks |-> was.ledger.blocks, active |-> was.ledger.active,
                          layers |-> IF Innermost.checkpoint.admission
                                     THEN was.ledger.layers ELSE ledger.layers,
                          eed |-> ledger.eed]
          BY <1>2, <2>2, <3>1, RollbackIs DEF LedgersInv
        <5> QED BY <5>1 DEF SameLists
      <4>2. Fine(begun[n].ledger)
        BY <1>2 DEF LedgersInv, FineLedgers
      <4> QED BY <1>3, <4>1, <4>2, SameFine, SameContinues
    <3>2. CASE ~Strict
      BY <3>2 DEF Strict, Fine
    <3> QED BY <3>1, <3>2
  <2> QED BY <2>1, <2>2
<1>5. ScopeLedgers'
  BY <1>1, <1>2, <1>4, ScopeLedgersMove DEF LedgersInv
<1>6. FineLedgers'
  BY <1>1, <1>2, <1>4, FineLedgersMove DEF LedgersInv
<1>7. WriteLedger'
  BY <1>1, NoWriteDead DEF WriteLedger
<1> QED BY <1>5, <1>6, <1>7 DEF LedgersInv

TakesBackInv == IInv /\ FrameInv /\ NoBareFrame /\ LedgersInv

LEMMA StepTakesBackInv == ASSUME TakesBackInv, [Next]_vars PROVE TakesBackInv'
<1>1. IInv /\ IInv' /\ FrameInv' /\ NoBareFrame' /\ FrameInv /\ NoBareFrame /\ LedgersInv
  BY StepIInv, StepFrameInv DEF TakesBackInv
<1>2. CASE Opens \/ CommitScope \/ RollbackScope
  BY <1>1, <1>2, OpensLedgers, CloseLedgers DEF TakesBackInv
<1>3. CASE ~(Opens \/ CommitScope \/ RollbackScope)
  <2>1. Alike(Len(scopes))
    BY <1>1, <1>3, ScopesAlike
  <2>2. LedgersInv'
    BY <1>1, <1>3, <2>1, NextIs, QuietLedgers, DefineBlockLedgers, WriteEntityLedgers,
       WriteObjectLedgers, WriteRawLedgers, UndoLedgers
  <2> QED BY <1>1, <2>2 DEF TakesBackInv
<1> QED BY <1>2, <1>3

LEMMA InitTakesBackInv == ASSUME Init PROVE TakesBackInv
<1>1. ledger = NoLedger /\ scopes = <<>> /\ begun = <<>> /\ lastWrite = NoWrite
  BY DEF Init
<1>2. ledger.frames = <<>> /\ ledger.model = <<>> /\ ledger.blocks = <<>>
  BY <1>1 DEF NoLedger
<1>3. 1..Len(ledger.frames) = {} /\ 1..Len(scopes) = {} /\ 1..Len(ledger.model) = {}
      /\ 1..Len(ledger.blocks) = {}
  BY <1>1, <1>2
<1>4. FrameInv /\ NoBareFrame
  BY <1>1, <1>3, NoWriteDead DEF FrameInv, FramesHeld, NoBareFrame, FramesBear
<1>5. Fine(ledger)
  BY <1>3 DEF Fine, Good, Together, ListGood, AllDistinct, Lists
<1>6. LedgersInv
  BY <1>1, <1>3, <1>5, NoWriteDead DEF LedgersInv, ScopeLedgers, FineLedgers, WriteLedger
<1> QED BY <1>4, <1>6, InitIInv DEF TakesBackInv

---------------------------------------------------------------------------
(* What follows from it.                                                     *)

LEMMA ListedIs ==
  ASSUME NEW l \in Ledgers, NEW h
  PROVE  h \in Listed(l) <=> \/ Has(l.model, h)
                             \/ \E b \in 1..Len(l.blocks) : Has(l.blocks[b].entities, h)
<1>1. /\ DOMAIN l.model = 1..Len(l.model) /\ DOMAIN l.blocks = 1..Len(l.blocks)
      /\ \A b \in 1..Len(l.blocks) :
           DOMAIN l.blocks[b].entities = 1..Len(l.blocks[b].entities)
  BY LedgerParts
<1> QED BY <1>1 DEF Listed, Has

LEMMA GoodLists == ASSUME ledger \in Ledgers, Good(ledger) PROVE OwnersListFrames
<1>1. /\ DOMAIN ledger.model = 1..Len(ledger.model)
      /\ DOMAIN ledger.blocks = 1..Len(ledger.blocks)
      /\ DOMAIN ledger.frames = 1..Len(ledger.frames)
      /\ \A b \in 1..Len(ledger.blocks) :
           DOMAIN ledger.blocks[b].entities = 1..Len(ledger.blocks[b].entities)
  BY LedgerParts
<1>2. ASSUME NEW s, ListGood(ledger.frames, s), NEW h, Has(s, h)
      PROVE  h \in Framed(ledger)
  BY <1>1, <1>2 DEF ListGood, Has, HasFrame, Framed
<1>3. Listed(ledger) \subseteq Framed(ledger)
  BY <1>2, ListedIs DEF Good
<1>4. Distinct(ledger.model)
  BY <1>1 DEF Good, ListGood, AllDistinct, Distinct
<1>5. ASSUME NEW b \in DOMAIN ledger.blocks PROVE Distinct(ledger.blocks[b].entities)
  <2>1. b \in 1..Len(ledger.blocks)
    BY <1>1
  <2>2. AllDistinct(ledger.blocks[b].entities)
    BY <2>1 DEF Good, ListGood
  <2> QED BY <1>1, <2>1, <2>2 DEF AllDistinct, Distinct
<1> QED BY <1>3, <1>4, <1>5 DEF OwnersListFrames

LEMMA TogetherLists ==
  ASSUME ledger \in Ledgers, Together(ledger) PROVE CompoundsListedTogether
<1>1. /\ DOMAIN ledger.model = 1..Len(ledger.model)
      /\ DOMAIN ledger.blocks = 1..Len(ledger.blocks)
      /\ DOMAIN ledger.frames = 1..Len(ledger.frames)
      /\ \A b \in 1..Len(ledger.blocks) :
           DOMAIN ledger.blocks[b].entities = 1..Len(ledger.blocks[b].entities)
  BY LedgerParts
<1> DEFINE mine(e) == {ledger.frames[i].handle :
                   i \in {j \in DOMAIN ledger.frames : ledger.frames[j].of \in PartsOf(e)}}
           lists == {ledger.model} \cup {ledger.blocks[b].entities : b \in DOMAIN ledger.blocks}
<1>2. ASSUME NEW e \in Entities, NEW s, DOMAIN s = 1..Len(s), Lists(ledger.frames, s, e)
      PROVE  mine(e) \subseteq {s[i] : i \in DOMAIN s}
  BY <1>1, <1>2 DEF Lists, Has
<1>3. ASSUME NEW e \in Entities
      PROVE  \E list \in lists : mine(e) \subseteq {list[i] : i \in DOMAIN list}
  <2>1. CASE Lists(ledger.frames, ledger.model, e)
    BY <1>1, <1>2, <2>1
  <2>2. ASSUME NEW b \in 1..Len(ledger.blocks),
               Lists(ledger.frames, ledger.blocks[b].entities, e)
        PROVE  \E list \in lists : mine(e) \subseteq {list[i] : i \in DOMAIN list}
    <3>1. mine(e) \subseteq {ledger.blocks[b].entities[i] :
                             i \in DOMAIN ledger.blocks[b].entities}
      BY <1>1, <1>2, <2>2
    <3>2. ledger.blocks[b].entities \in lists
      BY <1>1
    <3> HIDE DEF mine, lists
    <3> QED BY <3>1, <3>2
  <2> QED BY <2>1, <2>2 DEF Together
<1> QED BY <1>3 DEF CompoundsListedTogether

LEMMA LedgerBut ==
  ASSUME NEW l \in Ledgers, NEW eed, NEW layers
  PROVE  [l EXCEPT !.eed = eed, !.layers = layers] =
           [frames |-> l.frames, model |-> l.model, blocks |-> l.blocks,
            active |-> l.active, layers |-> layers, eed |-> eed]
<1> DEFINE a == l.frames
           b == l.model
           c == l.blocks
           d == l.active
           e == l.layers
           f == l.eed
           m == [l EXCEPT !.eed = eed]
<1>1. l = [frames |-> a, model |-> b, blocks |-> c, active |-> d, layers |-> e, eed |-> f]
  BY LedgerParts
<1> HIDE DEF a, b, c, d, e, f
<1>2. [l EXCEPT !.eed = eed, !.layers = layers] = [m EXCEPT !.layers = layers]
  BY <1>1
<1>3. m = [frames |-> a, model |-> b, blocks |-> c, active |-> d, layers |-> e, eed |-> eed]
  BY <1>1
<1> HIDE DEF m
<1>4. [m EXCEPT !.layers = layers] =
        [frames |-> a, model |-> b, blocks |-> c, active |-> d, layers |-> layers, eed |-> eed]
  BY <1>3
<1> QED BY <1>2, <1>4 DEF a, b, c, d

\* Rolling back gives back the ledger the scope found.
LEMMA RollbackGivesBack ==
  ASSUME TakesBackInv, Strict, RollbackScope
  PROVE  LET was == begun[Len(begun)]
         IN /\ ledger' = [was.ledger EXCEPT
                            !.eed = ledger.eed,
                            !.layers = IF Innermost.checkpoint.admission THEN @
                                       ELSE ledger.layers]
            /\ written' = was.written
<1> DEFINE was == begun[Len(begun)]
           l == was.ledger
           layers == IF Innermost.checkpoint.admission THEN l.layers ELSE ledger.layers
<1>1. /\ l \in Ledgers /\ written' = was.written
      /\ ledger' = [frames |-> l.frames, model |-> l.model, blocks |-> l.blocks,
                    active |-> l.active, layers |-> layers, eed |-> ledger.eed]
  BY RollbackIs DEF TakesBackInv, LedgersInv
<1> HIDE DEF l, layers
<1>2. ledger' = [l EXCEPT !.eed = ledger.eed, !.layers = layers]
  BY <1>1, LedgerBut
<1>3. l = [frames |-> l.frames, model |-> l.model, blocks |-> l.blocks,
           active |-> l.active, layers |-> l.layers, eed |-> l.eed]
  BY <1>1, LedgerParts
<1>4. [l EXCEPT !.eed = ledger.eed, !.layers = layers] =
      [l EXCEPT !.eed = ledger.eed,
                !.layers = IF Innermost.checkpoint.admission THEN @ ELSE ledger.layers]
  BY <1>3 DEF layers
<1> QED BY <1>1, <1>2, <1>4 DEF l

\* What goes back to an earlier list is cut off at its end.
LEMMA NewestCutOff ==
  ASSUME NEW S, NEW s \in Seq(S), NEW t \in Seq(S), Prefix(s, t), NEW gone,
         gone = (Len(s) + 1)..Len(t)
  PROVE  CutOff(t, s, gone)
<1>1. Len(s) \in 0..Len(t) /\ Len(s) \in Nat /\ Len(t) \in Nat
  BY LenProperties DEF Prefix
<1>2. Truncated(t, Len(s)) = s
  BY TruncatedBack
<1>3. s = SubSeq(t, 1, Len(s))
  BY <1>1, <1>2 DEF Truncated
<1> QED BY <1>1, <1>3 DEF CutOff

LEMMA UndoTakesBack ==
  ASSUME TakesBackInv, "undoLate" \notin Habits, NEW restore \in BOOLEAN, UndoLast(restore)
  PROVE  /\ CutOff(ledger.frames, ledger'.frames,
                   {i \in DOMAIN ledger.frames : ledger.frames[i].handle \in undo.frames})
         /\ CutOff(ledger.model, ledger'.model, OfLastWrite(ledger.model))
         /\ Len(ledger'.blocks) = Len(ledger.blocks)
         /\ \A b \in DOMAIN ledger.blocks :
              /\ ledger'.blocks[b].name = ledger.blocks[b].name
              /\ ledger'.blocks[b].record = ledger.blocks[b].record
              /\ CutOff(ledger.blocks[b].entities, ledger'.blocks[b].entities,
                        OfLastWrite(ledger.blocks[b].entities))
         /\ ledger'.active = ledger.active
<1>1. lastWrite.live /\ ~undo.overtaken
  BY DEF UndoLast
<1>2. PICK l \in Ledgers : Before(l)
  BY <1>1 DEF TakesBackInv, LedgersInv, WriteLedger, Undoable
<1>3. ledger' = [frames |-> l.frames, model |-> l.model, blocks |-> l.blocks,
                 active |-> l.active, layers |-> ledger.layers, eed |-> ledger.eed]
  BY <1>2, UndoIs DEF TakesBackInv
<1>4. /\ ledger'.frames = l.frames /\ ledger'.model = l.model /\ ledger'.blocks = l.blocks
      /\ ledger'.active = l.active
  BY <1>3
<1>5. Continues(l, ledger) /\ Newest(l, ledger, undo.frames) /\ ledger \in Ledgers
  BY <1>1, <1>2, LedgersAre DEF Before, TakesBackInv
<1>6. /\ l.frames \in Seq(Frames) /\ ledger.frames \in Seq(Frames)
      /\ l.model \in Seq(Handles) /\ ledger.model \in Seq(Handles)
      /\ DOMAIN ledger.frames = 1..Len(ledger.frames)
      /\ DOMAIN ledger.model = 1..Len(ledger.model)
      /\ DOMAIN ledger.blocks = 1..Len(ledger.blocks)
      /\ Len(l.frames) \in Nat /\ Len(ledger.frames) \in Nat
  BY <1>5, LedgerParts
<1>7. CutOff(ledger.frames, l.frames,
             {i \in DOMAIN ledger.frames : ledger.frames[i].handle \in undo.frames})
  <2>1. {i \in DOMAIN ledger.frames : ledger.frames[i].handle \in undo.frames}
           = (Len(l.frames) + 1)..Len(ledger.frames)
    BY <1>5, <1>6 DEF Newest
  <2>2. Prefix(l.frames, ledger.frames)
    BY <1>5 DEF Continues
  <2> QED BY <1>6, <2>1, <2>2, NewestCutOff
<1>8. ASSUME NEW s \in Seq(Handles), NEW t \in Seq(Handles), Prefix(s, t),
             OnlyNew(s, t, undo.frames)
      PROVE  CutOff(t, s, OfLastWrite(t))
  <2>1. Len(s) \in Nat /\ Len(t) \in Nat /\ DOMAIN t = 1..Len(t)
    BY LenProperties
  <2>2. OfLastWrite(t) = (Len(s) + 1)..Len(t)
    BY <1>8, <2>1 DEF OnlyNew, OfLastWrite
  <2> QED BY <1>8, <2>2, NewestCutOff
<1>9. CutOff(ledger.model, l.model, OfLastWrite(ledger.model))
  BY <1>5, <1>6, <1>8 DEF Newest, Continues
<1>10. ASSUME NEW b \in 1..Len(ledger.blocks)
       PROVE  /\ l.blocks[b].name = ledger.blocks[b].name
              /\ l.blocks[b].record = ledger.blocks[b].record
              /\ CutOff(ledger.blocks[b].entities, l.blocks[b].entities,
                        OfLastWrite(ledger.blocks[b].entities))
  <2>1. /\ b \in 1..Len(l.blocks) /\ l.blocks[b].name = ledger.blocks[b].name
        /\ l.blocks[b].record = ledger.blocks[b].record
        /\ Prefix(l.blocks[b].entities, ledger.blocks[b].entities)
        /\ OnlyNew(l.blocks[b].entities, ledger.blocks[b].entities, undo.frames)
    BY <1>5 DEF Continues, Newest
  <2>2. l.blocks[b].entities \in Seq(Handles) /\ ledger.blocks[b].entities \in Seq(Handles)
    BY <1>5, <2>1, LedgerParts
  <2> QED BY <1>8, <2>1, <2>2
<1> QED BY <1>4, <1>5, <1>6, <1>7, <1>9, <1>10 DEF Continues, Newest

\* Without calls that define blocks in a scope or undo a write late, what an
\* owner lists is framed and listed once, whatever was taken back.
THEOREM ListsStayGood == ASSUME Habits = {} PROVE Spec => []OwnersListFrames
<1>1. TakesBackInv => OwnersListFrames
  BY GoodLists, LedgersAre DEF TakesBackInv, LedgersInv, FineLedgers, Fine
<1> QED BY <1>1, InitTakesBackInv, StepTakesBackInv, PTL DEF Spec

\* The same calls list an entity and its parts with one owner, when no two
\* entities share a part.
THEOREM CompoundsStayTogether ==
  ASSUME Habits = {}, PartsUnshared PROVE Spec => []CompoundsListedTogether
<1>1. TakesBackInv => CompoundsListedTogether
  BY TogetherLists, LedgersAre DEF TakesBackInv, LedgersInv, FineLedgers, Fine
<1> QED BY <1>1, InitTakesBackInv, StepTakesBackInv, PTL DEF Spec

\* A rollback takes the writer back to where the scope began: frames, owner
\* lists, blocks and the count of written entities, after any nesting of scopes.
THEOREM RollbackTakesBack ==
  ASSUME "defineInScope" \notin Habits PROVE Spec => RollbackRestores
<1>1. TakesBackInv /\ [Next]_vars =>
        [RollbackScope =>
          LET was == begun[Len(begun)]
          IN /\ ledger' = [was.ledger EXCEPT
                             !.eed = ledger.eed,
                             !.layers = IF Innermost.checkpoint.admission THEN @
                                        ELSE ledger.layers]
             /\ written' = was.written]_vars
  BY RollbackGivesBack DEF Strict
<1> QED BY <1>1, InitTakesBackInv, StepTakesBackInv, PTL DEF Spec, RollbackRestores

\* rollbackLastDwgObjectWrite(), called right after a write, takes back the
\* frames and list entries of that write and no others.
THEOREM LastWriteUndone ==
  ASSUME "undoLate" \notin Habits PROVE Spec => LastUndone
<1>1. TakesBackInv /\ [Next]_vars =>
        [(\E restore \in BOOLEAN : UndoLast(restore)) =>
         /\ CutOff(ledger.frames, ledger'.frames,
                   {i \in DOMAIN ledger.frames : ledger.frames[i].handle \in undo.frames})
         /\ CutOff(ledger.model, ledger'.model, OfLastWrite(ledger.model))
         /\ Len(ledger'.blocks) = Len(ledger.blocks)
         /\ \A b \in DOMAIN ledger.blocks :
              /\ ledger'.blocks[b].name = ledger.blocks[b].name
              /\ ledger'.blocks[b].record = ledger.blocks[b].record
              /\ CutOff(ledger.blocks[b].entities, ledger'.blocks[b].entities,
                        OfLastWrite(ledger.blocks[b].entities))
         /\ ledger'.active = ledger.active]_vars
  BY UndoTakesBack
<1> QED BY <1>1, InitTakesBackInv, StepTakesBackInv, PTL DEF Spec, LastUndone

---------------------------------------------------------------------------
(* The callers' records, scope by scope.                                     *)

\* The callers' records the scope inside found, or the present ones.
InnerHeld(i) == IF i = Len(scopes) THEN held ELSE begun[i + 1].held

\* What r was before the captures cs were taken, if hs came after them.
InCaptures(cs, r) == \E j \in 1..Len(cs) : r \in DOMAIN cs[j]
Back(cs, hs, r) == IF InCaptures(cs, r) THEN cs[FirstCapture(cs, r)][r] ELSE hs[r]

\* A record that is loose in a scope is loose in the scopes around it.
LooseNested ==
  \A i, j \in 1..Len(scopes) : i <= j => begun[j].loose \subseteq begun[i].loose
UntrackedEmpty == \A i \in 1..Len(scopes) : ~scopes[i].track => scopes[i].captured = <<>>
\* Going back over the captures of a scope from where the scope inside it began
\* gives the record the scope found.
HeldBack ==
  \A i \in 1..Len(scopes) : \A r \in Records \ begun[i].loose :
    Back(scopes[i].captured, InnerHeld(i), r) = begun[i].held[r]
\* What rollbackLastDwgObjectWrite() would restore is the latest capture, or is
\* on its own.
WriteKept ==
  lastWrite.live =>
    /\ phase # "tables"
    /\ scopes # <<>> =>
         IF Innermost.track
         THEN /\ Len(Innermost.captured) # 0
              /\ Innermost.captured[Len(Innermost.captured)] = lastWrite.captured
         ELSE \A i \in 1..Len(scopes) : DOMAIN lastWrite.captured \subseteq begun[i].loose
CallersInv == LooseNested /\ UntrackedEmpty /\ HeldBack /\ WriteKept

LEMMA BackIs ==
  ASSUME NEW cs \in Seq(Captures), NEW hs, NEW r
  PROVE  /\ ~InCaptures(cs, r) => Back(cs, hs, r) = hs[r]
         /\ \A k \in 1..Len(cs) :
              r \in DOMAIN cs[k] /\ (\A j \in 1..(k - 1) : r \notin DOMAIN cs[j])
                => InCaptures(cs, r) /\ Back(cs, hs, r) = cs[k][r]
         /\ InCaptures(cs, r) =>
              \E k \in 1..Len(cs) : /\ r \in DOMAIN cs[k]
                                    /\ \A j \in 1..(k - 1) : r \notin DOMAIN cs[j]
<1>1. Len(cs) \in Nat /\ DOMAIN cs = 1..Len(cs)
  BY LenProperties
<1>2. ASSUME InCaptures(cs, r)
      PROVE  /\ FirstCapture(cs, r) \in 1..Len(cs) /\ r \in DOMAIN cs[FirstCapture(cs, r)]
             /\ \A j \in 1..(FirstCapture(cs, r) - 1) : r \notin DOMAIN cs[j]
  <2>1. \E i \in DOMAIN cs : r \in DOMAIN cs[i]
    BY <1>1, <1>2 DEF InCaptures
  <2> QED BY <2>1, FirstCaptureIs
<1>3. ASSUME NEW k \in 1..Len(cs), r \in DOMAIN cs[k],
             \A j \in 1..(k - 1) : r \notin DOMAIN cs[j]
      PROVE  InCaptures(cs, r) /\ Back(cs, hs, r) = cs[k][r]
  <2> DEFINE f == FirstCapture(cs, r)
  <2>1. InCaptures(cs, r)
    BY <1>3 DEF InCaptures
  <2>2. f \in 1..Len(cs) /\ r \in DOMAIN cs[f] /\ \A j \in 1..(f - 1) : r \notin DOMAIN cs[j]
    BY <1>2, <2>1
  <2>3. Back(cs, hs, r) = cs[f][r]
    BY <2>1 DEF Back
  <2> HIDE DEF f
  <2>4. f = k
    BY <1>1, <1>3, <2>2
  <2> QED BY <2>1, <2>3, <2>4
<1> QED BY <1>2, <1>3 DEF Back

LEMMA BackFirst ==
  ASSUME NEW cs \in Seq(Captures), NEW hs, NEW r, NEW k \in 1..Len(cs), r \in DOMAIN cs[k],
         \A j \in 1..(k - 1) : r \notin DOMAIN cs[j]
  PROVE  InCaptures(cs, r) /\ Back(cs, hs, r) = cs[k][r]
BY BackIs

LEMMA BackNone ==
  ASSUME NEW cs, NEW hs, NEW r, \A j \in 1..Len(cs) : r \notin DOMAIN cs[j]
  PROVE  ~InCaptures(cs, r) /\ Back(cs, hs, r) = hs[r]
BY DEF InCaptures, Back

\* Later captures change nothing for a record that was captured before.
LEMMA BackEarlier ==
  ASSUME NEW cs \in Seq(Captures), NEW es \in Seq(Captures), NEW hs, NEW gs, NEW r,
         Len(cs) <= Len(es), \A j \in 1..Len(cs) : es[j] = cs[j], InCaptures(cs, r)
  PROVE  InCaptures(es, r) /\ Back(es, gs, r) = Back(cs, hs, r)
<1>1. Len(cs) \in Nat /\ Len(es) \in Nat
  BY LenProperties
<1>2. PICK k \in 1..Len(cs) : r \in DOMAIN cs[k] /\ \A j \in 1..(k - 1) : r \notin DOMAIN cs[j]
  BY BackIs
<1>3. k \in 1..Len(es) /\ r \in DOMAIN es[k] /\ \A j \in 1..(k - 1) : r \notin DOMAIN es[j]
  BY <1>1, <1>2
<1>4. Back(cs, hs, r) = cs[k][r]
  BY <1>2, BackIs
<1>5. InCaptures(es, r) /\ Back(es, gs, r) = es[k][r]
  BY <1>3, BackIs
<1> QED BY <1>2, <1>4, <1>5

LEMMA BackAppend ==
  ASSUME NEW cs \in Seq(Captures), NEW c \in Captures, NEW hs, NEW gs, NEW r,
         ~InCaptures(cs, r)
  PROVE  Back(Append(cs, c), gs, r) = IF r \in DOMAIN c THEN c[r] ELSE gs[r]
<1> DEFINE es == Append(cs, c)
<1>1. /\ es \in Seq(Captures) /\ Len(es) = Len(cs) + 1 /\ Len(cs) \in Nat
      /\ \A j \in 1..Len(cs) : es[j] = cs[j]
      /\ es[Len(cs) + 1] = c
  BY AppendProperties, LenProperties
<1> HIDE DEF es
<1>2. \A j \in 1..Len(cs) : r \notin DOMAIN es[j]
  BY <1>1 DEF InCaptures
<1>3. CASE r \in DOMAIN c
  <2>1. /\ Len(es) \in 1..Len(es) /\ r \in DOMAIN es[Len(es)]
        /\ \A j \in 1..(Len(es) - 1) : r \notin DOMAIN es[j]
    BY <1>1, <1>2, <1>3
  <2>2. Back(es, gs, r) = es[Len(es)][r]
    <3> DEFINE m == Len(es)
    <3>1. m \in 1..Len(es) /\ r \in DOMAIN es[m] /\ \A j \in 1..(m - 1) : r \notin DOMAIN es[j]
      BY <2>1
    <3> HIDE DEF m
    <3>2. Back(es, gs, r) = es[m][r]
      BY <1>1, <3>1, BackFirst
    <3> QED BY <3>2 DEF m
  <2> QED BY <1>1, <1>3, <2>2 DEF es
<1>4. CASE r \notin DOMAIN c
  <2>1. \A j \in 1..Len(es) : r \notin DOMAIN es[j]
    BY <1>1, <1>2, <1>4
  <2>2. Back(es, gs, r) = gs[r]
    BY <2>1, BackNone
  <2> QED BY <1>4, <2>2 DEF es
<1> QED BY <1>3, <1>4

LEMMA BackConcat ==
  ASSUME NEW cs \in Seq(Captures), NEW ds \in Seq(Captures), NEW hs, NEW r
  PROVE  /\ cs \o ds \in Seq(Captures)
         /\ InCaptures(cs, r) => \A gs : Back(cs \o ds, hs, r) = Back(cs, gs, r)
         /\ ~InCaptures(cs, r) => Back(cs \o ds, hs, r) = Back(ds, hs, r)
<1> DEFINE es == cs \o ds
<1>1. /\ es \in Seq(Captures) /\ Len(es) = Len(cs) + Len(ds) /\ Len(cs) \in Nat
      /\ Len(ds) \in Nat
      /\ \A j \in 1..Len(cs) : es[j] = cs[j]
      /\ \A j \in 1..Len(ds) : es[Len(cs) + j] = ds[j]
  <2>1. /\ es \in Seq(Captures) /\ Len(es) = Len(cs) + Len(ds)
        /\ \A i \in 1..(Len(cs) + Len(ds)) :
             es[i] = IF i <= Len(cs) THEN cs[i] ELSE ds[i - Len(cs)]
    BY ConcatProperties
  <2>2. Len(cs) \in Nat /\ Len(ds) \in Nat
    BY LenProperties
  <2>3. ASSUME NEW j \in 1..Len(ds) PROVE es[Len(cs) + j] = ds[j]
    <3>1. Len(cs) + j \in 1..(Len(cs) + Len(ds)) /\ ~(Len(cs) + j <= Len(cs))
          /\ Len(cs) + j - Len(cs) = j
      BY <2>2
    <3> QED BY <2>1, <3>1
  <2>4. ASSUME NEW j \in 1..Len(cs) PROVE es[j] = cs[j]
    <3>1. j \in 1..(Len(cs) + Len(ds)) /\ j <= Len(cs)
      BY <2>2
    <3> QED BY <2>1, <3>1
  <2> QED BY <2>1, <2>2, <2>3, <2>4
<1> HIDE DEF es
<1>2. ASSUME InCaptures(cs, r), NEW gs PROVE Back(es, hs, r) = Back(cs, gs, r)
  <2>1. Len(cs) <= Len(es)
    BY <1>1
  <2> QED BY <1>1, <1>2, <2>1, BackEarlier
<1>3. ASSUME ~InCaptures(cs, r), InCaptures(ds, r) PROVE Back(es, hs, r) = Back(ds, hs, r)
  <2>1. PICK k \in 1..Len(ds) : r \in DOMAIN ds[k] /\ \A j \in 1..(k - 1) : r \notin DOMAIN ds[j]
    BY <1>3, BackIs
  <2>2. Len(cs) + k \in 1..Len(es) /\ r \in DOMAIN es[Len(cs) + k]
    BY <1>1, <2>1
  <2>3. ASSUME NEW j \in 1..(Len(cs) + k - 1) PROVE r \notin DOMAIN es[j]
    <3>1. CASE j \in 1..Len(cs)
      BY <1>1, <1>3, <3>1 DEF InCaptures
    <3>2. CASE j \notin 1..Len(cs)
      <4>1. j - Len(cs) \in 1..(k - 1) /\ j - Len(cs) \in 1..Len(ds)
            /\ j = Len(cs) + (j - Len(cs))
        BY <1>1, <3>2
      <4>2. es[j] = ds[j - Len(cs)]
        BY <1>1, <4>1
      <4> QED BY <2>1, <4>1, <4>2
    <3> QED BY <3>1, <3>2
  <2>4. Back(es, hs, r) = es[Len(cs) + k][r]
    <3> DEFINE m == Len(cs) + k
    <3>1. m \in 1..Len(es) /\ r \in DOMAIN es[m] /\ \A j \in 1..(m - 1) : r \notin DOMAIN es[j]
      BY <2>2, <2>3
    <3> HIDE DEF m
    <3>2. es \in Seq(Captures)
      BY <1>1
    <3>3. Back(es, hs, r) = es[m][r]
      BY <3>1, <3>2, BackFirst
    <3> QED BY <3>3 DEF m
  <2>5. Back(ds, hs, r) = ds[k][r]
    BY <2>1, BackIs
  <2> QED BY <1>1, <2>4, <2>5
<1>4. ASSUME ~InCaptures(cs, r), ~InCaptures(ds, r) PROVE Back(es, hs, r) = Back(ds, hs, r)
  <2>1. ASSUME NEW j \in 1..Len(es) PROVE r \notin DOMAIN es[j]
    <3>1. CASE j \in 1..Len(cs)
      BY <1>1, <1>4, <3>1 DEF InCaptures
    <3>2. CASE j \notin 1..Len(cs)
      <4>1. j - Len(cs) \in 1..Len(ds) /\ j = Len(cs) + (j - Len(cs))
        BY <1>1, <3>2
      <4>2. es[j] = ds[j - Len(cs)]
        BY <1>1, <4>1
      <4> QED BY <1>4, <4>1, <4>2 DEF InCaptures
    <3> QED BY <3>1, <3>2
  <2>2. Back(es, hs, r) = hs[r]
    BY <2>1, BackNone
  <2>3. Back(ds, hs, r) = hs[r]
    BY <1>4 DEF Back
  <2> QED BY <2>2, <2>3
<1> QED BY <1>1, <1>2, <1>3, <1>4 DEF es

\* Taking the latest capture away, once it was given back.
Latest(cs, c) == Len(cs) # 0 /\ cs[Len(cs)] = c
GivenBack(c, hs, gs, r) == gs[r] = IF r \in DOMAIN c THEN c[r] ELSE hs[r]
LEMMA BackFront ==
  ASSUME NEW cs \in Seq(Captures), NEW c, Latest(cs, c),
         NEW hs, NEW gs, NEW r, GivenBack(c, hs, gs, r)
  PROVE  Back(Forgotten(cs, DOMAIN c), gs, r) = Back(cs, hs, r)
<1> DEFINE R == DOMAIN c
           mine == {i \in DOMAIN cs : DOMAIN cs[i] = R}
           last == CHOOSE i \in mine : \A j \in mine : j <= i
           fs == Forgotten(cs, R)
           n == Len(cs) - 1
<1>0. /\ Len(cs) # 0 /\ cs[Len(cs)] = c
      /\ r \in DOMAIN c => gs[r] = c[r]
      /\ r \notin DOMAIN c => gs[r] = hs[r]
  BY DEF Latest, GivenBack
<1>1. Len(cs) \in Nat /\ DOMAIN cs = 1..Len(cs) /\ n \in Nat /\ Len(cs) \in 1..Len(cs)
      /\ Len(cs) = n + 1
  BY <1>0, LenProperties
<1>2. Len(cs) \in mine /\ \A j \in mine : j <= Len(cs)
  BY <1>0, <1>1
<1>3. last = Len(cs)
  <2> HIDE DEF mine
  <2>1. last \in mine /\ \A j \in mine : j <= last
    BY <1>2
  <2>2. mine \subseteq Nat
    BY <1>1 DEF mine
  <2> HIDE DEF last
  <2>3. last \in Nat /\ last <= Len(cs) /\ Len(cs) <= last
    BY <1>2, <2>1, <2>2
  <2>4. \A a, b \in Nat : a <= b /\ b <= a => a = b
    OBVIOUS
  <2>5. Len(cs) \in Nat
    BY <1>1
  <2> QED BY <2>3, <2>4, <2>5
<1>4. fs = [i \in 1..n |-> cs[IF i < last THEN i ELSE i + 1]]
  BY <1>2 DEF Forgotten
<1> HIDE DEF last, mine, fs
<1>5. /\ fs \in Seq(Captures) /\ Len(fs) = n
      /\ \A i \in 1..n : fs[i] = cs[i]
  <2>1. \A i \in 1..n : i < Len(cs) /\ i \in 1..Len(cs)
    BY <1>1
  <2>2. \A i \in 1..n : cs[i] \in Captures
    BY <2>1, ElementOfSeq
  <2>3. fs \in [1..n -> Captures] /\ \A i \in 1..n : fs[i] = cs[i]
    BY <1>3, <1>4, <2>1, <2>2
  <2>4. n \in Nat
    BY <1>1
  <2> HIDE DEF n
  <2>5. fs \in Seq(Captures) /\ Len(fs) = n
    BY <2>3, <2>4, SeqIntro
  <2> QED BY <2>3, <2>5
<1>6. CASE InCaptures(fs, r)
  <2>1. Len(fs) <= Len(cs) /\ \A j \in 1..Len(fs) : cs[j] = fs[j]
    BY <1>1, <1>5
  <2>2. Back(cs, hs, r) = Back(fs, gs, r)
    BY <1>5, <1>6, <2>1, BackEarlier
  <2> QED BY <1>5, <2>2 DEF fs
<1>7. CASE ~InCaptures(fs, r)
  <2>1. Back(fs, gs, r) = gs[r]
    BY <1>5, <1>7, BackIs
  <2>2. \A j \in 1..n : r \notin DOMAIN cs[j]
    BY <1>5, <1>7 DEF InCaptures
  <2>3. CASE r \in R
    <3>1. Len(cs) \in 1..Len(cs) /\ r \in DOMAIN cs[Len(cs)]
          /\ \A j \in 1..(Len(cs) - 1) : r \notin DOMAIN cs[j]
      BY <1>0, <1>1, <2>2, <2>3
    <3>2. Back(cs, hs, r) = cs[Len(cs)][r]
      BY <3>1, BackFirst
    <3> QED BY <1>0, <2>1, <2>3, <3>2 DEF fs
  <2>4. CASE r \notin R
    <3>1. \A j \in 1..Len(cs) : r \notin DOMAIN cs[j]
      BY <1>0, <1>1, <2>2, <2>4
    <3>2. Back(cs, hs, r) = hs[r]
      BY <3>1, BackNone
    <3> QED BY <1>0, <2>1, <2>4, <3>2 DEF fs
  <2> QED BY <2>3, <2>4
<1> QED BY <1>6, <1>7

\* The same captures, after another change of other records.
LEMMA BackSame ==
  ASSUME NEW cs, NEW hs, NEW gs, NEW r, hs[r] = gs[r]
  PROVE  Back(cs, hs, r) = Back(cs, gs, r)
BY DEF Back

LEMMA CallersAre ==
  ASSUME IInv
  PROVE  /\ Len(scopes) \in Nat /\ Len(begun) = Len(scopes)
         /\ \A i \in 1..Len(scopes) :
              /\ scopes[i] \in Scopes /\ begun[i] \in Begins
              /\ scopes[i].captured \in Seq(Captures)
              /\ begun[i].loose \subseteq Records
              /\ i # Len(scopes) => i + 1 \in 1..Len(scopes)
<1>1. scopes \in Seq(Scopes) /\ begun \in Seq(Begins) /\ Len(begun) = Len(scopes)
  BY DEF IInv, TypeInv
<1>2. Len(scopes) \in Nat
  BY <1>1, LenProperties
<1>3. \A i \in 1..Len(scopes) : scopes[i].captured \in Seq(Captures)
  BY <1>1, ScopeParts
<1>4. \A i \in 1..Len(scopes) : begun[i] \in Begins /\ scopes[i] \in Scopes
  BY <1>1, ElementOfSeq
<1>5. \A i \in 1..Len(scopes) : begun[i].loose \subseteq Records
  BY <1>4 DEF Begins
<1> QED BY <1>1, <1>2, <1>3, <1>4, <1>5

\* A call that changes records the innermost scope remembers, or that are on
\* their own from then on.
LEMMA RemembersCallers ==
  ASSUME IInv, LooseNested, UntrackedEmpty, HeldBack, NEW R \in SUBSET Records,
         scopes' = Remembered(R), begun' = IF Tracking THEN begun ELSE Loosened(R),
         \A r \in Records \ R : held'[r] = held[r]
  PROVE  LooseNested' /\ UntrackedEmpty' /\ HeldBack'
<1> DEFINE n == Len(scopes)
<1>1. /\ n \in Nat /\ Len(begun) = n
      /\ \A i \in 1..n : /\ scopes[i].captured \in Seq(Captures)
                         /\ i # n => i + 1 \in 1..n
  BY CallersAre
<1>2. /\ Len(scopes') = n
      /\ \A i \in 1..n :
           /\ scopes'[i].track = scopes[i].track
           /\ scopes'[i].captured = IF i = n /\ Tracking
                                    THEN Append(scopes[i].captured, Captured(R))
                                    ELSE scopes[i].captured
  BY RememberedIs DEF IInv
<1>3. \A i \in 1..n :
        /\ begun'[i].held = begun[i].held
        /\ begun'[i].loose = IF Tracking THEN begun[i].loose ELSE begun[i].loose \cup R
  <2>1. CASE Tracking
    BY <2>1
  <2>2. CASE ~Tracking
    BY <1>1, <2>2, LoosenedIs DEF IInv
  <2> QED BY <2>1, <2>2
<1>4. LooseNested'
  <2>1. ASSUME NEW i \in 1..n, NEW j \in 1..n, i <= j
        PROVE  begun'[j].loose \subseteq begun'[i].loose
    <3>1. begun[j].loose \subseteq begun[i].loose
      BY <2>1 DEF LooseNested
    <3> QED BY <1>3, <3>1
  <2> QED BY <1>2, <2>1 DEF LooseNested
<1>5. UntrackedEmpty'
  BY <1>2 DEF UntrackedEmpty, Tracking, Innermost
<1>6. ASSUME NEW i \in 1..n, NEW r \in Records, r \notin begun'[i].loose
      PROVE  Back(scopes'[i].captured, InnerHeld(i)', r) = begun'[i].held[r]
  <2>1. /\ r \notin begun[i].loose /\ (~Tracking => r \notin R)
        /\ begun'[i].held = begun[i].held
    BY <1>3, <1>6
  <2>2. Back(scopes[i].captured, InnerHeld(i), r) = begun[i].held[r]
    BY <2>1 DEF HeldBack
  <2> DEFINE cs == scopes[i].captured
  <2>3. cs \in Seq(Captures)
    BY <1>1
  <2>4. CASE i # n
    <3>1. InnerHeld(i) = begun[i + 1].held /\ InnerHeld(i)' = begun'[i + 1].held
      BY <1>2, <2>4 DEF InnerHeld
    <3>2. InnerHeld(i)' = InnerHeld(i)
      BY <1>1, <1>3, <2>4, <3>1
    <3> QED BY <1>2, <2>1, <2>2, <2>4, <3>2
  <2>5. CASE i = n
    <3>1. InnerHeld(i) = held /\ InnerHeld(i)' = held'
      BY <1>2, <2>5 DEF InnerHeld
    <3>2. CASE ~Tracking
      <4>1. held[r] = held'[r] /\ scopes'[i].captured = cs
        BY <1>2, <2>1, <3>2
      <4>2. Back(cs, held, r) = Back(cs, held', r)
        BY <4>1, BackSame
      <4> QED BY <2>1, <2>2, <3>1, <4>1, <4>2
    <3>3. CASE Tracking
      <4> DEFINE c == Captured(R)
                 es == Append(cs, c)
      <4>1. scopes'[i].captured = es
        BY <1>2, <2>5, <3>3
      <4>2. c \in Captures /\ DOMAIN c = R
        BY CapturedIs DEF IInv, TypeInv
      <4>3. r \in R => c[r] = held[r]
        BY DEF Captured
      <4> HIDE DEF c, cs
      <4>4. es \in Seq(Captures) /\ Len(cs) <= Len(es) /\ \A j \in 1..Len(cs) : es[j] = cs[j]
        <5>1. Len(cs) \in Nat
          BY <2>3, LenProperties
        <5> QED BY <2>3, <4>2, <5>1, AppendProperties
      <4> HIDE DEF es
      <4>5. CASE InCaptures(cs, r)
        <5>1. Back(es, held', r) = Back(cs, held, r)
          BY <2>3, <4>4, <4>5, BackEarlier
        <5> QED BY <2>1, <2>2, <3>1, <4>1, <5>1 DEF cs
      <4>6. CASE ~InCaptures(cs, r)
        <5>1. Back(es, held', r) = IF r \in DOMAIN c THEN c[r] ELSE held'[r]
          BY <2>3, <4>2, <4>6, BackAppend DEF es
        <5>2. Back(cs, held, r) = held[r]
          BY <4>6 DEF Back
        <5>3. Back(es, held', r) = held[r]
          BY <4>2, <4>3, <5>1
        <5> QED BY <2>1, <2>2, <3>1, <4>1, <5>2, <5>3 DEF cs
      <4> QED BY <4>5, <4>6
    <3> QED BY <3>2, <3>3
  <2> QED BY <2>4, <2>5
<1>7. HeldBack'
  <2>1. \A i \in 1..Len(scopes') : \A r \in Records \ begun'[i].loose :
          Back(scopes'[i].captured, InnerHeld(i)', r) = begun'[i].held[r]
    BY <1>2, <1>6
  <2> QED BY <2>1 DEF HeldBack
<1> QED BY <1>4, <1>5, <1>7

\* Calls that touch no record and no scope.
LEMMA StillCallers ==
  ASSUME IInv, CallersInv, scopes' = scopes, begun' = begun, held' = held,
         lastWrite' = lastWrite \/ lastWrite' = NoWrite,
         phase # "tables" => phase' # "tables"
  PROVE  CallersInv'
<1>1. LooseNested' /\ UntrackedEmpty'
  BY DEF CallersInv, LooseNested, UntrackedEmpty
<1>2. HeldBack'
  BY DEF CallersInv, HeldBack, InnerHeld
<1>3. WriteKept'
  <2>1. CASE lastWrite' = NoWrite
    BY <2>1, NoWriteDead DEF WriteKept
  <2>2. CASE lastWrite' = lastWrite
    BY <2>2 DEF CallersInv, WriteKept, Innermost
  <2> QED BY <2>1, <2>2
<1> QED BY <1>1, <1>2, <1>3 DEF CallersInv

LEMMA AddLayerCallers ==
  ASSUME IInv, CallersInv, NEW x \in Layers, AddLayer(x) PROVE CallersInv'
<1>1. /\ scopes' = Remembered({x}) /\ begun' = IF Tracking THEN begun ELSE Loosened({x})
      /\ \A r \in Records \ {x} : held'[r] = held[r]
      /\ lastWrite' = lastWrite /\ phase = "tables" /\ {x} \in SUBSET Records
  <2>1. PICK h : held' = [held EXCEPT ![x].handle = h]
    BY DEF AddLayer
  <2>2. \A r \in Records \ {x} : held'[r] = held[r]
    BY <2>1 DEF IInv, TypeInv, Helds
  <2>3. {x} \in SUBSET Records
    BY DEF Records
  <2> QED BY <2>2, <2>3 DEF AddLayer, In
<1>2. LooseNested' /\ UntrackedEmpty' /\ HeldBack'
  BY <1>1, RemembersCallers DEF CallersInv
<1>3. WriteKept'
  BY <1>1 DEF CallersInv, WriteKept
<1> QED BY <1>2, <1>3 DEF CallersInv

LEMMA WriteObjectCallers ==
  ASSUME IInv, CallersInv, NEW o \in Objects, WriteObject(o) PROVE CallersInv'
<1>1. /\ scopes' = Remembered({o}) /\ begun' = IF Tracking THEN begun ELSE Loosened({o})
      /\ \A r \in Records \ {o} : held'[r] = held[r]
      /\ lastWrite' = NoWrite /\ {o} \in SUBSET Records
  <2>1. PICK h : held' = [held EXCEPT ![o].handle = h]
    BY DEF WriteObject
  <2>2. \A r \in Records \ {o} : held'[r] = held[r]
    BY <2>1 DEF IInv, TypeInv, Helds
  <2>3. {o} \in SUBSET Records
    BY DEF Records
  <2> QED BY <2>2, <2>3 DEF WriteObject, Disarmed
<1>2. LooseNested' /\ UntrackedEmpty' /\ HeldBack'
  BY <1>1, RemembersCallers DEF CallersInv
<1>3. WriteKept'
  BY <1>1, NoWriteDead DEF WriteKept
<1> QED BY <1>2, <1>3 DEF CallersInv

LEMMA WriteEntityCallers ==
  ASSUME IInv, CallersInv, NEW e \in Entities, WriteEntity(e) PROVE CallersInv'
<1> DEFINE R == PartsOf(e)
<1>1. /\ scopes' = Remembered(R) /\ begun' = IF Tracking THEN begun ELSE Loosened(R)
      /\ \A r \in Records \ R : held'[r] = held[r]
      /\ lastWrite'.captured = Captured(R)
      /\ phase' = "content" /\ R \in SUBSET Records
  <2>1. scopes' = Remembered(R) /\ begun' = (IF Tracking THEN begun ELSE Loosened(R))
        /\ phase' = "content"
    BY DEF WriteEntity, In
  <2>2. \A r \in Records \ R : held'[r] = held[r]
    BY WriteEntityIs
  <2>3. R \in SUBSET Records
    BY PartsAre
  <2>4. lastWrite'.captured = Captured(R)
    BY DEF WriteEntity
  <2> QED BY <2>1, <2>2, <2>3, <2>4
<1> HIDE DEF R
<1>2. LooseNested' /\ UntrackedEmpty' /\ HeldBack'
  BY <1>1, RemembersCallers DEF CallersInv
<1>3. WriteKept'
  <2> DEFINE n == Len(scopes)
  <2>1. /\ Len(scopes') = n /\ n \in Nat
        /\ \A i \in 1..n :
             /\ scopes'[i].track = scopes[i].track
             /\ scopes'[i].captured = IF i = n /\ Tracking
                                      THEN Append(scopes[i].captured, Captured(R))
                                      ELSE scopes[i].captured
    BY <1>1, RememberedIs, TrackingIs DEF IInv
  <2>2. scopes' # <<>> => n # 0
    BY <1>1, <2>1, RememberedIs, EmptySeq DEF IInv
  <2>3. CASE n # 0 /\ Tracking
    <3> DEFINE cs == scopes[n].captured
    <3>1. n \in 1..n /\ cs \in Seq(Captures)
      BY <2>1, <2>3, CallersAre
    <3>2. Captured(R) \in Captures
      BY <1>1, CapturedIs DEF IInv, TypeInv
    <3>3. scopes'[n].captured = Append(cs, Captured(R))
      BY <2>1, <2>3, <3>1
    <3>4. Len(cs) \in Nat /\ Len(Append(cs, Captured(R))) = Len(cs) + 1
          /\ Append(cs, Captured(R))[Len(cs) + 1] = Captured(R)
      BY <3>1, <3>2, AppendProperties, LenProperties
    <3> HIDE DEF cs
    <3>5. Innermost' = scopes'[n] /\ scopes'[n].track
      BY <2>1, <2>3, <3>1 DEF Innermost, Tracking
    <3> QED BY <1>1, <3>3, <3>4, <3>5 DEF WriteKept
  <2>4. CASE n # 0 /\ ~Tracking
    <3>1. n \in 1..n /\ Innermost = scopes[n] /\ Innermost' = scopes'[n] /\ scopes # <<>>
      BY <2>1, <2>4, TrackingIs DEF Innermost, IInv
    <3>2. ~Innermost'.track
      BY <2>1, <2>4, <3>1 DEF Tracking
    <3>3. DOMAIN lastWrite'.captured = R
      BY <1>1, CapturedIs DEF IInv, TypeInv
    <3>4. \A i \in 1..n : R \subseteq begun'[i].loose
      BY <1>1, <2>4, CallersAre, LoosenedIs DEF IInv
    <3> QED BY <1>1, <2>1, <3>2, <3>3, <3>4 DEF WriteKept
  <2>5. CASE n = 0
    BY <1>1, <2>2, <2>5 DEF WriteKept
  <2> QED BY <2>3, <2>4, <2>5
<1> QED BY <1>2, <1>3 DEF CallersInv

LEMMA OpensCallers ==
  ASSUME IInv, CallersInv, Opens PROVE CallersInv'
<1> DEFINE n == Len(scopes)
<1>1. /\ Len(scopes') = n + 1 /\ n \in Nat
      /\ \A i \in 1..n : scopes'[i] = scopes[i] /\ begun'[i] = begun[i]
      /\ scopes'[n + 1].captured = <<>>
      /\ begun'[n + 1].held = held /\ begun'[n + 1].loose = {}
      /\ held' = held /\ lastWrite' = NoWrite
  BY OpensIs
<1>2. LooseNested'
  <2>1. ASSUME NEW i \in 1..(n + 1), NEW j \in 1..(n + 1), i <= j
        PROVE  begun'[j].loose \subseteq begun'[i].loose
    <3>1. CASE j = n + 1
      BY <1>1, <3>1
    <3>2. CASE j # n + 1
      <4>1. i \in 1..n /\ j \in 1..n
        BY <1>1, <2>1, <3>2
      <4> QED BY <1>1, <2>1, <4>1 DEF CallersInv, LooseNested
    <3> QED BY <3>1, <3>2
  <2> QED BY <1>1, <2>1 DEF LooseNested
<1>3. UntrackedEmpty'
  <2>1. ASSUME NEW i \in 1..(n + 1), ~scopes'[i].track PROVE scopes'[i].captured = <<>>
    <3>1. CASE i = n + 1
      BY <1>1, <3>1
    <3>2. CASE i # n + 1
      <4>1. i \in 1..n
        BY <1>1, <3>2
      <4> QED BY <1>1, <2>1, <4>1 DEF CallersInv, UntrackedEmpty
    <3> QED BY <3>1, <3>2
  <2> QED BY <1>1, <2>1 DEF UntrackedEmpty
<1>4. ASSUME NEW i \in 1..(n + 1), NEW r \in Records, r \notin begun'[i].loose
      PROVE  Back(scopes'[i].captured, InnerHeld(i)', r) = begun'[i].held[r]
  <2>1. CASE i = n + 1
    <3>1. InnerHeld(i)' = held
      BY <1>1, <2>1 DEF InnerHeld
    <3>2. \A j \in 1..Len(scopes'[i].captured) : r \notin DOMAIN scopes'[i].captured[j]
      BY <1>1, <2>1
    <3>3. Back(scopes'[i].captured, held, r) = held[r]
      BY <3>2, BackNone
    <3> QED BY <1>1, <2>1, <3>1, <3>3
  <2>2. CASE i # n + 1
    <3>1. i \in 1..n
      BY <1>1, <2>2
    <3>2. InnerHeld(i)' = InnerHeld(i)
      <4>1. InnerHeld(i)' = begun'[i + 1].held
        BY <1>1, <2>2 DEF InnerHeld
      <4>2. CASE i = n
        BY <1>1, <4>1, <4>2 DEF InnerHeld
      <4>3. CASE i # n
        <5>1. i + 1 \in 1..n
          BY <1>1, <3>1, <4>3
        <5> QED BY <1>1, <4>1, <4>3, <5>1 DEF InnerHeld
      <4> QED BY <4>2, <4>3
    <3>3. scopes'[i] = scopes[i] /\ begun'[i] = begun[i]
      BY <1>1, <3>1
    <3> QED BY <1>4, <3>1, <3>2, <3>3 DEF CallersInv, HeldBack
  <2> QED BY <2>1, <2>2
<1>5. HeldBack'
  <2>1. \A i \in 1..Len(scopes') : \A r \in Records \ begun'[i].loose :
          Back(scopes'[i].captured, InnerHeld(i)', r) = begun'[i].held[r]
    BY <1>1, <1>4
  <2> QED BY <2>1 DEF HeldBack
<1>6. WriteKept'
  BY <1>1, NoWriteDead DEF WriteKept
<1> QED BY <1>2, <1>3, <1>5, <1>6 DEF CallersInv

\* rollbackLastDwgObjectWrite() gives back what the latest capture holds, and
\* the scope forgets that capture.
LEMMA UndoCallers ==
  ASSUME IInv, CallersInv, NEW restore \in BOOLEAN, UndoLast(restore) PROVE CallersInv'
<1> DEFINE n == Len(scopes)
           c == lastWrite.captured
           R == DOMAIN c
<1>1. /\ held' = IF restore THEN Restored(<<c>>) ELSE held
      /\ scopes' = IF ~Tracking THEN scopes
                   ELSE Recaptured(scopes, Forgotten(scopes[n].captured, R))
      /\ begun' = IF restore THEN begun ELSE Loosened(R)
      /\ lastWrite' = NoWrite /\ lastWrite.live
  BY DEF UndoLast, Recaptured
<1>2. /\ n \in Nat /\ Len(begun) = n
      /\ \A i \in 1..n : /\ scopes[i].captured \in Seq(Captures)
                         /\ begun[i].loose \subseteq Records
                         /\ i # n => i + 1 \in 1..n
  BY CallersAre
<1>3. c \in Captures /\ R \in SUBSET Records /\ held \in Helds
  BY CapturesParts DEF IInv, TypeInv, Writes
<1>4. ASSUME NEW r \in Records, restore PROVE held'[r] = IF r \in R THEN c[r] ELSE held[r]
  <2> DEFINE cs == <<c>>
  <2>1. cs \in Seq(Captures) /\ Len(cs) = 1 /\ cs[1] = c /\ DOMAIN cs = 1..1
    BY <1>3
  <2>2. held'[r] = IF \E i \in DOMAIN cs : r \in DOMAIN cs[i]
                   THEN cs[FirstCapture(cs, r)][r] ELSE held[r]
    BY <1>1, <1>4 DEF Restored
  <2> HIDE DEF cs, c
  <2>3. CASE r \in R
    <3>1. \E i \in DOMAIN cs : r \in DOMAIN cs[i]
      BY <2>1, <2>3
    <3>2. FirstCapture(cs, r) \in 1..Len(cs)
      BY <2>1, <3>1, FirstCaptureIs
    <3>3. FirstCapture(cs, r) = 1
      BY <2>1, <3>2
    <3> QED BY <2>1, <2>2, <2>3, <3>1, <3>3
  <2>4. CASE r \notin R
    <3>1. ~\E i \in DOMAIN cs : r \in DOMAIN cs[i]
      BY <2>1, <2>4
    <3> QED BY <2>2, <2>4, <3>1
  <2> QED BY <2>3, <2>4
<1>5. \A i \in 1..n :
        /\ begun'[i].held = begun[i].held
        /\ begun'[i].loose = IF restore THEN begun[i].loose ELSE begun[i].loose \cup R
  <2>1. CASE restore
    BY <1>1, <2>1
  <2>2. CASE ~restore
    BY <1>1, <1>2, <1>3, <2>2, LoosenedIs DEF IInv
  <2> QED BY <2>1, <2>2
<1>6. /\ Len(scopes') = n
      /\ \A i \in 1..n :
           /\ scopes'[i].track = scopes[i].track
           /\ scopes'[i].captured = IF i = n /\ Tracking
                                    THEN Forgotten(scopes[n].captured, R)
                                    ELSE scopes[i].captured
  <2>1. CASE ~Tracking
    BY <1>1, <2>1
  <2>2. CASE Tracking
    <3>1. scopes \in Seq(Scopes) /\ Len(scopes) # 0 /\ n \in 1..n
      BY <2>2, TrackingIs DEF Tracking, IInv, TypeInv
    <3>2. Forgotten(scopes[n].captured, R) \in Seq(Captures)
      BY <1>2, <3>1, ForgottenIs
    <3> QED BY <1>1, <2>2, <3>1, <3>2, RecapturedIs
  <2> QED BY <2>1, <2>2
<1> HIDE DEF c, R
<1>7. ASSUME NEW i \in 1..n
      PROVE  /\ scopes # <<>> /\ n \in 1..n /\ Innermost = scopes[n]
             /\ Tracking => /\ Len(scopes[n].captured) # 0
                            /\ scopes[n].captured[Len(scopes[n].captured)] = c
             /\ ~Tracking => R \subseteq begun[i].loose
  <2>1. scopes # <<>> /\ n \in 1..n /\ Innermost = scopes[n]
    BY <1>2, TrackingIs DEF IInv
  <2> QED BY <1>1, <2>1 DEF CallersInv, WriteKept, Tracking, c, R
<1>8. LooseNested'
  <2>1. ASSUME NEW i \in 1..n, NEW j \in 1..n, i <= j
        PROVE  begun'[j].loose \subseteq begun'[i].loose
    <3>1. begun[j].loose \subseteq begun[i].loose
      BY <2>1 DEF CallersInv, LooseNested
    <3> QED BY <1>5, <3>1
  <2> QED BY <1>6, <2>1 DEF LooseNested
<1>9. UntrackedEmpty'
  <2>1. ASSUME NEW i \in 1..n, ~scopes'[i].track PROVE scopes'[i].captured = <<>>
    <3>1. scopes[i].captured = <<>> /\ ~(i = n /\ Tracking)
      BY <1>6, <1>7, <2>1 DEF CallersInv, UntrackedEmpty, Tracking
    <3> QED BY <1>6, <3>1
  <2> QED BY <1>6, <2>1 DEF UntrackedEmpty
<1>10. ASSUME NEW i \in 1..n, NEW r \in Records, r \notin begun'[i].loose
       PROVE  Back(scopes'[i].captured, InnerHeld(i)', r) = begun'[i].held[r]
  <2>1. /\ r \notin begun[i].loose /\ (~restore => r \notin R)
        /\ begun'[i].held = begun[i].held
    BY <1>5, <1>10
  <2>2. Back(scopes[i].captured, InnerHeld(i), r) = begun[i].held[r]
    BY <2>1 DEF CallersInv, HeldBack
  <2>3. CASE i # n
    <3>1. InnerHeld(i) = begun[i + 1].held /\ InnerHeld(i)' = begun'[i + 1].held
      BY <1>6, <2>3 DEF InnerHeld
    <3>2. InnerHeld(i)' = InnerHeld(i)
      BY <1>2, <1>5, <2>3, <3>1
    <3> QED BY <1>6, <2>1, <2>2, <2>3, <3>2
  <2>4. CASE i = n
    <3>1. InnerHeld(i) = held /\ InnerHeld(i)' = held'
      BY <1>6, <2>4 DEF InnerHeld
    <3>2. IF r \in R THEN held'[r] = c[r] ELSE held'[r] = held[r]
      BY <1>1, <1>4, <2>1
    <3> DEFINE cs == scopes[n].captured
    <3>3. CASE Tracking
      <4>1. cs \in Seq(Captures) /\ Len(cs) # 0 /\ cs[Len(cs)] = c
        BY <1>2, <1>7, <3>3
      <4> HIDE DEF cs
      <4>2. Latest(cs, c)
        BY <4>1 DEF Latest
      <4>3. GivenBack(c, held, held', r)
        BY <3>2 DEF R, GivenBack
      <4>4. Back(Forgotten(cs, DOMAIN c), held', r) = Back(cs, held, r)
        BY <4>1, <4>2, <4>3, BackFront
      <4>5. scopes'[i].captured = Forgotten(cs, DOMAIN c)
        BY <1>6, <2>4, <3>3 DEF cs, R
      <4> QED BY <2>1, <2>2, <2>4, <3>1, <4>4, <4>5 DEF cs
    <3>4. CASE ~Tracking
      <4>1. held[r] = held'[r]
        BY <1>7, <2>1, <3>2, <3>4
      <4>2. Back(cs, held, r) = Back(cs, held', r)
        BY <4>1, BackSame
      <4>3. scopes'[i].captured = cs
        BY <1>6, <2>4, <3>4
      <4> QED BY <2>1, <2>2, <2>4, <3>1, <4>2, <4>3
    <3> QED BY <3>3, <3>4
  <2> QED BY <2>3, <2>4
<1>11. HeldBack'
  <2>1. \A i \in 1..Len(scopes') : \A r \in Records \ begun'[i].loose :
          Back(scopes'[i].captured, InnerHeld(i)', r) = begun'[i].held[r]
    BY <1>6, <1>10
  <2> QED BY <2>1 DEF HeldBack
<1>12. WriteKept'
  BY <1>1, NoWriteDead DEF WriteKept
<1> QED BY <1>8, <1>9, <1>11, <1>12 DEF CallersInv

\* What is left to show when the innermost scope ends.
LEMMA ClosesCallers ==
  ASSUME IInv, CallersInv, scopes # <<>>, Alike(Len(scopes) - 1), lastWrite' = NoWrite,
         \A i \in 1..(Len(scopes) - 1) :
           /\ begun[i].loose \subseteq begun'[i].loose
           /\ i # Len(scopes) - 1 => scopes'[i].captured = scopes[i].captured
           /\ ~scopes[i].track => scopes'[i].captured = scopes[i].captured,
         LooseNested',
         Len(scopes) - 1 # 0 =>
           \A r \in Records \ begun'[Len(scopes) - 1].loose :
             Back(scopes'[Len(scopes) - 1].captured, held', r)
               = Back(scopes[Len(scopes) - 1].captured, begun[Len(scopes)].held, r)
  PROVE  CallersInv'
<1> DEFINE n == Len(scopes)
           m == Len(scopes) - 1
<1>1. /\ n \in Nat /\ n # 0 /\ m \in Nat /\ \A i \in 1..m : i \in 1..n /\ i # n
      /\ \A i \in 1..m : i # m => i + 1 \in 1..m /\ i + 1 # n
      /\ m + 1 = n
  BY CallersAre, TrackingIs DEF IInv
<1>2. /\ Len(scopes') = m
      /\ \A i \in 1..m : scopes'[i].track = scopes[i].track /\ begun'[i].held = begun[i].held
  BY DEF Alike
<1> HIDE DEF m
<1>3. UntrackedEmpty'
  <2>1. ASSUME NEW i \in 1..m, ~scopes'[i].track PROVE scopes'[i].captured = <<>>
    <3>1. ~scopes[i].track /\ i \in 1..n
      BY <1>1, <1>2, <2>1
    <3>2. scopes[i].captured = <<>>
      BY <3>1 DEF CallersInv, UntrackedEmpty
    <3> QED BY <3>1, <3>2 DEF m
  <2> QED BY <1>2, <2>1 DEF UntrackedEmpty
<1>4. ASSUME NEW i \in 1..m, NEW r \in Records, r \notin begun'[i].loose
      PROVE  Back(scopes'[i].captured, InnerHeld(i)', r) = begun'[i].held[r]
  <2>1. r \notin begun[i].loose /\ begun'[i].held = begun[i].held /\ i \in 1..n
    BY <1>1, <1>2, <1>4 DEF m
  <2>2. Back(scopes[i].captured, InnerHeld(i), r) = begun[i].held[r]
    BY <2>1 DEF CallersInv, HeldBack
  <2>3. InnerHeld(i) = begun[i + 1].held
    BY <1>1 DEF InnerHeld
  <2>4. CASE i # m
    <3>1. InnerHeld(i)' = begun'[i + 1].held
      BY <1>2, <2>4 DEF InnerHeld
    <3>2. InnerHeld(i)' = InnerHeld(i)
      BY <1>1, <1>2, <2>3, <2>4, <3>1
    <3>3. scopes'[i].captured = scopes[i].captured
      BY <2>4 DEF m
    <3> QED BY <2>1, <2>2, <3>2, <3>3
  <2>5. CASE i = m
    <3>1. InnerHeld(i)' = held'
      BY <1>2, <2>5 DEF InnerHeld
    <3>2. InnerHeld(i) = begun[n].held
      BY <1>1, <2>3, <2>5
    <3>3. Back(scopes'[m].captured, held', r) = Back(scopes[m].captured, begun[n].held, r)
      <4>1. m # 0 /\ r \in Records \ begun'[m].loose
        BY <1>1, <1>4, <2>5
      <4> QED BY <4>1 DEF m
    <3> QED BY <2>1, <2>2, <2>5, <3>1, <3>2, <3>3
  <2> QED BY <2>4, <2>5
<1>5. HeldBack'
  <2>1. \A i \in 1..Len(scopes') : \A r \in Records \ begun'[i].loose :
          Back(scopes'[i].captured, InnerHeld(i)', r) = begun'[i].held[r]
    BY <1>2, <1>4
  <2> QED BY <2>1 DEF HeldBack
<1>6. WriteKept'
  BY NoWriteDead DEF WriteKept
<1> QED BY <1>3, <1>5, <1>6 DEF CallersInv

\* A commit hands the captures to the scope around, or leaves the records on
\* their own.
LEMMA CommitCallers ==
  ASSUME IInv, CallersInv, CommitScope PROVE CallersInv'
<1> DEFINE n == Len(scopes)
           m == Len(scopes) - 1
           inner == scopes[n].captured
           kept == m # 0 /\ scopes[m].track
           lost == UNION {DOMAIN inner[i] : i \in DOMAIN inner}
<1>1. scopes # <<>> /\ Alike(m) /\ held' = held /\ lastWrite' = NoWrite
  BY ClosesAlike DEF CommitScope
<1>2. /\ n \in Nat /\ n # 0 /\ n \in 1..n /\ m \in Nat /\ \A i \in 1..m : i \in 1..n /\ i <= n
      /\ (m # 0 => m \in 1..m) /\ m + 1 = n /\ m # n /\ m <= n
      /\ \A i \in 1..n : scopes[i].captured \in Seq(Captures)
  BY <1>1, CallersAre, TrackingIs DEF IInv
<1>3. /\ Outer \in Seq(Scopes) /\ Len(Outer) = m /\ DOMAIN Outer = 1..m
      /\ \A i \in 1..m : Outer[i] = scopes[i]
      /\ Innermost = scopes[n] /\ (Outer # <<>> <=> m # 0)
  <2>1. /\ Outer \in Seq(Scopes) /\ Len(Outer) = m /\ DOMAIN Outer = 1..m
        /\ \A i \in 1..m : Outer[i] = scopes[i]
    BY <1>1, OuterIs DEF IInv
  <2> QED BY <1>1, <2>1, TrackingIs, EmptySeq DEF IInv
<1>4. (Outer # <<>> /\ Outer[Len(Outer)].track) <=> kept
  BY <1>2, <1>3
<1>5. /\ scopes' = IF kept THEN Recaptured(Outer, Outer[m].captured \o inner) ELSE Outer
      /\ begun' = [i \in DOMAIN Outer |->
                     IF kept THEN begun[i]
                     ELSE [begun[i] EXCEPT !.loose = @ \cup lost]]
  BY <1>3, <1>4 DEF CommitScope, Recaptured
<1> HIDE DEF kept, lost
<1>6. \A i \in 1..m :
        begun'[i].loose = IF kept THEN begun[i].loose ELSE begun[i].loose \cup lost
  <2>1. ASSUME NEW i \in 1..m, ~kept PROVE begun'[i].loose = begun[i].loose \cup lost
    <3>1. begun[i] \in Begins
      BY <1>2, CallersAre
    <3>2. begun'[i] = [begun[i] EXCEPT !.loose = @ \cup lost]
      BY <1>3, <1>5, <2>1
    <3> QED BY <3>1, <3>2 DEF Begins
  <2>2. ASSUME NEW i \in 1..m, kept PROVE begun'[i].loose = begun[i].loose
    BY <1>3, <1>5, <2>2
  <2> QED BY <2>1, <2>2
<1>7. \A i \in 1..m :
        scopes'[i].captured = IF i = m /\ kept THEN scopes[m].captured \o inner
                              ELSE scopes[i].captured
  <2>1. CASE ~kept
    BY <1>3, <1>5, <2>1
  <2>2. CASE kept
    <3>1. m # 0 /\ Outer[m] = scopes[m]
      BY <1>2, <1>3, <2>2 DEF kept
    <3>2. scopes[m].captured \in Seq(Captures) /\ inner \in Seq(Captures)
      BY <1>2, <3>1
    <3>3. Outer[m].captured \o inner \in Seq(Captures)
      BY <3>1, <3>2, ConcatProperties
    <3> DEFINE cs == Outer[m].captured \o inner
    <3> HIDE DEF cs
    <3>4. \A i \in 1..Len(Outer) :
            Recaptured(Outer, cs)[i].captured = IF i = Len(Outer) THEN cs ELSE Outer[i].captured
      BY <1>3, <3>1, <3>3, RecapturedIs DEF cs
    <3> QED BY <1>3, <1>5, <2>2, <3>1, <3>4 DEF cs
  <2> QED BY <2>1, <2>2
<1>8. LooseNested'
  <2>1. ASSUME NEW i \in 1..m, NEW j \in 1..m, i <= j
        PROVE  begun'[j].loose \subseteq begun'[i].loose
    <3>1. begun[j].loose \subseteq begun[i].loose
      BY <1>2, <2>1 DEF CallersInv, LooseNested
    <3> QED BY <1>6, <3>1
  <2> QED BY <1>1, <2>1 DEF LooseNested, Alike
<1>9. ASSUME m # 0, NEW r \in Records, r \notin begun'[m].loose
      PROVE  Back(scopes'[m].captured, held', r) = Back(scopes[m].captured, begun[n].held, r)
  <2> DEFINE cs == scopes[m].captured
  <2>1. cs \in Seq(Captures) /\ inner \in Seq(Captures) /\ m \in 1..n
    BY <1>2, <1>9
  <2>2. r \notin begun[m].loose /\ r \notin begun[n].loose /\ (~kept => r \notin lost)
    <3>1. r \notin begun[m].loose /\ (~kept => r \notin lost)
      BY <1>2, <1>6, <1>9
    <3>2. m <= n /\ m \in 1..n /\ n \in 1..n
      BY <1>2, <2>1
    <3>3. begun[n].loose \subseteq begun[m].loose
      BY <3>2 DEF CallersInv, LooseNested
    <3> QED BY <3>1, <3>3
  <2>3. Back(inner, held, r) = begun[n].held[r]
    BY <1>2, <2>2 DEF CallersInv, HeldBack, InnerHeld
  <2>4. CASE kept
    <3>1. scopes'[m].captured = cs \o inner
      BY <1>2, <1>7, <1>9, <2>4
    <3> HIDE DEF cs, inner
    <3>2. CASE InCaptures(cs, r)
      <4>1. Back(cs \o inner, held, r) = Back(cs, begun[n].held, r)
        BY <2>1, <3>2, BackConcat
      <4> QED BY <1>1, <3>1, <4>1 DEF cs
    <3>3. CASE ~InCaptures(cs, r)
      <4>1. Back(cs \o inner, held, r) = Back(inner, held, r)
        BY <2>1, <3>3, BackConcat
      <4>2. Back(cs, begun[n].held, r) = begun[n].held[r]
        BY <3>3 DEF Back
      <4> QED BY <1>1, <2>3, <3>1, <4>1, <4>2 DEF cs
    <3> QED BY <3>2, <3>3
  <2>5. CASE ~kept
    <3>1. scopes'[m].captured = cs
      BY <1>2, <1>7, <1>9, <2>5
    <3>2. \A j \in 1..Len(inner) : r \notin DOMAIN inner[j]
      <4>1. DOMAIN inner = 1..Len(inner)
        BY <2>1, LenProperties
      <4> QED BY <2>2, <2>5, <4>1 DEF lost
    <3>3. Back(inner, held, r) = held[r]
      BY <3>2, BackNone
    <3>4. held[r] = begun[n].held[r]
      BY <2>3, <3>3
    <3>5. Back(cs, held, r) = Back(cs, begun[n].held, r)
      BY <3>4, BackSame
    <3> QED BY <1>1, <3>1, <3>5
  <2> QED BY <2>4, <2>5
<1>10. ASSUME NEW i \in 1..m
       PROVE  /\ begun[i].loose \subseteq begun'[i].loose
              /\ i # m => scopes'[i].captured = scopes[i].captured
              /\ ~scopes[i].track => scopes'[i].captured = scopes[i].captured
  BY <1>6, <1>7 DEF kept
<1>11. m # 0 => \A r \in Records \ begun'[m].loose :
         Back(scopes'[m].captured, held', r) = Back(scopes[m].captured, begun[n].held, r)
  BY <1>9
<1> QED BY <1>1, <1>8, <1>10, <1>11, ClosesCallers

\* A rollback gives back what the scope found, to every record that is not on
\* its own.
LEMMA RollbackGivesCallers ==
  ASSUME IInv, CallersInv, RollbackScope,
         NEW r \in Records, r \notin begun[Len(scopes)].loose
  PROVE  held'[r] = begun[Len(scopes)].held[r]
<1> DEFINE n == Len(scopes)
           inner == scopes[n].captured
<1>1. /\ scopes # <<>> /\ n \in Nat /\ n \in 1..n /\ Innermost = scopes[n]
      /\ inner \in Seq(Captures) /\ DOMAIN inner = 1..Len(inner)
  <2>1. scopes # <<>>
    BY DEF RollbackScope
  <2>2. n \in 1..n /\ Innermost = scopes[n] /\ n \in Nat
    BY <2>1, TrackingIs DEF IInv
  <2> QED BY <2>1, <2>2, CallersAre, LenProperties
<1>2. Back(inner, held, r) = begun[n].held[r]
  BY <1>1 DEF CallersInv, HeldBack, InnerHeld
<1>3. CASE Innermost.track
  <2>1. held' = Restored(inner)
    BY <1>1, <1>3 DEF RollbackScope
  <2>2. held'[r] = IF \E i \in DOMAIN inner : r \in DOMAIN inner[i]
                   THEN inner[FirstCapture(inner, r)][r] ELSE held[r]
    BY <2>1 DEF Restored
  <2> QED BY <1>1, <1>2, <2>2 DEF Back, InCaptures
<1>4. CASE ~Innermost.track
  <2>1. held' = held /\ inner = <<>>
    BY <1>1, <1>4 DEF RollbackScope, CallersInv, UntrackedEmpty
  <2>2. \A j \in 1..Len(inner) : r \notin DOMAIN inner[j]
    BY <2>1
  <2>3. Back(inner, held, r) = held[r]
    BY <2>2, BackNone
  <2> QED BY <1>2, <2>1, <2>3
<1> QED BY <1>3, <1>4

LEMMA RollbackCallers ==
  ASSUME IInv, CallersInv, RollbackScope PROVE CallersInv'
<1> DEFINE n == Len(scopes)
           m == Len(scopes) - 1
<1>1. scopes # <<>> /\ Alike(m) /\ lastWrite' = NoWrite
  BY ClosesAlike DEF RollbackScope
<1>2. /\ n \in Nat /\ n # 0 /\ n \in 1..n /\ m \in Nat /\ \A i \in 1..m : i \in 1..n /\ i <= n
      /\ (m # 0 => m \in 1..m) /\ Len(begun) = n
  BY <1>1, CallersAre, TrackingIs DEF IInv
<1>3. \A i \in 1..m : scopes'[i] = scopes[i]
  BY <1>1, OuterIs DEF RollbackScope, IInv
<1>4. \A i \in 1..m :
        begun'[i].loose = IF Innermost.track THEN begun[i].loose
                          ELSE begun[i].loose \cup begun[n].loose
  <2>1. ASSUME NEW i \in 1..m, ~Innermost.track
        PROVE  begun'[i].loose = begun[i].loose \cup begun[n].loose
    <3>1. begun[i] \in Begins
      BY <1>2, CallersAre
    <3>2. begun'[i] = [begun[i] EXCEPT !.loose = @ \cup begun[n].loose]
      BY <1>1, <1>2, <2>1, OuterIs DEF RollbackScope, IInv
    <3> QED BY <3>1, <3>2 DEF Begins
  <2>2. ASSUME NEW i \in 1..m, Innermost.track PROVE begun'[i].loose = begun[i].loose
    BY <1>1, <2>2, OuterIs DEF RollbackScope, IInv
  <2> QED BY <2>1, <2>2
<1>5. LooseNested'
  <2>1. ASSUME NEW i \in 1..m, NEW j \in 1..m, i <= j
        PROVE  begun'[j].loose \subseteq begun'[i].loose
    <3>1. begun[j].loose \subseteq begun[i].loose
      BY <1>2, <2>1 DEF CallersInv, LooseNested
    <3> QED BY <1>4, <3>1
  <2> QED BY <1>1, <2>1 DEF LooseNested, Alike
<1>6. ASSUME m # 0, NEW r \in Records, r \notin begun'[m].loose
      PROVE  Back(scopes'[m].captured, held', r) = Back(scopes[m].captured, begun[n].held, r)
  <2>1. r \notin begun[n].loose
    <3>1. begun[n].loose \subseteq begun[m].loose
      BY <1>2, <1>6 DEF CallersInv, LooseNested
    <3> QED BY <1>2, <1>4, <1>6, <3>1
  <2>2. held'[r] = begun[n].held[r]
    BY <2>1, RollbackGivesCallers
  <2>3. scopes'[m].captured = scopes[m].captured
    BY <1>2, <1>3, <1>6
  <2> QED BY <2>2, <2>3, BackSame
<1>7. ASSUME NEW i \in 1..m
      PROVE  /\ begun[i].loose \subseteq begun'[i].loose
             /\ scopes'[i].captured = scopes[i].captured
  BY <1>3, <1>4
<1>8. m # 0 => \A r \in Records \ begun'[m].loose :
         Back(scopes'[m].captured, held', r) = Back(scopes[m].captured, begun[n].held, r)
  BY <1>6
<1> QED BY <1>1, <1>5, <1>7, <1>8, ClosesCallers

LEMMA StepCallers == ASSUME IInv, CallersInv, [Next]_vars PROVE CallersInv'
<1>1. CASE \/ StartContent \/ EndBlockContent \/ MarkFailure \/ Finish \/ UNCHANGED vars
           \/ \E b \in Blocks : DefineBlock(b) \/ \E framed \in BOOLEAN : DefineBlockFails(b, framed)
           \/ \E i \in DOMAIN ledger.blocks : BeginBlockContent(i)
           \/ \E e \in Entities : \E n \in 0..(Len(Parts[e]) - 1), eed \in BOOLEAN :
                RejectEntity(e, n, eed)
           \/ \E o \in Objects : RejectObject(o)
           \/ \E h \in Raws : WriteRawDwgObject(h)
  <2>1. /\ scopes' = scopes /\ begun' = begun /\ held' = held
        /\ lastWrite' = lastWrite \/ lastWrite' = NoWrite
        /\ phase # "tables" => phase' # "tables"
    BY <1>1 DEF StartContent, EndBlockContent, MarkFailure, Finish, vars, DefineBlock,
                DefineBlockFails, BeginBlockContent, RejectEntity, RejectObject,
                WriteRawDwgObject
  <2> QED BY <2>1, StillCallers
<1> QED BY <1>1, AddLayerCallers, WriteEntityCallers, WriteObjectCallers, UndoCallers,
           OpensCallers, CommitCallers, RollbackCallers DEF Next, Opens

LEMMA InitCallers == ASSUME Init PROVE CallersInv
<1>1. scopes = <<>> /\ lastWrite = NoWrite /\ 1..Len(scopes) = {}
  BY DEF Init
<1> QED BY <1>1, NoWriteDead DEF CallersInv, LooseNested, UntrackedEmpty, HeldBack, WriteKept

\* Rolling back a scope that tracks gives every caller's record back as it was
\* when the scope was opened, whatever the filter did within, but for the
\* records of calls and scopes that opted out.
THEOREM RollbackRestoresCallers == Spec => TrackedCallersRestored
<1>1. IInv /\ CallersInv /\ [Next]_vars =>
        [RollbackScope /\ Innermost.track =>
           \A r \in Records \ begun[Len(begun)].loose :
             held'[r] = begun[Len(begun)].held[r]]_vars
  BY RollbackGivesCallers, CallersAre
<1>2. IInv /\ CallersInv /\ [Next]_vars => (IInv /\ CallersInv)'
  BY StepIInv, StepCallers
<1>3. Init => IInv /\ CallersInv
  BY InitIInv, InitCallers
<1> QED BY <1>1, <1>2, <1>3, PTL DEF Spec, TrackedCallersRestored

=============================================================================
