----------------------- MODULE HandleAllocatorProofs -----------------------
(* Proofs about HandleAllocator, for every size of the handle space and      *)
(* every set of fixed handles.                                               *)
EXTENDS HandleAllocator, FiniteSetTheorems, TLAPS

---------------------------------------------------------------------------
(* A non-empty set of natural numbers has a least element, and a bounded one *)
(* a greatest: intervals under strict inclusion are well founded.            *)

\* next()'s loop ends at a definite handle.
LEMMA LeastExists ==
  ASSUME NEW S, S \subseteq Nat, S # {}
  PROVE  \E x \in S : \A y \in S : x <= y
<1> DEFINE R == StrictSubsetOrdering(Nat)
           Down == {0..k : k \in S}
<1>1. IsWellFoundedOn(R, FiniteSubsetsOf(Nat))
  BY FS_StrictSubsetOrderingWellFounded
<1>2. Down \subseteq FiniteSubsetsOf(Nat) /\ Down # {}
  <2>1. ASSUME NEW k \in S PROVE IsFiniteSet(0..k) /\ 0..k \subseteq Nat
    BY FS_Interval
  <2> QED BY <2>1 DEF FiniteSubsetsOf
<1>3. PICK x \in Down : \A y \in Down : ~ (<<y, x>> \in R)
  <2> HIDE DEF R, Down
  <2> QED BY <1>1, <1>2, WFMin
<1>4. PICK k \in S : x = 0..k
  OBVIOUS
<1>5. ASSUME NEW j \in S, j < k PROVE FALSE
  <2>1. /\ 0..j \in SUBSET Nat /\ 0..k \in SUBSET Nat
        /\ 0..j \subseteq 0..k /\ k \in 0..k /\ k \notin 0..j
    BY <1>5
  <2>2. <<0..j, 0..k>> \in R
    BY <2>1 DEF StrictSubsetOrdering
  <2> QED BY <2>2, <1>3, <1>4
<1> QED BY <1>5

\* resetGenerated() finds the highest of the explicit reservations.
LEMMA GreatestExists ==
  ASSUME NEW m \in Nat, NEW S, S \subseteq 0..m, S # {}
  PROVE  \E x \in S : \A y \in S : y <= x
<1> DEFINE T == {m - k : k \in S}
<1>1. T \subseteq Nat /\ T # {}
  OBVIOUS
<1>2. PICK t \in T : \A u \in T : t <= u
  <2> HIDE DEF T
  <2> QED BY <1>1, LeastExists
<1>3. PICK x \in S : t = m - x
  OBVIOUS
<1>4. ASSUME NEW y \in S PROVE y <= x
  <2>1. m - y \in T /\ y \in 0..m /\ x \in 0..m
    OBVIOUS
  <2> HIDE DEF T
  <2> QED BY <2>1, <1>2, <1>3
<1> QED BY <1>4

---------------------------------------------------------------------------
(* Induction over an interval of numbers, and what is defined by it: what    *)
(* the writers do to one part after the other.                               *)

\* Induction over an interval, for a set of numbers.
LEMMA IntervalInduction ==
  ASSUME NEW L \in Nat, NEW T, 0 \in T, \A n \in 1..L : n - 1 \in T => n \in T
  PROVE  0..L \subseteq T
<1> DEFINE S == {n \in 0..L : n \notin T}
<1>1. SUFFICES ASSUME S # {} PROVE FALSE
  OBVIOUS
<1>2. PICK x \in S : \A y \in S : x <= y
  <2>1. S \subseteq Nat
    OBVIOUS
  <2> HIDE DEF S
  <2> QED BY <1>1, <2>1, LeastExists
<1>3. x \in 1..L /\ x - 1 \in 0..L /\ x \notin T
  OBVIOUS
<1>4. x - 1 \in T
  BY <1>2, <1>3
<1> QED BY <1>3, <1>4

\* What f is when it starts with base and goes on by G up to k, within S.
Iterates(f, k, S, base, G) ==
  /\ f = [n \in 0..k |-> IF n = 0 THEN base ELSE G[n][f[n - 1]]]
  /\ \A n \in 0..k : f[n] \in S[n]

LEMMA IterationExtends ==
  ASSUME NEW k \in Nat \ {0}, NEW S, NEW base, NEW G, NEW f, Iterates(f, k - 1, S, base, G),
         \A v \in S[k - 1] : G[k][v] \in S[k]
  PROVE  \E g : Iterates(g, k, S, base, G)
<1> DEFINE g == [n \in 0..k |-> IF n = k THEN G[k][f[k - 1]] ELSE f[n]]
<1>1. \A n \in 0..(k - 1) : g[n] = f[n]
  OBVIOUS
<1>2. k - 1 \in 0..(k - 1) /\ k \in 0..k /\ g[k] = G[k][f[k - 1]]
  OBVIOUS
<1>3. DOMAIN g = 0..k /\ g = [n \in DOMAIN g |-> g[n]]
  OBVIOUS
<1> HIDE DEF g
<1>4. g[k] = G[k][g[k - 1]] /\ g[k] \in S[k]
  BY <1>1, <1>2 DEF Iterates
<1>5. ASSUME NEW n \in 0..(k - 1)
      PROVE  g[n] = (IF n = 0 THEN base ELSE G[n][g[n - 1]]) /\ g[n] \in S[n]
  <2>1. f[n] = (IF n = 0 THEN base ELSE G[n][f[n - 1]]) /\ f[n] \in S[n]
    BY DEF Iterates
  <2>2. n # 0 => n - 1 \in 0..(k - 1)
    OBVIOUS
  <2> QED BY <1>1, <2>1, <2>2
<1>6. \A n \in 0..k : /\ g[n] = (IF n = 0 THEN base ELSE G[n][g[n - 1]])
                      /\ g[n] \in S[n]
  <2>1. \A n \in 0..k : n = k \/ n \in 0..(k - 1)
    OBVIOUS
  <2> QED BY <1>4, <1>5, <2>1
<1>7. g = [n \in 0..k |-> IF n = 0 THEN base ELSE G[n][g[n - 1]]]
  BY <1>3, <1>6
<1> QED BY <1>6, <1>7 DEF Iterates

\* A function defined by recursion on an interval exists.
LEMMA IterationExists ==
  ASSUME NEW L \in Nat, NEW S, NEW base, NEW G,
         base \in S[0], \A n \in 1..L : \A v \in S[n - 1] : G[n][v] \in S[n]
  PROVE  \E f : Iterates(f, L, S, base, G)
<1> DEFINE T == {k \in 0..L : \E f : Iterates(f, k, S, base, G)}
<1>1. 0 \in T
  <2>1. [n \in 0..0 |-> base] = [n \in 0..0 |-> IF n = 0 THEN base ELSE G[n][[m \in 0..0 |-> base][n - 1]]]
    OBVIOUS
  <2>2. Iterates([n \in 0..0 |-> base], 0, S, base, G)
    BY <2>1 DEF Iterates
  <2> QED BY <2>2
<1>2. ASSUME NEW k \in 1..L, k - 1 \in T PROVE k \in T
  <2>1. PICK f : Iterates(f, k - 1, S, base, G)
    BY <1>2
  <2>2. \E g : Iterates(g, k, S, base, G)
    BY <2>1, IterationExtends
  <2> QED BY <2>2
<1>3. L \in T
  <2> HIDE DEF T
  <2> QED BY <1>1, <1>2, IntervalInduction
<1> QED BY <1>3

---------------------------------------------------------------------------
(* What one call does to an allocator in order.                              *)

Allocator == [explicitReserved : SUBSET Handles, allocated : SUBSET Handles,
              next : Handles]

\* The inductive invariant: every handle in use is below m_next, m_next never
\* falls below the first candidate, and codec literals do not move it.
Sound(a) == /\ a \in Allocator
            /\ \A h \in a.explicitReserved \cup a.allocated : h < a.next
            /\ a.next >= FirstHandle
            /\ (a.explicitReserved \subseteq FixedHandles /\ a.allocated = {})
                  => a.next = FirstHandle

LEMMA HandlesNat == Handles \subseteq Nat /\ FixedHandles \subseteq Handles
BY HandleAssumption DEF Handles

\* next() returns the handle m_next designates: since every handle in use is
\* below it, the skipping loop of next() never runs.
LEMMA MintTakesNext ==
  ASSUME NEW a, Sound(a), CanMint(a)
  PROVE  MintedHandle(a) = a.next /\ a.next \in FirstHandle..(MaxHandle - 1)
<1>1. Unused(a) \subseteq Nat /\ Unused(a) # {}
  BY HandleAssumption DEF Unused, CanMint, Sound, Allocator, Handles
<1>2. \E x \in Unused(a) : \A y \in Unused(a) : x <= y
  BY <1>1, LeastExists
<1>3. /\ MintedHandle(a) \in Unused(a)
      /\ \A y \in Unused(a) : MintedHandle(a) <= y
  BY <1>2 DEF MintedHandle
<1>4. a.next \in Unused(a) /\ a.next \in Nat
  <2>1. ~IsReserved(a, a.next) /\ a.next \in Nat
    BY HandleAssumption DEF Sound, IsReserved, Allocator, Handles
  <2>2. a.next \in a.next..(MaxHandle - 1)
    BY <1>3, <2>1, HandleAssumption DEF Unused
  <2> QED BY <2>1, <2>2 DEF Unused
<1>5. MintedHandle(a) = a.next
  BY <1>1, <1>3, <1>4, HandleAssumption DEF Unused
<1> QED BY <1>3, <1>5, HandleAssumption DEF Unused, Sound, Allocator, Handles

LEMMA NewAllocatorSound == Sound(NewAllocator)
BY HandleAssumption DEF Sound, NewAllocator, Allocator, Handles

LEMMA SeedSound == ASSUME NEW a, Sound(a) PROVE Sound(Seeded(a))
<1> USE HandleAssumption, HandlesNat
<1>1. Seeded(a) \in Allocator
  BY DEF Sound, Seeded, Allocator
<1>2. \A h \in FixedHandles : h < a.next
  BY DEF Sound, Allocator, Handles
<1>3. \A h \in Seeded(a).explicitReserved \cup Seeded(a).allocated :
         h < Seeded(a).next
  BY <1>2 DEF Sound, Seeded
<1>4. a.explicitReserved \subseteq Seeded(a).explicitReserved
  BY DEF Seeded
<1> QED BY <1>1, <1>3, <1>4 DEF Sound, Seeded

LEMMA ReserveSound ==
  ASSUME NEW a, Sound(a), NEW h \in Handles, CanReserve(a, h)
  PROVE  Sound(Reserved(a, h))
<1> USE HandleAssumption DEF Handles
<1>1. Reserved(a, h) \in Allocator
  BY DEF Sound, Reserved, Allocator, CanReserve
<1>2. \A k \in Reserved(a, h).explicitReserved \cup Reserved(a, h).allocated :
         k < Reserved(a, h).next
  BY DEF Sound, Reserved, Allocator
<1>3. Reserved(a, h).next >= FirstHandle
  BY DEF Sound, Reserved, Allocator
<1>4. ASSUME Reserved(a, h).explicitReserved \subseteq FixedHandles,
             Reserved(a, h).allocated = {}
      PROVE  Reserved(a, h).next = FirstHandle
  BY <1>4 DEF Sound, Reserved, Allocator
<1> QED BY <1>1, <1>2, <1>3, <1>4 DEF Sound

LEMMA MintSound == ASSUME NEW a, Sound(a), CanMint(a) PROVE Sound(Minted(a))
<1> USE HandleAssumption DEF Handles
<1>1. MintedHandle(a) = a.next /\ a.next \in FirstHandle..(MaxHandle - 1)
  BY MintTakesNext
<1> QED BY <1>1 DEF Sound, Minted, Allocator

LEMMA ExhaustSound == ASSUME NEW a, Sound(a), ~CanMint(a) PROVE Sound(Exhausted(a))
<1> USE HandleAssumption DEF Handles
<1>1. a.next = MaxHandle
  <2>1. a.next \notin Unused(a)
    BY DEF CanMint
  <2>2. ~IsReserved(a, a.next) /\ a.next \in 0..MaxHandle
    BY DEF Sound, IsReserved, Allocator
  <2> QED BY <2>1, <2>2 DEF Unused
<1>2. Exhausted(a) = a
  BY <1>1 DEF Exhausted, Sound, Allocator
<1> QED BY <1>2

LEMMA ResetSound == ASSUME NEW a, Sound(a) PROVE Sound(ResetGenerated(a))
<1> USE HandleAssumption DEF Handles
<1> DEFINE E == a.explicitReserved
           r == ResetGenerated(a)
<1>1. E \in SUBSET Handles /\ MaxHandle \notin E
  BY DEF Sound, Allocator
<1>2. CASE \A h \in E : h < FirstHandle
  BY <1>1, <1>2 DEF Sound, ResetGenerated, Allocator
<1>3. CASE ~ \A h \in E : h < FirstHandle
  <2>1. Highest(E) \in E /\ \A o \in E : o <= Highest(E)
    BY <1>1, <1>3, GreatestExists DEF Highest
  <2>2. PICK h \in E : ~(h < FirstHandle)
    BY <1>3
  <2>3. Highest(E) \in FirstHandle..(MaxHandle - 1)
    BY <1>1, <2>1, <2>2
  <2>4. r = [explicitReserved |-> E, allocated |-> {}, next |-> Highest(E) + 1]
    <3>1. Highest(a.explicitReserved) # MaxHandle
      BY <2>3
    <3> QED BY <2>2, <3>1 DEF ResetGenerated
  <2>5. ~(E \subseteq FixedHandles)
    BY <2>2, <1>1
  <2> QED BY <1>1, <2>1, <2>3, <2>4, <2>5 DEF Sound, Allocator
<1> QED BY <1>2, <1>3

---------------------------------------------------------------------------

IInv == Sound(alloc) /\ got \in Handles

LEMMA InitIInv == Init => IInv
BY NewAllocatorSound, HandleAssumption DEF Init, IInv, Handles

LEMMA StepIInv == IInv /\ [Next]_allocVars => IInv'
<1> SUFFICES ASSUME IInv, [Next]_allocVars PROVE IInv'
  OBVIOUS
<1> USE DEF IInv
<1>0. 0 \in Handles
  BY HandleAssumption DEF Handles
<1>1. CASE SeedReserved
  BY <1>0, <1>1, SeedSound DEF SeedReserved
<1>2. ASSUME NEW h \in Handles, Reserve(h) PROVE IInv'
  BY <1>0, <1>2, ReserveSound DEF Reserve
<1>3. CASE Mint
  <2>1. CASE CanMint(alloc)
    <3>1. MintedHandle(alloc) \in Handles
      BY <2>1, MintTakesNext, HandleAssumption DEF Handles
    <3> QED BY <1>3, <2>1, <3>1, MintSound DEF Mint
  <2>2. CASE ~CanMint(alloc)
    BY <1>0, <1>3, <2>2, ExhaustSound DEF Mint
  <2> QED BY <2>1, <2>2
<1>4. CASE Reset
  BY <1>0, <1>4, ResetSound DEF Reset
<1>5. CASE UNCHANGED allocVars
  BY <1>5 DEF allocVars
<1> QED BY <1>1, <1>2, <1>3, <1>4, <1>5 DEF Next

\* For every handle space, the allocator's state is well formed, every handle
\* in use is below the seed the file records, and a fresh write starts at
\* FirstHandle.
THEOREM AllocatorCorrect ==
  Spec => [](TypeOK /\ HandlesBelowNext /\ FreshWriteStartsAtFirst)
<1>1. IInv => TypeOK /\ HandlesBelowNext /\ FreshWriteStartsAtFirst
  BY DEF IInv, Sound, Allocator, TypeOK, HandlesBelowNext, FreshWriteStartsAtFirst
<1> QED BY <1>1, InitIInv, StepIInv, PTL DEF Spec

\* next() never returns a handle in use, whatever was reserved before.
THEOREM NeverMintsTwice == Spec => MintsAnUnusedHandle
<1> DEFINE A == got' # 0 => /\ ~IsReserved(alloc, got')
                            /\ got' \in alloc'.allocated
<1>1. ASSUME IInv, Next PROVE A
  <2>1. ASSUME got' # 0 PROVE Mint /\ CanMint(alloc)
    BY <1>1, <2>1 DEF Next, SeedReserved, Reserve, Mint, Reset
  <2>2. ASSUME Mint, CanMint(alloc) PROVE A
    <3>1. MintedHandle(alloc) = alloc.next
      BY <1>1, <2>2, MintTakesNext DEF IInv
    <3>2. ~IsReserved(alloc, alloc.next)
      BY <1>1, HandleAssumption DEF IInv, Sound, Allocator, Handles, IsReserved
    <3> QED BY <2>2, <3>1, <3>2 DEF Mint, Minted
  <2> QED BY <2>1, <2>2
<1>2. IInv /\ [Next]_allocVars => [A]_allocVars
  BY <1>1
<1> QED BY <1>2, InitIInv, StepIInv, PTL DEF Spec, MintsAnUnusedHandle

---------------------------------------------------------------------------
(* The allocator implements HandleSource.                                    *)

LEMMA InitPromise == Init => Promise!Init
BY DEF Init, NewAllocator, Promise!Init

LEMMA StepPromise == IInv /\ [Next]_allocVars => [Promise!Next]_(Promise!vars)
<1> SUFFICES ASSUME IInv, [Next]_allocVars PROVE [Promise!Next]_(Promise!vars)
  OBVIOUS
<1> USE DEF Promise!Next, Promise!vars
<1>1. CASE SeedReserved
  <2>1. FixedHandles \in SUBSET Handles
    BY HandlesNat
  <2> QED BY <1>1, <2>1 DEF SeedReserved, Seeded, Promise!Keep
<1>2. ASSUME NEW h \in Handles, Reserve(h) PROVE [Promise!Next]_(Promise!vars)
  <2>1. CASE CanReserve(alloc, h)
    <3>1. {h} \in SUBSET Handles
      OBVIOUS
    <3> QED BY <1>2, <2>1, <3>1 DEF Reserve, Reserved, Promise!Keep
  <2>2. CASE ~CanReserve(alloc, h)
    BY <1>2, <2>2 DEF Reserve
  <2> QED BY <2>1, <2>2
<1>3. CASE Mint
  <2>1. CASE CanMint(alloc)
    <3>1. /\ MintedHandle(alloc) = alloc.next
          /\ alloc.next \in FirstHandle..(MaxHandle - 1)
      BY <2>1, MintTakesNext DEF IInv
    <3>2. alloc.next \notin alloc.explicitReserved \cup alloc.allocated
      BY HandleAssumption DEF IInv, Sound, Allocator, Handles
    <3> QED BY <1>3, <2>1, <3>1, <3>2 DEF Mint, Minted, Promise!Give
  <2>2. CASE ~CanMint(alloc)
    BY <1>3, <2>2 DEF Mint, Exhausted
  <2> QED BY <2>1, <2>2
<1>4. CASE Reset
  BY <1>4 DEF Reset, ResetGenerated, Promise!Forget
<1>5. CASE UNCHANGED allocVars
  BY <1>5 DEF allocVars
<1> QED BY <1>1, <1>2, <1>3, <1>4, <1>5 DEF Next

\* Whatever the order of seeding, reserving, minting and resetting, a caller
\* sees a source of unused handles that keeps what was reserved.
THEOREM AllocatorImplementsSource == Spec => ImplementsHandleSource
BY InitPromise, StepPromise, InitIInv, StepIInv, PTL
   DEF Spec, Promise!Spec, ImplementsHandleSource

\* A write that follows resetGenerated() with no explicit reservation beside the
\* fixed handles mints from FirstHandle again, so that the same drawing is
\* written with the same handles.
THEOREM FreshWriteMintsFromFirst == Spec => []FreshWriteStartsAtFirst
BY AllocatorCorrect, PTL
=============================================================================
