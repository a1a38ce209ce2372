-------------------------- MODULE HandleAllocator --------------------------
(* HandleAllocator (src/handle_allocator.h): the handles of the objects a    *)
(* DWG or DXF write emits.  The value of an allocator is a record, so that   *)
(* the writers' modules can make several calls in one step.                  *)
EXTENDS Integers

CONSTANTS FirstHandle,    \* first candidate for a minted handle (0x30)
          MaxHandle,      \* the largest std::uint32_t, never handed out
          FixedHandles    \* handles the codec writes as literals

ASSUME HandleAssumption == /\ FirstHandle \in Nat \ {0} /\ MaxHandle \in Nat
                           /\ FirstHandle < MaxHandle
                           /\ FixedHandles \subseteq 1..(FirstHandle - 1)

Handles == 0..MaxHandle

VARIABLES alloc,    \* the allocator
          got       \* what the last next() returned; 0 for another call or a throw

allocVars == <<alloc, got>>

NewAllocator == [explicitReserved |-> {}, allocated |-> {}, next |-> FirstHandle]

IsReserved(a, h) == h \in a.explicitReserved \cup a.allocated

\* reserve() throws only for the largest handle.
CanReserve(a, h) == ~(h >= a.next /\ h = MaxHandle)

\* Mutant: reserve() keeps the handle but does not move m_next past it.
ReservedInPlace(a, h) ==
  [explicitReserved |-> a.explicitReserved \cup {h}, allocated |-> a.allocated,
   next |-> a.next]
\* reserve() of a handle it accepts.
Reserved(a, h) ==
  [explicitReserved |-> a.explicitReserved \cup {h},
   allocated |-> a.allocated,
   next |-> IF h >= a.next THEN h + 1 ELSE a.next]

\* seedReserved() and seedReservedDxf(): reserve() of every fixed handle, all of
\* them below FirstHandle and so below m_next.
Seeded(a) == [explicitReserved |-> a.explicitReserved \cup FixedHandles,
              allocated |-> a.allocated, next |-> a.next]

\* next() looks for the first handle from m_next on that nobody holds.
Unused(a) == {h \in a.next..(MaxHandle - 1) : ~IsReserved(a, h)}
CanMint(a) == Unused(a) # {}
MintedHandle(a) == CHOOSE h \in Unused(a) : \A u \in Unused(a) : h <= u

\* Mutant: the handle is returned and m_next left where it was.
MintedForgotten(a) == a
Minted(a) == [explicitReserved |-> a.explicitReserved,
              allocated |-> a.allocated \cup {MintedHandle(a)},
              next |-> MintedHandle(a) + 1]
\* next() that throws has moved m_next to the end of the range.
Exhausted(a) == [explicitReserved |-> a.explicitReserved,
                 allocated |-> a.allocated, next |-> MaxHandle]

Highest(H) == CHOOSE h \in H : \A o \in H : o <= h

\* Mutant: the reservations of preserved objects go with the minted handles.
ResetAll(a) == NewAllocator
\* resetGenerated(): back to FirstHandle, or past the explicit reservations.
ResetGenerated(a) ==
  [explicitReserved |-> a.explicitReserved,
   allocated |-> {},
   next |-> IF \A h \in a.explicitReserved : h < FirstHandle THEN FirstHandle
            ELSE IF Highest(a.explicitReserved) = MaxHandle THEN MaxHandle
            ELSE Highest(a.explicitReserved) + 1]

---------------------------------------------------------------------------
(* The allocator by itself, under calls in any order.                        *)

Init == alloc = NewAllocator /\ got = 0

SeedReserved == alloc' = Seeded(alloc) /\ got' = 0

Reserve(h) == /\ alloc' = IF CanReserve(alloc, h) THEN Reserved(alloc, h) ELSE alloc
              /\ got' = 0

Mint == IF CanMint(alloc)
        THEN alloc' = Minted(alloc) /\ got' = MintedHandle(alloc)
        ELSE alloc' = Exhausted(alloc) /\ got' = 0

Reset == alloc' = ResetGenerated(alloc) /\ got' = 0

Next == SeedReserved \/ (\E h \in Handles : Reserve(h)) \/ Mint \/ Reset

Spec == Init /\ [][Next]_allocVars

---------------------------------------------------------------------------
(* Properties.                                                               *)

\* The reserved and minted handles and m_next are 32-bit handles.
TypeOK == /\ alloc \in [explicitReserved : SUBSET Handles,
                        allocated : SUBSET Handles, next : Handles]
          /\ got \in Handles

\* Every handle the file can hold is below current(), which the writers put in
\* $HANDSEED: a reader that allocates from there on collides with nothing.
HandlesBelowNext ==
  \A h \in alloc.explicitReserved \cup alloc.allocated : h < alloc.next

\* While only the codec's own literals are reserved and nothing was minted, the
\* next handle is FirstHandle: a write with no preserved object is the same
\* file however often the codec was used ("keeping a fresh write byte-
\* identical", dxfRW::write).
FreshWriteStartsAtFirst ==
  (alloc.explicitReserved \subseteq FixedHandles /\ alloc.allocated = {})
    => alloc.next = FirstHandle

\* The allocator hands out only unused handles, forgets them only at a reset,
\* and never forgets an explicit reservation.
Promise == INSTANCE HandleSource WITH
             Handles <- Handles, Mintable <- FirstHandle..(MaxHandle - 1),
             kept <- alloc.explicitReserved, given <- alloc.allocated
ImplementsHandleSource == Promise!Spec
\* A handle next() returns was held by nobody, and is marked before the next
\* call can be made.
MintsAnUnusedHandle ==
  [][got' # 0 => /\ ~IsReserved(alloc, got')
                 /\ got' \in alloc'.allocated]_allocVars
=============================================================================
