---------------------------- MODULE HandleSource ----------------------------
(* What the writers rely on when they ask HandleAllocator for a handle       *)
(* (src/handle_allocator.h): any handle nobody holds, never one kept for a   *)
(* preserved object or given out since the last reset; what is kept stays.   *)
EXTENDS Integers

CONSTANTS Handles,     \* every handle
          Mintable     \* those a caller may be given

VARIABLES kept,    \* handles of preserved objects and fixed structures
          given    \* handles given out during this write

vars == <<kept, given>>

Init == kept = {} /\ given = {}

Keep == /\ \E H \in SUBSET Handles : kept' = kept \cup H
        /\ UNCHANGED given

Give == /\ \E h \in Mintable : h \notin kept \cup given /\ given' = given \cup {h}
        /\ UNCHANGED kept

\* A new write starts: what the last one gave out may be given out again.
Forget == given' = {} /\ UNCHANGED kept

Next == Keep \/ Give \/ Forget

Spec == Init /\ [][Next]_vars
=============================================================================
