------------------------ MODULE MCOutputTransaction ------------------------
(* Instances of OutputTransaction for TLC.                                   *)
EXTENDS OutputTransaction, TLC

CONSTANTS w1, w2, n1, n2

TwoWriters == {w1, w2}
TwoNames == {n1, n2}

\* Transactions are alike and so are names: sound where only safety is checked
\* and every transaction can draw every name.
Alike == Permutations(Writers) \cup Permutations(Names)

\* Random names may collide: every transaction can draw every name.
SharedDraws == [w \in Writers |-> Names]
\* 62^6 suffixes: two transactions that work in different directories do not
\* draw the same name.
SeparateDraws == [w \in Writers |-> IF w = w1 THEN {n1} ELSE {n2}]

\* Exchanging the transactions together with the names they can draw.
AlikeWithTheirNames ==
  {(w1 :> p[1] @@ w2 :> p[2] @@ n1 :> p[3] @@ n2 :> p[4]) :
     p \in {<<w1, w2, n1, n2>>, <<w2, w1, n2, n1>>}}

\* Owner-write, group and others; the umask removes the last.
ThreePerms == {"uw", "gr", "ot"}
OneBit == {"uw"}
NoBits == {}
OthersMasked == {"ot"}
=============================================================================
