------------------------------- MODULE Tables -------------------------------
(* Ways to have TLC compute a value once, however often it is used. *)

\* A function as a table of its values.
Tabled(f) == CHOOSE g \in {f} : g = g

\* F(value).
With(value, F(_)) == CHOOSE r \in {F(v) : v \in {Tabled(value)}} : TRUE
=============================================================================
