---------------------------- MODULE MCDesktop ----------------------------
(* A small instance of Desktop for TLC. *)
EXTENDS Desktop

Plain(a, b, c) == [number |-> <<a, b, c>>, suffix |-> ""]
Beta(a, b, c) == [number |-> <<a, b, c>>, suffix |-> "beta"]

\* Later by the last part, later by the second, earlier with greater parts.
Releases == {Plain(1, 2, 3), Beta(1, 2, 3), Plain(1, 2, 4), Plain(1, 10, 0), Plain(0, 9, 9)}
Runs == Plain(1, 2, 3)
=============================================================================
