----------------------------- MODULE MCBreakpoints -----------------------------
(* An instance of Breakpoints: one address in each of two libraries, a function *)
(* of the first, and a line of a header that was compiled into both.            *)
EXTENDS Breakpoints, TLC
CONSTANTS lib1, lib2, v1, v2, LibFunction, HeaderLine, LibAddress

Libraries == {lib1, lib2}
Sites == (LibFunction :> {lib1}) @@ (HeaderLine :> {lib1, lib2}) @@ (LibAddress :> {lib1})
Versions == Permutations({v1, v2})
=============================================================================
