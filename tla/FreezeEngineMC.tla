--------------------------- MODULE FreezeEngineMC ---------------------------
(***************************************************************************)
(* Small phones for TLC: the values the configurations give to the          *)
(* constants of FreezeEngine.                                               *)
(***************************************************************************)
EXTENDS FreezeEngine, TLC

CONSTANTS a, b,       \* packages
          qa, ra, qb  \* processes

\* One process per package, one package only, one package of two
\* processes, and that package next to another.
OneEach == (qa :> a) @@ (qb :> b)
JustA   == qa :> a
BothOfA == (qa :> a) @@ (ra :> a)
TwoOfA  == (qa :> a) @@ (ra :> a) @@ (qb :> b)

=============================================================================
